SPECIFICATION ServingSpec
CONSTANTS
    s1 = s1
    s2 = s2
    r1 = r1
    r2 = r2
    SSessions = {s1, s2}
    Motis <- MCMotis
    WebThreads = {r1, r2}
    PatchStates <- MCPatch
    MaxOps = 3
    MaxFaults = 1
    NoThread = NoThread
    NoSession = NoSession
INVARIANTS
    ServingFollowsRows
PROPERTIES
    DeletedStaysDeleted
    TriggerIsConsumed
CHECK_DEADLOCK FALSE
