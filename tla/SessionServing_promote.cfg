SPECIFICATION ServingSpec
CONSTANTS
    s1 = s1
    s2 = s2
    r1 = r1
    r2 = r2
    SSessions = {s1, s2}
    Motis <- MCMotis
    WebThreads = {r1}
    PatchStates <- MCNoPatch
    MaxOps = 3
    MaxFaults = 0
    NoThread = NoThread
    NoSession = NoSession
PROPERTIES ServingComesUp
CHECK_DEADLOCK FALSE
