SPECIFICATION Spec
CONSTANTS
    s1 = s1
    s2 = s2
    Stops = {s1, s2}
    Cached = {s2}
    Nobody = Nobody
    MaxFiles = 2
    MaxPlacements = 1
    Tries = 2
    CallRetries = 1
    MaxBuildPasses = 1
    MaxExtractFaults = 1
    MaxLostOutcomes = 1
    MaxRestarts = 1
    PollUnits = 2
    WaitUnits = 8
    BuildIds = {1, 2}
    NoId = NoId
    MaxLookFaults = 1
    ModuleCalls = {"c1", "c2"}
    PauseUnits = 1
    TtlUnits = 1
    Editions = {1, 2}
    Never = Never
    MaxTime = 3
    MaxModuleCalls = 3
    PlacingSearches = {"w1", "w2"}
    Groups <- MCGroups
    FeedKeyOf <- MCFeedKeys
    CodeSeries = "s"
    ModuleWorlds <- MCWorlds
    MaxKeysPerCall = 2
    Nil = Nil
    StopRequests = {"q1", "q2"}
    NumberLists <- MCNumbers
    StopSeries = {"a", "b", "bad"}
    RefusedSeries = {"bad"}
    StopTtl = 1
    StopCap = 2
    MaxStopTime = 1
    MaxResolves = 3
INVARIANTS
    ExtractsAreTrue
    ModuleIsHeard
    StopsArePlaced
PROPERTIES
    WaitIsOver
CHECK_DEADLOCK FALSE
