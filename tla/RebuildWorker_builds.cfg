SPECIFICATION FairSpec
CONSTANTS
    s1 = s1
    r1 = r1
    r2 = r2
    NoJob = NoJob
    Sessions = {s1}
    Requests = {r1, r2}
    SessionOf <- SessionsOfTwo
    Files = {r1}
    Checked = {r2}
    AlwaysMax = {}
    Motis = {s1}
    KeepGraphs = 1
    MaxCrashes = 2
    MaxRefreshes = 1
    Faults = FALSE
INVARIANTS
    BuildsAreSafe
    PlacedIsNotForgotten
    CancelWins
    CurrentIsWhole
PROPERTIES
    PendingIsTaken
CHECK_DEADLOCK FALSE
