SPECIFICATION FairRefreshes
CONSTANTS
  q1 = q1
  q2 = q2
  q3 = q3
  p1 = p1
  NoRun = NoRun
  NoScope = NoScope
  Requests = {q1, q2}
  Providers = {p1}
  Derived = {}
  ScopeOf <- WholeTwice
  Tasks = 1
  ModuleOn = TRUE
  Stalls = TRUE
  Cancels = TRUE
  WriteFails = TRUE
  MaxCrashes = 1
INVARIANTS
    RecordIsTrue
    PassesAgree
PROPERTIES
    ProgressNeverGoesBack
    RefreshEnds
CHECK_DEADLOCK FALSE
