SPECIFICATION FairFSpec
CONSTANTS
  q1 = q1
  q2 = q2
  q3 = q3
  p1 = p1
  NoRun = NoRun
  NoScope = NoScope
  Requests = {q1, q2, q3}
  Providers = {p1}
  Derived = {}
  ScopeOf <- SingleTwice
  Tasks = 2
  ModuleOn = TRUE
  Stalls = FALSE
  Cancels = TRUE
  WriteFails = FALSE
  MaxCrashes = 1
INVARIANTS
    RefreshesExclude
    QueuedIsServed
PROPERTIES
    PassIsReported
CHECK_DEADLOCK FALSE
