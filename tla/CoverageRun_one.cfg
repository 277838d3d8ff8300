SPECIFICATION FairSpec
CONSTANTS
    Executors = {e1, e2}
    e1 = e1
    e2 = e2
    Pairs = {p1, p2, p3}
    p1 = p1
    p2 = p2
    p3 = p3
    NoHolder = NoHolder
    MaxResumes = 2
    PairParallelism = 2
    SingleWorker = TRUE
    OperatorSql = FALSE
    MaxReleases = 1
INVARIANTS
    CountersExact
PROPERTIES
    HeldRunCancelledByHolder
    LifecycleSpec
    RunEnds
CHECK_DEADLOCK FALSE
