SPECIFICATION Spec
CONSTANTS
    Executors = {e1, e2}
    e1 = e1
    e2 = e2
    Pairs = {p1, p2}
    p1 = p1
    p2 = p2
    NoHolder = NoHolder
    MaxResumes = 1
    PairParallelism = 1
    SingleWorker = FALSE
    OperatorSql = TRUE
    MaxReleases = 1
SYMMETRY Symmetry
INVARIANTS
    RunRowIsTrue
PROPERTIES
    ClaimsAreRespected
CHECK_DEADLOCK FALSE
