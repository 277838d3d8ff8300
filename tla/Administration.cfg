SPECIFICATION Spec
CONSTANTS
    Hubs = {"h1", "h2"}
    Codes = {"A", "B"}
    StationIds = {"iA", "jA"}
    StationOf <- MCStationOf
    a1 = a1
    a2 = a2
    Admins = {a1, a2}
    Nil = Nil
    Blank = Blank
    WorstCalls <- MCWorstCalls
    ResolveBatch = 2
    CallBudget = 4
    CheckBatch = 2
    MaxClicks = 2
    Patchers = {"p1", "p2"}
    Readers = {"r1"}
    Payloads <- MCPayloads
    Limits = {1, 2}
    Secrets = {"s0", "s1"}
    Mask = "m"
    RefreshAfter = 1
    Bases = {"x", "y"}
    MaxSuffix = 2
    FeedUrls = {"u1", "u2", "u3"}
    Bodies <- MCBodies
    Catalogues <- MCCatalogues
    SourceMap <- MCSourceMap
    Stationed0 = {"FR"}
    NewStationed = {"SI"}
    ModuleUsed = FALSE
    MaxMarks = 3
    CredentialPatchers = {"p1"}
    Fetchers = {"f1", "f2"}
    Lives = {2}
    Margin = 1
    MaxClock = 2
    MaxNonce = 2
    MaxKeys = 2
    NoneYet = NoneYet
    Emails = {"a", "b"}
    Threads = {"t1", "t2"}
    LinkLife = 1
    TicketLife = 1
    Administrator = "a"
    MaxLinks = 1
    MaxHours = 1
    MaxTickets = 1
    NoAccount = NoAccount
SYMMETRY Symmetry
INVARIANTS
    CatalogueIsTrue
    SecretsAreKept
PROPERTIES
    EditsAreBounded
CHECK_DEADLOCK FALSE
