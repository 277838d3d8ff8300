SPECIFICATION Spec
CONSTANTS
    Requests = {"r1", "r2"}
    Engines = {"e1", "e2"}
    Limits = {1, 2}
    Absent = Absent
    Found <- MCFound
    TripSignature <- MCTripSignature
    TripSeconds <- MCTripSeconds
    MaxChanges = 1
    Failures = {"timeout"}
    PairSessions = {"s1", "s2"}
    SlotNames = {1, 2}
    Trips = {"a", "u", "b", "x"}
    KeyOf <- MCKeyOf
    SignatureOf <- MCSignatureOf
    DurationOf <- MCDurationOf
    InWindow = {"a", "u", "b"}
    AnswerSets <- MCAnswerSets
    WithinPair = 1
    MaxRetries = 1
    WriteRetries = 1
    Sweepers = {"e1", "e2"}
    Cells = {"c1", "c2"}
    NoSweeper = NoSweeper
    FlushEvery = 2
    VerifyParallelism = 2
    SearchIds = {1, 2, 3, 4}
    NoRow = NoRow
    RawDays = 1
    TripDays = 2
    SearchDays = 3
    ReplayCap = 2
    EveryDay = FALSE
    FedSessions = {1, 2}
    Stations = {1, 2, 3, 4, 9}
    Place <- MCPlace
    Country <- MCCountry
    Staged <- MCStaged
    Trains <- MCTrains
    Origin = 1
    Dest = 9
    When = 0
    Mct = 1
    MaxHubs = 2
    MaxLeg1Options = 2
    MaxResults = 2
    TransferPenalty = 2
    Known <- MCKnown
    LeftIds = {1, 2, 3, 4}
    RightIds = {1, 2}
    Outcomes <- MCOutcomes
    GapValues = {0, 1}
    Boardings = {0, 2}
    NoTime = NoTime
    Tolerance = 1
    JourneyRides <- MCJourneyRides
    RideProfiles <- MCProfiles
    None = None
    Day = 8
    Days = {1, 2}
    Change = 10
    OffsetOf <- MCOffsets
    Bounds = {0, 3, 6}
    Defaults <- MCDefaults
    SlotCounts = {0, 3}
    Null = Null
    Timetables <- MCTimetables
    ViatorResults <- MCViator
    PageSize = 2
    MaxPages = 3
    TargetWindow = 5
    PageTimeout = 2
    TotalTimeout = 4
    MinPageBudget = 1
    Nothing = Nothing
    ResolveAnswers <- MCResolveAnswers
    SearchAnswers <- MCSearchAnswers
    Lids = {"lA"}
    Unknown = Unknown
    ExtIds <- MCExtIds
    LidFields <- MCFieldLists
    UicWidth = 2
    PayloadMax = 6
    NoToken = NoToken
INVARIANTS
    ComparisonIsFair
    WindowIsSearched
    OebbIsUnderstood
    SearchesAreTrue
    LedgersAgree
PROPERTIES
    NothingIsUndone
    SearchesEnd
CHECK_DEADLOCK FALSE
