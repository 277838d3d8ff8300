SPECIFICATION Spec
CONSTANTS
    Versions = {1, 2}
    Length <- MCLength
    RetryDelays = 1
    ResumeDelays = 2
    BusyDelays = 1
    MaxStalledResumes = 2
    NoVersion = NoVersion
    f1 = f1
    u1 = u1
    Feeds = {f1}
    Urls = {u1}
    MaxVersion = 2
    Sources = {"url", "upload", "cross_border_filter"}
    Overlap = FALSE
    MaxSaves = 2
    MaxUploads = 1
    MaxRefreshes = 2
    MaxCrashes = 1
    Nothing = Nothing
    MaxBuilds = 2
    Keep = 1
    MaxInputs = 2
    MaxScans = 2
    MaxDeletions = 1
    MaxDeaths = 1
    NoBuild = NoBuild
    Generations = 3
    MaxOsmRefreshes = 6
    MaxOsmFaults = 2
    InputFeeds <- MCFeeds
    Homes = {"FR", "CH"}
    Nil = Nil
    Assignments <- MCAssigns
    Frames <- MCFrames
    Week = 2
    Epoch = 0
    NoDay = NoDay
    Zips <- MCZips
    Absent = Absent
    CatalogueLists <- MCLists
    WantedId = 1
    Today = 3
    MaxDaysBack = 3
    MaxPublished = 2
    FirstWeekdays = {0, 1, 2, 3, 4, 5, 6}
    NoFile = NoFile
INVARIANTS
    ArrivedIsWhole
    RewrittenIsSound
    StoredIsServed
PROPERTIES
    FilesAreKept
    DownloadEnds
CHECK_DEADLOCK FALSE
