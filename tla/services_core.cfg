SPECIFICATION MCSpec
CONSTANTS
    Words = {"r", "x", "y"}
    Scalars <- SomeScalars
    ConfigTasks = {t1, t2}
    MaxConfigCalls = 3
    Obj = Obj
    Null = Null
    Missing = Missing
    Garbled = Garbled
    InitialDisk <- TwoFiles
    Texts <- OtherTexts
    SourceArgs <- OneSource
    PathArgs <- OnePathList
    LayerArgs <- OneLayering
    Variables <- OneVariable
    Settings <- TwoSettings
    Removals <- OneRemoval
    WatchOf <- TwoWatches
    Refused <- TwoRefused
    DefaultOf <- Defaults
    ValuesOf <- BuilderValues
    Dirs <- OneDir
    FileSettings <- TwoFileSettings
    NoDir = NoDir
    MaxLayers = 3
    MaxSets = 4
    Recorders = {r1, r2}
    Results <- TwoResults
    U64Max = 9
    Histories <- EmptyOrFull
    MaxSamples = 2
    MaxRecords = 2
    MaxObservations = 1
    Ranks <- FourRanks
    Checkers = {c1, c2}
    MonitorConfigs <- AllMonitors
    InitialMonitor <- FirstMonitor
    Usages = {0, 1, 2}
    MaxChecks = 2
    MaxChanges = 2
    Initializers = {l1, l2}
    ConfiguredLevels = {"info"}
    DirectiveLists <- FourLists
    Environment = "error"
    Levels = {"info", "error", "trace"}
    Targets = {"router", "bus"}
    Unset = Unset
    Everything = "all"
    Unreadable = Unreadable
    MaxNameLength = 4
    MaxIdLength = 3
    MaxSenderLength = 2
    MaxActionLength = 4
    PastDrift = 4
    FutureDrift = 2
    SampleNames <- SomeNames
    Ages <- SomeAges
    RequiredLists <- SomeRequired
    OwnedSets <- SomeOwned
    EventPatterns <- SomePatterns
INVARIANTS
    WatchersUpToDate
    LoadsHold
    LayersAddUp
    
    AlertsHold
    OneLog
    
CHECK_DEADLOCK FALSE
