CONSTANTS
    NTargets = 4
    BatchMax = 2
    Outcomes <- MCOutcomes
    AddrSpace = 16
    MaxTargets = 6
    MaxResults = 5
    Settings <- MCSettings
    Count = 2
    Probes = 2
    MaxNoise = 1
    Farthest = 3
    Names = {"a", "b", "c", "d", "10.0.0.1"}
    Junk = "junk"
    Numeric <- MCNumeric
    Zones <- MCZones
    Hosts = {"a", "10.0.0.1"}
    UpSets <- MCUpSets
    FaultSets <- MCFaultSets
    MaxChain = 3
    MaxIps = 2
    LinkMax = 2
    Batch = 2
    LongMax = 127
    Workers = {w1, w2, w3}
    QueueSize = 2
    TaskTime = 2
    Chars = {"a", "b", "c", "d", "q", " ", "/"}
    MaxLine = 4
    NameMax = 3
    MaxArgs = 2
    BuiltIns <- MCBuiltIns
    Directories <- MCDirectories
    Path <- MCPath
    ScreenRows = 5
    ScreenCols = 4
    EditTexts <- MCEditTexts
    Letters <- MCLetters
    MaxEdits = 1
    MaxCommand = 1
SPECIFICATION Spec
INVARIANTS   QueueSound ShellSound LibrarySound
PROPERTIES Finishes 
CHECK_DEADLOCK FALSE
