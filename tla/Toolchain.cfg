CONSTANTS
    Literals = {"0", "1", "2", "3", "5", "9"}
    Idents = {"x", "y", "a", "b", "c", "d", "f", "g", "h", "i"}
    Types = {"int", "unsigned", "long"}
    IntBits = 6
    LongBits = 10
    LiteralValue <- MCLiteralValue
    NumRegs = 2
    MaxSteps = 400
    MaxCalls = 12
    Programs <- MCPrograms
    MaxCond = 4
    MaxDepth = 8
    ObjectNames = {"A", "B", "C", "G"}
    Numbers <- MCNumbers
    Bodies <- MCBodies
    Files = {"p", "q", "r"}
    LongNames = {"r"}
    MaxMembers = 2
    MaxCommands = 4
    Objects <- MCObjects
    Base = 64
    Word = 256
    MaxInputs = 4
    Entry = "_start"
    Sources <- MCSources
    MaxFixups = 2
    SourceUnits <- MCUnits
    HeaderFiles <- MCHeaders
    IncludedBy <- MCIncluded
    ListText <- MCListText
    Standalone <- MCStandalone
    CoreTools <- MCCoreTools
    MaxTargets = 16
    MaxTargetSources = 32
    MaxEdits = 1
    MaxBuilds = 2
    Keywords <- MCWords
    CharCode <- MCCharCode
    WordBits = 8
    MantissaBits = 9
    MaxDigits = 4
    MaxDeclarations = 4
SPECIFICATION Spec
INVARIANTS PreprocSound ParserSound AssemblerSound  BuildSound FrontEndSound
 
CHECK_DEADLOCK FALSE
