SPECIFICATION Spec
CONSTANTS
    Proc <- TwoProcs
    File <- OneTape
    Service <- Both
    RunId <- TwoRuns
    Verbs <- AllVerbs
    Faults <- AllFaults
    ConfigService = "hosted"
    HasToken = TRUE
    MayType = FALSE
    NoKey = NoKey
    NoUrl = NoUrl
    NoHash = NoHash
    NoEntry = NoEntry
    r1 = r1
    r2 = r2
SYMMETRY RunSymmetry
INVARIANTS
    TypeOK
    KeysStayHome
    KeysAreKeptUntangled
    ReportedDownIsDown
PROPERTIES
    ShareSkipsPublished
