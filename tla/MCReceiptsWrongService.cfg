SPECIFICATION Spec
CONSTANTS
    Proc <- OneProc
    File <- TwoTapes
    Service <- Both
    RunId <- TwoRuns
    Verbs <- AllVerbs
    Faults <- NoFaults
    ConfigService = "hosted"
    HasToken = TRUE
    MayType = TRUE
    NoKey = NoKey
    NoUrl = NoUrl
    NoHash = NoHash
    NoEntry = NoEntry
    r1 = r1
    r2 = r2
SYMMETRY RunSymmetry
INVARIANTS
    KeysAreKept
