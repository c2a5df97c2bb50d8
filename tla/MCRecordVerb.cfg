SPECIFICATION FairSpec
CONSTANTS
    Stream <- ThreeStreams
    Queue = 3
    WaitForModel = 2
CHECK_DEADLOCK FALSE
INVARIANTS
    TypeOK
    NothingAfterTheEnd
    NoRunIsLostUnsaid
PROPERTIES
    NoWaitIsForEver
    ResultIsShown
