SPECIFICATION Spec
CONSTANTS
    Stream <- ThreeStreams
    Queue = 3
    WaitForModel = 2
CHECK_DEADLOCK FALSE
INVARIANTS
    DoneMeansWritten
