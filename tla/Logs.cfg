SPECIFICATION LogsSpec
CONSTANTS
    c1 = c1
    c2 = c2
    NoCaller = none
    Callers <- TwoCallers
    Capacity = 1
    MaxCalls = 2
    LineShapes <- MCLineShapes
    MaxLines = 4
    MaxLogFaults = 1
    MaxBytes = 5
    Backups = 3
    Chunk = 2
    ScanBudget = 7
    Requested = 2
    ByteLimit = 9
    MaxRedact = 1
    Threshold = "warn"
    MaxReads = 1
INVARIANTS DeliveryReported LogReadable
PROPERTIES CallsReturn
CHECK_DEADLOCK FALSE
