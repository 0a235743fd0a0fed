SPECIFICATION Spec
CONSTANTS
    Bits = 3
    Workers = {w1, w2, w3}
    Caller = w1
    Capacity = 2
    BatchSize = 3
    Threshold = 3
    Retries = 1
    MaxTaskFaults = 1
    PageSize = 2
    MaxTreeEdits = 3
    ChooserLimit = 3
    SampleLimit = 2
    RequestLimit = 3
    Calls <- MCCalls
INVARIANTS TasksAccounted VerdictInOrder ListingTrue
PROPERTIES DigestsEnd
CHECK_DEADLOCK FALSE
