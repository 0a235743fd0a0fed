SPECIFICATION Spec
CONSTANTS
    MaxBody = 2
    MaxStarts = 2
    Cgis = {r1, r2}
    Workers <- MCWorkers
    QueueCapacity = 1
    LongPollLimit = 1
    ManagerLimit = 1
    Requests <- MCRequests
    Documents <- MCDocuments
    Policies <- MCPolicies
SYMMETRY Symmetry
INVARIANTS ServiceSingle NothingLeaks AnswersSound
CHECK_DEADLOCK FALSE
