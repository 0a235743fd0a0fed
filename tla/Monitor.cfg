SPECIFICATION MonitorSpec
CONSTANTS
    Inos = {1, 2}
    Names = {"a", "x"}
    RuleSets <- MCRuleSets
    WatchAsks <- MCWatchAsks
    QueueMax = 3
    BatchMax = 2
    KernelMax = 4
    MaxOps = 3
    Procs = {1, 2}
    PathSeq <- MCPathSeq
    InScope = {"p"}
    Bodies = {"a", "b"}
    Scenes <- MCScenes
    MaxAge = 2
    CanaryEvery = 2
    Canary = 1
    TempAge = 1
    EntryLimit = 2
    DirLimit = 3
    RollupAsks <- MCRollupAsks
    MaxNow = 4
    MaxEdits = 1
    Edited = {"q"}
    MaxFaults = 1
    Tickers = {t1, t2}
    ProgressJobs = {"run", "doctor", "sync-status"}
    Trigger = 2
    Interval = 1
    MaxItems = 4
    MaxClock = 1
    Uploaders = {u1, u2}
    Sizes = {2}
    MaxStarted = 3
    MaxSteps = 5
INVARIANTS WatchComplete CacheTrue ProgressTrue
CHECK_DEADLOCK FALSE
