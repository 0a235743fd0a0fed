\* One record fills a log file, two (three for the audit log) are too many for
\* the bridge to read, and one power loss happens; two runs of one profile within
\* two seconds; two profiles changed three times under the reader.
CONSTANTS
    Events <- MCEvents
    FileLines <- MCFileLines
    FileMost <- MCFileMost
    Keep <- MCKeep
    MaxAttempts = 3
    MaxLosses = 1
    Profiles = {"p1"}
    Asked <- MCAsked
    Exits = {0}
    MaxClock = 3
    MaxRuns = 2
    Names = {"a", "b"}
    ProfileAsks <- MCProfileAsks
    RoutineAsks <- MCRoutineAsks
    PackageSettings <- MCSettings
    Healths <- MCHealths
    RoutineStates <- MCRoutineStates
    Windows <- MCWindows
    Extras <- MCExtras
    Budget = 8
    MaxEdits = 3
SPECIFICATION PackageSpec
INVARIANTS RecordsDurable OutcomesAgree ViewFaithful
CHECK_DEADLOCK FALSE
