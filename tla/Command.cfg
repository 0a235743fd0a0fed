SPECIFICATION EntrySpec
CONSTANTS
    Scenarios <- MCScenarios
    Hosts <- MCHosts
    CoreTails <- MCCoreTails
    MaxFaults = 2
    MaxEdits = 2
    Connections <- MCConnections
    UiSessions = {"s1", "s2"}
    Passwords = {"a", "b"}
    MaxNow = 4
    MaxAsked = 2
    MaxChanges = 1
    Windows = {1, 2}
INVARIANTS ReportedTruthfully SessionsEnd ConfirmedIsDone ProcessesAccounted
CHECK_DEADLOCK FALSE
