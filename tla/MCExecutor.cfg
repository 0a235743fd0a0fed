CONSTANTS
    Classes = {"permission"}
    Paths <- MCPaths
    Above <- MCAbove
    Fold <- MCFold
    Scenarios <- MCScenarios
    ForeignEntries <- MCForeignEntries
    LocalEntries <- MCLocalEntries
    MaxRemoteEdits = 1
    MaxLocalEdits = 1
SPECIFICATION Spec
INVARIANTS NothingLost
PROPERTIES EverythingSettled Terminates
