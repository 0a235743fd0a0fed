SPECIFICATION Spec
CONSTANTS
  Names <- MCNames
  Fold <- MCFold
  Nfc <- MCNfc
  NameOrder <- MCOrder
  Comma <- MCComma
  Managed = {}
  BadNames = {}
  Scenarios <- MCScenarios
  SourceEdits <- MCSourceEdits
  NasEdits <- MCNasEdits
  Started = 5
  MaxEdits = 1
  PageMax = 4
INVARIANTS CompleteMeansMirrored ReportsTrue
PROPERTIES MirrorSafe
CHECK_DEADLOCK FALSE
