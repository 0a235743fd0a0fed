SPECIFICATION Spec
CONSTANTS
  Keys = {"save", "plan"}
  Bodies = {"b"}
  Connection = {}
  Concurrent = {"plan"}
  Secretful = {"save"}
  MaxJobs = 2
  MaxOutstanding = 2
  Polled = {1}
  MaxFaults = 1
INVARIANTS PollTruthful ClaimsClean
PROPERTIES AuditKept
CHECK_DEADLOCK FALSE
