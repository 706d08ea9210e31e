SPECIFICATION Spec
CONSTANTS
  key = key
  NoKey = NoKey
  NoneKey = NoneKey
  RateLimit = 1
  AgentKey = key
  ServerKey = key
  MaxPolls = 1
  MaxReports = 1
  MaxFaults = 0
  Backoffs = 1
INVARIANTS
  ReportApplied
CHECK_DEADLOCK FALSE
