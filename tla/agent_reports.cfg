SPECIFICATION FairSpec
CONSTANTS
  key = key
  NoKey = NoKey
  NoneKey = NoneKey
  RateLimit = 2
  AgentKey = NoKey
  ServerKey = key
  MaxPolls = 1
  MaxReports = 3
  MaxFaults = 2
  Backoffs = 1
INVARIANTS
  TypeOK
  AppliedBounded
  OvertakingBounded
  ReportApplied
PROPERTIES
  ReportsFinish
CHECK_DEADLOCK FALSE
