SPECIFICATION Spec
CONSTANTS
  key = key
  NoKey = NoKey
  NoneKey = NoneKey
  RateLimit = 1
  AgentKey = NoKey
  ServerKey = NoKey
  MaxPolls = 2
  MaxReports = 2
  MaxFaults = 0
  Backoffs = 1
INVARIANTS
  PollsNotOvercounted
CHECK_DEADLOCK FALSE
