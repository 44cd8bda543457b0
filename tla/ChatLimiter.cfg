SPECIFICATION Spec
CONSTANTS
  Requests = {r1, r2}
  Members = {m1, m2, m3}
  TokenCounts = {0, 1}
  RequestsPerHour = 1
  RequestsPerDay = 2
  TokensPerHour = 2
  TokensPerDay = 3
  Hour = 2
  Day = 4
  HourSlack = 1
  CallTimeout = 1
  MaxRetries = 1
  MaxTime = 4
  NoMember = NoMember
SYMMETRY Interchangeable
INVARIANTS
  TypeOK
  TurnsBounded
  RecentTurnsCounted
  UsedTokensCounted
  RetryHonest
CHECK_DEADLOCK FALSE
