SPECIFICATION Spec
CONSTANTS
  Workers = {w1, w2}
  Members = {m1, m2, m3, m4}
  MinuteLimit = 1
  HourLimit = 2
  MinuteWindow = 2
  HourWindow = 5
  MinuteSlack = 1
  HourSlack = 1
  CallTimeout = 1
  MaxTime = 6
  NoMember = NoMember
SYMMETRY Interchangeable
INVARIANTS
  TypeOK
  StoredBounded
  RecentCallsCounted
  RetryOpensSlot
CHECK_DEADLOCK FALSE
