SPECIFICATION Spec
CONSTANTS
  r0 = r0
  r1 = r1
  r2 = r2
  Requests = {r0, r1, r2}
  Greeting = r0
  Presses = {r2}
  ReconnectHello = ReconnectHello
  QueueLimit = 1
  MaxConnects = 2
  MaxLocks = 1
INVARIANTS
  TypeOK
  AtMostOneBehind
  WaitersAreKnown
  SettledAgrees
PROPERTIES
  EventuallyAnswered
CHECK_DEADLOCK FALSE
