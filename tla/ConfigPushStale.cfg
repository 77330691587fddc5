SPECIFICATION Spec
CONSTANTS
  Users = {u1}
  Conns = {k1, k2}
  Requests = {r1}
  NoUser = NoUser
  NoConn = NoConn
  MaxVersion = 4
INVARIANTS
  ReconnectedIsRegistered
CHECK_DEADLOCK FALSE
