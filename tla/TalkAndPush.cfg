SPECIFICATION Parts
CONSTANTS
  u1 = u1
  u2 = u2
  b1 = b1
  Users = {u1, u2}
  Conns = {k1, k2}
  ButtonIds = {b1}
  NoUser = NoUser
  NoButton = NoButton
  ConfigSets <- TalkConfigs
  CallPairs <- CalledBack
  MAX_DIRECT_CALL_HISTORY = 1
  PushedUsers = {u1}
  NoConn = NoConn
  Requests = {r1}
  MaxVersion = 2
INVARIANTS
  NoStuckTalk
  ActiveButtonsConfigured
  NewestReachesClient
PROPERTIES
  TalkEventuallyReleased
  ChangeReachesClient
CHECK_DEADLOCK FALSE
