SPECIFICATION Spec
CONSTANTS
  Buttons = {"b"}
  Latching = {}
  Peers = {"p"}
  NoUser = "nobody"
  Lists <- OneButton
  MayFail = FALSE
  MaxConns = 3
  MaxKeys = 1
  MaxLosses = 0
  MaxChanges = 0
  MaxWire = 2
INVARIANTS
  ButtonsReleased
CHECK_DEADLOCK FALSE
