SPECIFICATION Spec
CONSTANTS
  Buttons <- PushKey
  Peers = {"p"}
  Present = {"p"}
  Routes = {}
  Codecs = {"opus"}
  Patches = {}
  Alerts = {}
  NoUser = "nobody"
  QueueSize = 1
  MaxWire = 1
  MaxCommands = 2
  MaxChanges = 0
  MaxDrops = 1
INVARIANTS
  KeepsRunning
CHECK_DEADLOCK FALSE
