SPECIFICATION Parts
CONSTANTS
  x1 = x1
  x2 = x2
  x3 = x3
  u1 = u1
  u2 = u2
  u3 = u3
  c1 = c1
  r1 = r1
  b1 = b1
  Server = Server
  NoConn = NoConn
  None = None
  NoUser = NoUser
  NoButton = NoButton
  Idle = Idle
  Tasks = {x1, x2, x3}
  Handlers = {"ack_alert", "status", "mix_tick", "send_alert"}
  AlertClients = {u1, u2}
  AlertTasks = {x1, x2}
  AlertSenders = {u1}
  Announcements = {{u1, c1}}
  AlertChannels = {c1}
  Listens <- AlertListens
  Heard = {u2}
  KeepInactive = 1
  Stride = 2
  Count = 8
  Frames = 1
  MaxAlerts = 2
  MaxVoices = 1
  RecordedUsers = {u1}
  Admins = {x1, x2}
  Engine = "external"
  KeepRecent = 1
  KeepSegments = 1
  MaxClock = 2
  MaxStarts = 2
  MaxFrames = 2
  MaxSegments = 2
  Editable = {10}
  EditableTemplates = {"pa_bridge"}
  EditableChannels = {0}
  Requested <- AskedClients
  MaxRequests = 3
  MaxLevel = 4
  Callers = {x1, x2, u3}
  CallConns = {x3}
  ButtonIds = {b1}
  ConfigSets <- CallConfigs
  CallPairs <- CalledByTwo
  MAX_DIRECT_CALL_HISTORY = 2
  EmergencyUsers = {u1, u2}
  EmergencyConns = {x1, x2}
  Requests = {r1}
  Staged = {u1}
  EmergencyTargets = {{u1}}
  Uids = {x1, x2}
  MaxUser = 2
  EnrollConns = {x3}
  Policy = "approval"
  AdminOps = {"device", "forget", "put", "patch", "preset", "delete"}
INVARIANTS
  NoDeadlock
  AlertsRight
  RecordingAgrees
  WorkflowRight
  HistoriesAgree
  NoOrphanEmergency
  EmergencyReachesPresent
  EnrollmentRight
PROPERTIES
  KnownUidKeepsAlias
SYMMETRY Symmetry
CHECK_DEADLOCK FALSE
