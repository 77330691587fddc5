SPECIFICATION Parts
CONSTANTS
  u1 = u1
  u2 = u2
  u3 = u3
  c1 = c1
  c2 = c2
  Models = {m1, m2, m3}
  Available = {m1, m2}
  Jobs = {j1, j2}
  Chunks = 2
  TranscribedUsers = {u1, u2}
  WhisperModels = {w1}
  NoWhisper = NoWhisper
  Limits = {1}
  DefaultLimit = 2
  JobQueueLimit = 1
  Choices = {{u1, u2}}
  MaxJobs <- TwoAndOne
  MaxSchedulers = 2
  ProcessedUsers = {u1}
  Features = {"webrtc", "rnnoise", "deepfilternet"}
  EngineConfigs <- SomeEngines
  EngineModels = {"a", "b"}
  QueueFrames = 1
  Depth = 2
  GateHoldFrames = 1
  MaxProcessed = 3
  MixUsers = {u1, u2, u3}
  Talkers = {u2, u3}
  Virtual = Virtual
  Channels = {c1, c2}
  Mixed = Mixed
  Listens <- ListensTo
  Listener = u1
  Talking = {{}, {c1}, {c2, u1}}
  Privileged = {u2}
  Emergencies <- EmergenciesOfU2
  CodecConfigs <- SomeCodecs
  Supported = {"pcm16", "pcm48", "opus"}
  OpusSizes = {60}
  Strays <- StrayDatagrams
  Mixes <- MixedLevels
  MaxCodecChanges = 2
  MaxFlight = 1
  NoConfig = NoConfig
  Prebuffer = 1
  Extra = 3
  CueLen <- ShortCues
  EventQueue = 2
  MaxPlayed = 3
  MaxEvents = 2
  LocalButtons <- TwoButtons
  Peers = {"p"}
  Present = {"p"}
  Routes = {{2}}
  LocalCodecs = {"opus"}
  Alerts = {"a"}
  NoUser = "nobody"
  Patches <- AdminPatches
  QueueSize = 1
  MaxLocalWire = 1
  MaxCommands = 2
  MaxLocalChanges = 1
  MaxDrops = 1
  PanelButtons = {"l"}
  Latching = {"l"}
  Lists <- PanelLists
  MayFail = TRUE
  MaxConns = 2
  MaxKeys = 1
  MaxLosses = 1
  MaxPanelChanges = 1
  MaxPanelWire = 1
  Callers = {"a", "b"}
  MaxRuns = 3
  CaptureQueueLimit = 1
  CaptureConfigs <- SomeSettings
  CaptureFrames <- SomeFrames
  MaxCaptured = 3
  MaxReports = 2
INVARIANTS
  DownloadedIsVerified
  BusyHasOneJob
  TranscriptionRight
  ProcessingRight
  MixRight
  CodecRight
  PlayedInOrder
  CopyAgrees
  ShellRight
  CaptureRight
PROPERTIES
  GuessesRight
CHECK_DEADLOCK FALSE
