SPECIFICATION Spec
CONSTANTS
  u1 = u1
  u2 = u2
  c1 = c1
  a1 = a1
  a2 = a2
  NoAddr = NoAddr
  Users <- MCUsers
  Channels <- MCChannels
  Talkers = {u1}
  Addrs = {a1, a2}
  MAX_SOURCE_QUEUE_FRAMES = 2
  ACTIVE_SOURCE_WINDOW = 1
  AUDIO_ENDPOINT_TIMEOUT = 0
  MaxLag = 1
  MaxPackets = 3
  MaxTargets = 1
  Paced = FALSE
INVARIANTS
  TypeOK
  LatencyBound
  FramesConserved
PROPERTIES
  OnlyFailedEndpointCleared
  ImplementsTalkerFifo
