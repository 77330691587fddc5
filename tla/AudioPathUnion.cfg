SPECIFICATION Spec
CONSTANTS
  u1 = u1
  u2 = u2
  c1 = c1
  a1 = a1
  a2 = a2
  NoAddr = NoAddr
  Users <- MCUsers
  Channels <- MCChannels
  Talkers = {u1}
  Addrs = {a1}
  MAX_SOURCE_QUEUE_FRAMES = 4
  ACTIVE_SOURCE_WINDOW = 2
  AUDIO_ENDPOINT_TIMEOUT = 1
  MaxLag = 1
  MaxPackets = 16
  MaxTargets = 2
  Paced = TRUE
INVARIANTS
  UnionNeverDrops
