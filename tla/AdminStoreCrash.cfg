SPECIFICATION Spec
CONSTANTS
  u1 = u1
  u2 = u2
  h1 = h1
  h2 = h2
  Users = {u1, u2}
  Handlers = {h1, h2}
  Loads <- SomeLoads
  Settings = {v1, v2}
  Default = v1
  NoFile = NoFile
  Torn = Torn
  DiskMayFail = TRUE
  MaxChanges = 2
  MaxCrashes = 1
INVARIANTS
  TornByMixingOnly
  AckedSurvives
PROPERTIES
  
  StagedEventuallyLive
CHECK_DEADLOCK FALSE
