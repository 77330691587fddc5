SPECIFICATION Spec
CONSTANTS
  u1 = u1
  u2 = u2
  h1 = h1
  h2 = h2
  Users = {u1}
  Handlers = {h1, h2}
  Loads <- PutsAtOnce
  Settings = {v1, v2}
  Default = v1
  NoFile = NoFile
  Torn = Torn
  DiskMayFail = FALSE
  MaxChanges = 3
  MaxCrashes = 0
INVARIANTS
  SavedIsLoadable
CHECK_DEADLOCK FALSE
