\* A directory is created, and a file in it before it is watched.
SPECIFICATION CleanSpec
CONSTANTS
  Files = {f1}
  Docs = {}
  GitIgnored = {}
  Nested = {f1}
  Faults = {}
  Cap = 1
  EventCap = 0
  MaxEdits = 2
  MaxTouches = 0
  MaxFails = 0
  MayCancel = FALSE
  Full = full
  FullKey = fullKey
  Dir = dir
INVARIANT NewFoldersCovered
CHECK_DEADLOCK FALSE
