\* A file that .gitignore hides from Scan is edited.
SPECIFICATION CleanSpec
CONSTANTS
  Files = {f1}
  Docs = {}
  GitIgnored = {f1}
  Nested = {}
  Faults = {}
  Cap = 1
  EventCap = 0
  MaxEdits = 1
  MaxTouches = 0
  MaxFails = 0
  MayCancel = FALSE
  Full = full
  FullKey = fullKey
  Dir = dir
INVARIANT MirrorsScan
CHECK_DEADLOCK FALSE
