\* A watched directory is moved out of the project.
SPECIFICATION CleanSpec
CONSTANTS
  Files = {f1}
  Docs = {}
  GitIgnored = {}
  Nested = {f1}
  Faults = {}
  Cap = 1
  EventCap = 0
  MaxEdits = 2
  MaxTouches = 0
  MaxFails = 0
  MayCancel = FALSE
  Full = full
  FullKey = fullKey
  Dir = dir
INVARIANT MovedFilesAccounted
CHECK_DEADLOCK FALSE
