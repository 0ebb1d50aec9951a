\* A file grows over the size limit.
SPECIFICATION CleanSpec
CONSTANTS
  Files = {f1}
  Docs = {}
  GitIgnored = {}
  Nested = {}
  Faults = {"oversize"}
  Cap = 1
  EventCap = 0
  MaxEdits = 2
  MaxTouches = 0
  MaxFails = 0
  MayCancel = FALSE
  Full = full
  FullKey = fullKey
  Dir = dir
INVARIANT MirrorsScan
CHECK_DEADLOCK FALSE
