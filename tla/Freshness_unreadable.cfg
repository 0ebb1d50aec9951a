\* A full reindex meets a file it cannot read.
SPECIFICATION CleanSpec
CONSTANTS
  Files = {f1}
  Docs = {}
  GitIgnored = {}
  Nested = {}
  Faults = {"read"}
  Cap = 1
  EventCap = 0
  MaxEdits = 1
  MaxTouches = 1
  MaxFails = 0
  MayCancel = FALSE
  Full = full
  FullKey = fullKey
  Dir = dir
INVARIANT NoSilentStaleness
CHECK_DEADLOCK FALSE
