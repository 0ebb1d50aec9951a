\* A request fails, and so does the record of its failure.
SPECIFICATION CleanSpec
CONSTANTS
  Files = {f1}
  Docs = {}
  GitIgnored = {}
  Nested = {}
  Faults = {"record"}
  Cap = 1
  EventCap = 0
  MaxEdits = 2
  MaxTouches = 0
  MaxFails = 1
  MayCancel = FALSE
  Full = full
  FullKey = fullKey
  Dir = dir
INVARIANT NoSilentStaleness
CHECK_DEADLOCK FALSE
