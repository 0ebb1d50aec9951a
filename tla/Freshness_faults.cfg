\* Every fault, a document, a directory made at run time, cancellation.
SPECIFICATION CleanSpec
CONSTANTS
  Files = {f1, f2}
  Docs = {f1}
  GitIgnored = {f2}
  Nested = {f2}
  Faults = {"read", "record", "overflow", "oversize"}
  Cap = 1
  EventCap = 1
  MaxEdits = 3
  MaxTouches = 1
  MaxFails = 1
  MayCancel = TRUE
  Full = full
  FullKey = fullKey
  Dir = dir
INVARIANT TypeOK
PROPERTY IndexNeverRegresses
CHECK_DEADLOCK FALSE
