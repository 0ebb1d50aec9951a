\* Liveness under the scheduler's fairness; the context may be cancelled.
SPECIFICATION CleanFairSpec
CONSTANTS
  Files = {f1, f2}
  Docs = {f1}
  GitIgnored = {}
  Nested = {f2}
  Faults = {}
  Cap = 1
  EventCap = 0
  MaxEdits = 2
  MaxTouches = 1
  MaxFails = 1
  MayCancel = TRUE
  Full = full
  FullKey = fullKey
  Dir = dir
PROPERTIES
  EventuallyAccounted
  TouchIsServed
  StopReleases
CHECK_DEADLOCK FALSE
