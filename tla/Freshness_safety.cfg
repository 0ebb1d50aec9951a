\* A restart on any index, a directory that comes and goes, timers re-armed while
\* requests wait, an event queue that overflows: staleness is never silent, and the
\* pipeline implements EventualIndex.
SPECIFICATION RestartSpec
CONSTANTS
  Files = {f1, f2}
  Docs = {}
  GitIgnored = {}
  Nested = {f2}
  Faults = {"overflow"}
  Cap = 1
  EventCap = 2
  MaxEdits = 3
  MaxTouches = 1
  MaxFails = 1
  MayCancel = FALSE
  Full = full
  FullKey = fullKey
  Dir = dir
INVARIANTS
  NoSilentStaleness
  StalenessInv
  VersionInv
PROPERTY KeepsPromise
CHECK_DEADLOCK FALSE
