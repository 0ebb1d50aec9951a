\* Two processes, three starts, any earlier release.
SPECIFICATION Spec
CONSTANTS
  Procs = {p1, p2}
  Off = off
  MaxStarts = 3
INVARIANTS
  TypeOK
  RunningMeansCurrent
  TriggersFit
  SearchComplete
CHECK_DEADLOCK FALSE
