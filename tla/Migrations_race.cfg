\* Two processes on any earlier release: one repeats what the other has done.
SPECIFICATION Spec
CONSTANTS
  Procs = {p1, p2}
  Off = off
  MaxStarts = 2
INVARIANT
  UpgradeCanFinish
CHECK_DEADLOCK FALSE
