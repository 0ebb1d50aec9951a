\* Two runs, for one harness or all, with a change of the user's and a fault at any time.
SPECIFICATION Spec
CONSTANTS
  Targets = {"all", "claude-code", "codex", "opencode", "unknown"}
  MaxRuns = 2
  MaxEdits = 1
  MaxFaults = 1
INVARIANTS
  TypeOK
  SuccessMeansInstalled
PROPERTIES
  KeepsUserContent
  RepeatIsNoOp
CHECK_DEADLOCK FALSE
