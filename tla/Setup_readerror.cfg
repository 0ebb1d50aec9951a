\* AGENTS.md has text of the user's and cannot be read.
SPECIFICATION Spec
CONSTANTS
  Targets = {"codex", "pi"}
  MaxRuns = 1
  MaxEdits = 1
  MaxFaults = 1
PROPERTY SafeToEditByHand
CHECK_DEADLOCK FALSE
