\* A TOML file that writes its servers inline.
SPECIFICATION Spec
CONSTANTS
  Targets = {"codex"}
  MaxRuns = 1
  MaxEdits = 1
  MaxFaults = 0
PROPERTY AppendedTableIsValid
CHECK_DEADLOCK FALSE
