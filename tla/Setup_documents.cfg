\* A YAML file of several documents.
SPECIFICATION Spec
CONSTANTS
  Targets = {"hermes"}
  MaxRuns = 1
  MaxEdits = 1
  MaxFaults = 0
PROPERTY YAMLIsPreserved
CHECK_DEADLOCK FALSE
