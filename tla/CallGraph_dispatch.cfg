\* A file that implements an interface is saved again.
SPECIFICATION Spec
CONSTANTS
  Files <- FilesMC
  Rank <- RankMC
  Scope <- ScopeMC
  InterfaceNames <- InterfaceNamesMC
  Builtins <- BuiltinsMC
  Roots <- RootsMC
  Sources <- SourcesMC
  Full = full
  Cold = cold
  MaxEdits = 4
  MaxFulls = 1
  MaxFails = 0
  MaxCli = 0
  MaxRestarts = 0
PROPERTY DispatchSurvivesSave
CHECK_DEADLOCK FALSE
