\* Two files with a class of one name and a base class in common.
SPECIFICATION Spec
CONSTANTS
  Files <- FilesMC
  Rank <- RankMC
  Scope <- ModuleScopeMC
  InterfaceNames <- InterfaceNamesMC
  Builtins <- BuiltinsMC
  Roots <- RootsMC
  Sources <- TwoClientsMC
  Full = full
  Cold = cold
  MaxEdits = 2
  MaxFulls = 0
  MaxFails = 0
  MaxCli = 0
  MaxRestarts = 0
INVARIANT RemovalIsExact
CHECK_DEADLOCK FALSE
