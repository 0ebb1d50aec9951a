\* Another process rebuilds the database under a worker whose connection checks nothing.
SPECIFICATION Spec
CONSTANTS
  Files <- FilesMC
  Rank <- RankMC
  Scope <- ModuleScopeMC
  InterfaceNames <- InterfaceNamesMC
  Builtins <- BuiltinsMC
  Roots <- RootsMC
  Sources <- ModuleSourcesMC
  Full = full
  Cold = cold
  MaxEdits = 4
  MaxFulls = 0
  MaxFails = 0
  MaxCli = 1
  MaxRestarts = 0
INVARIANT NeverDangling
CHECK_DEADLOCK FALSE
