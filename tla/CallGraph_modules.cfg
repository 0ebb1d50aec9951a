\* Python and JavaScript: modules with aliases, fields and untyped calls.
SPECIFICATION Spec
CONSTANTS
  Files <- FilesMC
  Rank <- RankMC
  Scope <- ModuleScopeMC
  InterfaceNames <- InterfaceNamesMC
  Builtins <- BuiltinsMC
  Roots <- RootsMC
  Sources <- ModuleSourcesMC
  Full = full
  Cold = cold
  MaxEdits = 4
  MaxFulls = 0
  MaxFails = 0
  MaxCli = 1
  MaxRestarts = 0
INVARIANTS
  EdgesAreSound
  CacheMatchesDb
  NeverRefused
  CallSitesMatch
CHECK_DEADLOCK FALSE
