\* Go: a package of three files, four writes, a full reindex, a failure, a restart.
SPECIFICATION Spec
CONSTANTS
  Files <- FilesMC
  Rank <- RankMC
  Scope <- ScopeMC
  InterfaceNames <- InterfaceNamesMC
  Builtins <- BuiltinsMC
  Roots <- RootsMC
  Sources <- SourcesMC
  Full = full
  Cold = cold
  MaxEdits = 4
  MaxFulls = 1
  MaxFails = 1
  MaxCli = 0
  MaxRestarts = 1
INVARIANTS
  TypeOK
  EdgesAreSound
  CacheMatchesDb
  NeverRefused
  CallSitesMatch
CHECK_DEADLOCK FALSE
