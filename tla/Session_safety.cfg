\* A session of every kind of line over a project that is indexed and edited.
SPECIFICATION SessionSpec
CONSTANTS
  Files <- FilesMC
  Rank <- RankMC
  Scope <- ScopeMC
  InterfaceNames <- InterfaceNamesMC
  Builtins <- BuiltinsMC
  Roots <- RootsMC
  Sources <- SourcesMC
  Project <- ProjectMC
  TestFiles <- TestFilesMC
  NamePlace <- NamePlaceMC
  NameParts <- NamePartsMC
  Prefixed <- PrefixedMC
  Nearby <- NearbyMC
  Documents <- DocumentsMC
  Lines <- LinesMC
  GitChanges <- GitChangesMC
  Full = full
  Cold = cold
  Nothing = nothing
  Fails = fails
  PoolFactor = 1
  PoolFloor = 2
  MaxNodes = 3
  MaxCalls = 6
  MaxMishaps = 1
  MaxEdits = 1
  MaxFulls = 1
  MaxFails = 1
  MaxCli = 0
  MaxRestarts = 1
INVARIANTS
  SessionTypeOK
  LoopGuardEndsSearch
  ImpactConcernsChange
PROPERTIES
  ExactlyOneAnswer
  ServerReturns
  DefinitiveIsUnique
  ImpactNearestFirst
  ChainIsComplete
CHECK_DEADLOCK FALSE
