SPECIFICATION SolversSpec
CONSTANTS
  Parts = {"paths", "fields", "differentiated", "sampler", "bdpt", "basic", "routes"}
  MaxBounces = 4
  MaxOrder = 3
  Depths = {0, 1, 2, 3}
  LightDepths = {0, 1, 2}
  Orders = {1}
  Worlds <- MCWorlds
  EnumerationLimit = 2
  PathScenes <- MCPathScenes
  PathConfigs <- MCPathConfigs
  PathWorlds <- MCPathWorlds
  PathRequests <- MCPathRequests
  PathFound <- MCPathFound
  PathScatters <- MCPathScatters
  MaxFilters = 2
  Transmitters = 1
  Receivers = 4
  GridShape <- MCGridShape
  FieldScenes <- MCFieldScenes
  FieldConfigurations <- MCFieldConfigurations
  DifferentiatedScenes <- MCDifferentiatedScenes
  DifferentiatedConfigurations <- MCDifferentiatedConfigurations
  BasicScenes <- MCBasicScenes
  BasicConfigurations <- MCBasicConfigurations
  MaxBytes = 1500
  PathBytes = 192
  PairBytes = 16
  ReflectionCap = 2
  ChunkRows = 6
  RouteNames <- MCRoutes
  Skipped <- MCSkipped
  MaxSeeds = 3
  Compositions = {"first", "createGraph", "composed"}
CHECK_DEADLOCK FALSE
INVARIANTS
  TypeOK
  EachPairKeepsItsPaths
  NothingOfAFailedSolve
  TotalsFollowTheRows
  CompanionsAreTheDerivative
  SubpathsArePaidOnce
  EachPathByOneRoute
  EachContributionOnce
  NothingDropped
  ModesAnswerAlike
