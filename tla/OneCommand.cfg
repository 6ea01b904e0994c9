SPECIFICATION Spec
CONSTANTS
  Callers = {c1, c2}
  Batches <- MCBatches
  Chunk = 2
  FanOut = 2
  Ceiling = 2
  Ttl = 1
  MaxRetries = 2
  LengthRetries = 1
  FirstTokens = {8, 20}
  TokenCeiling = 15
  MaxCalls = 2
  MaxTicks = 1
  Databases <- MCDatabases
  Rankings <- MCRankings
  Commands <- MCCommands
  Subs = {1, 2}
  Permits = 1
  RrfK = 1
  Scale = 60
  MinScore = 3
  TopSeeds = 1
  EntitySeeds = 1
  MaxChains = 2
  MaxWrites = 1
  Tables <- MCTables
  Pages <- MCPages
  Surfaces <- MCSurfaces
  Base = 4
  Argvs <- MCArgvs
  ConfigFiles <- MCConfigFiles
  MaxConfigWrites = 1
  Bodies <- MCBodies
  MaxBytes = 4
  MaxTokens = 2
INVARIANTS CallsSound WalkSound AnswerSound SurfaceSound StartSound SplitSound
PROPERTIES CommandEnds
CHECK_DEADLOCK FALSE
