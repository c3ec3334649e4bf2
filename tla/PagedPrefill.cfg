SPECIFICATION Spec
CONSTANTS
  Score <- MCScore
  FwdConfigs <- MCFwdConfigs
  DkDvConfigs <- MCDkDvConfigs
  DqConfigs <- MCDqConfigs
  StudyConfigs <- MCStudyConfigs
  ModelTile = 4
  StaticLen = 5
  StaticTile = 2
  PageSize = 4
  CacheTile = 2
  QHeads = 2
  KvHeads = 1
  Owner <- MCOwner
  Strategies <- MCStrategies
  Blocks = 2
  Programs <- MCPagedPrograms
  Resident = 2
  TpSize = 3
  Heads = 6
  HeadsKV = 3
  Inter = 6
  Vocab = 6
  Tied = TRUE
  Files <- MCFiles
  Runs = 2
INVARIANT PagedReads
CHECK_DEADLOCK FALSE
