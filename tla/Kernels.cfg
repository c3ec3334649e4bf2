SPECIFICATION Spec
CONSTANTS
  Score <- MCScore
  FwdConfigs <- MCFwdConfigs
  DkDvConfigs <- MCDkDvConfigs
  DqConfigs <- MCDqConfigs
  StudyConfigs <- MCStudyConfigs
  ModelTile = 4
  StaticLen = 5
  StaticTile = 2
  PageSize = 2
  CacheTile = 4
  QHeads = 2
  KvHeads = 1
  Owner <- MCOwner
  Strategies <- MCStrategies
  Blocks = 2
  Programs <- MCPrograms
  Resident = 2
  TpSize = 3
  Heads = 6
  HeadsKV = 3
  Inter = 6
  Vocab = 6
  Tied = TRUE
  Files <- MCFiles
  Runs = 2
INVARIANTS
  RowsAttendTheirKeys
  GradientsTakeEachPairOnce
  PagedReads
  GeneratesFromItsOwnText
  EveryTileComputed
  ShardsLineUp
PROPERTY
  EverythingEnds
CHECK_DEADLOCK FALSE
