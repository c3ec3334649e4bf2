CONSTANTS
  Name <- MCName
  LastSegment <- MCLastSegment
  FirstSegment <- MCFirstSegment
  NoNode = "none"
  Bundles <- MCBundles
  Edited <- MCEdited
  MaxEdits = 1
  Writer = {w1, w2}
  Operator <- MCOperator
  CanonicalOp <- MCCanonicalOp
  MaxRecords = 3
  BodyEdits <- MCBodyEdits
  Letters = {"x"}
  MaxWork = 3
  Legacy <- MCLegacy
  MaxRuns = 2
SPECIFICATION Spec
CHECK_DEADLOCK FALSE
INVARIANTS
  HistoryIsKept
  HistoryKeepsReferences
  ChecksAreExact
  MigrationConverges
  MigrationOnlyHelps
PROPERTIES
  RepairOnlyMirrors
