\* Each part with two or three runs that may die, and two or three changes around them.
CONSTANTS
  Source = {1, 2}
  Group = {1, 2, 3}
  PartitionOf <- MCPartitionOf
  Rank = {1, 2}
  Contents <- MCContents
  MaxRuns = 3
  MaxChanges = 2
  Orderly = TRUE
  KeepGlobal = FALSE
  None = None
  Asset = {1, 2, 3}
  Graphs <- MCGraphs
  ChainRuns = 2
  SourceRuns = 2
  SourceAttempts = 2
  SourceModes <- MCModes
  TextFile = {1, 2}
  TextChanges = 3
  UnionFile = {1, 2}
  UnionRun = {1, 2, 3}
  UnionChanges = 2
  Part = {p1, p2}
  PartsOf <- MCPartsOf
  MaxVersion = 3
  MaxStarts = 3
  p1 = p1
  p2 = p2
SPECIFICATION AssetsSpec
INVARIANTS
  TypeOK
  SelectionIsExact
  ChainTellsTruth
  SourcesTellTruth
  MigrationKeepsData
CHECK_DEADLOCK FALSE
