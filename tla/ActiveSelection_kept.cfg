\* The cache of global winners is kept between runs, as the code keeps it.
CONSTANTS
  Source = {1, 2}
  Group = {1, 2, 3}
  PartitionOf <- MCPartitionOf
  Rank = {1, 2}
  Contents <- MCContents
  MaxRuns = 3
  MaxChanges = 2
  Orderly = TRUE
  KeepGlobal = TRUE
  None = None
SPECIFICATION Spec
INVARIANTS
  SelectionIsExact
CHECK_DEADLOCK FALSE
