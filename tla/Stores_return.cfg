\* A join whose definition is edited and, after a run of it failed, edited back.
CONSTANTS
  Parts = {"joining"}
  Publisher = {m1, m2}
  Contents = {c1, c2}
  MaxCommits = 3
  Deployments <- MCDeployments
  CommitsApart = TRUE
  Retain = 1
  Reader = {m1, m2}
  Part = {a1, a2}
  p1 = a1
  p2 = a2
  MaxGeneration = 2
  GenerationListing <- MCListing
  Indexes <- MCIndexes
  ReaderDeployments <- MCReading
  JoinFile = {1, 2}
  JoinKey = {1, 2, 3}
  KeyPartition <- MCKeyPartition
  Named <- MCNamed
  Definition = {"a", "b"}
  LeftContents <- MCLeftContents
  RightContents <- MCRightContents
  PartSize = 1
  BatchRows = 1
  MaxJoinChanges = 2
  FirstSides <- MCFirstSides
  FailsIn = {"index"}
  MayReturn = TRUE
  Expression = {"x", "y"}
  Path = {1, 2}
  Column = {"a", "b"}
  Needs <- MCNeeds
  MaxFactChanges = 2
  FirstNeeds <- MCFirstNeeds
  FirstColumns <- MCFirstColumns
  None = None
SPECIFICATION StoresSpec
INVARIANTS
  JoinIsExact
CHECK_DEADLOCK FALSE
