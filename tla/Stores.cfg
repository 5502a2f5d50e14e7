\* Appended and replaced datasets, overlapping publishers, a collector; two readers
\* of two generations while they are published and collected;
\* joins over files and definitions that change, failing on the way;
\* runs of a calculated fact whose columns and expressions change.
CONSTANTS
  Parts = {"publishing", "reading", "joining", "calculations"}
  Publisher = {m1, m2}
  Contents = {c1, c2}
  MaxCommits = 3
  Deployments <- MCDeployments
  CommitsApart = TRUE
  Retain = 1
  Reader = {m1, m2}
  Part = {a1, a2}
  p1 = a1
  p2 = a2
  MaxGeneration = 2
  GenerationListing <- MCListing
  Indexes <- MCIndexes
  ReaderDeployments <- MCReading
  JoinFile = {1, 2}
  JoinKey = {1, 2, 3}
  KeyPartition <- MCKeyPartition
  Named <- MCNamed
  Definition = {"a", "b"}
  LeftContents <- MCLeftContents
  RightContents <- MCRightContents
  PartSize = 1
  BatchRows = 1
  MaxJoinChanges = 2
  FirstSides <- MCFirstSides
  FailsIn = {"index", "manifest", "join", "metadata"}
  MayReturn = FALSE
  Expression = {"x", "y"}
  Path = {1, 2}
  Column = {"a", "b"}
  Needs <- MCNeeds
  MaxFactChanges = 2
  FirstNeeds <- MCFirstNeeds
  FirstColumns <- MCFirstColumns
  None = None
SPECIFICATION StoresSpec
SYMMETRY Symmetry
INVARIANTS
  TypeOK
  PublishedIsWhole
  RetryReproduces
  ReadsTellTruth
  JoinIsExact
  StatusTellsTruth
PROPERTIES
  LatestNeverGoesBack
  ImplementsRemoteDataset
CHECK_DEADLOCK FALSE
