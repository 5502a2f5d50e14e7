\* Runs of a dataset one after another, each may die anywhere; runs of a calculated fact that
\* overlap, die and are retried, or that follow one another, at any pace, under changing contracts;
\* three runs of a probe, two of them at once, over files that change.
CONSTANTS
  Run = {r1, r2, r3}
  Part = {p1, p2}
  Definition = {d1}
  MaxVersion = 2
  Exclusive = TRUE
  Absent = Absent
  Segment = {s1, s2}
  Contract = {c1, c2}
  s1 = s1
  s2 = s2
  c1 = c1
  c2 = c2
  Deployments <- MCDeployments
  UpstreamStable = TRUE
  File = {1, 2}
  KeysOf <- MCKeysOf
  MaxChanges = 2
  MaxAtWork = 2
  SoundLock = TRUE
  None = None
SPECIFICATION RunsSpec
SYMMETRY Symmetry
INVARIANTS
  OutputIsWhole
  CleanAfterCommit
  CommittedStays
  ProbeTellsTruth
PROPERTIES
  ImplementsAtomicDataset
  RecordsWhatItRead
  ImplementsAppendLog
CHECK_DEADLOCK FALSE
