\* A run keeps the dataset and renews its metadata, then publishes again.
CONSTANTS
  Publisher = {p1}
  Contents = {c1}
  MaxCommits = 2
  Deployments <- MCRerun
  CommitsApart = TRUE
  Retain = 1
  None = None
SPECIFICATION Spec
SYMMETRY Symmetry
INVARIANTS
  RetryReproduces
CHECK_DEADLOCK FALSE
