\* Two runs find the lock of a dead one stale at the same time.
CONSTANTS
  Run = {r1, r2, r3}
  Segment = {s1}
  Contract = {c1}
  s1 = s1
  c1 = c1
  MaxVersion = 2
  Deployments <- MCOverlapping
  UpstreamStable = TRUE
  None = None
SPECIFICATION Spec
SYMMETRY Symmetry
PROPERTIES
  ImplementsAppendLog
CHECK_DEADLOCK FALSE
