\* Two runs of one asset overlap: the recovery of one meets the other alive.
CONSTANTS
  Run = {r1, r2}
  Part = {p1, p2}
  Definition = {d1}
  MaxVersion = 1
  Exclusive = FALSE
  Absent = Absent
SPECIFICATION Spec
INVARIANTS
  NoIncompleteExposure
CHECK_DEADLOCK FALSE
