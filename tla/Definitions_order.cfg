\* Authors who write the operations of a curated asset in any order of kinds.
CONSTANTS
  Run = {r1, r2, r3}
  Part = {p1}
  Definition = {d1, d2}
  MaxVersion = 2
  Exclusive = TRUE
  Absent = Absent
  Liberties = {"order"}
SPECIFICATION DefinitionsSpec
INVARIANTS
  WrittenIsMeant
CHECK_DEADLOCK FALSE
