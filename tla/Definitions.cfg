\* Runs one after another, each may die anywhere, of a dataset whose definition is edited
\* meanwhile; curated and calculated assets as authors define them.
CONSTANTS
  Run = {r1, r2, r3}
  Part = {p1}
  Definition = {d1, d2}
  MaxVersion = 2
  Exclusive = TRUE
  Absent = Absent
  Liberties = {}
SPECIFICATION DefinitionsSpec
SYMMETRY Symmetry
INVARIANTS
  TypeOK
  MetadataTellsTruth
  PayloadIsExact
  TasksAreWhole
  FactIsExact
  RegistryTellsTruth
PROPERTIES
  SkipIsSound
CHECK_DEADLOCK FALSE
