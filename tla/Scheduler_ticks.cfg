\* Overlapping ticks of two schedules that die and come back.
CONSTANTS
  Tick = {t1, t2}
  Count = 2
  MaxTargets = 3
  MaxTime = 4
  Window = 1
  Plans <- MCPlans
  None = None
SPECIFICATION Spec
SYMMETRY Symmetry
INVARIANTS
  TypeOK
  RunsOnce
  LiveRowRuns
  RowTellsTargets
  CaughtUp
PROPERTIES
  RowsEndOnce
CHECK_DEADLOCK FALSE
