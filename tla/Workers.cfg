\* Calls of every mode and one or two children that die; a queue of two and five batches;
\* six tasks of the engine whose process may be killed once;
\* three runs of a dataset that may be killed.
CONSTANTS
  MaxTasks = 4
  MaxWorkers = 2
  MaxDeaths = 2
  Deployments <- MCDeployments
  None = None
  Capacity = 2
  Batches = 5
  Stop = Stop
  Absent = Absent
SPECIFICATION WorkersSpec
INVARIANTS
  TypeOK
  ExactlyOnce
  WholeOrNothing
  TaskIsExact
PROPERTIES
  SuccessStays
  CallersReturn
CHECK_DEADLOCK FALSE
