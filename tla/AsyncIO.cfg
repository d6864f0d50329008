CONSTANTS
  States = {L1}
  MaxIncarnations = 1
  Workers = {w1, w2, w3}
  MAX_THREADS = 2
  Backlog = 1
  MaxTasks = 3
  None = None
SPECIFICATION FairSpec
INVARIANTS
  TypeOK
  PoolBounded
  TasksConserved
  OvertakesFew
PROPERTIES
  StrandedOnlyInExitWindow
  ServedUnlessStranded
  TakenTasksSettle
CHECK_DEADLOCK FALSE
