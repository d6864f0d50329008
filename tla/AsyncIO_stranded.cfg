CONSTANTS
  States = {L1}
  MaxIncarnations = 1
  Workers = {w1, w2}
  MAX_THREADS = 4
  Backlog = 5
  MaxTasks = 2
  None = None
SPECIFICATION FairSpec
PROPERTIES
  EveryTaskServed
CHECK_DEADLOCK FALSE
