CONSTANTS
  States = {L1, L2}
  MaxIncarnations = 2
  Workers = {w1, w2}
  MAX_THREADS = 2
  Backlog = 1
  MaxTasks = 2
  None = None
SPECIFICATION Spec
PROPERTIES
  ImplementsCallbacks
CHECK_DEADLOCK FALSE
