CONSTANTS
  NQueues = 2
  Events = {e1, e2}
  MaxPending = 2
SPECIFICATION FairSpec
INVARIANTS
  TypeOK
PROPERTIES
  ImplementsBus
  NothingForgotten
  UpdateTerminates
