CONSTANTS
  States = {L1}
  MaxIncarnations = 1
  Requests = {r1, r2}
  MaxBytes = 3
SPECIFICATION FairSpec
INVARIANTS
  TypeOK
  ItemOwnedOnce
  OvertakenOnlyOnce
PROPERTIES
  ProgressGrows
  ImplementsCallbacks
  EveryRequestEnds
