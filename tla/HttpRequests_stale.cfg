CONSTANTS
  States = {L1}
  MaxIncarnations = 1
  Requests = {r1}
  MaxBytes = 2
SPECIFICATION Spec
INVARIANTS
  NoStaleUse
