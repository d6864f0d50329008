CONSTANTS
  Threads = {t1, t2}
  Assets = {a1}
  Free = Free
  MaxLoads = 1
  MaxScripts = 0
  MaxWrites = 0
SPECIFICATION Spec
INVARIANTS
  HooksApply
CHECK_DEADLOCK FALSE
