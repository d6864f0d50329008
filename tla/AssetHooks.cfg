CONSTANTS
  Threads = {t1, t2}
  Assets = {a1}
  Free = Free
  MaxLoads = 1
  MaxScripts = 2
  MaxWrites = 3
SPECIFICATION FairSpec
INVARIANTS
  TypeOK
  HookRestored
  OneSource
  StableLoads
PROPERTIES
  CrashOnlyByOverlap
  EveryLoadEnds
CHECK_DEADLOCK FALSE
