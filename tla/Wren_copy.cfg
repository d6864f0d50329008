CONSTANTS
  MaxNodes = 3
  MaxDocs = 2
  MaxHandles = 3
  MaxUsages = 2
  Threads = {t1, t2}
  LuaThread = t1
  Files = {f1, f2}
  Binary = {f2}
  NoThread = NoThread
  NoFile = NoFile
  MaxLoads = 2
  MaxInvokes = 1
  ModuleFiles <- MCFiles
  Requests <- MCRequests
  Roots <- MCRoots
  MaxFrames = 5
  MaxCalls = 2
SPECIFICATION FairSpec
INVARIANTS
  CopyIsIntact
CHECK_DEADLOCK FALSE
