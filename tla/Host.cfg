CONSTANTS
  Indexes <- MCIndexes
  BundleLists <- MCBundleLists
  AssetNames = {"x", "y"}
  Languages = {0, 1}
  ChunkSize = 2
  StoreSize = 4
  Graphs <- MCGraphs
  Fonts <- MCFonts
  TextCells = 9
  MaxRecodes = 3
  ViewDepth = 4
  Sessions <- MCSessions
  StartOptions <- MCStart
  WordSize = 4
  BufferLength = 7
  MaxSends = 1
  DllKinds = {"IPHLPAPI", "WSOCK32"}
  Versions <- MCVersions
  MaxUpdates = 3
  Images <- MCImages
  Signatures <- MCSignatures
  AssetPattern <- MCAsset
  Excluded = 2
  TargetCount = 2
  MaxStarts = 3
  MaxValues = 2
  MaxGame = 3
  MaxAsked = 2
  MaxHostCalls = 4
  HostStates = {L1, L2}
  PluginFiles = {"p", "q", "bad"}
  BadPlugins = {"bad"}
  WrenThread = "wren"
  NoState = NoState
  HashPaths <- MCHashPaths
  Versioning = {".git", ".hg"}
  MaxHashes = 2
  MaxChanges = 1
SPECIFICATION Spec
INVARIANTS
  TypeOK
  DatabaseAgrees
  RecodingKeeps
  MessagesInOrder
  NothingWorkingLost
  AddressesMatch
  StackAndRefsKept
  PluginsSetUpOnce
  HashesAgree
CHECK_DEADLOCK FALSE
