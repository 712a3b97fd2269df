SPECIFICATION StorageSpec
CONSTANTS
  Cores = {c1, c2}
  Procs = {p1, p2}
  Ids = {owner, stranger}
  Owner = owner
  NumChunks = 2
  ChunkSize <- RepushChunkSize
  MaxBatch = 3
  NoProc = NoProc
  NoCore = NoCore
  NoAcl = NoAcl
  Torn = Torn
  MaxCommands = 3
  MaxEncryptions = 2
  MaxCrashes = 0
  MaxRevocations = 0
CHECK_DEADLOCK FALSE
INVARIANTS
  RepushSafe
