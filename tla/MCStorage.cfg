SPECIFICATION StorageSpec
CONSTANTS
  Cores = {c1, c2}
  Procs = {p1, p2}
  Ids = {owner, stranger}
  Owner = owner
  NumChunks = 4
  ChunkSize <- MCChunkSize
  MaxBatch = 2
  NoProc = NoProc
  NoCore = NoCore
  NoAcl = NoAcl
  Torn = Torn
  MaxCommands = 3
  MaxEncryptions = 2
  MaxCrashes = 1
  MaxRevocations = 1
SYMMETRY Alike
CHECK_DEADLOCK FALSE
INVARIANTS
  StorageTypeOK
  PullExact
  AckedStaysStored
  PromisedPullSucceeds
  OnlyUploadersRestore
PROPERTIES
  RevokedShutOut
