SPECIFICATION FairFilesSpec
CONSTANTS
  v1 = v1
  v2 = v2
  v3 = v3
  Versions = {v1, v2, v3}
  First = v1
  NumChunks <- MCNumChunks
  FileSize <- MCFileSize
  NoManifest = NoManifest
  NoState = NoState
  MaxRuns = 2
  MaxEdits = 1
  MaxLosses = 1
  MaxAlters = 1
  MaxFaults = 1
CHECK_DEADLOCK FALSE
INVARIANTS
  FilesTypeOK
  RecordedIsCached
  CompleteIsStored
PROPERTIES
  VerifiedKept
  TransferEnds
  DamagedIsResent
