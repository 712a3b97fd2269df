SPECIFICATION FairPairSpec
CONSTANTS
  Shells = {sh}
  PairDaemons = {}
  Authors = {au}
  Adopters = {ad}
  Devices = {d1, d2}
  Drives = {d2}
  Named = {d1}
  NoFile = NoFile
  NoDevice = NoDevice
  Ttls = {2}
  DefaultTtl = 1
  MaxTtl = 1
  MaxTime = 1
  MaxTokens = 2
  MaxCalls = 2
  MaxFaults = 1
CHECK_DEADLOCK FALSE
INVARIANTS
  PairTypeOK
  RedeemedOnce
  LedgerEarned
  PairedIsRecorded
PROPERTIES
  RefusedForCause
  FlashEnds
