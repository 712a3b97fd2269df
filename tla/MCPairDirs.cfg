SPECIFICATION PairSpec
CONSTANTS
  Shells = {}
  PairDaemons = {pd}
  Authors = {}
  Adopters = {}
  Devices = {d1}
  Drives = {}
  Named = {}
  NoFile = NoFile
  NoDevice = NoDevice
  Ttls = {1}
  DefaultTtl = 1
  MaxTtl = 1
  MaxTime = 1
  MaxTokens = 1
  MaxCalls = 1
  MaxFaults = 0
CHECK_DEADLOCK FALSE
PROPERTIES
  RefusedForCause
