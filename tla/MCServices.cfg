SPECIFICATION FairServicesSpec
CONSTANTS
  c1 = c1
  c2 = c2
  c3 = c3
  d1 = d1
  d2 = d2
  Handlers = {core, host}
  Admins = {admin}
  Clients = {c1, c2, c3}
  Owner <- MCOwner
  Kinds <- MCKinds
  Devices = {d1, d2}
  NoDevice = NoDevice
  Trusted = {d1}
  Targets = {d2}
  Ttls = {2}
  MinTtl = 1
  MaxTtl = 1
  MaxTime = 1
  MaxCalls = 3
  MaxFaults = 1
CHECK_DEADLOCK FALSE
INVARIANTS
  ServicesTypeOK
  AckedIsApplied
  RevokedByOperators
  ScanShowsLive
  EpochsUnique
PROPERTIES
  CommandEnds
