SPECIFICATION LobbySpec
CONSTANTS
  m1 = m1
  m2 = m2
  s1 = s1
  s2 = s2
  s3 = s3
  p1 = p1
  p2 = p2
  p3 = p3
  Hosts = {h1}
  Members = {m1, m2}
  NoHost = NoHost
  Sessions = {s1, s2, s3}
  Home <- Homes
  Paths = {p1, p2, p3}
  Session <- Ends
  NoPath = NoPath
  Caps = {1, 2}
  MaxKeys = 2
  MaxPosts = 2
  MaxCalls = 3
CHECK_DEADLOCK FALSE
INVARIANTS
  LobbyTypeOK
  OnlyAdmittedHear
  PostedIsHeard
  RelaysConserved
PROPERTIES
  RoomSpec
