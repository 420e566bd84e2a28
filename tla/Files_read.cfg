CONSTANTS
  a = a
  b = b
  c = c
  v6 = v6
  Undecodable = Undecodable
  Panic = Panic
  NoFile = NoFile
  NoRoute = NoRoute
  Octets = 2
  OctetBits = 2
  IdCount = 4
  MaxHandled = 1
  StopTimeSet = TRUE
  IPs <- TheIPs
  PeerASes <- TheASes
  ASes <- TheASes
  IPv4 <- SomeIPv4
  IPv6 <- SomeIPv6
  Directories <- SomeDirectories
  RibFlags <- SomeRibFlags
  RisMessages <- SomeRisMessages
SPECIFICATION Spec
INVARIANTS TypeOK DistinctIDs IndexIsId NoGhostRoute RoutesAsSaid NoInventedRoute FollowingFilesRead OverlapIsShared
PROPERTIES ImplementsSessions FilesEnd
CHECK_DEADLOCK FALSE
