CONSTANTS
  n1 = n1
  n2 = n2
  v6 = v6
  Buffer = 2
  StopTimeSet = TRUE
  IPv4 <- IPv4Prefixes
  IPv6 <- IPv6Prefixes
  Contents <- SomeContents
  MaxMessages = 4
  MaxRestarts = 1
SPECIFICATION Spec
INVARIANTS TypeOK NothingLostAtEnd
PROPERTIES ImplementsFeed EveryMessageHandled NextMessageEnds
CHECK_DEADLOCK FALSE
