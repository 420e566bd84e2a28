CONSTANTS
  n1 = n1
  n2 = n2
  v6 = v6
  Buffer = 1
  StopTimeSet = TRUE
  IPv4 <- IPv4Prefixes
  IPv6 <- IPv6Prefixes
  Contents <- SomeContents
  MaxMessages = 0
  MaxRestarts = 0
SPECIFICATION Spec
PROPERTIES EndedAtStopTime
CHECK_DEADLOCK FALSE
