CONSTANTS
  W = 2
  p1 = p1
  p2 = p2
  as1 = as1
  as2 = as2
  NoRoute = NoRoute
  Peers <- TwoPeers
  Origins <- TwoOrigins
  Subnets <- TwoLevels
  SpecialPrefixes <- NoPrefixes
  FindConflictsInRib = TRUE
  StopTimeSet = FALSE
SPECIFICATION Spec
SYMMETRY Symmetry
PROPERTIES NoRepeatedReport
CHECK_DEADLOCK FALSE
