CONSTANTS
  W = 3
  p1 = p1
  p2 = p2
  as1 = as1
  as2 = as2
  NoRoute = NoRoute
  Peers <- TwoPeers
  Origins <- TwoOrigins
  Subnets <- MonitoredSubnets
  SpecialPrefixes <- NestedPrefixes
  FindConflictsInRib = FALSE
  StopTimeSet = FALSE
SPECIFICATION Spec
SYMMETRY Symmetry
INVARIANTS EveryAlertGiven
CHECK_DEADLOCK FALSE
