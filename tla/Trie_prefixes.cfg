CONSTANTS
  W = 3
  p1 = p1
  p2 = p2
  as1 = as1
  as2 = as2
  NoRoute = NoRoute
  Peers <- TwoPeers
  Origins <- TwoOrigins
  Subnets <- MonitoredSubnets
  SpecialPrefixes <- DisjointPrefixes
  FindConflictsInRib = FALSE
  StopTimeSet = TRUE
SPECIFICATION Spec
SYMMETRY Symmetry
INVARIANTS TypeOK OneAnnouncementPerPeer NoMissedConflict NoFalseAlert EveryAlertGiven
PROPERTIES ImplementsAdjRib
CHECK_DEADLOCK FALSE
