CONSTANTS
  W = 2
  p1 = p1
  p2 = p2
  p3 = p3
  as1 = as1
  as2 = as2
  NoRoute = NoRoute
  Peers <- ThreePeers
  Origins <- TwoOrigins
  Subnets <- WalkSubnets
  SpecialPrefixes <- WalkPrefixes
  FindConflictsInRib = FALSE
  StopTimeSet = FALSE
SPECIFICATION Spec
SYMMETRY Symmetry
VIEW TrieOnly
INVARIANTS LoopAgrees DescentAgrees WalkAgrees
CHECK_DEADLOCK FALSE
