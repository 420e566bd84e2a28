CONSTANTS
  as1 = as1
  as2 = as2
  AS <- TwoASes
  Live = TRUE
  MainEnds = TRUE
  FilesMayFail = TRUE
  MaxConflicts = 2
  MaxTicks = 2
  MaxSignals = 1
SPECIFICATION Spec
SYMMETRY Symmetry
INVARIANTS TypeOK MutualExclusion CountedInOneInterval RelatedAtMostTotal EveryConflictCountedTwice
CHECK_DEADLOCK FALSE
