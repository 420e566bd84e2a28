CONSTANTS
  as1 = as1
  as2 = as2
  AS <- TwoASes
  Live = TRUE
  MainEnds = FALSE
  FilesMayFail = FALSE
  MaxConflicts = 1
  MaxTicks = 1
  MaxSignals = 0
SPECIFICATION Spec
SYMMETRY Symmetry
INVARIANTS NoConflictLost
CHECK_DEADLOCK FALSE
