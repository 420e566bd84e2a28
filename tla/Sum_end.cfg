CONSTANTS
  as1 = as1
  as2 = as2
  AS <- TwoASes
  Live = TRUE
  MainEnds = TRUE
  FilesMayFail = FALSE
  MaxConflicts = 1
  MaxTicks = 1
  MaxSignals = 1
SPECIFICATION Spec
INVARIANTS AllOriginsWritten FinalFileComplete
PROPERTIES SignalEnds ConflictsCounted
CHECK_DEADLOCK FALSE
