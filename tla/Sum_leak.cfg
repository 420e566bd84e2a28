CONSTANTS
  as1 = as1
  as2 = as2
  AS <- TwoASes
  Live = TRUE
  MainEnds = FALSE
  FilesMayFail = TRUE
  MaxConflicts = 1
  MaxTicks = 1
  MaxSignals = 1
SPECIFICATION Spec
PROPERTIES SignalEnds
CHECK_DEADLOCK FALSE
