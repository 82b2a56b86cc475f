SPECIFICATION FairSpec
CONSTANTS
  MaxSockets = 2
  MaxSeq = 3
  MaxCalls = 3
  MaxFaults = 2
INVARIANTS TypeOK NoSilentLoss NotStranded
PROPERTY StaleReadyEnds
CHECK_DEADLOCK FALSE
