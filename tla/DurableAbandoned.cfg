SPECIFICATION Spec
CONSTANTS
  w1 = w1
  w2 = w2
  r1 = r1
  r2 = r2
  r3 = r3
  Worker <- TwoWorkers
  NoWorker = NoWorker
  Run <- OneRun
  NoRun = NoRun
  MaxAttempts = 1
  PipelineFailures <- BothFailures
  MaxFaults = 1
  MaxLapses = 0
  MaxCancels = 0
SYMMETRY Symmetry
INVARIANTS NoAbandonedRun
CHECK_DEADLOCK FALSE
