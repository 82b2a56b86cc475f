SPECIFICATION FairSpec
CONSTANTS
  w1 = w1
  w2 = w2
  r1 = r1
  r2 = r2
  r3 = r3
  Worker <- TwoWorkers
  NoWorker = NoWorker
  Run <- OneRun
  NoRun = NoRun
  MaxAttempts = 2
  PipelineFailures <- BothFailures
  MaxFaults = 2
  MaxLapses = 1
  MaxCancels = 0
PROPERTIES JobSettles RunSettles
CHECK_DEADLOCK FALSE
