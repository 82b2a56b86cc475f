SPECIFICATION Spec
CONSTANTS
  w1 = w1
  w2 = w2
  r1 = r1
  r2 = r2
  r3 = r3
  Worker <- OneWorker
  NoWorker = NoWorker
  Run <- ThreeRuns
  NoRun = NoRun
  MaxAttempts = 1
  PipelineFailures <- BothFailures
  MaxFaults = 0
  MaxLapses = 0
  MaxCancels = 1
SYMMETRY Symmetry
INVARIANTS RetryLineage
CHECK_DEADLOCK FALSE
