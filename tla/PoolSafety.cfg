SPECIFICATION Spec
CONSTANTS
  q1 = q1
  q2 = q2
  q3 = q3
  q4 = q4
  w1 = w1
  w2 = w2
  t1 = t1
  t2 = t2
  NoWorker = NoWorker
  NoQuery = NoQuery
  Query <- FourQueries
  Table <- OneTable
  Request <- AnyRequest
  Worker <- TwoWorkers
  MaxQueuePerWorker = 1
  MaxActiveQueries = 3
  MaxOverflowQueueSize = 1
  Timed <- FourQueries
SYMMETRY Symmetry
INVARIANTS TypeOK StatementsExclude LocksGivenBack ActiveAwaitsAnswer CallersAreTold
CHECK_DEADLOCK FALSE
