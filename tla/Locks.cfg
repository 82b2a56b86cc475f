SPECIFICATION FairSpec
CONSTANTS
  q1 = q1
  q2 = q2
  q3 = q3
  q4 = q4
  t1 = t1
  t2 = t2
  Query <- FourQueries
  Table <- TwoTables
  Request <- FewerRequests
INVARIANTS TypeOK Consistent WritersExclude EntriesCountHolders NoLostWakeup NoCircularWait
PROPERTY EveryoneIsServed
CHECK_DEADLOCK FALSE
