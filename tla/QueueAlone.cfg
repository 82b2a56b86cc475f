SPECIFICATION FairSpec
CONSTANTS
  t1 = t1
  t2 = t2
  Tab <- OneTab
  Mutations = 2
  Creates <- FirstCreates
  Refers <- SecondRefers
  BatchSize = 1
  MaxRetries = 2
  MaxFaults = 2
  MaxCalls = 2
INVARIANTS TypeOK DependenciesFirst
PROPERTY RequestsAreServed
CHECK_DEADLOCK FALSE
