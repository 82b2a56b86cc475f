SPECIFICATION Spec
CONSTANTS
  t1 = t1
  t2 = t2
  Tab <- OneTab
  Mutations = 2
  Creates <- FirstCreates
  Refers <- SecondRefers
  BatchSize = 1
  MaxRetries = 2
  MaxFaults = 1
  MaxCalls = 1
PROPERTY GivenUpOnlyBlocked
CHECK_DEADLOCK FALSE
