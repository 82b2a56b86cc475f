SPECIFICATION Spec
CONSTANTS
  t1 = t1
  t2 = t2
  Tab <- TwoTabs
  Mutations = 2
  Creates <- FirstCreates
  Refers <- SecondRefers
  BatchSize = 1
  MaxRetries = 2
  MaxFaults = 2
  MaxCalls = 0
SYMMETRY Symmetry
INVARIANTS AppliedOnce NothingForgotten SentResolved
CHECK_DEADLOCK FALSE
