SPECIFICATION FairSpec
CONSTANTS
  Tab <- TwoTabs
  NoTab = 0
  SlowAfter = 1
  MaxTerm = 3
  MaxLate = 1
  MaxStops = 1
  MaxKills = 1
INVARIANTS TypeOK SplitBrainHeals
PROPERTIES OneLeadsAgain
CHECK_DEADLOCK FALSE
