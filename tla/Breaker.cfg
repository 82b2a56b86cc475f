SPECIFICATION FairSpec
CONSTANTS
  p1 = p1
  p2 = p2
  c1 = c1
  c2 = c2
  c3 = c3
  Provider <- TwoProviders
  Call <- ThreeCalls
  Chain <- Chains
  Streams <- OneStreams
  Window = 5
  Threshold = 3
INVARIANTS TypeOK OneProbe ProbeAccounted
PROPERTY CooledIsTried
CHECK_DEADLOCK FALSE
