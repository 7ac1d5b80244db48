CONSTANTS
  MaxHandshakes = 1
  MaxSends = 1
  MaxTraffic = 2
SPECIFICATION FairSpec
CHECK_DEADLOCK FALSE
PROPERTY TimeoutReported
