CONSTANTS
  MaxHandshakes = 2
  MaxSends = 2
  MaxTraffic = 3
SPECIFICATION FairSpec
CHECK_DEADLOCK FALSE
INVARIANTS
  TypeOK
  WritesInOrder
  OneHeartbeat
  Watched
  PromptStop
  SyncCloseStopsSession
PROPERTIES
  SyncCloseReturns
  SilenceNoticed
