CONSTANTS
  MaxSends = 1
  CallbacksClose = FALSE
  CallbacksThrow = FALSE
SPECIFICATION FairSpec
CHECK_DEADLOCK FALSE
PROPERTY SyncCloseReturns
