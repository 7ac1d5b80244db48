CONSTANTS
  MaxSends = 3
  CallbacksClose = TRUE
  CallbacksThrow = TRUE
SPECIFICATION FairSpec
CHECK_DEADLOCK FALSE
INVARIANTS
  TypeOK
  PostsInOrder
  SyncCloseStopsTransport
PROPERTIES
  AcceptedLeaves
  CloseReported
