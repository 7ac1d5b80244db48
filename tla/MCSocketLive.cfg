CONSTANTS
  Apps = {a1}
  IoThreads = {t1, t2}
  Worker = worker
  Closer = closer
  MaxIds = 1
  MaxEmits = 2
  MaxTime = 1
  Timeouts = {1}
  SendMayThrow = TRUE
SPECIFICATION FairSpec
INVARIANT InOrder
PROPERTIES
  TimedAckResolves
  DrainsUnlessThrown
