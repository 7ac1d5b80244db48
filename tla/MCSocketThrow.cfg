CONSTANTS
  Apps = {a1}
  IoThreads = {t1}
  Worker = worker
  Closer = closer
  MaxIds = 1
  MaxEmits = 2
  MaxTime = 1
  Timeouts = {1}
  SendMayThrow = TRUE
SPECIFICATION FairSpec
PROPERTIES
  BufferDrains
