\* One emitter, two delivering threads, a shutdown: all safety properties.
CONSTANTS
  Apps = {a1}
  IoThreads = {t1, t2}
  Worker = worker
  Closer = closer
  MaxIds = 2
  MaxEmits = 2
  MaxTime = 2
  Timeouts = {1, 2}
  SendMayThrow = FALSE
SPECIFICATION Spec
SYMMETRY Symmetry
INVARIANTS
  TypeOK
  NeverOrphaned
  NeverOversleeps
  CallbackAtMostOnce
  BufferedIsPending
  OneFlusher
  NothingStranded
  InOrder
  QuietAfterSyncClose
PROPERTY KeepsPromise
