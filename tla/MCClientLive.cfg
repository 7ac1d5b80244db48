\* An orderly application on an orderly network, fallbacks and reconnections included.
CONSTANTS
  Namespaces = {}
  Attempts = 2
  MaxConnects = 1
  MaxEngines = 4
  Quirks = {}
  ListenersClose = {"on_close"}
SPECIFICATION FairSpec
CHECK_DEADLOCK FALSE
INVARIANTS
  TypeOK
  ReapIsSafe
PROPERTIES
  HealthyKept
  Recovers
  SyncCloseReturns
