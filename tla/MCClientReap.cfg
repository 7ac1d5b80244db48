CONSTANTS
  Namespaces = {}
  Attempts = 2
  MaxConnects = 1
  MaxEngines = 3
  Quirks = {"close_frame"}
  ListenersClose = {}
SPECIFICATION Spec
CHECK_DEADLOCK FALSE
INVARIANT ReapIsSafe
