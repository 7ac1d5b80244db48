CONSTANTS
  Namespaces = {"/"}
  Attempts = 2
  MaxConnects = 1
  MaxEngines = 3
  Quirks = {}
  ListenersClose = {"on_disconnect"}
SPECIFICATION Spec
CHECK_DEADLOCK FALSE
INVARIANT CloseFromListeners
