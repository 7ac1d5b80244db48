\* Every event of the environment: what holds however the calls interleave.
CONSTANTS
  Namespaces = {"/"}
  Attempts = 1
  MaxConnects = 2
  MaxEngines = 2
  Quirks = {"close_frame", "late_write", "connect_again"}
  ListenersClose = {"on_disconnect", "on_close"}
SPECIFICATION Spec
CHECK_DEADLOCK FALSE
INVARIANTS
  SelectedOrRejected
  OneWorker
  WorkersJoined
  NamespacesAnnounced
