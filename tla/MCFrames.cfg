CONSTANTS
  IntMax = 2147483647
  Sockets = {"/chat"}
  Event = "news"
  Messages <- MCMessages
  Emissions <- MCEmissions
  Reply <- MCReply
  Encode <- parser_encode
  Decode <- parser_decode
  Carry <- carry
  MaxConnections = 2
  MaxTraffic = 2
  MaxBody = 3
SPECIFICATION Spec
CHECK_DEADLOCK FALSE
INVARIANTS
  TypeOK
  DeliveredIntact
  NothingSwallowed
  AckOnce
  ServerUnderstands
