SPECIFICATION FairSpec
CONSTANTS
  Inputs = {"api", "admin"}
  Conns = {"client"}
  Of <- OneInput
  Failing = {"client"}
  MaxChunks <- OneChunks
  TimeoutLimit = 1
INVARIANTS
  TypeOK
  SocketsClosedFirst
  WriterOutlivesRequest
  ConnectionInv
  ExitAfterInputs
PROPERTIES
  ConnectionCleanup
  WorldExits
CHECK_DEADLOCK FALSE
