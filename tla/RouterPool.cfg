SPECIFICATION FairSpec
CONSTANTS
  MaxActors = 2
  MaxRetry = 1
  Script <- PoolScript
  OwnOps = {"Stop", "Panic"}
  MailboxSize = 2
  TimeoutLimit = 1
  Nil = Nil
INVARIANTS
  TypeOK
  CrashExplained
  FairShare
  PoolEmptyAtEnd
PROPERTIES
  CallEnds
  PoolEnds
ACTION_CONSTRAINT FewCalls
CHECK_DEADLOCK FALSE
