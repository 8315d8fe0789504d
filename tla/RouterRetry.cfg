SPECIFICATION Spec
CONSTANTS
  MaxActors = 1
  MaxRetry = 1
  Script <- RetryScript
  OwnOps = {}
  MailboxSize = 2
  TimeoutLimit = 1
  Nil = Nil
INVARIANTS
  ClosedWorkerReplaced
CHECK_DEADLOCK FALSE
