SPECIFICATION Spec
CONSTANTS
  Script <- LimitScript
  MailboxSize = 2
  MaxAnonymous = 1
  TimeoutLimit = 1
  Supervised = FALSE
  Nil = Nil
INVARIANTS
  PausedAtLimit
CHECK_DEADLOCK FALSE
