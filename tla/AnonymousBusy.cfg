SPECIFICATION FairSpec
CONSTANTS
  Script <- BusyScript
  MailboxSize = 1
  MaxAnonymous = 1
  TimeoutLimit = 1
  Supervised = FALSE
  Nil = Nil
PROPERTIES
  ActorContinues
CHECK_DEADLOCK FALSE
