SPECIFICATION Spec
CONSTANTS
  Actors <- Pair
  Parent <- PairParent
  Script <- PanicScript
  MailboxSize = 2
  TimeoutLimit = 1
  Nil = "nil"
INVARIANTS
  DeadActorHandled
CHECK_DEADLOCK FALSE
