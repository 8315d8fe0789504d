SPECIFICATION Spec
CONSTANTS
  Actors <- Family
  Parent <- FamilyParent
  Script <- FamilyScript
  MailboxSize = 1
  TimeoutLimit = 1
  Nil = "nil"
INVARIANTS
  TypeOK
  CleanDeathHandled
  DrainedBeforeExit
  NoDeafChild
  CallersNotForgotten
CHECK_DEADLOCK FALSE
