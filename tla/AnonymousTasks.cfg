SPECIFICATION Spec
CONSTANTS
  Script <- TaskScript
  MailboxSize = 2
  MaxAnonymous = 2
  TimeoutLimit = 1
  Supervised = FALSE
  Nil = Nil
INVARIANTS
  TypeOK
  ResultsReachActor
  TasksEndFirst
  AnsweredUnlessStopping
CHECK_DEADLOCK FALSE
