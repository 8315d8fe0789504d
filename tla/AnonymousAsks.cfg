SPECIFICATION FairSpec
CONSTANTS
  Script <- AskScript
  MailboxSize = 1
  MaxAnonymous = 1
  TimeoutLimit = 1
  Supervised = TRUE
  Nil = Nil
INVARIANTS
  AnsweredUnlessStopping
PROPERTIES
  AskEnds
ACTION_CONSTRAINT FewCalls
CHECK_DEADLOCK FALSE
