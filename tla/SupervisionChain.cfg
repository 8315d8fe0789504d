SPECIFICATION FairSpec
CONSTANTS
  Actors <- Chain
  Parent <- ChainParent
  Script <- ChainScript
  MailboxSize = 2
  TimeoutLimit = 1
  Nil = "nil"
INVARIANTS
  ChildrenDieFirst
  CleanDeathDelivered
  SupervisionInv
PROPERTIES
  TreeSpec
  AwaitEnds
  ShutdownEnds
CHECK_DEADLOCK FALSE
