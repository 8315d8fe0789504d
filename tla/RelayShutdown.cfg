SPECIFICATION FairSpec
CONSTANTS
  Relays <- TestRelays
  Kind <- TestKind
  Script <- TestScript
  MailboxSize = 2
  TimeoutLimit = 1
  Supervised = TRUE
  Nil = "nil"
INVARIANTS
  TypeOK
  RelayInv
  RelaysEndQuietly
  TakenIsHandled
PROPERTIES
  ReferenceSpec
  AskEnds
  RelaysEnd
CHECK_DEADLOCK FALSE
