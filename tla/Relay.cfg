CONSTANTS
  CLOSE = CLOSE
  BAD = BAD
  NONE = NONE
  MaxSent = 2
SPECIFICATION FairSpec
CHECK_DEADLOCK FALSE
INVARIANTS
  TypeOK
  NothingLost
  NothingSkipped
  EndsAreShared
PROPERTIES
  RelayEnds
  ImplementsConversation
