CONSTANTS
  Scripts <- MCScripts
  Rooms <- MCRooms
SPECIFICATION FairSpec
CHECK_DEADLOCK FALSE
INVARIANTS
  TypeOK
  NothingLostNothingAdded
  Classified
PROPERTIES
  FirstBytesArrive
  ClosedClientEndsTask
