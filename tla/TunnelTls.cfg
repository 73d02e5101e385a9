CONSTANTS
  Scripts <- MCScripts
  Rooms <- MCRooms
SPECIFICATION Spec
CHECK_DEADLOCK FALSE
INVARIANT
  TlsIsIntercepted
