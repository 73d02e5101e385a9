CONSTANTS
  c1 = c1
  c2 = c2
  c3 = c3
  Conns <- MCConns3
  MaxStarts = 2
SPECIFICATION FairSpec
CHECK_DEADLOCK FALSE
INVARIANTS
  TypeOK
  TakenUpIsAnswered
  SysproxyOffAfterCleanEnd
PROPERTY
  ShutdownEnds
