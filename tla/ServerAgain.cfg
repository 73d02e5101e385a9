CONSTANTS
  c1 = c1
  c2 = c2
  c3 = c3
  Conns <- MCConns1
  MaxStarts = 1
SPECIFICATION FairSpec
CHECK_DEADLOCK FALSE
PROPERTY
  AgainStopsIt
