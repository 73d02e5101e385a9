CONSTANTS
  NONE = NONE
  t1 = t1
  t2 = t2
  t3 = t3
  backend1 = backend1
  backend2 = backend2
  Tasks <- MCTasks2
  Uris <- MCUris3
  Rules <- MCRules3
  InitialPatterns <- MCNoPatterns
  CacheSize = 1
  MaxPatterns = 2
SPECIFICATION FairSpec
INVARIANTS
  TypeOK
  LockDiscipline
  StaleOnlyBehindExactRule
  NothingFromBeforeTheClear
  HeldResultsAreCurrent
  LookupsAgree
  EveryRouteHasARule
PROPERTIES
  ImplementsRouteTable
  RequestsEnd
