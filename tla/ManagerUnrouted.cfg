CONSTANTS
  NONE = NONE
  t1 = t1
  t2 = t2
  t3 = t3
  backend1 = backend1
  backend2 = backend2
  Tasks <- MCTask1
  Uris <- MCUrisAll
  Rules <- MCRulesAll
  InitialPatterns <- MCNoPatterns
  CacheSize = 1
  MaxPatterns = 1
SPECIFICATION Spec
INVARIANT
  MatchedMeansRouted
