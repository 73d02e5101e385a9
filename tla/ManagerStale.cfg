CONSTANTS
  NONE = NONE
  t1 = t1
  t2 = t2
  t3 = t3
  backend1 = backend1
  backend2 = backend2
  Tasks <- MCTask1
  Uris <- MCUris2
  Rules <- MCRules
  InitialPatterns <- MCNoPatterns
  CacheSize = 2
  MaxPatterns = 2
SPECIFICATION Spec
INVARIANT
  CacheFollowsRules
