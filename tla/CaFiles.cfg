CONSTANTS
  NONE = NONE
  MISSING = MISSING
  UNREADABLE = UNREADABLE
  ERROR = ERROR
  OLD = OLD
  TORN = TORN
  g1 = g1
  g2 = g2
  Gens = {g1, g2}
  BadPatterns = {"["}
  CacheSizes <- MCCacheSizes
  RuleLists <- MCRuleLists
  ConfigSources <- MCConfigSources
  SystemStore <- MCSystemStore
SYMMETRY GenSymmetry
SPECIFICATION Spec
INVARIANTS
  TypeOK
  ServedPairBelongs
  ApartHasAReason
  UnaskedHasAReason
  ConfigFollowsPrecedence
  AcceptedRulesRun
CHECK_DEADLOCK FALSE
