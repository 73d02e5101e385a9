CONSTANTS
  NONE = NONE
  RuleList <- MCRules
  RequestUris <- MCRequestUris
  ConnectUris <- MCConnectUris
  TunnelPaths <- MCTunnelPaths
SPECIFICATION Spec
CHECK_DEADLOCK FALSE
INVARIANTS
  TypeOK
  AskedIsRouted
  HostNamesUpstream
  PathAsDocumented
