SPECIFICATION RoutingSpec
CONSTANTS
  Texts <- MCTexts
  BasePaths <- MCBasePaths
INVARIANT
  ReachesItsEndpoint
CHECK_DEADLOCK FALSE
