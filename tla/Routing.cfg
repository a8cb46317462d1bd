SPECIFICATION Spec
CONSTANTS
    RouteConfigs <- MCRouteConfigs
    MaxRoutes = 3
    Methods <- MCMethods
    Paths <- MCPaths
    Upper <- MCUpper
    Regex <- MCRegex
    MaxSize = 3
INVARIANTS
    MatchIsBest
    BodyWholeOrRefused
    ChainByOrder
