SPECIFICATION Spec
CONSTANTS
    RouteConfigs <- MCRouteConfigs
    MaxRoutes = 1
    Methods <- MCMethods
    Paths <- MCPaths
    Upper <- MCUpper
    Regex <- MCRegex
    MaxSize = 3
INVARIANT
    BodyAtLimitAccepted
