\* Two GET routes, registered at any moment, requests with GET and with a method
\* that has no table, one middleware and a static directory.
SPECIFICATION Spec
CONSTANTS
    Methods = {"GET", "HEAD"}
    Patterns <- RoutePatterns
    Targets <- RequestTargets
    Files <- StaticFiles
    MaxRoutes = 2
    MaxMiddlewares = 1
INVARIANTS
    TypeOK
    WildcardsMean
    ParamsRight
    KeepAsAsked
PROPERTIES
    IsRouteTable
