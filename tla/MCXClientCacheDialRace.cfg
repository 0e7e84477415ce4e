\* Two callers, one endpoint, Failfast: concurrent first calls with an
\* empty cache.
CONSTANTS
    p1 = p1
    p2 = p2
    e1 = e1
    e2 = e2
    Callers <- MCCallers
    Endpoints <- MCEndpointsOne
    FailModes = {"Failfast"}
    Retries = 0
    MaxDials = 2
    CloseIsFatal = TRUE
    Threshold = 1
    ConnPluginCanFail = FALSE
SPECIFICATION Spec
INVARIANT OneOpenClientPerEndpoint
