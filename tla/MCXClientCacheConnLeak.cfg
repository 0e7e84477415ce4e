\* One caller, one endpoint: Connect dials, and a ConnCreated plugin
\* rejects the connection.
CONSTANTS
    p1 = p1
    p2 = p2
    e1 = e1
    e2 = e2
    Callers <- MCCallersOne
    Endpoints <- MCEndpointsOne
    FailModes = {"Failfast", "Failtry", "Failover"}
    Retries = 1
    MaxDials = 2
    CloseIsFatal = FALSE
    Threshold = 2
    ConnPluginCanFail = TRUE
SPECIFICATION Spec
INVARIANT NoOrphanConnection
