\* One caller, one endpoint, Failfast: a call that fails on the transport.
CONSTANTS
    p1 = p1
    p2 = p2
    e1 = e1
    e2 = e2
    Callers = {p1}
    Endpoints <- MCEndpointsOne
    FailModes = {"Failfast"}
    Retries = 0
    MaxDials = 1
    CloseIsFatal = TRUE
    Threshold = 1
    ConnPluginCanFail = FALSE
SPECIFICATION Spec
INVARIANT NoFatalUnlock
