\* Two concurrent callers over two endpoints, Retries = 1, in each of the
\* three fail modes; connections may be lost at any time and dials fail.
\* Close on a dead client returns ErrShutdown here (CloseIsFatal = FALSE),
\* so that the retry loop is explored past the first eviction.
CONSTANTS
    p1 = p1
    p2 = p2
    e1 = e1
    e2 = e2
    Callers <- MCCallers
    Endpoints <- MCEndpointsTwo
    FailModes = {"Failfast", "Failtry", "Failover"}
    Retries = 1
    MaxDials = 3
    CloseIsFatal = FALSE
    Threshold = 1
    ConnPluginCanFail = TRUE
SYMMETRY MCSymmetry
SPECIFICATION Spec
INVARIANT TypeOK
INVARIANT AttemptsBounded
INVARIANT EvictOnlyOnUncoveredError
INVARIANT CacheHoldsNoClosedClient
INVARIANT DialsPastOpenBreakerBounded
