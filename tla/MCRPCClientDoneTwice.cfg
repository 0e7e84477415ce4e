\* One caller, no heartbeat, one user Close: a server disconnect followed by
\* a later Close or write on the same client.
CONSTANTS
    c1 = c1
    c2 = c2
    h1 = h1
    h2 = h2
    Callers <- MCCallersOne
    DeadlineCallers = {}
    HeartbeatCalls = {}
    MaxClose = 1
SPECIFICATION Spec
INVARIANT CallDoneOnce
