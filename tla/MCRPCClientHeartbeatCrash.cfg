\* One caller and one heartbeat tick, no user Close: the heartbeat reacts to
\* a server disconnect by closing a client the read loop already shut down.
CONSTANTS
    c1 = c1
    c2 = c2
    h1 = h1
    h2 = h2
    Callers <- MCCallersOne
    DeadlineCallers = {}
    HeartbeatCalls <- MCHeartbeatOne
    MaxClose = 0
SPECIFICATION Spec
INVARIANT NoFatalUnlock
