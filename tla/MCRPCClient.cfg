\* The client session with two callers (c2 with a ctx deadline), one
\* heartbeat tick and one user Close, against a server that answers in any
\* order and may disconnect.
CONSTANTS
    c1 = c1
    c2 = c2
    h1 = h1
    h2 = h2
    Callers <- MCCallersTwo
    DeadlineCallers <- MCDeadlineOne
    HeartbeatCalls <- MCHeartbeatOne
    MaxClose = 1
SPECIFICATION Spec
INVARIANT TypeOK
PROPERTY CallSessionRefined
