\* Failbackup over two endpoints: every outcome of both Go calls, every
\* reply, and the caller's cancellation at any point.
CONSTANTS
    e1 = e1
    e2 = e2
    NoEndpoint = NoEndpoint
    Endpoints <- MCEndpoints
SPECIFICATION Spec
INVARIANT TypeOK
INVARIANT ErrorIsPrimaryOrReceived
PROPERTY FailbackupReturns
