\* Failbackup over two endpoints; FirstSuccessWins alone.
CONSTANTS
    e1 = e1
    e2 = e2
    NoEndpoint = NoEndpoint
    Endpoints <- MCEndpoints
SPECIFICATION Spec
INVARIANT FirstSuccessWins
