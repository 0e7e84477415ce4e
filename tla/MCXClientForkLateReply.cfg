\* Fork over three endpoints, two of whose calls may succeed.
CONSTANTS
    e1 = e1
    e2 = e2
    e3 = e3
    Endpoints <- MCEndpoints
    Outcomes = {"ok", "svcErr", "ctx", "transport"}
SPECIFICATION Spec
INVARIANT NoReplyWriteAfterReturn
