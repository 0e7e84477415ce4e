\* Fork over three endpoints whose calls may all fail.
CONSTANTS
    e1 = e1
    e2 = e2
    e3 = e3
    Endpoints <- MCEndpoints
    Outcomes = {"ok", "svcErr", "ctx", "transport"}
SPECIFICATION Spec
INVARIANT ForkNilMeansSuccess
