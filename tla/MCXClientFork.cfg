\* Fork over three endpoints, any of which may lack a client, with every
\* outcome of wrapCall; the timer may fire at any time.
CONSTANTS
    e1 = e1
    e2 = e2
    e3 = e3
    Endpoints <- MCEndpoints
    Outcomes = {"ok", "svcErr", "ctx", "transport"}
SPECIFICATION Spec
INVARIANT TypeOK
INVARIANT ForkErrorOnlyOnFailure
PROPERTY ForkAllFinish
