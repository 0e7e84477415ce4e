\* The request pipeline of one connection, two requests, racing two
\* registration calls of the user.
CONSTANTS
    MaxReqs = 2
    MaxRegs = 2
    Paths <- MCPaths
    Names <- MCNames
    Plugins <- MCPlugins
    Implements <- MCImplements
    MaxPlugins = 2
SPECIFICATION Spec
INVARIANT TypeOK
INVARIANT AuthGate
INVARIANT OnewayNeverAnswered
INVARIANT NoEmptyService
INVARIANT HooksStopAtFirstError
PROPERTY EveryRequestAnswered
