\* Further reproduction: RegisterFunction on the path of a registered
\* receiver writes into its nil function map and panics.
CONSTANTS
    MaxReqs = 0
    MaxRegs = 2
    Paths <- MCPaths
    Names <- MCNames
    Plugins <- MCPlugins
    Implements <- MCImplements
    MaxPlugins = 2
SPECIFICATION Spec
INVARIANT NoRegistrationPanic
