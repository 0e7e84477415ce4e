\* Further reproduction: Register of a receiver on the path of a
\* registered function replaces the service and drops the function.
CONSTANTS
    MaxReqs = 0
    MaxRegs = 2
    Paths <- MCPaths
    Names <- MCNames
    Plugins <- MCPlugins
    Implements <- MCImplements
    MaxPlugins = 2
SPECIFICATION Spec
INVARIANT FunctionStaysRegistered
