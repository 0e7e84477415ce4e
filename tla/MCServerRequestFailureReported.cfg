\* A request whose service method returns an error is answered Normal.
CONSTANTS
    MaxReqs = 1
    MaxRegs = 1
    Paths <- MCPaths
    Names <- MCNames
    Plugins <- MCPlugins
    Implements <- MCImplements
    MaxPlugins = 2
SPECIFICATION Spec
INVARIANT FailureReported
