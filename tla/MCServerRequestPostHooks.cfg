\* Further reproduction: a Post* hook stops at the first plugin error, so
\* later plugins implementing it are not called.
CONSTANTS
    MaxReqs = 0
    MaxRegs = 0
    Paths <- MCPaths
    Names <- MCNames
    Plugins <- MCPlugins
    Implements <- MCImplements
    MaxPlugins = 2
SPECIFICATION Spec
INVARIANT PostHooksReachAll
