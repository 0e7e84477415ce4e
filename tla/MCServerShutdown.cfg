\* Shutdown and Close, in both write modes, with an expiring ctx.
CONSTANTS
    k1 = k1
    k2 = k2
    Conns <- MCConnsTwo
    MaxReqs = 1
    AsyncWriteModes <- MCBothModes
    CtxDeadline = TRUE
    AllowClose = TRUE
    AcceptPluginRejects = TRUE
SPECIFICATION Spec
INVARIANT TypeOK
PROPERTY ServerStops AdmittedConnsCloseNotified
