\* Graceful Shutdown alone, synchronous writes, no ctx deadline.
CONSTANTS
    k1 = k1
    k2 = k2
    Conns <- MCConnsOne
    MaxReqs = 1
    AsyncWriteModes <- MCSyncOnly
    CtxDeadline = FALSE
    AllowClose = FALSE
    AcceptPluginRejects = TRUE
SPECIFICATION Spec
INVARIANT GracefulShutdownAnswersAll
