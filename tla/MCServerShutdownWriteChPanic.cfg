\* Graceful Shutdown alone, AsyncWrite, no ctx deadline.
CONSTANTS
    k1 = k1
    k2 = k2
    Conns <- MCConnsOne
    MaxReqs = 1
    AsyncWriteModes <- MCAsyncOnly
    CtxDeadline = FALSE
    AllowClose = FALSE
    AcceptPluginRejects = TRUE
SPECIFICATION Spec
INVARIANT NoSendOnClosedWriteCh
