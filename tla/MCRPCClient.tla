----------------------------- MODULE MCRPCClient -----------------------------
(* Model-checking instance of RPCClient: two user callers, one of them     *)
(* with a ctx deadline, heartbeat calls and user Close calls as set in the *)
(* cfg files.                                                              *)
EXTENDS RPCClient

CONSTANTS c1, c2, h1, h2

MCCallersTwo == {c1, c2}
MCCallersOne == {c1}
MCDeadlineOne == {c2}
MCHeartbeatOne == {h1}
MCHeartbeatTwo == {h1, h2}
=============================================================================
