---------------------------- MODULE MCXClientFork ----------------------------
(* Model-checking instance of XClientFork over three endpoints.            *)
EXTENDS XClientFork

CONSTANTS e1, e2, e3

MCEndpoints == {e1, e2, e3}
=============================================================================
