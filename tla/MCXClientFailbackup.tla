------------------------- MODULE MCXClientFailbackup -------------------------
(* Model-checking instance of XClientFailbackup: two endpoints.            *)
EXTENDS XClientFailbackup

CONSTANTS e1, e2

MCEndpoints == {e1, e2}
=============================================================================
