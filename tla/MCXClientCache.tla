---------------------------- MODULE MCXClientCache ----------------------------
(* Model-checking instance of XClientCache: callers and endpoints are      *)
(* model values; the fail mode and bounds are set per cfg.                 *)
EXTENDS XClientCache

CONSTANTS p1, p2, e1, e2

MCCallers == {p1, p2}
MCCallersOne == {p1}
MCEndpointsOne == {e1}
MCEndpointsTwo == {e1, e2}

\* Callers are interchangeable, and so are endpoints.
MCSymmetry == Permutations(MCCallers) \cup Permutations(MCEndpointsTwo)
=============================================================================
