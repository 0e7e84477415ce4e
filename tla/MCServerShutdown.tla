-------------------------- MODULE MCServerShutdown --------------------------
(* Instantiation of ServerShutdown for TLC: two client connections.        *)
EXTENDS ServerShutdown, TLC

CONSTANTS k1, k2

MCConnsTwo == {k1, k2}
MCConnsOne == {k1}
MCBothModes == {FALSE, TRUE}
MCSyncOnly == {FALSE}
MCAsyncOnly == {TRUE}

MCSymmetry == Permutations(MCConnsTwo)
=============================================================================
