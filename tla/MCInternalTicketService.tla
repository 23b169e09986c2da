---------------------- MODULE MCInternalTicketService ----------------------
(* Small instances of InternalTicketService for TLC.                       *)
EXTENDS InternalTicketService

CONSTANTS r1, r2, r3, k1, k2, c1, c2

TwoRequests == {r1, r2}
ThreeRequests == {r1, r2, r3}

OneKey == {k1}
TwoKeys == {k1, k2}
TwoContents == {c1, c2}
CitingFirst == {c1}

NoneFaulty == {}
OneFaulty == {r1}
=============================================================================
