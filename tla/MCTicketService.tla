--------------------------- MODULE MCTicketService ---------------------------
(* Small instances of TicketService for TLC: one employee who has created  *)
(* the ticket, one who has not, an HR user and an admin, both of whom may  *)
(* act and be assigned, and a disabled HR user.                            *)
EXTENDS TicketService

CONSTANTS w1, w2, t1, creator, other, hr, admin, disabled

OneWorker == {w1}
TwoWorkers == {w1, w2}

NoneFaulty == {}

OneTicket == {t1}

AllUsers == {creator, other, hr, admin, disabled}
SomeUsers == {creator, hr, admin}
FewUsers == {creator, admin}
ActiveUsers == AllUsers \ {disabled}

RolesOfAll == [u \in AllUsers |->
  IF u \in {creator, other} THEN "employee" ELSE IF u = admin THEN "admin" ELSE "hr"]
RolesOfFew == [u \in FewUsers |-> RolesOfAll[u]]
RolesOfSome == [u \in SomeUsers |-> RolesOfAll[u]]

CreatorOfOne == [t \in OneTicket |-> creator]
==============================================================================
