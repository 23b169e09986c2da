--------------------------- MODULE HumanInTheLoop ---------------------------
(***************************************************************************)
(* What the Agent and the backend promise together to the user who is      *)
(* asked to confirm a pending action: without a yes nothing happens; with  *)
(* it the action is carried out at most once, whatever is repeated, lost   *)
(* or late; and whoever is told of a ticket is told of that one.           *)
(* AgentClient, composed with the service, implements this module.         *)
(***************************************************************************)
CONSTANTS Actions, Tickets

VARIABLES
  status,       \* status[a]: what the user and the Agent have decided about a
  tickets,      \* tickets[a]: the tickets that carry out a
  told          \* told[a]: the tickets callers have been told of

vars == <<status, tickets, told>>

Init ==
  /\ status = [a \in Actions |-> "pending"]
  /\ tickets = [a \in Actions |-> {}]
  /\ told = [a \in Actions |-> {}]

Decide(a) ==
  /\ \/ /\ status[a] = "pending"
        /\ \E answer \in {"confirmed", "declined"} : status' = [status EXCEPT ![a] = answer]
     \/ /\ status[a] # "pending" /\ tickets[a] = {}
        /\ status' = [status EXCEPT ![a] = "refused"]
  /\ UNCHANGED <<tickets, told>>

CarryOut(a) ==
  /\ status[a] = "confirmed" /\ tickets[a] = {}
  /\ \E t \in Tickets : tickets' = [tickets EXCEPT ![a] = {t}]
  /\ UNCHANGED <<status, told>>

Tell(a) ==
  /\ told' = [told EXCEPT ![a] = tickets[a]]
  /\ UNCHANGED <<status, tickets>>

Next == \E a \in Actions : Decide(a) \/ CarryOut(a) \/ Tell(a)

Spec == Init /\ [][Next]_vars
=============================================================================
