--------------------------- MODULE TicketLifecycle ---------------------------
(***************************************************************************)
(* The life of tickets as the state machine means it: a status moves along *)
(* an allowed edge, by somebody who may move it, and every move is the     *)
(* next line of the ticket's history; a ticket is assigned only while it   *)
(* is neither closed nor cancelled.                                        *)
(***************************************************************************)
EXTENDS TicketRules, Sequences

VARIABLES
  ticket,       \* ticket[t]: its status and assignee
  transitions   \* transitions[t]: its history, oldest first

Init ==
  /\ ticket = [t \in Tickets |-> [status |-> "open", assignee |-> NoUser]]
  /\ transitions = [t \in Tickets |-> <<>>]

Move(t, u, to) ==
  /\ MayMove(u, t, ticket[t].status, to)
  /\ ticket' = [ticket EXCEPT ![t].status = to]
  /\ transitions' = [transitions EXCEPT
       ![t] = Append(@, [from |-> ticket[t].status, to |-> to, user |-> u])]

Assign(t, a) ==
  /\ ticket[t].status \notin TERMINAL_STATUSES /\ CanBeAssigned(a)
  /\ ticket' = [ticket EXCEPT ![t].assignee = a]
  /\ UNCHANGED transitions

Next ==
  \E t \in Tickets, u \in Active :
    Assign(t, u) \/ \E to \in TicketStatus : Move(t, u, to)

Spec == Init /\ [][Next]_<<ticket, transitions>>
==============================================================================
