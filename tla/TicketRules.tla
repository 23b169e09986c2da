----------------------------- MODULE TicketRules -----------------------------
(***************************************************************************)
(* Who may do what to a ticket: the state machine of                       *)
(* app/services/ticket_service.py and the permissions on top of it.  A     *)
(* verdict is the outcome of all the checks a handler makes before it      *)
(* writes anything, for the ticket as the handler has read it: "ok", or    *)
(* the status code of the first check that fails.                          *)
(***************************************************************************)
CONSTANTS
  Users,
  NoUser,       \* NULL: nobody is assigned, or the ticket comes from the Agent
  Role,         \* Role[u]: the role of user u
  Active,       \* the users that are not disabled
  Tickets,      \* the ids of existing tickets
  Unknown,      \* an id no ticket has
  Creator       \* Creator[t]: creator_id of ticket t

UserRole == {"admin", "hr", "employee"}

ASSUME UsersAssumption ==
  NoUser \notin Users /\ Role \in [Users -> UserRole] /\ Active \subseteq Users
ASSUME TicketsAssumption ==
  Unknown \notin Tickets /\ Creator \in [Tickets -> Users \cup {NoUser}]

TicketStatus == {"open", "processing", "resolved", "closed", "cancelled"}

ALLOWED_STATUS_TRANSITIONS ==
  {<<"open", "processing">>, <<"processing", "resolved">>,
   <<"resolved", "closed">>, <<"open", "cancelled">>}

TERMINAL_STATUSES == {"closed", "cancelled"}

Staff == {u \in Users : Role[u] \in {"hr", "admin"}}

UpdateRequests ==
  [op : {"update"}, ticket : Tickets \cup {Unknown}, user : Active, to : TicketStatus]
CancelRequests ==
  [op : {"cancel"}, ticket : Tickets \cup {Unknown}, user : Active, to : {"cancelled"}]
AssignRequests ==
  [op : {"assign"}, ticket : Tickets \cup {Unknown}, user : Active, to : Users \cup {NoUser}]

Owns(u, t) == Creator[t] = u

can_view_ticket(u, t) == u \in Staff \/ Owns(u, t)

TransitionAllowedAnywhere(from, to) == from # to \* variant: only the target is checked

TransitionAllowed(from, to) ==
  from \notin TERMINAL_STATUSES /\ <<from, to>> \in ALLOWED_STATUS_TRANSITIONS

TransitionPermittedToViewers(u, t, from, to) == TRUE \* variant: the role is not checked

TransitionPermitted(u, t, from, to) ==
  \/ Role[u] = "admin"
  \/ Role[u] = "hr" /\ to # "cancelled"
  \/ Owns(u, t) /\ <<from, to>> = <<"resolved", "closed">>

CancelPermitted(u, t, from) == from = "open" /\ (u \in Staff \/ Owns(u, t))

CanBeAssigned(a) == a \in Active \cap Staff

(* get_ticket, then what each handler adds.  status is that of the row the *)
(* handler has read; for an unknown id it is never looked at.              *)

UpdateVerdict(q, status) ==
  IF q.ticket = Unknown THEN "404"
  ELSE IF ~ can_view_ticket(q.user, q.ticket) THEN "403"
  ELSE IF ~ TransitionAllowed(status, q.to) THEN "409"
  ELSE IF ~ TransitionPermitted(q.user, q.ticket, status, q.to) THEN "403"
  ELSE "ok"

CancelVerdict(q, status) ==
  IF q.ticket = Unknown THEN "404"
  ELSE IF ~ can_view_ticket(q.user, q.ticket) THEN "403"
  ELSE IF ~ TransitionAllowed(status, "cancelled") THEN "409"
  ELSE IF ~ CancelPermitted(q.user, q.ticket, status) THEN "403"
  ELSE "ok"

AssignVerdictLate(q, status) == \* variant: the terminal statuses are not checked
  IF q.user \notin Staff THEN "403"
  ELSE IF q.ticket = Unknown THEN "404"
  ELSE IF q.to \notin Active THEN "404"
  ELSE IF q.to \notin Staff THEN "403"
  ELSE "ok"

AssignVerdict(q, status) ==
  IF q.user \notin Staff THEN "403"
  ELSE IF q.ticket = Unknown THEN "404"
  ELSE IF status \in TERMINAL_STATUSES THEN "409"
  ELSE IF q.to \notin Active THEN "404"
  ELSE IF q.to \notin Staff THEN "403"
  ELSE "ok"

Verdict(q, status) ==
  CASE q.op = "update" -> UpdateVerdict(q, status)
    [] q.op = "cancel" -> CancelVerdict(q, status)
    [] q.op = "assign" -> AssignVerdict(q, status)

(* What the README and the handlers' own comments promise, role by role:   *)
(* every legal transition to admins; handling, resolving, closing and      *)
(* cancelling to hr; closing a resolved and cancelling an open ticket to   *)
(* its creator.                                                            *)
MayMove(u, t, from, to) ==
  /\ <<from, to>> \in ALLOWED_STATUS_TRANSITIONS
  /\ u \in Staff \/ (Owns(u, t) /\ from \in {"resolved", "open"} /\ to \in {"closed", "cancelled"})
==============================================================================
