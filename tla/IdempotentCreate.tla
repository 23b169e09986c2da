-------------------------- MODULE IdempotentCreate --------------------------
(***************************************************************************)
(* What ticket creation promises its callers, whatever the interleaving of *)
(* threads, transactions and failures: a request takes effect at most once *)
(* and at one instant, before it is answered; among the requests with one  *)
(* idempotency key only one ever takes effect; and every answer tells the  *)
(* truth about that one.  InternalTicketService implements this module.    *)
(***************************************************************************)
CONSTANTS Requests, NoKey, NoTicket

VARIABLES
  request,      \* request[r]: the idempotency key and content r carries
  accepted,     \* the requests that have created their ticket
  found,        \* found[r]: the ticket r was answered with
  reply         \* reply[r]: what the client of r was told, "none" so far

vars == <<request, accepted, found, reply>>

SameKey(r, w) == request[r].key # NoKey /\ request[w].key = request[r].key

Init ==
  /\ accepted = {}
  /\ found = [r \in Requests |-> NoTicket]
  /\ reply = [r \in Requests |-> "none"]

\* The only effect: a ticket for a key that has none.
Accept(r) ==
  /\ reply[r] = "none" /\ r \notin accepted
  /\ \A w \in accepted : ~ SameKey(r, w)
  /\ accepted' = accepted \cup {r}
  /\ UNCHANGED <<request, found, reply>>

Tell(r, what, ticket) ==
  /\ reply[r] = "none"
  /\ reply' = [reply EXCEPT ![r] = what]
  /\ found' = [found EXCEPT ![r] = ticket]
  /\ UNCHANGED <<request, accepted>>

\* 201: the ticket r created, or the one created by the same request before.
TellTicket(r) ==
  \E w \in accepted :
    /\ w = r \/ (SameKey(r, w) /\ request[w].content = request[r].content)
    /\ Tell(r, "ticket", w)

\* 409: the key belongs to another content.
TellConflict(r) ==
  /\ \E w \in accepted : SameKey(r, w) /\ request[w].content # request[r].content
  /\ Tell(r, "hash_conflict", NoTicket)

\* 409, please retry: nothing was created for r, but somebody else got a ticket.
TellRetry(r) ==
  /\ r \notin accepted /\ accepted # {}
  /\ Tell(r, "retry", NoTicket)

\* 500 or no answer at all promise nothing, except that nothing follows.
TellFailure(r) == \E what \in {"error", "lost"} : Tell(r, what, NoTicket)

Next ==
  \E r \in Requests :
    \/ Accept(r)
    \/ TellTicket(r) \/ TellConflict(r) \/ TellRetry(r) \/ TellFailure(r)

Spec == Init /\ [][Next]_vars
=============================================================================
