---------------------------- MODULE TicketService ----------------------------
(***************************************************************************)
(* update_status, cancel_ticket and assign_ticket of                       *)
(* app/services/ticket_service.py, served by a pool of threads.  A handler *)
(* reads the ticket and makes all its checks on what it has read; then it  *)
(* writes the row, a history line and an audit line in one transaction.    *)
(* Nothing ties the write to the read: the UPDATE names the row by its id, *)
(* waits while another transaction holds the row, and then overwrites what *)
(* that one has committed (READ COMMITTED, no version column).             *)
(***************************************************************************)
EXTENDS TicketRules, Naturals, Sequences, FiniteSets

CONSTANTS
  Workers,      \* the threads, each serving one request after the other
  NoWorker,     \* nobody holds the row
  Faulty,       \* the threads that may hit an exception or lose the connection
  MaxChanges    \* bound on the changes of one ticket, those under way included

ASSUME WorkersAssumption == IsFiniteSet(Workers) /\ NoWorker \notin Workers
ASSUME FaultyAssumption == Faulty \subseteq Workers
ASSUME MaxChangesAssumption == MaxChanges \in Nat

VARIABLES
  ticket,       \* ticket[t]: the committed row
  transitions,  \* transitions[t]: committed history lines, oldest first
  audits,       \* audits[t]: committed audit lines, oldest first
  holder,       \* holder[t]: the thread whose transaction has updated the row
  pc,           \* pc[w]: what thread w does next
  request,      \* request[w]: the request w serves
  seen,         \* seen[w]: the row as w has read it
  inserted,     \* inserted[w]: the lines w has inserted and not yet committed
  reply         \* reply[w]: the answer to the last request of w

vars == <<ticket, transitions, audits, holder, pc, request, seen, inserted, reply>>
-----------------------------------------------------------------------------
Requests == UpdateRequests \cup CancelRequests \cup AssignRequests

NoRequest == [op |-> "none", ticket |-> Unknown, user |-> NoUser, to |-> "none"]

Rows == [status : TicketStatus, assignee : Users \cup {NoUser}]

NewRow == [status |-> "open", assignee |-> NoUser]

Lines == [from : TicketStatus, to : TicketStatus, user : Users]

AuditLines == [action : {"update", "cancel", "assign"}, before : Rows, after : Rows, user : Users]

Nothing == [transition |-> <<>>, audit |-> <<>>]

Replies == {"none", "ok", "403", "404", "409", "500", "lost"}

TypeOK ==
  /\ ticket \in [Tickets -> Rows]
  /\ transitions \in [Tickets -> Seq(Lines)]
  /\ audits \in [Tickets -> Seq(AuditLines)]
  /\ holder \in [Tickets -> Workers \cup {NoWorker}]
  /\ pc \in [Workers -> {"idle", "write", "audit", "commit", "answer"}]
  /\ request \in [Workers -> Requests \cup {NoRequest}]
  /\ seen \in [Workers -> Rows]
  /\ inserted \in [Workers -> [transition : Seq(Lines), audit : Seq(AuditLines)]]
  /\ reply \in [Workers -> Replies]
-----------------------------------------------------------------------------
Running(w) == pc[w] # "idle"

On(w) == request[w].ticket

ChangesStatus(w) == request[w].op # "assign"

ChangedStatus(row, q) == [row EXCEPT !.status = q.to] \* variant: assign sets the wrong column

\* The ORM object after the assignment; only the attribute set is written.
Changed(row, q) ==
  IF q.op = "assign" THEN [row EXCEPT !.assignee = q.to] ELSE [row EXCEPT !.status = q.to]

\* An attribute set to the value it was read with is not part of any UPDATE.
Writes(w) == Changed(seen[w], request[w]) # seen[w]

StatusLineLate(w) == \* variant: from_status is read after the assignment
  [from |-> Changed(seen[w], request[w]).status, to |-> request[w].to, user |-> request[w].user]

StatusLine(w) == [from |-> seen[w].status, to |-> request[w].to, user |-> request[w].user]

AuditLine(w) ==
  [action |-> request[w].op, before |-> seen[w], after |-> Changed(seen[w], request[w]),
   user |-> request[w].user]

Underway(t) == Cardinality({w \in Workers : Running(w) /\ On(w) = t /\ pc[w] # "answer"})

Goto(w, label) == pc' = [pc EXCEPT ![w] = label]

\* The thread is done with its request; the next one gets a fresh session.
Finish(w, answer) ==
  /\ Goto(w, "idle")
  /\ reply' = [reply EXCEPT ![w] = answer]
  /\ request' = [request EXCEPT ![w] = NoRequest]
  /\ seen' = [seen EXCEPT ![w] = NewRow]

Unlocked(w) == [t \in Tickets |-> IF holder[t] = w THEN NoWorker ELSE holder[t]]
-----------------------------------------------------------------------------
Init ==
  /\ ticket = [t \in Tickets |-> NewRow]
  /\ transitions = [t \in Tickets |-> <<>>]
  /\ audits = [t \in Tickets |-> <<>>]
  /\ holder = [t \in Tickets |-> NoWorker]
  /\ pc = [w \in Workers |-> "idle"]
  /\ request = [w \in Workers |-> NoRequest]
  /\ seen = [w \in Workers |-> NewRow]
  /\ inserted = [w \in Workers |-> Nothing]
  /\ reply = [w \in Workers |-> "none"]

(* get_ticket and the checks: one SELECT of the ticket, the rest is        *)
(* computed from the row (users and their roles never change).             *)
StatusRead(q) == IF q.ticket = Unknown THEN "none" ELSE ticket[q.ticket].status

Refuse(w, q) ==
  /\ pc[w] = "idle" /\ Verdict(q, StatusRead(q)) # "ok"
  /\ reply' = [reply EXCEPT ![w] = Verdict(q, StatusRead(q))]
  /\ UNCHANGED <<ticket, transitions, audits, holder, pc, request, seen, inserted>>

Load(w, q) ==
  /\ pc[w] = "idle" /\ Verdict(q, StatusRead(q)) = "ok"
  /\ Len(audits[q.ticket]) + Underway(q.ticket) < MaxChanges
  /\ request' = [request EXCEPT ![w] = q]
  /\ seen' = [seen EXCEPT ![w] = ticket[q.ticket]]
  /\ reply' = [reply EXCEPT ![w] = "none"]
  /\ Goto(w, "write")
  /\ UNCHANGED <<ticket, transitions, audits, holder, inserted>>

WriteCommitted(w) == \* variant: the history repository commits instead of flushing
  /\ pc[w] = "write" /\ holder[On(w)] = NoWorker
  /\ ticket' = [ticket EXCEPT ![On(w)] = Changed(@, request[w])]
  /\ transitions' = IF ChangesStatus(w)
       THEN [transitions EXCEPT ![On(w)] = Append(@, StatusLine(w))] ELSE transitions
  /\ Goto(w, "audit")
  /\ UNCHANGED <<audits, holder, request, seen, inserted, reply>>

(* The first flush: UPDATE tickets, which takes the row lock, and INSERT   *)
(* of the history line.                                                    *)
Write(w) ==
  /\ pc[w] = "write" /\ (Writes(w) => holder[On(w)] = NoWorker)
  /\ holder' = IF Writes(w) THEN [holder EXCEPT ![On(w)] = w] ELSE holder
  /\ inserted' = IF ChangesStatus(w)
       THEN [inserted EXCEPT ![w].transition = <<StatusLine(w)>>] ELSE inserted
  /\ Goto(w, "audit")
  /\ UNCHANGED <<ticket, transitions, audits, request, seen, reply>>

RecordAudit(w) ==
  /\ pc[w] = "audit"
  /\ inserted' = [inserted EXCEPT ![w].audit = <<AuditLine(w)>>]
  /\ Goto(w, "commit")
  /\ UNCHANGED <<ticket, transitions, audits, holder, request, seen, reply>>

CommitWholeRow(w) == \* variant: all columns are written back, not only the one set
  /\ pc[w] = "commit"
  /\ ticket' = IF holder[On(w)] = w
       THEN [ticket EXCEPT ![On(w)] = Changed(seen[w], request[w])] ELSE ticket
  /\ transitions' = [transitions EXCEPT ![On(w)] = @ \o inserted[w].transition]
  /\ audits' = [audits EXCEPT ![On(w)] = @ \o inserted[w].audit]
  /\ holder' = Unlocked(w)
  /\ inserted' = [inserted EXCEPT ![w] = Nothing]
  /\ Goto(w, "answer")
  /\ UNCHANGED <<request, seen, reply>>

Commit(w) ==
  /\ pc[w] = "commit"
  /\ ticket' = IF holder[On(w)] = w
       THEN [ticket EXCEPT ![On(w)] = Changed(@, request[w])] ELSE ticket
  /\ transitions' = [transitions EXCEPT ![On(w)] = @ \o inserted[w].transition]
  /\ audits' = [audits EXCEPT ![On(w)] = @ \o inserted[w].audit]
  /\ holder' = Unlocked(w)
  /\ inserted' = [inserted EXCEPT ![w] = Nothing]
  /\ Goto(w, "answer")
  /\ UNCHANGED <<request, seen, reply>>

\* db.refresh(ticket) and the response.
Answer(w) ==
  /\ pc[w] = "answer"
  /\ Finish(w, "ok")
  /\ UNCHANGED <<ticket, transitions, audits, holder, inserted>>

RollbackForgotten(w) == UNCHANGED <<holder, inserted>> \* variant: the session is left open

Rollback(w) ==
  /\ holder' = Unlocked(w)
  /\ inserted' = [inserted EXCEPT ![w] = Nothing]

(* An exception in any statement, the refresh included, or a lost          *)
(* connection: what is not committed is rolled back.                       *)
Fail(w) ==
  /\ w \in Faulty /\ Running(w)
  /\ Rollback(w)
  /\ \E answer \in {"500", "lost"} : Finish(w, answer)
  /\ UNCHANGED <<ticket, transitions, audits>>

Step(w) == Write(w) \/ RecordAudit(w) \/ Commit(w) \/ Answer(w)

Next ==
  \E w \in Workers :
    \/ \E q \in Requests : Refuse(w, q) \/ Load(w, q)
    \/ Step(w)
    \/ Fail(w)

(* A thread that serves a request runs until it has answered, and          *)
(* PostgreSQL queues the transactions that wait for a row, so that each    *)
(* gets it in the end, though others may hold it in between.               *)
Fairness == \A w \in Workers : WF_vars(Step(w)) /\ SF_vars(Write(w))

Spec == Init /\ [][Next]_vars /\ Fairness
-----------------------------------------------------------------------------
(* Properties *)

LastOf(s) == s[Len(s)]

(* The history explains the present: the status of a ticket is the target  *)
(* of its last history line, whatever threads overtook each other on the   *)
(* way (models/ticket_transition.py: the table tells how the status became *)
(* what it is).                                                            *)
StatusRecorded ==
  \A t \in Tickets :
    ticket[t].status = IF transitions[t] = <<>> THEN "open" ELSE LastOf(transitions[t]).to

StatusAudits(t) == {i \in DOMAIN audits[t] : audits[t][i].action # "assign"}

Rank(i, t) == Cardinality({j \in StatusAudits(t) : j <= i})

(* Status, history and audit log change in one transaction (update_status: *)
(* all three are committed together): the audit log has exactly the status *)
(* changes of the history, in the same order, by the same users.           *)
AuditMatchesHistory ==
  \A t \in Tickets :
    /\ Cardinality(StatusAudits(t)) = Len(transitions[t])
    /\ \A i \in StatusAudits(t) :
         LET entry == audits[t][i] IN
         transitions[t][Rank(i, t)] =
           [from |-> entry.before.status, to |-> entry.after.status, user |-> entry.user]

(* Every history line is an allowed edge, by somebody who may take it.     *)
MovesPermitted ==
  \A t \in Tickets : \A i \in DOMAIN transitions[t] :
    LET line == transitions[t][i] IN MayMove(line.user, t, line.from, line.to)

(* A history line starts from a status the ticket really had earlier:      *)
(* handlers decide on committed data, though perhaps on old data.          *)
StartsFromPast ==
  \A t \in Tickets : \A i \in DOMAIN transitions[t] :
    transitions[t][i].from \in {"open"} \cup {transitions[t][j].to : j \in 1..(i - 1)}

(* Whoever is assigned was assigned by a request the audit log knows, and  *)
(* a change of the status never takes an assignment back, although the     *)
(* handlers of both read the whole row and write it at any later time.     *)
AssignmentAudited ==
  \A t \in Tickets :
    IF \E i \in DOMAIN audits[t] : audits[t][i].action = "assign"
    THEN /\ CanBeAssigned(ticket[t].assignee)
         /\ \E i \in DOMAIN audits[t] :
              audits[t][i].action = "assign" /\ audits[t][i].after.assignee = ticket[t].assignee
    ELSE ticket[t].assignee = NoUser

(* A row is held only by a running transaction that has written it and     *)
(* will end: no lock is leaked by an error path, none is held twice.       *)
HeldByWriter ==
  \A t \in Tickets : holder[t] # NoWorker =>
    LET w == holder[t] IN pc[w] \in {"audit", "commit"} /\ On(w) = t /\ Writes(w)

(* An answer is sent, and a thread becomes free, only with nothing left    *)
(* uncommitted.                                                            *)
NothingLeftBehind ==
  \A w \in Workers : pc[w] \in {"idle", "answer"} =>
    inserted[w] = Nothing /\ \A t \in Tickets : holder[t] # w

(* A ticket never becomes open again, and its history only grows, even     *)
(* when overtaken handlers write statuses of long ago.                     *)
NeverReopened ==
  [][\A t \in Tickets :
       /\ ticket[t].status # "open" => ticket'[t].status # "open"
       /\ transitions[t] = SubSeq(transitions'[t], 1, Len(transitions[t]))
       /\ audits[t] = SubSeq(audits'[t], 1, Len(audits[t]))]_vars

(* A request that has passed its checks is answered: none waits for a row  *)
(* for ever.                                                               *)
EveryRequestEnds == \A w \in Workers : Running(w) ~> pc[w] = "idle"

(* In every status a ticket reaches, the checks of the three handlers,      *)
(* taken together, grant exactly the documented rights.                    *)
RulesAsDocumented ==
  \A u \in Active, t \in Tickets :
    LET status == ticket[t].status
        Ok(op, to) == Verdict([op |-> op, ticket |-> t, user |-> u, to |-> to], status) = "ok"
    IN /\ \A to \in TicketStatus :
            MayMove(u, t, status, to) <=>
              Ok("update", to) \/ (to = "cancelled" /\ Ok("cancel", to))
       /\ \A a \in Users :
            Ok("assign", a) <=>
              u \in Staff /\ CanBeAssigned(a) /\ status \notin TERMINAL_STATUSES

(* With one request at a time the handlers implement TicketLifecycle.      *)
Lifecycle == INSTANCE TicketLifecycle

FollowsLifecycle == Lifecycle!Spec

(* update_status: a status cannot be changed at will, every change is an   *)
(* allowed edge; a closed or cancelled ticket cannot be changed.           *)
LegalEdges ==
  [][\A t \in Tickets :
       ticket'[t].status # ticket[t].status =>
         <<ticket[t].status, ticket'[t].status>> \in ALLOWED_STATUS_TRANSITIONS]_vars

(* ticket_status_transitions tells how the status became, step by step,    *)
(* what it is: each line starts where the one before it ended.             *)
HistoryChains ==
  \A t \in Tickets : \A i \in DOMAIN transitions[t] :
    transitions[t][i].from = IF i = 1 THEN "open" ELSE transitions[t][i - 1].to

(* assign_ticket: a closed or cancelled ticket cannot be assigned.         *)
AssignedWhileOpen ==
  [][\A t \in Tickets :
       ticket'[t].assignee # ticket[t].assignee => ticket[t].status \notin TERMINAL_STATUSES]_vars

(* The audit log records what happened to the resource: the assignee is    *)
(* the one of the last audited assignment.                                 *)
LastAssignmentHolds ==
  \A t \in Tickets : LET A == {i \in DOMAIN audits[t] : audits[t][i].action = "assign"} IN
    \A i \in A : (\A j \in A : j <= i) => ticket[t].assignee = audits[t][i].after.assignee
=============================================================================
