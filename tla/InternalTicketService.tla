----------------------- MODULE InternalTicketService -----------------------
(***************************************************************************)
(* Concurrent creation of tickets.  Requests of the Agent to the Internal  *)
(* API (app/services/internal_ticket_service.py) and of logged-in users    *)
(* (TicketService.create_ticket_for_user) are served by a pool of threads, *)
(* each with a database session of its own, so their SQL statements        *)
(* interleave.  One action is one statement, or one group of statements    *)
(* that touches only rows no other transaction can see yet.                *)
(*                                                                         *)
(* A handler only writes rows it has inserted itself, so the tables are    *)
(* kept the way a multi-version database keeps them: rows[r] is what       *)
(* request r has inserted, and the others see it once tx[r] is committed   *)
(* (READ COMMITTED, the default of the PostgreSQL the project runs on).    *)
(***************************************************************************)
EXTENDS Naturals, FiniteSets

CONSTANTS
  Requests,     \* HTTP requests; a retry by the client is another request
  Keys,         \* idempotency keys
  NoKey,        \* NULL: tickets of users carry no key
  Contents,     \* what _stable_request_hash covers, up to equality
  NoContent,    \* stands for the body of a user's request
  Citing,       \* the contents whose rag_references are not empty
  Faulty,       \* the requests that may hit an exception or lose their process
  LastDay,      \* bound on the calendar
  NoTicket      \* "no ticket found"

ASSUME RequestsAssumption == IsFiniteSet(Requests) /\ NoTicket \notin Requests
ASSUME KeysAssumption == NoKey \notin Keys
ASSUME ContentsAssumption == Citing \subseteq Contents /\ NoContent \notin Contents
ASSUME FaultyAssumption == Faulty \subseteq Requests
ASSUME LastDayAssumption == LastDay \in Nat \ {0}

VARIABLES
  request,      \* request[r]: the idempotency key and content r carries
  pc,           \* pc[r]: the statement r executes next
  today,        \* the UTC date
  tx,           \* tx[r]: the transaction r writes in
  rows,         \* rows[r]: the rows r has inserted, with their status
  no,           \* no[r]: the ticket_no r has generated
  found,        \* found[r]: the ticket r will answer with
  reply         \* reply[r]: what the client of r was told

vars == <<request, pc, today, tx, rows, no, found, reply>>
-----------------------------------------------------------------------------
InternalRequests == [key : Keys, content : Contents]
UserRequests == [key : {NoKey}, content : {NoContent}]

IdempotencyStatus == {"processing", "succeeded"}
ExecutionStatus == {"received", "succeeded", "idempotent_replayed", "conflict"}
ToolCallStatus == {"received", "succeeded", "replayed", "conflict"}

Rows == [key        : {"absent"} \cup IdempotencyStatus,
         execution  : {"absent"} \cup ExecutionStatus,
         tool_call  : {"absent"} \cup ToolCallStatus,
         ticket     : {"absent", "open"},
         references : {"absent", "present"},
         audit      : {"absent", "present"}]

NoRows == [key |-> "absent", execution |-> "absent", tool_call |-> "absent",
           ticket |-> "absent", references |-> "absent", audit |-> "absent"]

Labels == {"idle", "lookup", "insert_key", "number", "insert_ticket", "complete",
           "replay", "conflict", "commit", "answer", "recover", "done"}

Replies == {"none", "ticket", "hash_conflict", "retry", "processing", "missing",
            "error", "lost"}

TypeOK ==
  /\ request \in [Requests -> InternalRequests \cup UserRequests]
  /\ pc \in [Requests -> Labels]
  /\ today \in 1..LastDay
  /\ tx \in [Requests -> {"none", "open", "committed"}]
  /\ rows \in [Requests -> Rows]
  /\ no \in [Requests -> [day : 0..LastDay, seq : Nat]]
  /\ found \in [Requests -> Requests \cup {NoTicket}]
  /\ reply \in [Requests -> Replies]
-----------------------------------------------------------------------------
(* What the rows hold.  The key, the hash and the ticket's key are copied  *)
(* from the request that inserts the row and never change; an idempotency  *)
(* record's resource_id is the ticket its own request created.             *)

IsInternal(r) == request[r].key # NoKey

StoredKeyPerCall(r) == \* variant: the tool call id is part of the stored key
  IF IsInternal(r) THEN <<request[r].key, r>> ELSE NoKey

StoredKey(r) == request[r].key

RequestHashOfCall(r) == <<request[r].content, r>> \* variant: trace ids are hashed too

\* trace_id, tool_call_id, tool_name, agent_trace and the key itself are not hashed.
RequestHash(r) == request[r].content

Committed(r) == tx[r] = "committed"

Sees(r, w) == w = r \/ Committed(w)

HasTicket(r) == rows[r].ticket # "absent"

KeyRecords(r) ==
  {w \in Requests : Sees(r, w) /\ rows[w].key # "absent" /\ StoredKey(w) = StoredKey(r)}

TicketsWithKey(r) ==
  {w \in Requests : Sees(r, w) /\ HasTicket(w) /\ IsInternal(w) /\ StoredKey(w) = StoredKey(r)}

TicketsNumbered(r, d) ==
  {w \in Requests : Sees(r, w) /\ HasTicket(w) /\ no[w].day = d}

GeneratedNoOfAllDays(r) == \* variant: the count is not restricted to today's prefix
  [day |-> today,
   seq |-> Cardinality(UNION {TicketsNumbered(r, d) : d \in 1..LastDay}) + 1]

GeneratedNo(r) == [day |-> today, seq |-> Cardinality(TicketsNumbered(r, today)) + 1]

(* The unique indexes.  An insert that meets the same value in a committed *)
(* row fails; one that meets it in another open transaction waits for that *)
(* transaction to end.                                                     *)

KeyClash(r, w) == w # r /\ rows[w].key # "absent" /\ StoredKey(w) = StoredKey(r)

TicketClash(r, w) ==
  /\ w # r /\ HasTicket(w)
  /\ no[w] = no[r] \/ (IsInternal(r) /\ StoredKey(w) = StoredKey(r))

WaitsFor(r, w) ==
  /\ tx[w] = "open"
  /\ \/ pc[r] = "insert_key" /\ KeyClash(r, w)
     \/ pc[r] = "insert_ticket" /\ TicketClash(r, w)

Blocked(r) == \E w \in Requests : WaitsFor(r, w)

(* What the repositories do to the rows of a request: the execution and    *)
(* the tool call are created and marked together; a ticket keeps a         *)
(* snapshot of each of its sources.                                        *)
Traced(row, execution, tool_call) ==
  [row EXCEPT !.execution = execution, !.tool_call = tool_call]

Succeeded(row) == [Traced(row, "succeeded", "succeeded") EXCEPT !.key = "succeeded"]

References(r) == IF request[r].content \in Citing THEN "present" ELSE "absent"

Goto(r, label) == pc' = [pc EXCEPT ![r] = label]

Reply(r, what) == Goto(r, "done") /\ reply' = [reply EXCEPT ![r] = what]

RollbackForgotten(r) == UNCHANGED <<tx, rows>> \* variant: the session is left open

RollbackByDeleting(r) == \* variant: the error path undoes what was committed as well
  /\ tx' = [tx EXCEPT ![r] = "none"]
  /\ rows' = [rows EXCEPT ![r] = NoRows]

\* db.rollback(): an open transaction's rows vanish, a committed one keeps them.
Rollback(r) ==
  /\ tx' = [tx EXCEPT ![r] = IF @ = "open" THEN "none" ELSE @]
  /\ rows' = [rows EXCEPT ![r] = IF tx[r] = "open" THEN NoRows ELSE @]
-----------------------------------------------------------------------------
(* Variants of the steps below, each with a slip the code could contain.    *)
(* They are no part of the specification; they show what the properties     *)
(* would notice.                                                            *)

SeenBeforeAnyContent(r) == \* variant: the hash is not compared
  /\ pc[r] = "lookup"
  /\ \E w \in KeyRecords(r) : rows[w].key = "succeeded"
  /\ Goto(r, "replay")
  /\ UNCHANGED <<request, today, tx, rows, no, found, reply>>

InsertKeyCommitted(r) == \* variant: the key is registered in a transaction of its own
  /\ pc[r] = "insert_key" /\ ~ \E w \in Requests : KeyClash(r, w)
  /\ tx' = [tx EXCEPT ![r] = "committed"]
  /\ rows' = [rows EXCEPT ![r].key = "processing"]
  /\ Goto(r, "number")
  /\ UNCHANGED <<request, today, no, found, reply>>

InsertTicketCommitted(r) == \* variant: TicketRepository.create commits instead of flushing
  /\ pc[r] = "insert_ticket" /\ ~ \E w \in Requests : TicketClash(r, w)
  /\ tx' = [tx EXCEPT ![r] = "committed"]
  /\ rows' = [rows EXCEPT ![r].ticket = "open"]
  /\ Goto(r, "complete")
  /\ UNCHANGED <<request, today, no, found, reply>>

ReplayWithOneStatus(r) == \* variant: both traces get the tool call's status
  /\ pc[r] = "replay"
  /\ \E w \in TicketsWithKey(r) : found' = [found EXCEPT ![r] = w]
  /\ tx' = [tx EXCEPT ![r] = "open"]
  /\ rows' = [rows EXCEPT ![r] = Traced(@, "replayed", "replayed")]
  /\ Goto(r, "commit")
  /\ UNCHANGED <<request, today, no, reply>>

RecoverAnyContent(r) == \* variant: the hash is not compared after the rollback
  /\ pc[r] = "recover"
  /\ \/ /\ \E w \in TicketsWithKey(r) : found' = [found EXCEPT ![r] = w]
        /\ Reply(r, "ticket")
     \/ TicketsWithKey(r) = {} /\ Reply(r, "retry") /\ UNCHANGED found
  /\ UNCHANGED <<request, today, tx, rows, no>>

RecoverNever(r) == \* variant: the key is not read again after the rollback
  /\ pc[r] = "recover"
  /\ Reply(r, "retry")
  /\ UNCHANGED <<request, today, tx, rows, no, found>>
-----------------------------------------------------------------------------
Init ==
  /\ request \in [Requests -> InternalRequests \cup UserRequests]
  /\ pc = [r \in Requests |-> "idle"]
  /\ today = 1
  /\ tx = [r \in Requests |-> "none"]
  /\ rows = [r \in Requests |-> NoRows]
  /\ no = [r \in Requests |-> [day |-> 0, seq |-> 0]]
  /\ found = [r \in Requests |-> NoTicket]
  /\ reply = [r \in Requests |-> "none"]

(* A thread takes the request: the Internal API starts at the idempotency  *)
(* record, a user's request at the ticket number.                          *)
Receive(r) ==
  /\ pc[r] = "idle"
  /\ Goto(r, IF IsInternal(r) THEN "lookup" ELSE "number")
  /\ UNCHANGED <<request, today, tx, rows, no, found, reply>>

(* create_ticket_from_internal and _handle_existing_idempotency_record.    *)
FirstSeen(r) ==
  /\ pc[r] = "lookup" /\ KeyRecords(r) = {}
  /\ Goto(r, "insert_key")
  /\ UNCHANGED <<request, today, tx, rows, no, found, reply>>

SeenBefore(r) ==
  /\ pc[r] = "lookup"
  /\ \E w \in KeyRecords(r) :
       \/ /\ RequestHash(w) # RequestHash(r)
          /\ Goto(r, "conflict") /\ UNCHANGED reply
       \/ /\ RequestHash(w) = RequestHash(r) /\ rows[w].key = "succeeded"
          /\ Goto(r, "replay") /\ UNCHANGED reply
       \/ /\ RequestHash(w) = RequestHash(r) /\ rows[w].key # "succeeded"
          /\ Reply(r, "processing")
  /\ UNCHANGED <<request, today, tx, rows, no, found>>

(* _create_first_time, statement by statement.                             *)
InsertKey(r) ==
  /\ pc[r] = "insert_key" /\ ~ \E w \in Requests : KeyClash(r, w)
  /\ tx' = [tx EXCEPT ![r] = "open"]
  /\ rows' = [rows EXCEPT ![r].key = "processing"]
  /\ Goto(r, "number")
  /\ UNCHANGED <<request, today, no, found, reply>>

KeyTaken(r) ==
  /\ pc[r] = "insert_key" /\ \E w \in Requests : KeyClash(r, w) /\ Committed(w)
  /\ Rollback(r) /\ Goto(r, "recover")
  /\ UNCHANGED <<request, today, no, found, reply>>

\* The received trace rows of an internal request, then the number for today.
GenerateTicketNo(r) ==
  /\ pc[r] = "number"
  /\ rows' = IF IsInternal(r)
             THEN [rows EXCEPT ![r] = Traced(@, "received", "received")]
             ELSE rows
  /\ no' = [no EXCEPT ![r] = GeneratedNo(r)]
  /\ Goto(r, "insert_ticket")
  /\ UNCHANGED <<request, today, tx, found, reply>>

InsertTicket(r) ==
  /\ pc[r] = "insert_ticket" /\ ~ \E w \in Requests : TicketClash(r, w)
  /\ tx' = [tx EXCEPT ![r] = "open"]
  /\ rows' = [rows EXCEPT ![r].ticket = "open"]
  /\ Goto(r, "complete")
  /\ UNCHANGED <<request, today, no, found, reply>>

TicketTaken(r) ==
  /\ pc[r] = "insert_ticket" /\ \E w \in Requests : TicketClash(r, w) /\ Committed(w)
  /\ Rollback(r)
  /\ IF IsInternal(r) THEN Goto(r, "recover") /\ UNCHANGED reply ELSE Reply(r, "retry")
  /\ UNCHANGED <<request, today, no, found>>

\* Policy references, audit log, _mark_success; a user's ticket has only the audit log.
CompleteCreation(r) ==
  /\ pc[r] = "complete"
  /\ rows' = [rows EXCEPT ![r] =
       IF IsInternal(r)
       THEN [Succeeded(@) EXCEPT !.references = References(r), !.audit = "present"]
       ELSE [@ EXCEPT !.audit = "present"]]
  /\ found' = [found EXCEPT ![r] = r]
  /\ Goto(r, "commit")
  /\ UNCHANGED <<request, today, tx, no, reply>>

(* _handle_replay: the ticket is looked up by key, then the call is traced. *)
Replay(r) ==
  /\ pc[r] = "replay"
  /\ \/ /\ TicketsWithKey(r) = {} /\ Reply(r, "missing")
        /\ UNCHANGED <<tx, rows, found>>
     \/ /\ \E w \in TicketsWithKey(r) : found' = [found EXCEPT ![r] = w]
        /\ tx' = [tx EXCEPT ![r] = "open"]
        /\ rows' = [rows EXCEPT ![r] = Traced(@, "idempotent_replayed", "replayed")]
        /\ Goto(r, "commit") /\ UNCHANGED reply
  /\ UNCHANGED <<request, today, no>>

(* _handle_conflict *)
TraceConflict(r) ==
  /\ pc[r] = "conflict"
  /\ tx' = [tx EXCEPT ![r] = "open"]
  /\ rows' = [rows EXCEPT ![r] = Traced(@, "conflict", "conflict")]
  /\ Goto(r, "commit")
  /\ UNCHANGED <<request, today, no, found, reply>>

Commit(r) ==
  /\ pc[r] = "commit"
  /\ tx' = [tx EXCEPT ![r] = "committed"]
  /\ Goto(r, "answer")
  /\ UNCHANGED <<request, today, rows, no, found, reply>>

\* db.refresh(ticket) and the response, or the 409 of _handle_conflict.
Answer(r) ==
  /\ pc[r] = "answer"
  /\ Reply(r, IF found[r] = NoTicket THEN "hash_conflict" ELSE "ticket")
  /\ UNCHANGED <<request, today, tx, rows, no, found>>

(* _handle_integrity_error_after_rollback *)
Recover(r) ==
  /\ pc[r] = "recover"
  /\ LET same == {w \in KeyRecords(r) : RequestHash(w) = RequestHash(r)} IN
     \/ /\ same # {} /\ \E w \in TicketsWithKey(r) : found' = [found EXCEPT ![r] = w]
        /\ Reply(r, "ticket")
     \/ /\ same = {} \/ TicketsWithKey(r) = {}
        /\ Reply(r, "retry") /\ UNCHANGED found
  /\ UNCHANGED <<request, today, tx, rows, no>>
-----------------------------------------------------------------------------
Running(r) == pc[r] \notin {"idle", "done"}

FailMaskingConflict(r) == \* variant: _handle_conflict lets the exception out
  /\ r \in Faulty /\ Running(r)
  /\ ~ (pc[r] = "answer" /\ found[r] = NoTicket)
  /\ Rollback(r) /\ Reply(r, "error")
  /\ found' = [found EXCEPT ![r] = NoTicket]
  /\ UNCHANGED <<request, today, no>>

(* An exception in any statement, the refresh after the commit included:   *)
(* rollback, then 500.  _handle_conflict swallows it and still raises its  *)
(* 409, whose answer needs no statement any more.                          *)
Fail(r) ==
  /\ r \in Faulty /\ Running(r)
  /\ LET conflicting == pc[r] = "conflict" \/ (pc[r] = "commit" /\ found[r] = NoTicket) IN
     /\ ~ (pc[r] = "answer" /\ found[r] = NoTicket)
     /\ Rollback(r)
     /\ Reply(r, IF conflicting THEN "hash_conflict" ELSE "error")
  /\ found' = [found EXCEPT ![r] = NoTicket]
  /\ UNCHANGED <<request, today, no>>

\* The worker dies or the connection breaks: the client hears nothing.
Crash(r) ==
  /\ r \in Faulty /\ Running(r)
  /\ Rollback(r)
  /\ Reply(r, "lost")
  /\ found' = [found EXCEPT ![r] = NoTicket]
  /\ UNCHANGED <<request, today, no>>

NextDay ==
  /\ today < LastDay
  /\ today' = today + 1
  /\ UNCHANGED <<request, pc, tx, rows, no, found, reply>>

Step(r) ==
  \/ FirstSeen(r) \/ SeenBefore(r)
  \/ InsertKey(r) \/ KeyTaken(r)
  \/ GenerateTicketNo(r)
  \/ InsertTicket(r) \/ TicketTaken(r)
  \/ CompleteCreation(r)
  \/ Replay(r)
  \/ TraceConflict(r)
  \/ Commit(r)
  \/ Answer(r)
  \/ Recover(r)

Terminating == (\A r \in Requests : pc[r] = "done") /\ UNCHANGED vars

Next ==
  \/ \E r \in Requests : Receive(r) \/ Step(r) \/ Fail(r) \/ Crash(r)
  \/ NextDay
  \/ Terminating

\* A thread that serves a request runs until it has answered.
Fairness == \A r \in Requests : WF_vars(Step(r))

Spec == Init /\ [][Next]_vars /\ Fairness
-----------------------------------------------------------------------------
(* Properties *)

Creators == {w \in Requests : Committed(w) /\ HasTicket(w)}

SameKey(r, w) == IsInternal(r) /\ request[w].key = request[r].key

SameContent(r, w) == request[w].content = request[r].content

(* At most one ticket exists per idempotency key, however many requests     *)
(* carry it and whatever fails (models/idempotency.py: one business request *)
(* creates at most one real ticket).                                        *)
ExactlyOnce ==
  \A r, w \in Creators : SameKey(r, w) => r = w

CreationRows(r) ==
  IF IsInternal(r)
  THEN [key |-> "succeeded", execution |-> "succeeded", tool_call |-> "succeeded",
        ticket |-> "open", audit |-> "present", references |-> References(r)]
  ELSE [NoRows EXCEPT !.ticket = "open", !.audit = "present"]

ReplayRows == [NoRows EXCEPT !.execution = "idempotent_replayed", !.tool_call = "replayed"]

ConflictRows == [NoRows EXCEPT !.execution = "conflict", !.tool_call = "conflict"]

(* _create_first_time is one business fact: what a request leaves behind    *)
(* is a whole creation, a whole trace of a replay or of a conflict, or      *)
(* nothing.  No committed row is still "received" or "processing".          *)
AllOrNothing ==
  \A r \in Requests :
    /\ Committed(r) => \/ rows[r] = CreationRows(r)
                       \/ IsInternal(r) /\ rows[r] \in {ReplayRows, ConflictRows}
    /\ pc[r] = "done" /\ ~ Committed(r) => tx[r] = "none" /\ rows[r] = NoRows

(* Since the key is committed together with its ticket, nobody can see a    *)
(* key that is still processing or has no ticket: the two 409s for these    *)
(* cases are never sent.                                                    *)
NoHalfDoneKeySeen == \A r \in Requests : reply[r] \notin {"processing", "missing"}

(* A 201 names a committed ticket: the one this request created, or the one *)
(* created by an earlier request with the same key and the same content,    *)
(* also when the request lost the race for the key.                         *)
TicketAnswersTrue ==
  \A r \in Requests : reply[r] = "ticket" =>
    /\ found[r] \in Creators
    /\ found[r] = r \/ (SameKey(r, found[r]) /\ SameContent(r, found[r]))

(* The 409 for a changed payload is sent only when the key really belongs   *)
(* to a committed ticket with other content: a retry with a fresh trace or  *)
(* tool call id is never taken for a different request.                     *)
ConflictAnswersTrue ==
  \A r \in Requests : reply[r] = "hash_conflict" =>
    \E w \in Creators : SameKey(r, w) /\ ~ SameContent(r, w)

(* "Please retry" is only said to the loser of a race that somebody won: a  *)
(* committed ticket has the number the request tried to use, or its key     *)
(* with other content.                                                      *)
RetryHasWinner ==
  \A r \in Requests : reply[r] = "retry" =>
    \E w \in Creators \ {r} : no[w] = no[r] \/ (SameKey(r, w) /\ ~ SameContent(r, w))

CreatedOn(d) == {w \in Creators : no[w].day = d}

(* The committed numbers of a day are 1, 2, ... without a gap or a repeat:  *)
(* counting the day's tickets never yields the wrong next number for good.  *)
NumbersDense ==
  \A d \in 1..LastDay : {no[w].seq : w \in CreatedOn(d)} = 1..Cardinality(CreatedOn(d))

(* A trace tells what happened: "succeeded" for the creation itself,        *)
(* "replayed" when another request with the same content created the        *)
(* ticket, "conflict" when the key belongs to other content.                *)
TraceTrue ==
  \A r \in Requests : Committed(r) /\ IsInternal(r) =>
    /\ rows[r].tool_call = "succeeded" <=> r \in Creators
    /\ rows[r].tool_call = "replayed" =>
         \E w \in Creators \ {r} : SameKey(r, w) /\ SameContent(r, w)
    /\ rows[r].tool_call = "conflict" =>
         \E w \in Creators \ {r} : SameKey(r, w) /\ ~ SameContent(r, w)

(* Recording a conflict must not change its answer (the comment in          *)
(* _handle_conflict): once the hashes were found to differ, the client is   *)
(* told 409 or loses its connection, whichever statement of the record      *)
(* fails.  Only a request in Faulty can fail, and any may be in it.         *)
ConflictNotMasked ==
  \A r \in Faulty :
    [](pc[r] = "conflict" => [](reply[r] \in {"none", "hash_conflict", "lost"}))

(* Transactions waiting on a unique index never wait for each other in a    *)
(* circle or for a request that is over: a running holder can always move.  *)
LocksProgress ==
  \A r \in Requests : Blocked(r) =>
    \E w \in Requests : tx[w] = "open" /\ Running(w) /\ ~ Blocked(w)

(* What is committed stays: no step, the rollback after a failed refresh    *)
(* included, changes or removes a committed row.                            *)
Durable ==
  [][\A r \in Requests : Committed(r) => tx'[r] = tx[r] /\ rows'[r] = rows[r] /\ no'[r] = no[r]]_vars

(* Every request a thread has taken is answered, or its worker dies: none   *)
(* is left waiting for a lock for ever.                                     *)
EveryRequestEnds ==
  \A r \in Requests : Running(r) ~> pc[r] = "done"

(* The inductive invariant: the rows and the transaction of a request are   *)
(* those of its place in the handler, the unique index on the key holds     *)
(* for open transactions too, and what a handler is about to answer is      *)
(* already backed by a committed creation.                                  *)
ReceivedRows ==
  [NoRows EXCEPT !.key = "processing", !.execution = "received", !.tool_call = "received"]

HasMatch(r) == \E w \in Creators \ {r} : SameKey(r, w) /\ SameContent(r, w)

HasOther(r) == \E w \in Creators \ {r} : SameKey(r, w) /\ ~ SameContent(r, w)

Idle(r) == tx[r] = "none" /\ rows[r] = NoRows

Outcome(r) ==
  \/ rows[r] = CreationRows(r) /\ found[r] = r
  \/ /\ IsInternal(r) /\ rows[r] = ReplayRows
     /\ found[r] \in Creators \ {r} /\ SameKey(r, found[r]) /\ SameContent(r, found[r])
  \/ IsInternal(r) /\ rows[r] = ConflictRows /\ found[r] = NoTicket /\ HasOther(r)

Progress(r) ==
  /\ pc[r] = "idle" => Idle(r)
  /\ pc[r] \in {"lookup", "insert_key", "replay", "conflict", "recover"} =>
       IsInternal(r) /\ Idle(r)
  /\ pc[r] = "number" =>
       IF IsInternal(r) THEN tx[r] = "open" /\ rows[r] = [NoRows EXCEPT !.key = "processing"]
                        ELSE Idle(r)
  /\ pc[r] = "insert_ticket" =>
       IF IsInternal(r) THEN tx[r] = "open" /\ rows[r] = ReceivedRows ELSE Idle(r)
  /\ pc[r] = "complete" =>
       /\ tx[r] = "open"
       /\ rows[r] = [(IF IsInternal(r) THEN ReceivedRows ELSE NoRows) EXCEPT !.ticket = "open"]
  /\ pc[r] = "commit" => tx[r] = "open" /\ Outcome(r)
  /\ pc[r] = "answer" => tx[r] = "committed" /\ Outcome(r)
  /\ pc[r] = "done" =>
       \/ Idle(r)
       \/ tx[r] = "committed" /\ rows[r] = CreationRows(r)
       \/ tx[r] = "committed" /\ IsInternal(r) /\ rows[r] = ReplayRows /\ HasMatch(r)
       \/ tx[r] = "committed" /\ IsInternal(r) /\ rows[r] = ConflictRows /\ HasOther(r)

Backed(r) ==
  /\ pc[r] = "replay" => HasMatch(r)
  /\ pc[r] = "conflict" => HasOther(r)
  /\ pc[r] = "recover" => \E w \in Creators \ {r} : no[w] = no[r] \/ SameKey(r, w)
  /\ reply[r] \notin {"processing", "missing"}
  /\ reply[r] = "ticket" =>
       /\ found[r] \in Creators
       /\ found[r] = r \/ (SameKey(r, found[r]) /\ SameContent(r, found[r]))
  /\ reply[r] = "hash_conflict" => HasOther(r)
  /\ reply[r] = "retry" =>
       \E w \in Creators \ {r} : no[w] = no[r] \/ (SameKey(r, w) /\ ~ SameContent(r, w))
  /\ pc[r] # "done" => reply[r] = "none"
  /\ pc[r] \notin {"commit", "answer", "done"} => found[r] = NoTicket

UniqueKeys ==
  \A r, w \in Requests :
    rows[r].key # "absent" /\ rows[w].key # "absent" /\ StoredKey(r) = StoredKey(w) => r = w

UniqueNumbers ==
  \A r, w \in Requests : HasTicket(r) /\ HasTicket(w) /\ no[r] = no[w] => r = w

(* The same for the numbers: a number in use is at most one ahead of the    *)
(* committed tickets of its day, and the unique index keeps it single.      *)
Numbered(r) ==
  pc[r] \in {"insert_ticket", "complete"} \/ HasTicket(r) =>
    no[r].day \in 1..LastDay /\ no[r].seq \in 1..(Cardinality(CreatedOn(no[r].day)) + 1)

Numbering == NumbersDense /\ UniqueNumbers /\ \A r \in Requests : Numbered(r)

Consistent == UniqueKeys /\ \A r \in Requests : Progress(r) /\ Backed(r)

(* The API contract: the same key with the same payload returns the         *)
(* existing ticket and records a replayed call, with a different payload it *)
(* returns 409 and records a conflict call.  A request that never got a     *)
(* ticket number was refused because of its key.                            *)
CallRecorded ==
  \A r \in Requests : IsInternal(r) =>
    /\ reply[r] = "ticket" /\ found[r] # r => Committed(r) /\ rows[r] = ReplayRows
    /\ reply[r] \in {"hash_conflict", "retry"} /\ no[r].seq = 0 =>
         Committed(r) /\ rows[r] = ConflictRows

(* The handlers implement the promise of IdempotentCreate: the commit is    *)
(* the instant at which a creation takes effect.                            *)
Answered == [r \in Requests |-> IF pc[r] = "done" THEN found[r] ELSE NoTicket]

Promise == INSTANCE IdempotentCreate WITH accepted <- Creators, found <- Answered

KeepsPromise == Promise!Spec
=============================================================================
