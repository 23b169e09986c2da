-------------------- MODULE InternalTicketService_proofs --------------------
(***************************************************************************)
(* Theorems about InternalTicketService, for every set of requests, keys   *)
(* and contents, every pattern of failures and every calendar.             *)
(***************************************************************************)
EXTENDS InternalTicketService, TLAPS, FiniteSetTheorems

Act(r) == Receive(r) \/ Step(r) \/ Fail(r) \/ Crash(r)
-----------------------------------------------------------------------------
(* Type correctness                                                        *)

LEMMA CountIsNat ==
  ASSUME NEW r \in Requests, NEW d
  PROVE  Cardinality(TicketsNumbered(r, d)) \in Nat
<1>1. TicketsNumbered(r, d) \subseteq Requests
  BY DEF TicketsNumbered
<1>2. IsFiniteSet(TicketsNumbered(r, d))
  BY <1>1, RequestsAssumption, FS_Subset
<1> QED
  BY <1>2, FS_CardinalityType

LEMMA InitTypeOK == Init => TypeOK
BY LastDayAssumption DEF Init, TypeOK, Labels, Rows, NoRows, Replies, IdempotencyStatus,
     ExecutionStatus, ToolCallStatus

LEMMA RollbackType ==
  ASSUME TypeOK, NEW r \in Requests, Rollback(r)
  PROVE  /\ tx' \in [Requests -> {"none", "open", "committed"}]
         /\ rows' \in [Requests -> Rows]
<1>1. NoRows \in Rows
  BY DEF NoRows, Rows
<1> QED
  BY <1>1 DEF TypeOK, Rollback

LEMMA RowUpdates ==
  ASSUME NEW row \in Rows
  PROVE  /\ [row EXCEPT !.key = "processing"] \in Rows
         /\ [row EXCEPT !.execution = "received", !.tool_call = "received"] \in Rows
         /\ [row EXCEPT !.ticket = "open"] \in Rows
         /\ [row EXCEPT !.audit = "present"] \in Rows
         /\ [row EXCEPT !.execution = "idempotent_replayed", !.tool_call = "replayed"] \in Rows
         /\ [row EXCEPT !.execution = "conflict", !.tool_call = "conflict"] \in Rows
BY DEF Rows, IdempotencyStatus, ExecutionStatus, ToolCallStatus

LEMMA CreatedRow ==
  ASSUME NEW row \in Rows, NEW cited \in {"absent", "present"}
  PROVE  [Succeeded(row) EXCEPT !.references = cited, !.audit = "present"] \in Rows
BY DEF Rows, IdempotencyStatus, ExecutionStatus, ToolCallStatus, Succeeded, Traced

LEMMA ActTypeOK ==
  ASSUME TypeOK, NEW r \in Requests, Act(r)
  PROVE  TypeOK'
<1> USE DEF TypeOK, Labels, Replies, Goto, Reply
<1>0. rows[r] \in Rows /\ rows \in [Requests -> Rows]
  OBVIOUS
<1>1. CASE Receive(r)
  BY <1>1 DEF Receive
<1>2. CASE FirstSeen(r)
  BY <1>2 DEF FirstSeen
<1>3. CASE SeenBefore(r)
  BY <1>3 DEF SeenBefore
<1>4. CASE InsertKey(r)
  <2>1. rows' \in [Requests -> Rows]
    BY <1>4, <1>0, RowUpdates DEF InsertKey
  <2> QED
    BY <1>4, <2>1 DEF InsertKey
<1>5. CASE KeyTaken(r)
  BY <1>5, RollbackType DEF KeyTaken
<1>6. CASE GenerateTicketNo(r)
  <2>0. GeneratedNo(r) \in [day : 0..LastDay, seq : Nat]
    BY CountIsNat, LastDayAssumption DEF GeneratedNo
  <2>1. rows' \in [Requests -> Rows]
    BY <1>6, <1>0, RowUpdates DEF GenerateTicketNo, Traced
  <2> QED
    BY <1>6, <2>1, <2>0 DEF GenerateTicketNo, Traced
<1>7. CASE InsertTicket(r)
  <2>1. rows' \in [Requests -> Rows]
    BY <1>7, <1>0, RowUpdates DEF InsertTicket
  <2> QED
    BY <1>7, <2>1 DEF InsertTicket
<1>8. CASE TicketTaken(r)
  BY <1>8, RollbackType DEF TicketTaken
<1>9. CASE CompleteCreation(r)
  <2> DEFINE created ==
        [Succeeded(rows[r]) EXCEPT !.references = References(r), !.audit = "present"]
  <2>1. created \in Rows /\ [rows[r] EXCEPT !.audit = "present"] \in Rows
    BY <1>0, RowUpdates, CreatedRow DEF References
  <2>2. rows' = [rows EXCEPT ![r] =
                   IF IsInternal(r) THEN created ELSE [rows[r] EXCEPT !.audit = "present"]]
    BY <1>9, <1>0 DEF CompleteCreation
  <2> HIDE DEF created
  <2>3. rows' \in [Requests -> Rows]
    BY <1>0, <2>1, <2>2
  <2> QED
    BY <1>9, <2>3 DEF CompleteCreation
<1>10. CASE Replay(r)
  <2> DEFINE replayed ==
        [rows[r] EXCEPT !.execution = "idempotent_replayed", !.tool_call = "replayed"]
  <2>1. CASE UNCHANGED <<tx, rows, found>>
    BY <1>10, <2>1 DEF Replay, Traced
  <2>2. CASE rows' = [rows EXCEPT ![r].execution = "idempotent_replayed",
                                  ![r].tool_call = "replayed"]
    <3>1. replayed \in Rows
      BY <1>0, RowUpdates
    <3>2. rows' = [rows EXCEPT ![r] = replayed]
      BY <1>0, <2>2
    <3> HIDE DEF replayed
    <3>3. rows' \in [Requests -> Rows]
      BY <1>0, <3>1, <3>2
    <3>4. found' \in [Requests -> Requests \cup {NoTicket}]
      BY <1>10 DEF Replay, TicketsWithKey, Traced
    <3>5. tx' \in [Requests -> {"none", "open", "committed"}]
      BY <1>10 DEF Replay, Traced
    <3> QED
      BY <1>10, <3>3, <3>4, <3>5 DEF Replay, Traced
  <2> QED
    BY <1>10, <2>1, <2>2 DEF Replay, Traced
<1>11. CASE TraceConflict(r)
  <2>1. rows' \in [Requests -> Rows]
    BY <1>11, <1>0, RowUpdates DEF TraceConflict, Traced
  <2> QED
    BY <1>11, <2>1 DEF TraceConflict, Traced
<1>12. CASE Commit(r)
  BY <1>12 DEF Commit
<1>13. CASE Answer(r)
  BY <1>13 DEF Answer
<1>14. CASE Recover(r)
  <2>1. found' \in [Requests -> Requests \cup {NoTicket}]
    BY <1>14 DEF Recover, TicketsWithKey
  <2>2. reply' \in [Requests -> Replies] /\ pc' \in [Requests -> Labels]
    BY <1>14 DEF Recover
  <2> QED
    BY <1>14, <2>1, <2>2 DEF Recover
<1>15. CASE Fail(r)
  BY <1>15, RollbackType DEF Fail
<1>16. CASE Crash(r)
  BY <1>16, RollbackType DEF Crash
<1> QED
  BY <1>1, <1>2, <1>3, <1>4, <1>5, <1>6, <1>7, <1>8, <1>9, <1>10, <1>11, <1>12, <1>13,
     <1>14, <1>15, <1>16 DEF Act, Step

LEMMA NextDayTypeOK == TypeOK /\ NextDay => TypeOK'
BY LastDayAssumption DEF TypeOK, NextDay

LEMMA NextTypeOK == TypeOK /\ [Next]_vars => TypeOK'
<1>1. ASSUME TypeOK, UNCHANGED vars PROVE TypeOK'
  BY <1>1 DEF TypeOK, vars
<1> QED
  BY <1>1, ActTypeOK, NextDayTypeOK DEF Next, Act, Terminating

(* Every variable keeps its type: the handlers use every status, label and *)
(* answer only where it is meant to be used.                               *)
THEOREM TypeCorrect == Spec => []TypeOK
BY InitTypeOK, NextTypeOK, PTL DEF Spec
-----------------------------------------------------------------------------
(* Frames: a step of r leaves the others alone, and never touches what r   *)
(* has committed.  What a committed creation justifies stays justified.    *)

Framed(r) ==
  /\ request' = request
  /\ \A q \in Requests \ {r} :
       /\ pc'[q] = pc[q] /\ tx'[q] = tx[q] /\ rows'[q] = rows[q]
       /\ no'[q] = no[q] /\ found'[q] = found[q] /\ reply'[q] = reply[q]
  /\ Committed(r) => tx'[r] = tx[r] /\ rows'[r] = rows[r] /\ no'[r] = no[r]

LEMMA CommittedIsOver ==
  ASSUME TypeOK, NEW r \in Requests, Progress(r), Committed(r)
  PROVE  pc[r] \in {"answer", "done"}
BY DEF TypeOK, Labels, Progress, Committed, Idle

LEMMA RollbackFrame ==
  ASSUME TypeOK, NEW r \in Requests, Rollback(r)
  PROVE  /\ \A q \in Requests \ {r} : tx'[q] = tx[q] /\ rows'[q] = rows[q]
         /\ Committed(r) => tx'[r] = tx[r] /\ rows'[r] = rows[r]
         /\ tx[r] = "open" => tx'[r] = "none" /\ rows'[r] = NoRows
         /\ tx[r] # "open" => tx'[r] = tx[r] /\ rows'[r] = rows[r]
BY DEF TypeOK, Rollback, Committed

LEMMA ActFramed ==
  ASSUME TypeOK, NEW r \in Requests, Progress(r), Act(r)
  PROVE  Framed(r)
<1> USE DEF TypeOK, Framed, Goto, Reply
<1>0. Committed(r) => pc[r] \in {"answer", "done"}
  BY CommittedIsOver
<1>1. CASE Receive(r)
  BY <1>1 DEF Receive
<1>2. CASE FirstSeen(r)
  BY <1>2 DEF FirstSeen
<1>3. CASE SeenBefore(r)
  BY <1>3 DEF SeenBefore
<1>4. CASE InsertKey(r)
  BY <1>0, <1>4 DEF InsertKey
<1>5. CASE KeyTaken(r)
  BY <1>5, RollbackFrame DEF KeyTaken
<1>6. CASE GenerateTicketNo(r)
  BY <1>0, <1>6 DEF GenerateTicketNo, Traced
<1>7. CASE InsertTicket(r)
  BY <1>0, <1>7 DEF InsertTicket
<1>8. CASE TicketTaken(r)
  BY <1>8, RollbackFrame DEF TicketTaken
<1>9. CASE CompleteCreation(r)
  BY <1>0, <1>9 DEF CompleteCreation, Traced, Succeeded, References
<1>10. CASE Replay(r)
  BY <1>0, <1>10 DEF Replay, Traced
<1>11. CASE TraceConflict(r)
  BY <1>0, <1>11 DEF TraceConflict, Traced
<1>12. CASE Commit(r)
  BY <1>12 DEF Commit, Committed
<1>13. CASE Answer(r)
  BY <1>13 DEF Answer
<1>14. CASE Recover(r)
  BY <1>14 DEF Recover
<1>15. CASE Fail(r)
  BY <1>15, RollbackFrame DEF Fail
<1>16. CASE Crash(r)
  BY <1>16, RollbackFrame DEF Crash
<1> QED
  BY <1>1, <1>2, <1>3, <1>4, <1>5, <1>6, <1>7, <1>8, <1>9, <1>10, <1>11, <1>12, <1>13,
     <1>14, <1>15, <1>16 DEF Act, Step

LEMMA CreatorsGrow ==
  ASSUME NEW r \in Requests, Framed(r)
  PROVE  /\ \A w \in Creators : w \in Creators' /\ no'[w] = no[w]
         /\ \A q \in Requests : HasMatch(q) => HasMatch(q)'
         /\ \A q \in Requests : HasOther(q) => HasOther(q)'
<1>1. \A w \in Creators : w \in Creators' /\ no'[w] = no[w]
  BY DEF Framed, Creators, Committed, HasTicket
<1> QED
  BY <1>1 DEF Framed, HasMatch, HasOther, SameKey, SameContent, IsInternal

LEMMA OthersKeep ==
  ASSUME NEW r \in Requests, Framed(r), NEW q \in Requests \ {r}, Progress(q), Backed(q)
  PROVE  Progress(q)' /\ Backed(q)'
<1>1. /\ pc'[q] = pc[q] /\ tx'[q] = tx[q] /\ rows'[q] = rows[q] /\ request' = request
      /\ no'[q] = no[q] /\ found'[q] = found[q] /\ reply'[q] = reply[q]
  BY DEF Framed
<1>2. Outcome(q) => Outcome(q)'
  BY <1>1, CreatorsGrow DEF Outcome, CreationRows, SameKey, SameContent, IsInternal, References
<1>3. Progress(q)'
  BY <1>1, <1>2, CreatorsGrow DEF Progress, Idle, CreationRows, IsInternal, References
<1>4. Backed(q)'
  BY <1>1, CreatorsGrow DEF Backed, SameKey, SameContent, IsInternal
<1> QED
  BY <1>3, <1>4

LEMMA KeysStayUnique ==
  ASSUME UniqueKeys, NEW r \in Requests, Framed(r),
         rows'[r].key = "absent" \/ rows[r].key # "absent"
  PROVE  UniqueKeys'
<1>1. \A q \in Requests : rows'[q].key # "absent" => rows[q].key # "absent"
  BY DEF Framed
<1> QED
  BY <1>1 DEF UniqueKeys, Framed, StoredKey
-----------------------------------------------------------------------------
(* What the other requests' committed rows say.                            *)

LEMMA TracesHaveNoTicket ==
  /\ NoRows.key = "absent" /\ NoRows.ticket = "absent"
  /\ ReplayRows.key = "absent" /\ ReplayRows.ticket = "absent"
  /\ ConflictRows.key = "absent" /\ ConflictRows.ticket = "absent"
BY DEF NoRows, ReplayRows, ConflictRows

LEMMA CreationHasTicket ==
  ASSUME NEW w
  PROVE  /\ CreationRows(w).ticket = "open"
         /\ IsInternal(w) => CreationRows(w).key = "succeeded"
         /\ ~ IsInternal(w) => CreationRows(w).key = "absent"
BY DEF CreationRows, NoRows, References

LEMMA Creation ==
  ASSUME TypeOK, Consistent, NEW w \in Requests, Committed(w), rows[w].key # "absent" \/ HasTicket(w)
  PROVE  /\ w \in Creators /\ rows[w] = CreationRows(w)
         /\ rows[w].key # "absent" => IsInternal(w)
         /\ IsInternal(w) => rows[w].key = "succeeded"
<1>1. rows[w] \notin {NoRows, ReplayRows, ConflictRows}
  BY TracesHaveNoTicket DEF HasTicket
<1>2. pc[w] \in {"answer", "done"} /\ Progress(w)
  BY CommittedIsOver DEF Consistent
<1>3. rows[w] = CreationRows(w)
  BY <1>1, <1>2 DEF Progress, Outcome, Idle, Committed
<1> QED
  BY <1>3, CreationHasTicket DEF Creators, HasTicket

LEMMA KnownKeys ==
  ASSUME TypeOK, Consistent, NEW r \in Requests, IsInternal(r), rows[r] = NoRows
  PROVE  /\ KeyRecords(r) = {w \in Creators \ {r} : SameKey(r, w)}
         /\ TicketsWithKey(r) = {w \in Creators \ {r} : SameKey(r, w)}
         /\ \A w \in KeyRecords(r) : rows[w].key = "succeeded"
         /\ \A v, w \in KeyRecords(r) : v = w
<1>1. ASSUME NEW w \in Requests
      PROVE  /\ w \in KeyRecords(r) <=> (w \in Creators \ {r} /\ SameKey(r, w))
             /\ w \in TicketsWithKey(r) <=> (w \in Creators \ {r} /\ SameKey(r, w))
             /\ w \in KeyRecords(r) => rows[w].key = "succeeded"
  <2>1. rows[r].key = "absent" /\ ~ HasTicket(r)
    BY DEF NoRows, HasTicket
  <2>2. CASE Committed(w) /\ w # r
    BY <2>2, Creation DEF KeyRecords, TicketsWithKey, Sees, StoredKey, SameKey, Creators, IsInternal
  <2>3. CASE ~ Committed(w) \/ w = r
    BY <2>1, <2>3 DEF KeyRecords, TicketsWithKey, Sees, Creators
  <2> QED
    BY <2>2, <2>3
<1>2. KeyRecords(r) \subseteq Requests /\ TicketsWithKey(r) \subseteq Requests
      /\ Creators \subseteq Requests
  BY DEF KeyRecords, TicketsWithKey, Creators
<1>3. \A v, w \in KeyRecords(r) : v = w
  BY <1>1 DEF Consistent, UniqueKeys, KeyRecords, StoredKey
<1> QED
  BY <1>1, <1>2, <1>3
-----------------------------------------------------------------------------
(* One lemma per statement: the request stays where its rows belong.       *)

Kept(r) == UniqueKeys' /\ Progress(r)' /\ Backed(r)'

LEMMA KeepReceive ==
  ASSUME TypeOK, Consistent, NEW r \in Requests, Framed(r), Receive(r)
  PROVE  Kept(r)
<1>1. Idle(r) /\ rows' = rows /\ tx' = tx /\ reply' = reply /\ reply[r] = "none"
      /\ pc'[r] = (IF IsInternal(r) THEN "lookup" ELSE "number") /\ request' = request /\ found' = found /\ found[r] = NoTicket
  BY DEF Receive, Consistent, Progress, Backed, Goto, TypeOK
<1>2. UniqueKeys'
  BY <1>1, KeysStayUnique DEF Consistent
<1>3. Progress(r)' /\ Backed(r)'
  BY <1>1 DEF Progress, Backed, Idle, IsInternal
<1> QED
  BY <1>2, <1>3 DEF Kept

LEMMA KeepFirstSeen ==
  ASSUME TypeOK, Consistent, NEW r \in Requests, Framed(r), FirstSeen(r)
  PROVE  Kept(r)
<1>1. Idle(r) /\ IsInternal(r) /\ rows' = rows /\ tx' = tx /\ reply' = reply /\ reply[r] = "none"
      /\ pc'[r] = "insert_key" /\ request' = request /\ found' = found /\ found[r] = NoTicket
  BY DEF FirstSeen, Consistent, Progress, Backed, Goto, TypeOK
<1>2. UniqueKeys'
  BY <1>1, KeysStayUnique DEF Consistent
<1>3. Progress(r)' /\ Backed(r)'
  BY <1>1 DEF Progress, Backed, Idle, IsInternal
<1> QED
  BY <1>2, <1>3 DEF Kept

LEMMA KeepSeenBefore ==
  ASSUME TypeOK, Consistent, NEW r \in Requests, Framed(r), SeenBefore(r)
  PROVE  Kept(r)
<1>1. Idle(r) /\ IsInternal(r) /\ rows' = rows /\ tx' = tx /\ reply[r] = "none" /\ request' = request /\ found' = found /\ found[r] = NoTicket
  BY DEF SeenBefore, Consistent, Progress, Backed
<1>2. \/ pc'[r] = "conflict" /\ HasOther(r)
      \/ pc'[r] = "replay" /\ HasMatch(r)
  BY <1>1, KnownKeys DEF SeenBefore, Goto, Reply, TypeOK, RequestHash, HasOther, HasMatch,
       SameContent, Idle
<1>3. reply' = reply
  BY <1>1, KnownKeys DEF SeenBefore, Idle
<1>4. UniqueKeys'
  BY <1>1, KeysStayUnique DEF Consistent
<1>5. Progress(r)' /\ Backed(r)'
  BY <1>1, <1>2, <1>3, CreatorsGrow DEF Progress, Backed, Idle, IsInternal
<1> QED
  BY <1>4, <1>5 DEF Kept

LEMMA KeepInsertKey ==
  ASSUME TypeOK, Consistent, NEW r \in Requests, Framed(r), InsertKey(r)
  PROVE  Kept(r)
<1>1. Idle(r) /\ IsInternal(r) /\ tx'[r] = "open" /\ reply' = reply /\ reply[r] = "none"
      /\ pc'[r] = "number" /\ request' = request /\ found' = found /\ found[r] = NoTicket /\ rows'[r] = [NoRows EXCEPT !.key = "processing"]
  BY DEF InsertKey, Consistent, Progress, Backed, Goto, TypeOK, Idle
<1>2. UniqueKeys'
  BY DEF InsertKey, KeyClash, Consistent, UniqueKeys, Framed, StoredKey
<1>3. Progress(r)' /\ Backed(r)'
  BY <1>1 DEF Progress, Backed, IsInternal
<1> QED
  BY <1>2, <1>3 DEF Kept

LEMMA KeepKeyTaken ==
  ASSUME TypeOK, Consistent, NEW r \in Requests, Framed(r), KeyTaken(r)
  PROVE  Kept(r)
<1>1. Idle(r) /\ IsInternal(r) /\ reply' = reply /\ reply[r] = "none" /\ no' = no
      /\ pc'[r] = "recover" /\ request' = request /\ found' = found /\ found[r] = NoTicket
  BY DEF KeyTaken, Consistent, Progress, Backed, Goto, TypeOK
<1>2. rows'[r] = rows[r] /\ tx'[r] = tx[r]
  BY <1>1, RollbackFrame DEF KeyTaken, Idle
<1>3. \E w \in Creators \ {r} : SameKey(r, w)
  BY <1>1, Creation DEF KeyTaken, KeyClash, SameKey, StoredKey, Idle, IsInternal
<1>4. (\E w \in Creators \ {r} : SameKey(r, w))'
  BY <1>1, <1>3, CreatorsGrow DEF SameKey, IsInternal
<1>5. UniqueKeys'
  BY <1>1, <1>2, KeysStayUnique DEF Consistent, Idle
<1>6. Progress(r)' /\ Backed(r)'
  BY <1>1, <1>2, <1>4 DEF Progress, Backed, Idle, IsInternal
<1> QED
  BY <1>5, <1>6 DEF Kept

LEMMA KeepGenerateTicketNo ==
  ASSUME TypeOK, Consistent, NEW r \in Requests, Framed(r), GenerateTicketNo(r)
  PROVE  Kept(r)
<1>1. /\ reply' = reply /\ reply[r] = "none" /\ tx' = tx
      /\ pc'[r] = "insert_ticket" /\ request' = request /\ found' = found /\ found[r] = NoTicket
      /\ IF IsInternal(r) THEN tx[r] = "open" /\ rows[r] = [NoRows EXCEPT !.key = "processing"]
                          ELSE Idle(r)
  BY DEF GenerateTicketNo, Consistent, Progress, Backed, Goto, TypeOK, Traced
<1>2. CASE IsInternal(r)
  <2>1. rows'[r] = [rows[r] EXCEPT !.execution = "received", !.tool_call = "received"]
    BY <1>2 DEF GenerateTicketNo, TypeOK, Traced
  <2>2. rows'[r] = ReceivedRows /\ rows[r].key # "absent"
    BY <1>1, <1>2, <2>1 DEF ReceivedRows, NoRows
  <2>3. UniqueKeys'
    BY <2>2, KeysStayUnique DEF Consistent
  <2>4. Progress(r)' /\ Backed(r)'
    BY <1>1, <1>2, <2>2 DEF Progress, Backed, IsInternal
  <2> QED
    BY <2>3, <2>4 DEF Kept
<1>3. CASE ~ IsInternal(r)
  <2>1. rows' = rows
    BY <1>3 DEF GenerateTicketNo, Traced
  <2>2. UniqueKeys'
    BY <1>1, <1>3, <2>1, KeysStayUnique, TracesHaveNoTicket DEF Consistent, Idle
  <2>3. Progress(r)' /\ Backed(r)'
    BY <1>1, <1>3, <2>1 DEF Progress, Backed, IsInternal, Idle
  <2> QED
    BY <2>2, <2>3 DEF Kept
<1> QED
  BY <1>2, <1>3

LEMMA KeepInsertTicket ==
  ASSUME TypeOK, Consistent, NEW r \in Requests, Framed(r), InsertTicket(r)
  PROVE  Kept(r)
<1>1. /\ reply' = reply /\ reply[r] = "none" /\ tx'[r] = "open"
      /\ pc'[r] = "complete" /\ request' = request /\ found' = found /\ found[r] = NoTicket
      /\ rows[r] = (IF IsInternal(r) THEN ReceivedRows ELSE NoRows)
      /\ rows'[r] = [rows[r] EXCEPT !.ticket = "open"]
  BY DEF InsertTicket, Consistent, Progress, Backed, Goto, TypeOK, Idle
<1>2. rows'[r].key = rows[r].key
  BY <1>1 DEF ReceivedRows, NoRows
<1>3. UniqueKeys'
  BY <1>2, KeysStayUnique DEF Consistent
<1>4. Progress(r)' /\ Backed(r)'
  BY <1>1 DEF Progress, Backed, IsInternal
<1> QED
  BY <1>3, <1>4 DEF Kept

LEMMA KeepTicketTaken ==
  ASSUME TypeOK, Consistent, NEW r \in Requests, Framed(r), TicketTaken(r)
  PROVE  Kept(r)
<1>1. /\ reply[r] = "none" /\ no' = no /\ request' = request /\ found' = found /\ found[r] = NoTicket
      /\ IF IsInternal(r) THEN pc'[r] = "recover" /\ reply' = reply
                          ELSE pc'[r] = "done" /\ reply'[r] = "retry"
      /\ tx[r] = "open" \/ Idle(r)
  BY DEF TicketTaken, Consistent, Progress, Backed, Goto, Reply, TypeOK
<1>2. Idle(r)'
  BY <1>1, RollbackFrame DEF TicketTaken, Idle
<1>3. PICK w \in Creators \ {r} : no[w] = no[r] \/ (IsInternal(r) /\ StoredKey(w) = StoredKey(r))
  BY Creation DEF TicketTaken, TicketClash
<1>4. w \in Creators' \ {r} /\ no'[w] = no[w]
  BY CreatorsGrow
<1>5. UniqueKeys'
  BY <1>2, KeysStayUnique, TracesHaveNoTicket DEF Consistent, Idle
<1>6. Progress(r)'
  BY <1>1, <1>2 DEF Progress, IsInternal
<1>7. Backed(r)'
  BY <1>1, <1>3, <1>4 DEF Backed, SameKey, StoredKey, IsInternal
<1> QED
  BY <1>5, <1>6, <1>7 DEF Kept

LEMMA KeepCompleteCreation ==
  ASSUME TypeOK, Consistent, NEW r \in Requests, Framed(r), CompleteCreation(r)
  PROVE  Kept(r)
<1>1. /\ reply' = reply /\ reply[r] = "none" /\ tx' = tx /\ tx[r] = "open"
      /\ pc'[r] = "commit" /\ request' = request /\ found'[r] = r
      /\ rows[r] = [(IF IsInternal(r) THEN ReceivedRows ELSE NoRows) EXCEPT !.ticket = "open"]
  BY DEF CompleteCreation, Consistent, Progress, Backed, Goto, TypeOK, Traced, Succeeded, References
<1>2. rows'[r] = CreationRows(r)
  <2>1. rows[r].ticket = "open"
    BY <1>1 DEF ReceivedRows, NoRows
  <2>2. CASE IsInternal(r)
    <3>1. rows'[r] = [Succeeded(rows[r]) EXCEPT !.references = References(r), !.audit = "present"]
      BY <2>2 DEF CompleteCreation, TypeOK
    <3> QED
      BY <1>1, <2>2, <3>1 DEF CreationRows, ReceivedRows, NoRows, Traced, Succeeded
  <2>3. CASE ~ IsInternal(r)
    <3>1. rows'[r] = [rows[r] EXCEPT !.audit = "present"]
      BY <2>3 DEF CompleteCreation, TypeOK, Traced, Succeeded, References
    <3> QED
      BY <1>1, <2>3, <3>1 DEF CreationRows, NoRows, References
  <2> QED
    BY <2>2, <2>3
<1>3. rows'[r].key = "absent" \/ rows[r].key # "absent"
  BY <1>1, <1>2, CreationHasTicket DEF ReceivedRows, NoRows
<1>4. UniqueKeys'
  BY <1>3, KeysStayUnique DEF Consistent
<1>5. CreationRows(r)' = CreationRows(r)
  BY <1>1 DEF CreationRows, IsInternal, References
<1>6. Progress(r)' /\ Backed(r)'
  BY <1>1, <1>2, <1>5 DEF Progress, Outcome, Backed
<1> QED
  BY <1>4, <1>6 DEF Kept

LEMMA KeepReplay ==
  ASSUME TypeOK, Consistent, NEW r \in Requests, Framed(r), Replay(r)
  PROVE  Kept(r)
<1>1. Idle(r) /\ IsInternal(r) /\ HasMatch(r) /\ reply[r] = "none" /\ request' = request
  BY DEF Replay, Consistent, Progress, Backed, Traced
<1>2. TicketsWithKey(r) # {} /\ \A w \in TicketsWithKey(r) :
        w \in Creators \ {r} /\ SameKey(r, w) /\ SameContent(r, w)
  BY <1>1, KnownKeys DEF HasMatch, Idle
<1>3. /\ pc'[r] = "commit" /\ tx'[r] = "open" /\ reply' = reply
      /\ rows'[r] = [rows[r] EXCEPT !.execution = "idempotent_replayed", !.tool_call = "replayed"]
      /\ \E w \in TicketsWithKey(r) : found'[r] = w
  BY <1>2 DEF Replay, Goto, TypeOK, Traced
<1>4. rows'[r] = ReplayRows
  BY <1>1, <1>3 DEF ReplayRows, Idle
<1>5. UniqueKeys'
  BY <1>4, KeysStayUnique, TracesHaveNoTicket DEF Consistent
<1>6. /\ found'[r] \in Creators' \ {r}
      /\ SameKey(r, found'[r]) /\ SameContent(r, found'[r])
  BY <1>2, <1>3, CreatorsGrow
<1>7. Outcome(r)'
  BY <1>1, <1>4, <1>6 DEF Outcome, SameKey, SameContent, IsInternal
<1>8. Progress(r)' /\ Backed(r)'
  BY <1>1, <1>3, <1>7 DEF Progress, Backed
<1> QED
  BY <1>5, <1>8 DEF Kept

LEMMA KeepTraceConflict ==
  ASSUME TypeOK, Consistent, NEW r \in Requests, Framed(r), TraceConflict(r)
  PROVE  Kept(r)
<1>1. Idle(r) /\ IsInternal(r) /\ HasOther(r) /\ reply[r] = "none" /\ request' = request
  BY DEF TraceConflict, Consistent, Progress, Backed, Traced
<1>2. found[r] = NoTicket
  BY DEF TraceConflict, Consistent, Backed, Traced
<1>3. /\ pc'[r] = "commit" /\ tx'[r] = "open" /\ reply' = reply /\ found' = found
      /\ rows'[r] = [rows[r] EXCEPT !.execution = "conflict", !.tool_call = "conflict"]
  BY DEF TraceConflict, Goto, TypeOK, Traced
<1>4. rows'[r] = ConflictRows
  BY <1>1, <1>3 DEF ConflictRows, Idle
<1>5. UniqueKeys'
  BY <1>4, KeysStayUnique, TracesHaveNoTicket DEF Consistent
<1>6. Outcome(r)'
  BY <1>1, <1>2, <1>3, <1>4, CreatorsGrow DEF Outcome, IsInternal
<1>7. Progress(r)' /\ Backed(r)'
  BY <1>1, <1>3, <1>6 DEF Progress, Backed
<1> QED
  BY <1>5, <1>7 DEF Kept

LEMMA KeepCommit ==
  ASSUME TypeOK, Consistent, NEW r \in Requests, Framed(r), Commit(r)
  PROVE  Kept(r)
<1>1. /\ Outcome(r) /\ reply[r] = "none" /\ reply' = reply /\ request' = request /\ rows' = rows
      /\ found' = found /\ tx'[r] = "committed" /\ pc'[r] = "answer"
  BY DEF Commit, Consistent, Progress, Backed, Goto, TypeOK
<1>2. UniqueKeys'
  BY <1>1, KeysStayUnique DEF Consistent
<1>3. Outcome(r)'
  BY <1>1, CreatorsGrow DEF Outcome, CreationRows, SameKey, SameContent, IsInternal, References
<1>4. Progress(r)' /\ Backed(r)'
  BY <1>1, <1>3 DEF Progress, Backed
<1> QED
  BY <1>2, <1>4 DEF Kept

LEMMA KeepAnswer ==
  ASSUME TypeOK, Consistent, NEW r \in Requests, Framed(r), Answer(r)
  PROVE  Kept(r)
<1>1. /\ Outcome(r) /\ Committed(r) /\ request' = request /\ rows' = rows /\ tx' = tx
      /\ found' = found /\ pc'[r] = "done"
      /\ reply'[r] = (IF found[r] = NoTicket THEN "hash_conflict" ELSE "ticket")
  BY DEF Answer, Consistent, Progress, Reply, Goto, TypeOK, Committed
<1>2. UniqueKeys'
  BY <1>1, KeysStayUnique DEF Consistent
<1>3. CASE rows[r] = CreationRows(r) /\ found[r] = r
  <2>1. r \in Creators
    BY <1>1, <1>3, CreationHasTicket DEF Creators, HasTicket
  <2>2. r \in Creators' /\ reply'[r] = "ticket" /\ CreationRows(r)' = CreationRows(r)
    BY <1>1, <1>3, <2>1, CreatorsGrow, RequestsAssumption DEF CreationRows, IsInternal, References
  <2> QED
    BY <1>1, <1>2, <1>3, <2>2 DEF Kept, Progress, Backed, Committed
<1>4. CASE /\ IsInternal(r) /\ rows[r] = ReplayRows
           /\ found[r] \in Creators \ {r} /\ SameKey(r, found[r]) /\ SameContent(r, found[r])
  <2>1. reply'[r] = "ticket"
    BY <1>1, <1>4, RequestsAssumption DEF Creators
  <2>2. HasMatch(r)' /\ found[r] \in Creators'
    BY <1>4, CreatorsGrow DEF HasMatch
  <2>3. Progress(r)'
    BY <1>1, <1>4, <2>2 DEF Progress, Committed, IsInternal
  <2>4. Backed(r)'
    BY <1>1, <1>4, <2>1, <2>2 DEF Backed, SameKey, SameContent, IsInternal
  <2> QED
    BY <1>2, <2>3, <2>4 DEF Kept
<1>5. CASE IsInternal(r) /\ rows[r] = ConflictRows /\ found[r] = NoTicket /\ HasOther(r)
  <2>1. reply'[r] = "hash_conflict" /\ HasOther(r)'
    BY <1>1, <1>5, CreatorsGrow
  <2>2. Progress(r)'
    BY <1>1, <1>5, <2>1 DEF Progress, Committed, IsInternal
  <2>3. Backed(r)'
    BY <1>1, <2>1 DEF Backed
  <2> QED
    BY <1>2, <2>2, <2>3 DEF Kept
<1> QED
  BY <1>1, <1>3, <1>4, <1>5 DEF Outcome

LEMMA KeepRecover ==
  ASSUME TypeOK, Consistent, NEW r \in Requests, Framed(r), Recover(r)
  PROVE  Kept(r)
<1>1. /\ Idle(r) /\ IsInternal(r) /\ request' = request /\ rows' = rows /\ tx' = tx /\ no' = no
      /\ pc'[r] = "done"
      /\ \E w \in Creators \ {r} : no[w] = no[r] \/ SameKey(r, w)
  BY DEF Recover, Consistent, Progress, Backed, Reply, Goto, TypeOK
<1>2. \A w \in KeyRecords(r) : w \in TicketsWithKey(r)
  BY <1>1, KnownKeys DEF Idle
<1>3. UniqueKeys'
  BY <1>1, KeysStayUnique DEF Consistent
<1>4. Progress(r)'
  BY <1>1 DEF Progress, Idle
<1>5. CASE \E w \in Creators \ {r} :
             SameKey(r, w) /\ SameContent(r, w) /\ reply'[r] = "ticket" /\ found'[r] = w
  <2>1. Backed(r)'
    BY <1>1, <1>5, CreatorsGrow DEF Backed, SameKey, SameContent, IsInternal
  <2> QED
    BY <1>3, <1>4, <2>1 DEF Kept
<1>6. CASE /\ reply'[r] = "retry"
           /\ \A w \in Creators \ {r} : SameKey(r, w) => ~ SameContent(r, w)
  <2>1. Backed(r)'
    BY <1>1, <1>6, CreatorsGrow DEF Backed, SameKey, SameContent, IsInternal
  <2> QED
    BY <1>3, <1>4, <2>1 DEF Kept
<1>7. \/ \E w \in Creators \ {r} :
           SameKey(r, w) /\ SameContent(r, w) /\ reply'[r] = "ticket" /\ found'[r] = w
      \/ /\ reply'[r] = "retry"
         /\ \A w \in Creators \ {r} : SameKey(r, w) => ~ SameContent(r, w)
  BY <1>1, KnownKeys DEF Recover, Reply, TypeOK, RequestHash, SameContent, Idle
<1> QED
  BY <1>5, <1>6, <1>7

LEMMA RollbackEnds ==
  ASSUME TypeOK, Consistent, NEW r \in Requests, Framed(r), Rollback(r), Running(r), pc'[r] = "done"
  PROVE  UniqueKeys' /\ Progress(r)'
<1>1. request' = request /\ Progress(r)
  BY DEF Framed, Consistent
<1>2. CASE tx[r] = "open"
  <2>1. Idle(r)'
    BY <1>2, RollbackFrame DEF Idle
  <2>2. Progress(r)'
    BY <2>1 DEF Progress
  <2> QED
    BY <2>1, <2>2, KeysStayUnique, TracesHaveNoTicket DEF Consistent, Idle
<1>3. CASE tx[r] # "open"
  <2>1. tx'[r] = tx[r] /\ rows'[r] = rows[r]
    BY <1>3, RollbackFrame
  <2>2. Idle(r) \/ (tx[r] = "committed" /\ Outcome(r))
    BY <1>1, <1>3 DEF Progress, Running, TypeOK, Labels
  <2>3. CASE Idle(r)
    BY <2>1, <2>3, KeysStayUnique, TracesHaveNoTicket DEF Consistent, Idle, Progress
  <2>4. CASE tx[r] = "committed" /\ Outcome(r)
    <3>1. /\ CreationRows(r)' = CreationRows(r) /\ IsInternal(r)' = IsInternal(r)
          /\ HasMatch(r) => HasMatch(r)'
          /\ HasOther(r) => HasOther(r)'
      BY <1>1, CreatorsGrow DEF CreationRows, IsInternal, References
    <3>2. \/ rows[r] = CreationRows(r)
          \/ IsInternal(r) /\ rows[r] = ReplayRows /\ HasMatch(r)
          \/ IsInternal(r) /\ rows[r] = ConflictRows /\ HasOther(r)
      BY <2>4 DEF Outcome, HasMatch
    <3>3. Progress(r)'
      BY <2>1, <2>4, <3>1, <3>2 DEF Progress
    <3> QED
      BY <2>1, <3>3, KeysStayUnique DEF Consistent
  <2> QED
    BY <2>2, <2>3, <2>4
<1> QED
  BY <1>2, <1>3

LEMMA KeepFail ==
  ASSUME TypeOK, Consistent, NEW r \in Requests, Framed(r), Fail(r)
  PROVE  Kept(r)
<1>1. /\ Rollback(r) /\ Running(r) /\ pc'[r] = "done"
      /\ \/ reply'[r] = "error"
         \/ /\ reply'[r] = "hash_conflict"
            /\ pc[r] = "conflict" \/ (pc[r] = "commit" /\ found[r] = NoTicket)
  BY DEF Fail, Reply, Goto, TypeOK
<1>2. reply'[r] = "hash_conflict" => HasOther(r)'
  <2>1. CASE pc[r] = "conflict"
    BY <2>1, CreatorsGrow DEF Consistent, Backed
  <2>2. CASE pc[r] = "commit" /\ found[r] = NoTicket
    BY <2>2, CreatorsGrow, RequestsAssumption DEF Consistent, Progress, Outcome, Creators
  <2> QED
    BY <1>1, <2>1, <2>2
<1>3. UniqueKeys' /\ Progress(r)'
  BY <1>1, RollbackEnds
<1>4. Backed(r)'
  BY <1>1, <1>2 DEF Backed
<1> QED
  BY <1>3, <1>4 DEF Kept

LEMMA KeepCrash ==
  ASSUME TypeOK, Consistent, NEW r \in Requests, Framed(r), Crash(r)
  PROVE  Kept(r)
<1>1. Rollback(r) /\ Running(r) /\ pc'[r] = "done" /\ reply'[r] = "lost"
  BY DEF Crash, Reply, Goto, TypeOK
<1>2. UniqueKeys' /\ Progress(r)'
  BY <1>1, RollbackEnds
<1>3. Backed(r)'
  BY <1>1 DEF Backed
<1> QED
  BY <1>2, <1>3 DEF Kept

LEMMA ActKeeps ==
  ASSUME TypeOK, Consistent, NEW r \in Requests, Act(r)
  PROVE  Consistent' /\ Framed(r)
<1>1. Framed(r)
  BY ActFramed DEF Consistent
<1>2. Kept(r)
  BY <1>1, KeepReceive, KeepFirstSeen, KeepSeenBefore, KeepInsertKey, KeepKeyTaken,
     KeepGenerateTicketNo, KeepInsertTicket, KeepTicketTaken, KeepCompleteCreation,
     KeepReplay, KeepTraceConflict, KeepCommit, KeepAnswer, KeepRecover, KeepFail, KeepCrash
  DEF Act, Step
<1>3. \A q \in Requests \ {r} : Progress(q)' /\ Backed(q)'
  BY <1>1, OthersKeep DEF Consistent
<1> QED
  BY <1>1, <1>2, <1>3 DEF Consistent, Kept

LEMMA InitConsistent == Init => Consistent
<1> SUFFICES ASSUME Init PROVE Consistent
  OBVIOUS
<1>1. UniqueKeys
  BY TracesHaveNoTicket DEF Init, UniqueKeys
<1>2. \A r \in Requests : Progress(r) /\ Backed(r)
  BY DEF Init, Progress, Backed, Idle
<1> QED
  BY <1>1, <1>2 DEF Consistent

\* Neither the calendar nor a stuttering step touches the tables.
LEMMA StillConsistent ==
  ASSUME Consistent, UNCHANGED <<request, pc, tx, rows, no, found, reply>>
  PROVE  Consistent'
BY DEF Consistent, UniqueKeys, StoredKey, Progress, Backed, Idle, Outcome, CreationRows,
   HasMatch, HasOther, SameKey, SameContent, Creators, Committed, HasTicket, IsInternal, References

LEMMA NextConsistent == TypeOK /\ Consistent /\ [Next]_vars => Consistent'
<1>1. ASSUME Consistent, NextDay \/ UNCHANGED vars PROVE Consistent'
  BY <1>1, StillConsistent DEF NextDay, vars
<1> QED
  BY <1>1, ActKeeps DEF Next, Act, Terminating
-----------------------------------------------------------------------------
(* Safety.                                                                 *)

(* The rows, the transaction and the pending answer of every request always *)
(* belong together, and the index on the key admits one writer.             *)
THEOREM AlwaysConsistent == Spec => []Consistent
<1>1. Init => TypeOK /\ Consistent
  BY InitTypeOK, InitConsistent
<1>2. TypeOK /\ Consistent /\ [Next]_vars => TypeOK' /\ Consistent'
  BY NextTypeOK, NextConsistent
<1> QED
  BY <1>1, <1>2, PTL DEF Spec

LEMMA CreatorHasKey ==
  ASSUME TypeOK, Consistent, NEW w \in Creators
  PROVE  rows[w] = CreationRows(w) /\ (IsInternal(w) => rows[w].key # "absent")
BY Creation DEF Creators

LEMMA ConsistentExactlyOnce == TypeOK /\ Consistent => ExactlyOnce
<1> SUFFICES ASSUME TypeOK, Consistent, NEW r \in Creators, NEW w \in Creators, SameKey(r, w)
             PROVE  r = w
  BY DEF ExactlyOnce
<1>1. IsInternal(r) /\ IsInternal(w) /\ StoredKey(r) = StoredKey(w)
  BY DEF SameKey, IsInternal, StoredKey
<1>2. rows[r].key # "absent" /\ rows[w].key # "absent"
  BY <1>1, CreatorHasKey
<1> QED
  BY <1>1, <1>2 DEF Consistent, UniqueKeys, Creators

(* However many requests carry a key, at most one of them creates a ticket. *)
THEOREM AtMostOneTicketPerKey == Spec => []ExactlyOnce
BY TypeCorrect, AlwaysConsistent, ConsistentExactlyOnce, PTL

LEMMA ConsistentAllOrNothing == TypeOK /\ Consistent => AllOrNothing
<1> SUFFICES ASSUME TypeOK, Consistent, NEW r \in Requests
             PROVE  /\ Committed(r) => \/ rows[r] = CreationRows(r)
                                       \/ IsInternal(r) /\ rows[r] \in {ReplayRows, ConflictRows}
                    /\ pc[r] = "done" /\ ~ Committed(r) => tx[r] = "none" /\ rows[r] = NoRows
  BY DEF AllOrNothing
<1>1. Progress(r)
  BY DEF Consistent
<1>2. Committed(r) => pc[r] \in {"answer", "done"}
  BY <1>1, CommittedIsOver
<1> QED
  BY <1>1, <1>2 DEF Progress, Outcome, Idle, Committed

(* A request leaves a whole creation, a whole trace or nothing behind. *)
THEOREM NothingHalfDone == Spec => []AllOrNothing
BY TypeCorrect, AlwaysConsistent, ConsistentAllOrNothing, PTL

LEMMA ConsistentAnswers ==
  TypeOK /\ Consistent => TicketAnswersTrue /\ ConflictAnswersTrue /\ RetryHasWinner
                         /\ NoHalfDoneKeySeen
BY DEF Consistent, Backed, TicketAnswersTrue, ConflictAnswersTrue, RetryHasWinner,
   NoHalfDoneKeySeen, HasOther

(* A 201 names the committed ticket of this very request. *)
THEOREM TicketsToldTruly == Spec => []TicketAnswersTrue
BY TypeCorrect, AlwaysConsistent, ConsistentAnswers, PTL

(* A 409 for a changed payload is never sent to a faithful retry. *)
THEOREM ConflictsToldTruly == Spec => []ConflictAnswersTrue
BY TypeCorrect, AlwaysConsistent, ConsistentAnswers, PTL

(* A 409 "please retry" is always some other request's success. *)
THEOREM RetriesToldTruly == Spec => []RetryHasWinner
BY TypeCorrect, AlwaysConsistent, ConsistentAnswers, PTL

(* The branches for a key still processing and for a key without a ticket  *)
(* are dead.                                                               *)
THEOREM DeadBranches == Spec => []NoHalfDoneKeySeen
BY TypeCorrect, AlwaysConsistent, ConsistentAnswers, PTL

LEMMA TraceStatuses ==
  /\ ReplayRows.tool_call = "replayed" /\ ConflictRows.tool_call = "conflict"
  /\ \A r : IsInternal(r) => CreationRows(r).tool_call = "succeeded"
  /\ NoRows.tool_call = "absent"
BY DEF NoRows, ReplayRows, ConflictRows, CreationRows, References

LEMMA ConsistentTraceTrue == TypeOK /\ Consistent => TraceTrue
<1> SUFFICES ASSUME TypeOK, Consistent, NEW r \in Requests, Committed(r), IsInternal(r)
             PROVE  /\ rows[r].tool_call = "succeeded" <=> r \in Creators
                    /\ rows[r].tool_call = "replayed" => HasMatch(r)
                    /\ rows[r].tool_call = "conflict" => HasOther(r)
  BY DEF TraceTrue, HasMatch, HasOther
<1>1. \/ rows[r] = CreationRows(r)
      \/ rows[r] = ReplayRows /\ HasMatch(r)
      \/ rows[r] = ConflictRows /\ HasOther(r)
  BY CommittedIsOver DEF Consistent, Progress, Outcome, Idle, Committed, HasMatch
<1>2. r \in Creators <=> rows[r] = CreationRows(r)
  BY <1>1, CreationHasTicket, TracesHaveNoTicket DEF Creators, HasTicket
<1> QED
  BY <1>1, <1>2, TraceStatuses

(* The committed trace of a call tells what its request really did. *)
THEOREM TracesToldTruly == Spec => []TraceTrue
BY TypeCorrect, AlwaysConsistent, ConsistentTraceTrue, PTL

LEMMA ConsistentLocksProgress == TypeOK /\ Consistent => LocksProgress
<1> SUFFICES ASSUME TypeOK, Consistent, NEW r \in Requests, NEW w \in Requests, WaitsFor(r, w)
             PROVE  \E v \in Requests : tx[v] = "open" /\ Running(v) /\ ~ Blocked(v)
  BY DEF LocksProgress, Blocked
<1>1. \A v \in Requests : tx[v] = "open" =>
        pc[v] \in {"number", "insert_ticket", "complete", "commit"}
  BY DEF Consistent, Progress, Idle, TypeOK, Labels
<1>2. \A v \in Requests : tx[v] = "open" /\ HasTicket(v) => pc[v] \in {"complete", "commit"}
  <2> SUFFICES ASSUME NEW v \in Requests, tx[v] = "open", HasTicket(v)
               PROVE  pc[v] \in {"complete", "commit"}
    OBVIOUS
  <2>1. [NoRows EXCEPT !.key = "processing"].ticket = "absent" /\ ReceivedRows.ticket = "absent"
    BY DEF NoRows, ReceivedRows
  <2> QED
    BY <1>1, <2>1 DEF Consistent, Progress, HasTicket, Idle
<1>3. CASE ~ Blocked(w)
  BY <1>1, <1>3 DEF WaitsFor, Running
<1>4. CASE Blocked(w)
  <2>1. PICK v \in Requests : WaitsFor(w, v)
    BY <1>4 DEF Blocked
  <2>2. pc[w] = "insert_ticket"
    BY <1>1, <2>1 DEF WaitsFor
  <2>3. tx[v] = "open" /\ HasTicket(v)
    BY <2>1, <2>2 DEF WaitsFor, TicketClash
  <2>4. Running(v) /\ ~ Blocked(v)
    BY <1>2, <2>3 DEF Running, Blocked, WaitsFor
  <2> QED
    BY <2>3, <2>4
<1> QED
  BY <1>3, <1>4

(* Nobody waits in a circle: the key is always locked before the number. *)
THEOREM LocksNeverDeadlock == Spec => []LocksProgress
BY TypeCorrect, AlwaysConsistent, ConsistentLocksProgress, PTL

(* A committed row is never changed or removed, not even by the rollback   *)
(* after a failed refresh.                                                 *)
THEOREM CommittedStays == Spec => Durable
<1>1. TypeOK /\ Consistent /\ [Next]_vars =>
        [\A r \in Requests :
           Committed(r) => tx'[r] = tx[r] /\ rows'[r] = rows[r] /\ no'[r] = no[r]]_vars
  <2> SUFFICES ASSUME TypeOK, Consistent, Next, NEW r \in Requests, Committed(r)
               PROVE  tx'[r] = tx[r] /\ rows'[r] = rows[r] /\ no'[r] = no[r]
    BY DEF vars
  <2>1. ASSUME NEW q \in Requests, Act(q)
        PROVE  tx'[r] = tx[r] /\ rows'[r] = rows[r] /\ no'[r] = no[r]
    BY <2>1, ActKeeps DEF Framed
  <2>2. CASE NextDay \/ Terminating
    BY <2>2 DEF NextDay, Terminating, vars
  <2> QED
    BY <2>1, <2>2 DEF Next, Act
<1> QED
  BY <1>1, TypeCorrect, AlwaysConsistent, PTL DEF Spec, Durable
-----------------------------------------------------------------------------
(* A conflict that was found is answered as one.                           *)

Refused(r) ==
  \/ pc[r] = "conflict"
  \/ pc[r] \in {"commit", "answer"} /\ found[r] = NoTicket
  \/ pc[r] = "done" /\ reply[r] \in {"hash_conflict", "lost"}

LEMMA ActRefused ==
  ASSUME TypeOK, Consistent, NEW r \in Requests, Refused(r), Act(r)
  PROVE  Refused(r)'
<1> USE DEF TypeOK, Refused, Goto, Reply
<1>1. pc[r] = "conflict" => found[r] = NoTicket
  BY DEF Consistent, Backed
<1>2. CASE TraceConflict(r)
  BY <1>1, <1>2 DEF TraceConflict
<1>3. CASE Commit(r) \/ Answer(r)
  BY <1>3 DEF Commit, Answer
<1>4. CASE Fail(r)
  BY <1>4 DEF Fail, Running
<1>5. CASE Crash(r)
  BY <1>5 DEF Crash, Running
<1> QED
  BY <1>2, <1>3, <1>4, <1>5
  DEF Act, Step, Receive, FirstSeen, SeenBefore, InsertKey, KeyTaken, GenerateTicketNo,
      InsertTicket, TicketTaken, CompleteCreation, Replay, Recover

LEMMA NextRefused ==
  ASSUME TypeOK, Consistent, NEW r \in Requests, Refused(r), [Next]_vars
  PROVE  Refused(r)'
<1>1. ASSUME NEW q \in Requests \ {r}, Act(q) PROVE Refused(r)'
  <2>1. Framed(q)
    BY <1>1, ActFramed DEF Consistent
  <2> QED
    BY <2>1 DEF Framed, Refused
<1>2. CASE NextDay \/ UNCHANGED vars
  BY <1>2 DEF NextDay, vars, Refused
<1> QED
  BY <1>1, <1>2, ActRefused DEF Next, Act, Terminating

LEMMA RefusedForGood ==
  ASSUME NEW r \in Requests
  PROVE  Spec => [](pc[r] = "conflict" => [](reply[r] \in {"none", "hash_conflict", "lost"}))
<1>1. pc[r] = "conflict" => Refused(r)
  BY DEF Refused
<1>2. Consistent /\ Refused(r) => reply[r] \in {"none", "hash_conflict", "lost"}
  BY DEF Consistent, Backed, Refused
<1>3. TypeOK /\ Consistent /\ Refused(r) /\ [Next]_vars => Refused(r)'
  BY NextRefused
<1> QED
  BY <1>1, <1>2, <1>3, TypeCorrect, AlwaysConsistent, PTL DEF Spec

(* Whatever fails while a conflict is recorded, the record's transaction    *)
(* included, the client hears of the conflict or nothing.                   *)
THEOREM ConflictsStayConflicts == Spec => ConflictNotMasked
BY RefusedForGood, FaultyAssumption DEF ConflictNotMasked
=============================================================================
