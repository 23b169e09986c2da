-------------------- MODULE InternalTicketService_promise --------------------
(***************************************************************************)
(* The handlers implement IdempotentCreate: every step is a step of the    *)
(* promise or invisible to it, and only the commit of a creation accepts.  *)
(***************************************************************************)
EXTENDS InternalTicketService_proofs

LEMMA SameCreators ==
  ASSUME NEW r \in Requests, Framed(r), Committed(r)' => Committed(r)
  PROVE  Creators' = Creators
BY DEF Framed, Creators, Committed, HasTicket

LEMMA Quiet ==
  ASSUME TypeOK, NEW r \in Requests, Framed(r), pc[r] # "done", pc'[r] # "done",
         reply' = reply, Creators' = Creators
  PROVE  UNCHANGED Promise!vars
<1>1. \A q \in Requests : pc'[q] = "done" <=> pc[q] = "done"
  BY DEF Framed
<1>2. \A q \in Requests : pc[q] = "done" => found'[q] = found[q]
  BY DEF Framed
<1>3. Answered' = Answered
  BY <1>1, <1>2 DEF Answered
<1> QED
  BY <1>3 DEF Promise!vars, Framed

LEMMA Told ==
  ASSUME TypeOK, NEW r \in Requests, Framed(r), pc[r] # "done", reply[r] = "none", NEW what,
         Reply(r, what), Creators' = Creators
  PROVE  Promise!Tell(r, what, found'[r])
<1>1. \A q \in Requests : pc'[q] = "done" <=> (pc[q] = "done" \/ q = r)
  BY DEF Framed, Reply, Goto, TypeOK
<1>2. \A q \in Requests \ {r} : found'[q] = found[q]
  BY DEF Framed
<1>3. Answered' = [Answered EXCEPT ![r] = found'[r]]
  BY <1>1, <1>2 DEF Answered
<1> QED
  BY <1>3 DEF Promise!Tell, Reply, Framed

LEMMA StepOfPromise ==
  ASSUME TypeOK, Consistent, NEW r \in Requests, Act(r)
  PROVE  Promise!Next \/ UNCHANGED Promise!vars
<1> USE DEF TypeOK
<1>0. Framed(r) /\ Progress(r) /\ Backed(r) /\ Consistent'
  BY ActKeeps DEF Consistent
<1>1. /\ pc[r] # "done" => reply[r] = "none"
      /\ Committed(r) => pc[r] \in {"answer", "done"}
  BY <1>0, CommittedIsOver DEF Backed
<1>2. ASSUME Promise!TellTicket(r) \/ Promise!TellConflict(r) \/ Promise!TellRetry(r)
             \/ Promise!TellFailure(r) \/ Promise!Accept(r)
      PROVE  Promise!Next
  BY <1>2 DEF Promise!Next
<1>3. ASSUME NEW t \in {"none", "open"}, tx' = [tx EXCEPT ![r] = t] \/ tx' = tx
      PROVE  Creators' = Creators
  BY <1>0, <1>3, SameCreators DEF Committed
<1>4. Rollback(r) => Creators' = Creators
  BY <1>0, SameCreators, RollbackFrame DEF Committed
<1>5. CASE Receive(r) \/ FirstSeen(r) \/ InsertKey(r) \/ GenerateTicketNo(r) \/ InsertTicket(r)
           \/ CompleteCreation(r) \/ TraceConflict(r)
  <2>1. pc[r] # "done" /\ pc'[r] # "done" /\ reply' = reply
    BY <1>5 DEF Receive, FirstSeen, InsertKey, GenerateTicketNo, InsertTicket, CompleteCreation,
         TraceConflict, Goto, Traced, Succeeded, References
  <2>2. Creators' = Creators
    BY <1>3, <1>5 DEF Receive, FirstSeen, InsertKey, GenerateTicketNo, InsertTicket,
         CompleteCreation, TraceConflict, Traced, Succeeded, References
  <2> QED
    BY <1>0, <2>1, <2>2, Quiet
<1>6. CASE SeenBefore(r)
  <2>1. rows[r] = NoRows /\ IsInternal(r) /\ pc[r] # "done" /\ tx' = tx
    BY <1>0, <1>6 DEF SeenBefore, Progress, Idle
  <2>2. pc'[r] # "done" /\ reply' = reply
    BY <1>6, <2>1, KnownKeys DEF SeenBefore, Goto
  <2> QED
    BY <1>0, <1>3, <2>1, <2>2, Quiet
<1>7. CASE Replay(r)
  <2>1. rows[r] = NoRows /\ IsInternal(r) /\ pc[r] # "done" /\ HasMatch(r)
    BY <1>0, <1>7 DEF Replay, Progress, Idle, Backed, Traced
  <2>2. TicketsWithKey(r) # {}
    BY <2>1, KnownKeys DEF HasMatch
  <2>3. pc'[r] # "done" /\ reply' = reply /\ tx' = [tx EXCEPT ![r] = "open"]
    BY <1>7, <2>2 DEF Replay, Goto, Traced
  <2> QED
    BY <1>0, <1>3, <2>1, <2>3, Quiet
<1>8. CASE KeyTaken(r)
  BY <1>0, <1>4, <1>8, Quiet DEF KeyTaken, Goto
<1>9. CASE TicketTaken(r)
  <2>1. pc[r] # "done" /\ Creators' = Creators
    BY <1>4, <1>9 DEF TicketTaken
  <2>2. CASE IsInternal(r)
    BY <1>0, <1>9, <2>1, <2>2, Quiet DEF TicketTaken, Goto
  <2>3. CASE ~ IsInternal(r)
    <3>1. Reply(r, "retry") /\ found'[r] = NoTicket
      BY <1>0, <1>9, <2>3 DEF TicketTaken, Backed
    <3>2. r \notin Creators /\ Creators # {}
      BY <1>1, <1>9, Creation DEF TicketTaken, TicketClash, Creators
    <3> QED
      BY <1>0, <1>1, <1>2, <2>1, <3>1, <3>2, Told DEF Promise!TellRetry
  <2> QED
    BY <2>2, <2>3
<1>10. CASE Commit(r)
  <2>1. pc[r] = "commit" /\ pc'[r] = "answer" /\ reply' = reply /\ tx'[r] = "committed"
        /\ rows' = rows /\ found' = found /\ Outcome(r) /\ ~ Committed(r)
    BY <1>0, <1>1, <1>10 DEF Commit, Goto, Progress
  <2>2. Answered' = Answered
    BY <1>0, <2>1 DEF Answered, Framed
  <2>3. CASE HasTicket(r)
    <3>1. Creators' = Creators \cup {r} /\ r \notin Creators
      BY <1>0, <2>1, <2>3 DEF Creators, Committed, HasTicket, Framed
    <3>2. ASSUME NEW w \in Creators, Promise!SameKey(r, w)
          PROVE  FALSE
      <4>1. IsInternal(r) /\ IsInternal(w) /\ StoredKey(r) = StoredKey(w)
        BY <3>2 DEF Promise!SameKey, IsInternal, StoredKey
      <4>2. rows[r] = CreationRows(r)
        BY <2>1, <2>3, TracesHaveNoTicket DEF Outcome, HasTicket
      <4>3. rows[r].key # "absent" /\ rows[w].key # "absent"
        BY <4>1, <4>2, CreationHasTicket, CreatorHasKey
      <4> QED
        BY <3>1, <4>1, <4>3 DEF Consistent, UniqueKeys, Creators
    <3>3. reply[r] = "none" /\ request' = request
      BY <1>0, <1>1, <2>1 DEF Framed
    <3>4. \A w \in Creators : ~ Promise!SameKey(r, w)
      BY <3>2
    <3>5. Promise!Accept(r)
      BY <2>1, <2>2, <3>1, <3>3, <3>4 DEF Promise!Accept
    <3> QED
      BY <1>2, <3>5
  <2>4. CASE ~ HasTicket(r)
    <3>1. Creators' = Creators
      BY <1>0, <2>1, <2>4 DEF Creators, Committed, HasTicket, Framed
    <3> QED
      BY <1>0, <2>1, <3>1, Quiet
  <2> QED
    BY <2>3, <2>4
<1>11. CASE Answer(r)
  <2>1. /\ pc[r] = "answer" /\ found' = found /\ Creators' = Creators /\ Outcome(r) /\ Committed(r)
        /\ Reply(r, IF found[r] = NoTicket THEN "hash_conflict" ELSE "ticket")
    BY <1>0, <1>3, <1>11 DEF Answer, Progress, Committed
  <2>2. CASE found[r] = NoTicket
    <3>1. HasOther(r)
      BY <2>1, <2>2, RequestsAssumption DEF Outcome, Creators
    <3>2. Promise!Tell(r, "hash_conflict", NoTicket)
      BY <1>0, <1>1, <2>1, <2>2, Told
    <3> QED
      BY <1>2, <3>1, <3>2
      DEF Promise!TellConflict, HasOther, SameKey, SameContent, IsInternal, Promise!SameKey
  <2>3. CASE found[r] # NoTicket
    <3>1. \/ found[r] = r /\ r \in Creators
          \/ found[r] \in Creators /\ SameKey(r, found[r]) /\ SameContent(r, found[r])
      BY <2>1, <2>3, CreationHasTicket DEF Outcome, Creators, HasTicket
    <3>2. Promise!Tell(r, "ticket", found[r])
      BY <1>0, <1>1, <2>1, <2>3, Told
    <3>3. Promise!TellTicket(r)
      BY <3>1, <3>2
      DEF Promise!TellTicket, SameKey, SameContent, IsInternal, Promise!SameKey
    <3> QED
      BY <1>2, <3>3
  <2> QED
    BY <2>2, <2>3
<1>12. CASE Recover(r)
  <2>1. /\ pc[r] = "recover" /\ Creators' = Creators /\ rows[r] = NoRows /\ IsInternal(r)
        /\ found[r] = NoTicket /\ \E w \in Creators \ {r} : no[w] = no[r] \/ SameKey(r, w)
    BY <1>0, <1>3, <1>12 DEF Recover, Progress, Idle, Backed
  <2>2. \/ Reply(r, "retry") /\ found'[r] = NoTicket
        \/ Reply(r, "ticket") /\ \E w \in Creators :
             found'[r] = w /\ SameKey(r, w) /\ SameContent(r, w)
    BY <1>12, <2>1, KnownKeys DEF Recover, RequestHash, SameContent
  <2>3. CASE Reply(r, "retry") /\ found'[r] = NoTicket
    <3>1. r \notin Creators
      BY <2>1, TracesHaveNoTicket DEF Creators, HasTicket
    <3> QED
      BY <1>0, <1>1, <1>2, <2>1, <2>3, <3>1, Told DEF Promise!TellRetry
  <2>4. CASE Reply(r, "ticket") /\ \E w \in Creators :
               found'[r] = w /\ SameKey(r, w) /\ SameContent(r, w)
    <3>1. Promise!Tell(r, "ticket", found'[r])
      BY <1>0, <1>1, <2>1, <2>4, Told
    <3>2. Promise!TellTicket(r)
      BY <2>4, <3>1 DEF Promise!TellTicket, SameKey, SameContent, IsInternal, Promise!SameKey
    <3> QED
      BY <1>2, <3>2
  <2> QED
    BY <2>2, <2>3, <2>4
<1>13. CASE Fail(r) \/ Crash(r)
  <2>1. pc[r] # "done" /\ found'[r] = NoTicket /\ Creators' = Creators
    BY <1>4, <1>13 DEF Fail, Crash, Running
  <2>2. ASSUME NEW what \in {"error", "lost"}, Reply(r, what)
        PROVE  Promise!Next
    BY <1>0, <1>1, <1>2, <2>1, <2>2, Told DEF Promise!TellFailure
  <2>3. CASE Reply(r, "hash_conflict")
    <3>1. Promise!Tell(r, "hash_conflict", NoTicket)
      BY <1>0, <1>1, <2>1, <2>3, Told
    <3>2. HasOther(r)'
      BY <1>0, <2>3 DEF Consistent, Backed, Reply
    <3>3. HasOther(r)
      BY <1>0, <2>1, <3>2 DEF HasOther, SameKey, SameContent, IsInternal, Framed
    <3> QED
      BY <1>2, <3>1, <3>3
      DEF Promise!TellConflict, HasOther, SameKey, SameContent, IsInternal, Promise!SameKey
  <2> QED
    BY <1>13, <2>2, <2>3 DEF Fail, Crash
<1> QED
  BY <1>5, <1>6, <1>7, <1>8, <1>9, <1>10, <1>11, <1>12, <1>13 DEF Act, Step

LEMMA InitOfPromise == Init => Promise!Init
BY DEF Init, Promise!Init, Creators, Committed, Answered

LEMMA NextOfPromise ==
  TypeOK /\ Consistent /\ [Next]_vars => [Promise!Next]_(Promise!vars)
<1>1. ASSUME NextDay \/ UNCHANGED vars PROVE UNCHANGED Promise!vars
  BY <1>1 DEF NextDay, vars, Promise!vars, Creators, Committed, HasTicket, Answered
<1> QED
  BY <1>1, StepOfPromise DEF Next, Act, Terminating

(* The service keeps the promise of IdempotentCreate: a request takes effect *)
(* at most once, before its answer, and every answer is true of that effect. *)
THEOREM Implements == Spec => KeepsPromise
BY TypeCorrect, AlwaysConsistent, InitOfPromise, NextOfPromise, PTL
DEF Spec, KeepsPromise, Promise!Spec
=============================================================================
