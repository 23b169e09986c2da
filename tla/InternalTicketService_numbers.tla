-------------------- MODULE InternalTicketService_numbers --------------------
(***************************************************************************)
(* Ticket numbers: counting the day's tickets and letting the unique index *)
(* refuse the losers numbers the committed tickets of a day 1, 2, 3, ...   *)
(***************************************************************************)
EXTENDS InternalTicketService_proofs

LEMMA CreatedFinite ==
  ASSUME NEW d
  PROVE  IsFiniteSet(CreatedOn(d)) /\ Cardinality(CreatedOn(d)) \in Nat
<1>1. CreatedOn(d) \subseteq Requests
  BY DEF CreatedOn, Creators
<1> QED
  BY <1>1, RequestsAssumption, FS_Subset, FS_CardinalityType

LEMMA CreatedFiniteNext ==
  ASSUME NEW d
  PROVE  IsFiniteSet(CreatedOn(d)') /\ Cardinality(CreatedOn(d)') \in Nat
<1>1. CreatedOn(d)' \subseteq Requests
  BY DEF CreatedOn, Creators
<1> QED
  BY <1>1, RequestsAssumption, FS_Subset, FS_CardinalityType

LEMMA CreatedGrows ==
  ASSUME NEW r \in Requests, Framed(r), NEW d
  PROVE  Cardinality(CreatedOn(d)) <= Cardinality(CreatedOn(d)')
<1>1. CreatedOn(d) \subseteq CreatedOn(d)'
  BY CreatorsGrow DEF CreatedOn
<1> QED
  BY <1>1, CreatedFiniteNext, FS_Subset

LEMMA CountIsCreated ==
  ASSUME NEW r \in Requests, ~ HasTicket(r), NEW d
  PROVE  TicketsNumbered(r, d) = CreatedOn(d)
BY DEF TicketsNumbered, CreatedOn, Creators, Sees

\* A request that keeps its number keeps it close to the committed ones.
LEMMA NumberedStays ==
  ASSUME TypeOK, NEW r \in Requests, Framed(r), NEW q \in Requests, no'[q] = no[q], Numbered(q),
         (pc'[q] \in {"insert_ticket", "complete"} \/ HasTicket(q)') =>
           (pc[q] \in {"insert_ticket", "complete"} \/ HasTicket(q))
  PROVE  Numbered(q)'
<1>1. /\ Cardinality(CreatedOn(no[q].day)) <= Cardinality(CreatedOn(no[q].day)')
      /\ Cardinality(CreatedOn(no[q].day)) \in Nat /\ Cardinality(CreatedOn(no[q].day)') \in Nat
  BY CreatedGrows, CreatedFinite, CreatedFiniteNext
<1> QED
  BY <1>1 DEF Numbered, CreatedOn, TypeOK

\* Without a new creation nothing changes for the committed numbers.
LEMMA DenseStays ==
  ASSUME NumbersDense, NEW r \in Requests, Framed(r), Creators' = Creators
  PROVE  NumbersDense'
<1>1. \A w \in Creators : no'[w] = no[w]
  BY CreatorsGrow
<1>2. \A d \in 1..LastDay : CreatedOn(d)' = CreatedOn(d)
  BY <1>1 DEF CreatedOn
<1>3. \A d \in 1..LastDay : {no'[w].seq : w \in CreatedOn(d)} = {no[w].seq : w \in CreatedOn(d)}
  BY <1>1 DEF CreatedOn
<1> QED
  BY <1>2, <1>3 DEF NumbersDense

LEMMA UniqueStays ==
  ASSUME UniqueNumbers, NEW r \in Requests, Framed(r),
         HasTicket(r)' => HasTicket(r) /\ no'[r] = no[r]
  PROVE  UniqueNumbers'
BY DEF UniqueNumbers, Framed, HasTicket

\* The commit of a ticket adds exactly the next number of its day.
LEMMA CommitNumbers ==
  ASSUME TypeOK, Numbering, NEW r \in Requests, Framed(r), no' = no,
         HasTicket(r), r \notin Creators, Creators' = Creators \cup {r}
  PROVE  NumbersDense'
<1> DEFINE d == no[r].day
           n == Cardinality(CreatedOn(d))
<1>1. d \in 1..LastDay /\ no[r].seq \in 1..(n + 1) /\ n \in Nat
  BY CreatedFinite DEF Numbering, Numbered
<1>2. no[r].seq \notin {no[w].seq : w \in CreatedOn(d)}
  <2> SUFFICES ASSUME NEW w \in CreatedOn(d), no[w].seq = no[r].seq PROVE FALSE
    OBVIOUS
  <2>1. w \in Requests /\ HasTicket(w) /\ w # r /\ no[w].day = no[r].day
    BY DEF CreatedOn, Creators
  <2>2. no[w] = no[r]
    BY <2>1 DEF TypeOK
  <2> QED
    BY <2>1, <2>2 DEF Numbering, UniqueNumbers
<1>3. no[r].seq = n + 1
  BY <1>1, <1>2 DEF Numbering, NumbersDense
<1>4. CreatedOn(d)' = CreatedOn(d) \cup {r} /\ r \notin CreatedOn(d)
  BY DEF CreatedOn
<1>5. Cardinality(CreatedOn(d)') = n + 1
  BY <1>4, CreatedFinite, FS_AddElement
<1>6. {no'[w].seq : w \in CreatedOn(d)'} = {no[w].seq : w \in CreatedOn(d)} \cup {n + 1}
  BY <1>3, <1>4
<1>7. {no[w].seq : w \in CreatedOn(d)} = 1..n
  BY <1>1 DEF Numbering, NumbersDense
<1>8. {no'[w].seq : w \in CreatedOn(d)'} = 1..Cardinality(CreatedOn(d)')
  <2>1. (1..n) \cup {n + 1} = 1..(n + 1)
    BY <1>1
  <2> QED
    BY <1>5, <1>6, <1>7, <2>1
<1>9. \A e \in 1..LastDay : e # d => CreatedOn(e)' = CreatedOn(e)
  BY DEF CreatedOn
<1> QED
  <2> SUFFICES ASSUME NEW e \in 1..LastDay
               PROVE  {no'[w].seq : w \in CreatedOn(e)'} = 1..Cardinality(CreatedOn(e)')
    BY DEF NumbersDense
  <2>1. CASE e = d
    BY <1>8, <2>1
  <2>2. CASE e # d
    BY <1>9, <2>2 DEF Numbering, NumbersDense
  <2> QED
    BY <2>1, <2>2
-----------------------------------------------------------------------------
LEMMA ActNumbering ==
  ASSUME TypeOK, Consistent, Numbering, NEW r \in Requests, Act(r)
  PROVE  Numbering'
<1> USE DEF TypeOK
<1>0. Framed(r) /\ Progress(r)
  BY ActKeeps DEF Consistent
<1>1. \A q \in Requests \ {r} : Numbered(q)'
  BY <1>0, NumberedStays DEF Numbering, Framed, HasTicket
<1>2. CASE GenerateTicketNo(r)
  <2>1. ~ HasTicket(r) /\ tx' = tx /\ no'[r] = GeneratedNo(r)
    BY <1>0, <1>2, TracesHaveNoTicket DEF GenerateTicketNo, Progress, HasTicket, Idle, NoRows, Traced
  <2>2. ~ HasTicket(r)'
    BY <1>2, <2>1 DEF GenerateTicketNo, HasTicket, Rows, Traced
  <2>3. NumbersDense' /\ UniqueNumbers'
    <3>1. Creators' = Creators
      BY <1>0, <2>1, <2>2 DEF Creators, Committed, HasTicket, Framed
    <3> QED
      BY <1>0, <2>2, <3>1, DenseStays, UniqueStays DEF Numbering
  <2>4. Numbered(r)'
    <3>1. no'[r].day = today /\ no'[r].seq = Cardinality(CreatedOn(today)) + 1
      BY <2>1, CountIsCreated DEF GeneratedNo
    <3>2. \A d \in 1..LastDay :
            /\ Cardinality(CreatedOn(d)) <= Cardinality({w \in Creators' : no'[w].day = d})
            /\ Cardinality(CreatedOn(d)) \in Nat
            /\ Cardinality({w \in Creators' : no'[w].day = d}) \in Nat
      BY <1>0, CreatedGrows, CreatedFinite, CreatedFiniteNext DEF CreatedOn
    <3>3. today \in 1..LastDay
      OBVIOUS
    <3>4. {w \in Creators' : no'[w].day = no'[r].day} = {w \in Creators' : no'[w].day = today}
      BY <3>1
    <3>5. /\ no'[r].day \in 1..LastDay
          /\ no'[r].seq \in 1..(Cardinality({w \in Creators' : no'[w].day = no'[r].day}) + 1)
      BY <3>1, <3>2, <3>3, <3>4
    <3> QED
      BY <3>5 DEF Numbered, CreatedOn
  <2> QED
    BY <1>1, <2>3, <2>4 DEF Numbering
<1>3. CASE Commit(r)
  <2>1. no' = no /\ rows' = rows /\ tx'[r] = "committed" /\ ~ Committed(r) /\ pc'[r] = "answer"
    BY <1>0, <1>3 DEF Commit, Goto, Progress, Committed
  <2>2. UniqueNumbers' /\ Numbered(r)'
    BY <1>0, <2>1, UniqueStays, NumberedStays DEF Numbering, HasTicket
  <2>3. CASE HasTicket(r)
    <3>1. r \notin Creators /\ Creators' = Creators \cup {r}
      BY <1>0, <2>1, <2>3 DEF Creators, Committed, HasTicket, Framed
    <3> QED
      BY <1>0, <1>1, <2>1, <2>2, <2>3, <3>1, CommitNumbers DEF Numbering
  <2>4. CASE ~ HasTicket(r)
    <3>1. Creators' = Creators
      BY <1>0, <2>1, <2>4 DEF Creators, Committed, HasTicket, Framed
    <3> QED
      BY <1>0, <1>1, <2>2, <3>1, DenseStays DEF Numbering
  <2> QED
    BY <2>3, <2>4
<1>4. CASE InsertTicket(r)
  <2>1. no' = no /\ pc[r] = "insert_ticket" /\ ~ Committed(r) /\ ~ Committed(r)'
    BY <1>0, <1>4 DEF InsertTicket, Progress, Committed, Idle
  <2>2. UniqueNumbers'
    BY <1>0, <1>4, <2>1 DEF InsertTicket, TicketClash, Numbering, UniqueNumbers, Framed, HasTicket
  <2>3. Creators' = Creators
    BY <1>0, <2>1 DEF Creators, Committed, HasTicket, Framed
  <2>4. Numbered(r)'
    BY <1>0, <2>1, NumberedStays DEF Numbering
  <2> QED
    BY <1>0, <1>1, <2>2, <2>3, <2>4, DenseStays DEF Numbering
<1>5. CASE no' = no /\ (Committed(r)' => Committed(r)) /\ (HasTicket(r)' => HasTicket(r))
           /\ (pc'[r] \in {"insert_ticket", "complete"} => HasTicket(r))
  <2>1. Creators' = Creators
    BY <1>0, <1>5 DEF Creators, Committed, HasTicket, Framed
  <2>2. UniqueNumbers' /\ Numbered(r)'
    BY <1>0, <1>5, UniqueStays, NumberedStays DEF Numbering
  <2> QED
    BY <1>0, <1>1, <2>1, <2>2, DenseStays DEF Numbering
<1>6. CASE Receive(r) \/ FirstSeen(r) \/ SeenBefore(r) \/ Answer(r) \/ Recover(r)
  BY <1>5, <1>6
  DEF Receive, FirstSeen, SeenBefore, Answer, Recover, Goto, Reply, Committed, HasTicket
<1>7. CASE InsertKey(r) \/ TraceConflict(r) \/ Replay(r)
  <2>1. no' = no /\ (Committed(r)' => Committed(r)) /\ pc'[r] \notin {"insert_ticket", "complete"}
    BY <1>7 DEF InsertKey, TraceConflict, Replay, Goto, Reply, Committed, Traced
  <2>2. rows'[r].ticket = rows[r].ticket
    <3>1. CASE InsertKey(r)
      BY <3>1 DEF InsertKey, Rows
    <3>2. CASE TraceConflict(r)
      BY <3>2 DEF TraceConflict, Rows, Traced
    <3>3. CASE Replay(r)
      <4>1. \/ rows' = rows
            \/ rows' = [rows EXCEPT ![r] = Traced(@, "idempotent_replayed", "replayed")]
        BY <3>3 DEF Replay
      <4> QED
        BY <4>1 DEF Rows, Traced
    <3> QED
      BY <1>7, <3>1, <3>2, <3>3
  <2> QED
    BY <1>5, <2>1, <2>2 DEF HasTicket
<1>8. CASE CompleteCreation(r)
  <2>1. no' = no /\ (Committed(r)' => Committed(r)) /\ pc'[r] = "commit"
    BY <1>8 DEF CompleteCreation, Goto, Committed, Traced, Succeeded, References
  <2>2. rows'[r].ticket = rows[r].ticket
    BY <1>8 DEF CompleteCreation, Rows, Traced, Succeeded, References
  <2> QED
    BY <1>5, <2>1, <2>2 DEF HasTicket
<1>9. CASE KeyTaken(r) \/ TicketTaken(r) \/ Fail(r) \/ Crash(r)
  <2>1. Rollback(r) /\ no' = no /\ pc'[r] \in {"recover", "done"}
    BY <1>9 DEF KeyTaken, TicketTaken, Fail, Crash, Goto, Reply
  <2>2. (Committed(r)' => Committed(r)) /\ (HasTicket(r)' => HasTicket(r))
    BY <2>1, RollbackFrame, TracesHaveNoTicket DEF Committed, HasTicket
  <2> QED
    BY <1>5, <2>1, <2>2
<1> QED
  BY <1>2, <1>3, <1>4, <1>6, <1>7, <1>8, <1>9 DEF Act, Step

LEMMA InitNumbering == Init => Numbering
<1> SUFFICES ASSUME Init PROVE Numbering
  OBVIOUS
<1>1. Creators = {} /\ \A r \in Requests : ~ HasTicket(r)
  BY TracesHaveNoTicket DEF Init, Creators, Committed, HasTicket
<1>2. \A d \in 1..LastDay : CreatedOn(d) = {}
  BY <1>1 DEF CreatedOn
<1>3. NumbersDense
  BY <1>2, FS_EmptySet DEF NumbersDense
<1>4. UniqueNumbers /\ \A r \in Requests : Numbered(r)
  BY <1>1 DEF Init, UniqueNumbers, Numbered
<1> QED
  BY <1>3, <1>4 DEF Numbering

LEMMA NextNumbering == TypeOK /\ Consistent /\ Numbering /\ [Next]_vars => Numbering'
<1>1. ASSUME Numbering, NextDay \/ UNCHANGED vars PROVE Numbering'
  <2>1. UNCHANGED <<request, pc, tx, rows, no>>
    BY <1>1 DEF NextDay, vars
  <2>2. Creators' = Creators /\ \A r \in Requests : HasTicket(r)' = HasTicket(r)
    BY <2>1 DEF Creators, Committed, HasTicket
  <2>3. NumbersDense'
    BY <1>1, <2>1, <2>2 DEF Numbering, NumbersDense, CreatedOn
  <2>4. UniqueNumbers' /\ \A r \in Requests : Numbered(r)'
    BY <1>1, <2>1, <2>2 DEF Numbering, UniqueNumbers, Numbered, CreatedOn
  <2> QED
    BY <2>3, <2>4 DEF Numbering
<1> QED
  BY <1>1, ActNumbering DEF Next, Act, Terminating

(* generate_ticket_no counts what is committed: a number in use, committed  *)
(* or not, is at most one ahead of the committed tickets of its day, and no *)
(* two tickets that are in the table have the same one.                     *)
THEOREM AlwaysNumbered == Spec => []Numbering
<1>1. TypeOK /\ Consistent /\ TypeOK' /\ Consistent' /\ Numbering /\ [Next]_vars => Numbering'
  BY NextNumbering
<1> QED
  BY <1>1, InitNumbering, TypeCorrect, AlwaysConsistent, PTL DEF Spec

(* The committed ticket numbers of every day are 1, 2, 3, ..., whatever was *)
(* rolled back or refused in between.                                       *)
THEOREM NumbersAreDense == Spec => []NumbersDense
BY AlwaysNumbered, PTL DEF Numbering
=============================================================================
