-------------------------- MODULE TicketService_serial --------------------------
(***************************************************************************)
(* What the checks of the handlers amount to, and what becomes of tickets  *)
(* when no two requests decide about one of them at the same time: then    *)
(* the handlers implement TicketLifecycle, and what overlapping requests   *)
(* break holds.                                                            *)
(***************************************************************************)
EXTENDS TicketService_proofs

(* The three verdicts, as grants.                                          *)

LEMMA UpdateGranted ==
  ASSUME NEW t \in Tickets, NEW u \in Active, NEW to \in TicketStatus, NEW status \in TicketStatus
  PROVE  LET q == [op |-> "update", ticket |-> t, user |-> u, to |-> to] IN
         Verdict(q, status) = "ok" <=>
           /\ can_view_ticket(u, t) /\ TransitionAllowed(status, to)
           /\ TransitionPermitted(u, t, status, to)
BY TicketsAssumption DEF Verdict, UpdateVerdict

LEMMA CancelGranted ==
  ASSUME NEW t \in Tickets, NEW u \in Active, NEW status \in TicketStatus
  PROVE  LET q == [op |-> "cancel", ticket |-> t, user |-> u, to |-> "cancelled"] IN
         Verdict(q, status) = "ok" <=>
           /\ can_view_ticket(u, t) /\ TransitionAllowed(status, "cancelled")
           /\ CancelPermitted(u, t, status)
BY TicketsAssumption DEF Verdict, CancelVerdict

LEMMA AssignGranted ==
  ASSUME NEW t \in Tickets, NEW u \in Active, NEW a \in Users, NEW status \in TicketStatus
  PROVE  LET q == [op |-> "assign", ticket |-> t, user |-> u, to |-> a] IN
         Verdict(q, status) = "ok" <=>
           u \in Staff /\ CanBeAssigned(a) /\ status \notin TERMINAL_STATUSES
BY TicketsAssumption DEF Verdict, AssignVerdict, CanBeAssigned

LEMMA MovesGranted ==
  ASSUME NEW t \in Tickets, NEW u \in Active, NEW to \in TicketStatus, NEW status \in TicketStatus
  PROVE  MayMove(u, t, status, to) <=>
           \/ /\ can_view_ticket(u, t) /\ TransitionAllowed(status, to)
              /\ TransitionPermitted(u, t, status, to)
           \/ /\ to = "cancelled"
              /\ can_view_ticket(u, t) /\ TransitionAllowed(status, "cancelled")
              /\ CancelPermitted(u, t, status)
<1>1. u \in Users /\ Role[u] \in {"admin", "hr", "employee"}
  BY UsersAssumption DEF UserRole
<1> QED
  BY <1>1 DEF MayMove, can_view_ticket, TransitionAllowed, TransitionPermitted, CancelPermitted,
       ALLOWED_STATUS_TRANSITIONS, TERMINAL_STATUSES, Staff, TicketStatus

(* In every status, and for any users and roles, the checks scattered over *)
(* the three handlers grant exactly the rights the README documents.       *)
THEOREM RightsAsDocumented == Spec => []RulesAsDocumented
<1>1. TypeOK => RulesAsDocumented
  <2> SUFFICES ASSUME TypeOK, NEW u \in Active, NEW t \in Tickets
               PROVE  LET status == ticket[t].status
                          Ok(op, to) == Verdict([op |-> op, ticket |-> t, user |-> u, to |-> to], status) = "ok"
                      IN /\ \A to \in TicketStatus :
                              MayMove(u, t, status, to) <=>
                                Ok("update", to) \/ (to = "cancelled" /\ Ok("cancel", to))
                         /\ \A a \in Users :
                              Ok("assign", a) <=>
                                u \in Staff /\ CanBeAssigned(a) /\ status \notin TERMINAL_STATUSES
    BY DEF RulesAsDocumented
  <2>1. ticket[t].status \in TicketStatus
    BY DEF TypeOK, Rows
  <2> QED
    BY <2>1, UpdateGranted, CancelGranted, AssignGranted, MovesGranted
<1> QED
  BY <1>1, TypeCorrect, PTL
-----------------------------------------------------------------------------
(* One handler at a time.  A handler decides about its ticket from the     *)
(* moment it has read the row until it commits; a lock taken by the read   *)
(* would keep all others from deciding meanwhile, and a single thread      *)
(* does.  Then what a handler has read is still the row when it commits.   *)

Deciding(w) == pc[w] \in {"write", "audit", "commit"}

OneAtATime ==
  \A v, w \in Workers : Deciding(v) /\ Deciding(w) /\ On(v) = On(w) => v = w

UpToDate == \A w \in Workers : Deciding(w) => seen[w] = ticket[On(w)]

LEMMA SingleThread ==
  ASSUME \A v, w \in Workers : v = w
  PROVE  Spec => []OneAtATime
<1>1. OneAtATime
  BY DEF OneAtATime
<1> QED
  BY <1>1, PTL

LEMMA CommitUpToDate ==
  ASSUME Placed, UpToDate, OneAtATime, NEW w \in Workers, Commit(w)
  PROVE  UpToDate'
<1>1. /\ pc[w] = "commit" /\ pc' = [pc EXCEPT ![w] = "answer"] /\ Deciding(w)
      /\ request' = request /\ seen' = seen
  BY DEF Commit, Goto, Deciding
<1> SUFFICES ASSUME NEW v \in Workers, Deciding(v)' PROVE seen'[v] = ticket'[On(v)']
  BY DEF UpToDate
<1>2. v # w /\ Deciding(v) /\ On(v)' = On(v)
  BY <1>1 DEF Placed, TypeOK, Deciding, On
<1>3. On(v) \in Tickets \ {On(w)}
  BY <1>1, <1>2, OnTicket DEF OneAtATime, Placed, Deciding, Running
<1>4. ticket'[On(v)] = ticket[On(v)]
  BY <1>3, CommitAppends
<1> QED
  BY <1>1, <1>2, <1>4 DEF UpToDate

LEMMA LoadUpToDate ==
  ASSUME Placed, UpToDate, NEW w \in Workers, NEW q \in Requests, Load(w, q)
  PROVE  UpToDate'
BY DEF Load, Goto, UpToDate, Deciding, On, Placed, TypeOK

LEMMA OtherUpToDate ==
  ASSUME Placed, UpToDate, NEW w \in Workers,
         Write(w) \/ RecordAudit(w) \/ Answer(w) \/ Fail(w) \/ (\E q \in Requests : Refuse(w, q))
  PROVE  UpToDate'
<1>1. CASE Write(w) \/ RecordAudit(w) \/ \E q \in Requests : Refuse(w, q)
  BY <1>1 DEF Write, RecordAudit, Refuse, Goto, UpToDate, Deciding, On, Placed, TypeOK
<1>2. CASE Answer(w) \/ Fail(w)
  BY <1>2 DEF Answer, Fail, Finish, Goto, UpToDate, Deciding, On, Placed, TypeOK
<1> QED
  BY <1>1, <1>2

LEMMA NextUpToDate ==
  Placed /\ UpToDate /\ OneAtATime /\ [Next]_vars => UpToDate'
<1>1. ASSUME UpToDate, UNCHANGED vars PROVE UpToDate'
  BY <1>1 DEF UpToDate, Deciding, On, vars
<1> QED
  BY <1>1, CommitUpToDate, LoadUpToDate, OtherUpToDate DEF Next, Step

LEMMA AlwaysUpToDate == Spec /\ []OneAtATime => []UpToDate
<1>1. Init => UpToDate
  BY DEF Init, UpToDate, Deciding
<1> QED
  BY <1>1, NextUpToDate, AlwaysPlaced, PTL DEF Spec
-----------------------------------------------------------------------------
(* A commit that decides on the present row is a step of the life cycle.   *)

LEMMA AssignsOpenTicket ==
  ASSUME Placed, NEW w \in Workers, Running(w), ~ ChangesStatus(w)
  PROVE  seen[w].status \notin TERMINAL_STATUSES
<1>1. request[w].op = "assign" /\ Verdict(request[w], seen[w].status) = "ok"
  BY DEF Placed, Places, Place, ChangesStatus
<1>2. AssignVerdict(request[w], seen[w].status) = "ok"
  BY <1>1 DEF Verdict
<1> QED
  BY <1>2 DEF AssignVerdict

LEMMA SameRules ==
  /\ Lifecycle!TicketStatus = TicketStatus /\ Lifecycle!TERMINAL_STATUSES = TERMINAL_STATUSES
  /\ \A u, t, from, to : MayMove(u, t, from, to) => Lifecycle!MayMove(u, t, from, to)
  /\ \A a : CanBeAssigned(a) => Lifecycle!CanBeAssigned(a)
BY DEF Lifecycle!TicketStatus, TicketStatus, Lifecycle!TERMINAL_STATUSES, TERMINAL_STATUSES,
       Lifecycle!MayMove, MayMove, Lifecycle!ALLOWED_STATUS_TRANSITIONS, ALLOWED_STATUS_TRANSITIONS,
       Lifecycle!Staff, Staff, Lifecycle!Owns, Owns, Lifecycle!CanBeAssigned, CanBeAssigned

LEMMA CommitIsLifecycleStep ==
  ASSUME Placed, UpToDate, NEW w \in Workers, Commit(w)
  PROVE  Lifecycle!Next \/ UNCHANGED <<ticket, transitions>>
<1> DEFINE t == On(w)
           q == request[w]
<1>0. inserted[w].transition = HistoryLine(w)
  <2>1. pc[w] = "commit" /\ inserted[w] = Insertions(w)
    BY DEF Commit, Placed, Places, Place
  <2> QED
    BY <2>1 DEF Insertions
<1>1. /\ t \in Tickets /\ seen[w] = ticket[t] /\ Running(w) /\ ticket \in [Tickets -> Rows]
      /\ q \in Requests /\ transitions[t] \in Seq(Lines)
  BY Committed, OnTicket DEF UpToDate, Deciding, Commit, Placed, TypeOK
<1>2. q.user \in Active
  BY <1>1 DEF Requests, UpdateRequests, CancelRequests, AssignRequests
<1>3. CASE ChangesStatus(w)
  <2>1. /\ MayMove(q.user, t, ticket[t].status, q.to) /\ StatusLine(w) \in Lines
        /\ StatusLine(w) = [from |-> ticket[t].status, to |-> q.to, user |-> q.user]
    BY <1>1, <1>3, OnTicket DEF Placed, StatusLine
  <2>2. q.to \in TicketStatus
    BY <2>1 DEF MayMove, ALLOWED_STATUS_TRANSITIONS, TicketStatus
  <2>3. ticket' = [ticket EXCEPT ![t].status = q.to]
    <3>1. holder[t] = w /\ Changed(ticket[t], q) = [ticket[t] EXCEPT !.status = q.to]
      BY <1>1, <1>3, OnTicket DEF Commit, Placed, Places, Place, Changed, ChangesStatus
    <3> QED
      BY <1>1, <3>1 DEF Commit
  <2>4. transitions' = [transitions EXCEPT ![t] = Append(@, StatusLine(w))]
    <3>1. inserted[w].transition = <<StatusLine(w)>>
      BY <1>0, <1>3 DEF HistoryLine
    <3>2. transitions[t] \o <<StatusLine(w)>> = Append(transitions[t], StatusLine(w))
      BY <1>1, <2>1, AppendIsConcat
    <3> QED
      BY <3>1, <3>2 DEF Commit
  <2>5. Lifecycle!Move(t, q.user, q.to)
    BY <1>1, <2>1, <2>3, <2>4, SameRules DEF Lifecycle!Move
  <2> QED
    BY <1>1, <1>2, <2>2, <2>5, SameRules DEF Lifecycle!Next
<1>4. CASE ~ ChangesStatus(w)
  <2>1. transitions' = transitions
    <3>1. inserted[w].transition = <<>>
      BY <1>0, <1>4 DEF HistoryLine
    <3>2. transitions[t] \o <<>> = transitions[t]
      BY <1>1, ConcatEmptySeq
    <3> QED
      BY <3>1, <3>2 DEF Commit, Placed, TypeOK
  <2>2. CASE Writes(w)
    <3>1. q.op = "assign" /\ CanBeAssigned(q.to) /\ holder[t] = w
      BY <1>1, <1>4, <2>2, OnTicket DEF Commit, Placed, Places, Place, ChangesStatus
    <3>2. ticket' = [ticket EXCEPT ![t].assignee = q.to]
      BY <1>1, <3>1 DEF Commit, Changed
    <3>3. ticket[t].status \notin TERMINAL_STATUSES
      BY <1>1, <1>4, AssignsOpenTicket
    <3>4. Lifecycle!Assign(t, q.to) /\ q.to \in Active
      BY <2>1, <3>1, <3>2, <3>3, SameRules DEF Lifecycle!Assign, CanBeAssigned
    <3> QED
      BY <1>1, <3>4 DEF Lifecycle!Next
  <2>3. CASE ~ Writes(w)
    BY <1>1, <1>4, <2>1, <2>3, OnTicket DEF Commit, Placed, Places, Place
  <2> QED
    BY <2>2, <2>3
<1> QED
  BY <1>3, <1>4

(* If no two requests decide about a ticket at the same time, the handlers *)
(* implement the life cycle as it is meant: each move starts where the     *)
(* last one ended, and nothing closed or cancelled is touched.             *)
THEOREM UncontendedLifecycle == Spec /\ []OneAtATime => FollowsLifecycle
<1>1. Init => Lifecycle!Init
  BY DEF Init, NewRow, Lifecycle!Init
<1>2. Placed /\ UpToDate /\ [Next]_vars => [Lifecycle!Next]_<<ticket, transitions>>
  BY TablesAreCommitted, CommitIsLifecycleStep
<1> QED
  BY <1>1, <1>2, AlwaysPlaced, AlwaysUpToDate, PTL DEF Spec, FollowsLifecycle, Lifecycle!Spec

(* A service with a single thread implements the life cycle.               *)
THEOREM SerialLifecycle ==
  ASSUME \A v, w \in Workers : v = w
  PROVE  Spec => FollowsLifecycle
BY SingleThread, UncontendedLifecycle, PTL
-----------------------------------------------------------------------------
(* The four claims that overlapping requests break hold without overlap:   *)
(* nothing but the time between reading and writing is at fault.           *)

LEMMA LifecycleStepIsLegal ==
  ASSUME ticket \in [Tickets -> Rows], Lifecycle!Next, NEW t \in Tickets
  PROVE  /\ ticket'[t].status # ticket[t].status =>
              <<ticket[t].status, ticket'[t].status>> \in ALLOWED_STATUS_TRANSITIONS
         /\ ticket'[t].assignee # ticket[t].assignee =>
              ticket[t].status \notin TERMINAL_STATUSES
<1>1. PICK u \in Tickets :
        \E v \in Active : Lifecycle!Assign(u, v) \/ \E to \in TicketStatus : Lifecycle!Move(u, v, to)
  BY SameRules DEF Lifecycle!Next
<1>2. ticket[u] \in Rows /\ ticket[t] \in Rows
  OBVIOUS
<1>3. CASE \E v \in Active : Lifecycle!Assign(u, v)
  BY <1>2, <1>3, SameRules DEF Lifecycle!Assign, Rows
<1>4. CASE \E v \in Active, to \in TicketStatus : Lifecycle!Move(u, v, to)
  <2>1. PICK to \in TicketStatus :
          /\ ticket' = [ticket EXCEPT ![u].status = to]
          /\ <<ticket[u].status, to>> \in ALLOWED_STATUS_TRANSITIONS
    BY <1>4 DEF Lifecycle!Move, Lifecycle!MayMove, Lifecycle!ALLOWED_STATUS_TRANSITIONS,
                ALLOWED_STATUS_TRANSITIONS
  <2> QED
    BY <1>2, <2>1 DEF Rows
<1> QED
  BY <1>1, <1>3, <1>4

(* Without overlap the status only moves along edges of the state machine. *)
THEOREM UncontendedEdges == Spec /\ []OneAtATime => LegalEdges
<1> DEFINE Legal == \A t \in Tickets :
                      ticket'[t].status # ticket[t].status =>
                        <<ticket[t].status, ticket'[t].status>> \in ALLOWED_STATUS_TRANSITIONS
<1>1. Placed /\ UpToDate /\ [Next]_vars => [Legal]_vars
  BY TablesAreCommitted, CommitIsLifecycleStep, LifecycleStepIsLegal DEF Placed, TypeOK
<1> QED
  BY <1>1, AlwaysPlaced, AlwaysUpToDate, PTL DEF Spec, LegalEdges

(* Without overlap no closed or cancelled ticket is assigned.              *)
THEOREM UncontendedAssignment == Spec /\ []OneAtATime => AssignedWhileOpen
<1> DEFINE Legal == \A t \in Tickets :
                      ticket'[t].assignee # ticket[t].assignee =>
                        ticket[t].status \notin TERMINAL_STATUSES
<1>1. Placed /\ UpToDate /\ [Next]_vars => [Legal]_vars
  BY TablesAreCommitted, CommitIsLifecycleStep, LifecycleStepIsLegal DEF Placed, TypeOK
<1> QED
  BY <1>1, AlwaysPlaced, AlwaysUpToDate, PTL DEF Spec, AssignedWhileOpen

LEMMA CommitChains ==
  ASSUME Placed, StatusRecorded, UpToDate, HistoryChains, NEW w \in Workers, Commit(w)
  PROVE  HistoryChains'
<1> DEFINE t == On(w)
           h == Len(transitions[t])
<1>1. /\ t \in Tickets /\ seen[w] = ticket[t]
      /\ transitions[t] \in Seq(Lines)
  BY Committed DEF UpToDate, Deciding, Commit, Placed, TypeOK
<1> SUFFICES ASSUME NEW u \in Tickets, NEW i \in DOMAIN transitions'[u]
             PROVE  transitions'[u][i].from = IF i = 1 THEN "open" ELSE transitions'[u][i - 1].to
  BY DEF HistoryChains
<1>2. CASE u # t \/ ~ ChangesStatus(w)
  <2>1. transitions'[u] = transitions[u]
    BY <1>2, CommitAppends
  <2> QED
    BY <2>1 DEF HistoryChains
<1>3. CASE u = t /\ ChangesStatus(w)
  <2>1. /\ h \in Nat /\ DOMAIN transitions[t] = 1..h /\ DOMAIN transitions'[t] = 1..(h + 1)
        /\ \A k \in 1..h : transitions'[t][k] = transitions[t][k]
        /\ transitions'[t][h + 1] = StatusLine(w)
    BY <1>3, CommitAppends
  <2>2. ticket[t].status = IF h = 0 THEN "open" ELSE transitions[t][h].to
    BY <1>1, <2>1 DEF StatusRecorded, LastOf
  <2> HIDE DEF h, t
  <2>3. CASE i = h + 1
    <3>1. transitions'[t][i].from = ticket[t].status
      BY <1>1, <2>1, <2>3 DEF StatusLine
    <3>2. CASE h = 0
      BY <1>3, <2>2, <2>3, <3>1, <3>2
    <3>3. CASE h # 0
      <4>1. i # 1 /\ i - 1 = h /\ transitions'[t][h] = transitions[t][h]
        BY <2>1, <2>3, <3>3
      <4>2. transitions'[t][i].from = transitions'[t][i - 1].to
        BY <2>2, <3>1, <3>3, <4>1
      <4> QED
        BY <1>3, <4>1, <4>2
    <3> QED
      BY <3>2, <3>3
  <2>4. CASE i # h + 1
    <3>1. i \in 1..h /\ (i # 1 => i - 1 \in 1..h)
      BY <1>3, <2>1, <2>4
    <3>2. transitions[t][i].from = IF i = 1 THEN "open" ELSE transitions[t][i - 1].to
      BY <1>3, <2>1, <3>1 DEF HistoryChains
    <3> QED
      BY <1>3, <2>1, <3>1, <3>2
  <2> QED
    BY <2>3, <2>4
<1> QED
  BY <1>2, <1>3

(* Without overlap each history line starts where the one before it ended. *)
THEOREM UncontendedHistory == Spec /\ []OneAtATime => []HistoryChains
<1>1. Init => HistoryChains
  BY DEF Init, HistoryChains
<1>2. Placed /\ Historical /\ UpToDate /\ HistoryChains /\ [Next]_vars => HistoryChains'
  <2>1. ASSUME HistoryChains, UNCHANGED <<ticket, transitions, audits>> PROVE HistoryChains'
    BY <2>1 DEF HistoryChains
  <2> QED
    BY <2>1, CommitChains, TablesAreCommitted DEF Historical
<1> QED
  BY <1>1, <1>2, AlwaysPlaced, AlwaysHistorical, AlwaysUpToDate, PTL DEF Spec

LEMMA CommitAssigns ==
  ASSUME Placed, UpToDate, LastAssignmentHolds, NEW w \in Workers, Commit(w)
  PROVE  LastAssignmentHolds'
<1> DEFINE t == On(w)
           n == Len(audits[t])
<1>1. /\ t \in Tickets /\ seen[w] = ticket[t] /\ seen[w] \in Rows /\ Running(w)
      /\ request[w].op \in {"update", "cancel", "assign"}
  BY Committed, OnTicket DEF UpToDate, Deciding, Commit, Placed, TypeOK
<1> SUFFICES ASSUME NEW u \in Tickets, NEW i \in DOMAIN audits'[u], audits'[u][i].action = "assign",
                    \A j \in DOMAIN audits'[u] : audits'[u][j].action = "assign" => j <= i
             PROVE  ticket'[u].assignee = audits'[u][i].after.assignee
  BY DEF LastAssignmentHolds
<1>2. CASE u # t
  <2>1. audits'[u] = audits[u] /\ ticket'[u] = ticket[u]
    BY <1>2, CommitAppends
  <2> QED
    BY <2>1 DEF LastAssignmentHolds
<1>3. CASE u = t
  <2>1. /\ n \in Nat /\ DOMAIN audits[t] = 1..n /\ DOMAIN audits'[t] = 1..(n + 1)
        /\ \A k \in 1..n : audits'[t][k] = audits[t][k]
        /\ audits'[t][n + 1] = AuditLine(w)
    BY CommitAppends
  <2>2. CASE ChangesStatus(w)
    <3>1. AuditLine(w).action # "assign" /\ ticket'[t].assignee = ticket[t].assignee
      <4>1. AuditLine(w).action # "assign"
        BY <2>2 DEF AuditLine, ChangesStatus
      <4> QED
        BY <2>2, <4>1, CommitAppends, ZenonT(40)
    <3> HIDE DEF n, t
    <3>2. i \in 1..n /\ \A j \in 1..n : audits[t][j].action = "assign" => j <= i
      BY <1>3, <2>1, <3>1
    <3> QED
      BY <1>3, <2>1, <3>1, <3>2 DEF LastAssignmentHolds
  <2>3. CASE ~ ChangesStatus(w)
    <3>1. /\ AuditLine(w).action = "assign" /\ AuditLine(w).after.assignee = request[w].to
          /\ ~ Writes(w) => ticket[t].assignee = request[w].to
      <4>1. request[w].op = "assign"
        BY <1>1, <2>3 DEF ChangesStatus
      <4>2. AuditLine(w).action = "assign" /\ AuditLine(w).after = Changed(seen[w], request[w])
        BY <4>1 DEF AuditLine
      <4>3. Changed(seen[w], request[w]).assignee = request[w].to
        BY <1>1, <4>1 DEF Changed, Rows
      <4>4. ~ Writes(w) => ticket[t].assignee = request[w].to
        BY <1>1, <4>1, <4>3 DEF Writes
      <4> QED
        BY <4>2, <4>3, <4>4
    <3>2. ticket'[t].assignee = request[w].to
      BY <2>3, <3>1, CommitAppends
    <3> HIDE DEF n, t
    <3>3. i = n + 1
      BY <1>3, <2>1, <3>1
    <3> QED
      BY <1>3, <2>1, <3>1, <3>2, <3>3
  <2> QED
    BY <2>2, <2>3
<1> QED
  BY <1>2, <1>3

(* Without overlap the assignee is the one of the last audited assignment. *)
THEOREM UncontendedAssignee == Spec /\ []OneAtATime => []LastAssignmentHolds
<1>1. Init => LastAssignmentHolds
  BY DEF Init, LastAssignmentHolds
<1>2. Placed /\ UpToDate /\ LastAssignmentHolds /\ [Next]_vars => LastAssignmentHolds'
  <2>1. ASSUME LastAssignmentHolds, UNCHANGED <<ticket, transitions, audits>>
        PROVE  LastAssignmentHolds'
    BY <2>1 DEF LastAssignmentHolds
  <2> QED
    BY <2>1, CommitAssigns, TablesAreCommitted
<1> QED
  BY <1>1, <1>2, AlwaysPlaced, AlwaysUpToDate, PTL DEF Spec
================================================================================
