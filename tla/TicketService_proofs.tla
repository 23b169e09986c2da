------------------------- MODULE TicketService_proofs -------------------------
(***************************************************************************)
(* What holds of the life cycle of tickets for any users, tickets, threads *)
(* and number of changes, although no handler locks the row it reads.      *)
(***************************************************************************)
EXTENDS TicketService, SequenceTheorems, FiniteSetTheorems, TLAPS

(* A request that has passed all checks is one somebody is entitled to.    *)
LEMMA Entitled ==
  ASSUME NEW q \in Requests, NEW status \in TicketStatus, Verdict(q, status) = "ok"
  PROVE  /\ q.ticket \in Tickets /\ q.user \in Users
         /\ q.op # "assign" => /\ q.op \in {"update", "cancel"} /\ q.to \in TicketStatus
                               /\ MayMove(q.user, q.ticket, status, q.to)
         /\ q.op = "assign" => CanBeAssigned(q.to) /\ q.to \in Users
<1> USE UsersAssumption, TicketsAssumption
<1>1. q.op \in {"update", "cancel", "assign"} /\ q.ticket \in Tickets \cup {Unknown} /\ q.user \in Users
  BY DEF Requests, UpdateRequests, CancelRequests, AssignRequests
<1>2. CASE q.op = "update"
  <2>1. UpdateVerdict(q, status) = "ok" /\ q.to \in TicketStatus
    BY <1>2 DEF Verdict, Requests, UpdateRequests, CancelRequests, AssignRequests
  <2>2. q.ticket # Unknown /\ TransitionAllowed(status, q.to)
        /\ TransitionPermitted(q.user, q.ticket, status, q.to)
    BY <2>1 DEF UpdateVerdict
  <2> QED
    BY <1>1, <1>2, <2>1, <2>2 DEF TransitionAllowed, TransitionPermitted, MayMove, Staff
<1>3. CASE q.op = "cancel"
  <2>1. CancelVerdict(q, status) = "ok" /\ q.to = "cancelled"
    BY <1>3 DEF Verdict, Requests, UpdateRequests, CancelRequests, AssignRequests
  <2>2. q.ticket # Unknown /\ TransitionAllowed(status, q.to)
        /\ CancelPermitted(q.user, q.ticket, status)
    BY <2>1 DEF CancelVerdict
  <2> QED
    BY <1>1, <1>3, <2>1, <2>2 DEF TransitionAllowed, CancelPermitted, MayMove, TicketStatus
<1>4. CASE q.op = "assign"
  <2>1. AssignVerdict(q, status) = "ok"
    BY <1>4 DEF Verdict
  <2> QED
    BY <1>1, <1>4, <2>1 DEF AssignVerdict, CanBeAssigned
<1> QED
  BY <1>1, <1>2, <1>3, <1>4
-----------------------------------------------------------------------------
(* Type correctness, together with the place each thread is at: what it    *)
(* has inserted and which row it holds are functions of its request, of    *)
(* the row it has read and of the statement it is at.                      *)

HistoryLine(w) == IF ChangesStatus(w) THEN <<StatusLine(w)>> ELSE <<>>

Insertions(w) ==
  [transition |-> IF pc[w] \in {"audit", "commit"} THEN HistoryLine(w) ELSE <<>>,
   audit |-> IF pc[w] = "commit" THEN <<AuditLine(w)>> ELSE <<>>]

Place(w) ==
  /\ Running(w) => request[w] \in Requests /\ Verdict(request[w], seen[w].status) = "ok"
  /\ inserted[w] = Insertions(w)
  /\ \A t \in Tickets :
       holder[t] = w <=> pc[w] \in {"audit", "commit"} /\ On(w) = t /\ Writes(w)

Places == \A w \in Workers : Place(w)

\* A step of w leaves everything of the other threads as it is.
Framed(w) ==
  \A v \in Workers \ {w} :
    /\ pc'[v] = pc[v] /\ request'[v] = request[v] /\ seen'[v] = seen[v]
    /\ inserted'[v] = inserted[v]
    /\ \A t \in Tickets : holder'[t] = v <=> holder[t] = v

LEMMA OthersKeepPlace ==
  ASSUME Places, NEW w \in Workers, Framed(w), Place(w)'
  PROVE  Places'
<1> SUFFICES ASSUME NEW v \in Workers, v # w PROVE Place(v)'
  BY DEF Places
<1> QED
  BY DEF Places, Framed, Place, Insertions, HistoryLine, ChangesStatus, StatusLine, AuditLine,
         Running, On, Writes

LEMMA OnTicket ==
  ASSUME TypeOK, Places, NEW w \in Workers, Running(w)
  PROVE  /\ request[w] \in Requests /\ On(w) \in Tickets /\ seen[w] \in Rows
         /\ Changed(seen[w], request[w]) \in Rows
         /\ AuditLine(w) \in AuditLines
         /\ ChangesStatus(w) => /\ StatusLine(w) \in Lines
                                /\ Writes(w)
                                /\ MayMove(request[w].user, On(w), seen[w].status, request[w].to)
         /\ ~ ChangesStatus(w) => CanBeAssigned(request[w].to) /\ request[w].to \in Users
         /\ request[w].op \in {"update", "cancel", "assign"}
<1> DEFINE q == request[w]
           row == seen[w]
<1>1. q \in Requests /\ row \in Rows /\ row.status \in TicketStatus /\ Verdict(q, row.status) = "ok"
  BY DEF TypeOK, Places, Place, Rows
<1>2. q.op \in {"update", "cancel", "assign"}
  BY <1>1 DEF Requests, UpdateRequests, CancelRequests, AssignRequests
<1>3. /\ q.ticket \in Tickets /\ q.user \in Users
      /\ q.op # "assign" => q.to \in TicketStatus /\ MayMove(q.user, q.ticket, row.status, q.to)
      /\ q.op = "assign" => CanBeAssigned(q.to) /\ q.to \in Users
  BY <1>1, Entitled
<1>4. Changed(row, q) \in Rows
  BY <1>1, <1>2, <1>3 DEF Changed, Rows
<1>5. AuditLine(w) \in AuditLines
  BY <1>1, <1>2, <1>3, <1>4 DEF AuditLine, AuditLines
<1>6. ASSUME q.op # "assign" PROVE StatusLine(w) \in Lines /\ Writes(w)
  <2>1. row.status # q.to
    BY <1>3, <1>6 DEF MayMove, ALLOWED_STATUS_TRANSITIONS
  <2>2. Changed(row, q).status = q.to
    BY <1>1, <1>6 DEF Changed, Rows
  <2> QED
    BY <1>1, <1>3, <1>6, <2>1, <2>2 DEF StatusLine, Lines, Writes
<1> QED
  BY <1>1, <1>2, <1>3, <1>4, <1>5, <1>6 DEF On, ChangesStatus
-----------------------------------------------------------------------------
Placed == TypeOK /\ Places

LEMMA InitPlaced == Init => Placed
BY WorkersAssumption
DEF Init, Placed, TypeOK, Places, Place, Insertions, Nothing, Running, NewRow, Rows, TicketStatus, Replies

LEMMA RefuseType == ASSUME TypeOK, NEW w \in Workers, NEW q \in Requests, Refuse(w, q) PROVE TypeOK'
<1>1. Verdict(q, StatusRead(q)) \in Replies
  BY DEF Verdict, UpdateVerdict, CancelVerdict, AssignVerdict, Replies, Requests, UpdateRequests,
         CancelRequests, AssignRequests
<1> QED
  BY <1>1 DEF TypeOK, Refuse

LEMMA RefusePlaced == ASSUME Placed, NEW w \in Workers, NEW q \in Requests, Refuse(w, q) PROVE Placed'
<1>1. Places'
  BY DEF Placed, Refuse, Places, Place, Insertions, HistoryLine, ChangesStatus, StatusLine,
         AuditLine, Running, On, Writes
<1> QED
  BY <1>1, RefuseType DEF Placed

LEMMA LoadPlaced ==
  ASSUME Placed, NEW w \in Workers, NEW q \in Requests, Load(w, q)
  PROVE  Placed' /\ Framed(w) /\ q.ticket \in Tickets
<1> USE DEF Placed, TypeOK
<1>1. pc[w] = "idle" /\ Verdict(q, StatusRead(q)) = "ok"
  BY DEF Load
<1>2. q.ticket # Unknown /\ q.ticket \in Tickets \cup {Unknown}
  BY <1>1 DEF Verdict, UpdateVerdict, CancelVerdict, AssignVerdict, Requests, UpdateRequests,
              CancelRequests, AssignRequests
<1>3. q.ticket \in Tickets /\ StatusRead(q) = ticket[q.ticket].status
  BY <1>2 DEF StatusRead
<1>4. /\ request' = [request EXCEPT ![w] = q] /\ seen' = [seen EXCEPT ![w] = ticket[q.ticket]]
      /\ reply' = [reply EXCEPT ![w] = "none"] /\ pc' = [pc EXCEPT ![w] = "write"]
      /\ UNCHANGED <<ticket, transitions, audits, holder, inserted>>
  BY DEF Load, Goto
<1>5. TypeOK'
  BY <1>3, <1>4 DEF Replies
<1>6. Framed(w)
  BY <1>4 DEF Framed
<1>7. Place(w)'
  BY <1>1, <1>3, <1>4 DEF Places, Place, Insertions, Running
<1> QED
  BY <1>3, <1>5, <1>6, <1>7, OthersKeepPlace

LEMMA WritePlaced ==
  ASSUME Placed, NEW w \in Workers, Write(w)
  PROVE  Placed' /\ Framed(w)
<1> USE DEF Placed, TypeOK
<1>1. pc[w] = "write" /\ (Writes(w) => holder[On(w)] = NoWorker)
  BY DEF Write
<1>2. On(w) \in Tickets /\ (ChangesStatus(w) => StatusLine(w) \in Lines)
  BY <1>1, OnTicket DEF Running
<1>3. /\ holder' = IF Writes(w) THEN [holder EXCEPT ![On(w)] = w] ELSE holder
      /\ inserted' = IF ChangesStatus(w)
           THEN [inserted EXCEPT ![w].transition = <<StatusLine(w)>>] ELSE inserted
      /\ pc' = [pc EXCEPT ![w] = "audit"]
      /\ UNCHANGED <<ticket, transitions, audits, request, seen, reply>>
  BY DEF Write, Goto
<1>4. inserted[w] = [transition |-> <<>>, audit |-> <<>>]
  BY <1>1 DEF Places, Place, Insertions
<1>5. inserted'[w] = [transition |-> HistoryLine(w), audit |-> <<>>]
      /\ \A v \in Workers \ {w} : inserted'[v] = inserted[v]
  <2>1. CASE ChangesStatus(w)
    <3>1. inserted' = [inserted EXCEPT ![w] = [inserted[w] EXCEPT !.transition = <<StatusLine(w)>>]]
      BY <1>3, <2>1
    <3>2. [inserted[w] EXCEPT !.transition = <<StatusLine(w)>>]
           = [transition |-> <<StatusLine(w)>>, audit |-> <<>>]
      BY <1>4
    <3> QED
      BY <2>1, <3>1, <3>2 DEF HistoryLine
  <2>2. CASE ~ ChangesStatus(w)
    BY <1>3, <1>4, <2>2 DEF HistoryLine
  <2> QED
    BY <2>1, <2>2
<1>6. inserted' \in [Workers -> [transition : Seq(Lines), audit : Seq(AuditLines)]]
  <2>1. HistoryLine(w) \in Seq(Lines)
    BY <1>2 DEF HistoryLine
  <2> QED
    BY <1>3, <2>1 DEF HistoryLine
<1>7. TypeOK'
  BY <1>1, <1>2, <1>3, <1>6
<1>8. Framed(w)
  BY <1>1, <1>2, <1>3, <1>5, WorkersAssumption DEF Framed
<1>9. Place(w)'
  <2>1. HistoryLine(w)' = HistoryLine(w) /\ Writes(w)' = Writes(w) /\ On(w)' = On(w)
    BY <1>3 DEF HistoryLine, ChangesStatus, StatusLine, Writes, On
  <2>2. inserted'[w] = Insertions(w)'
    BY <1>3, <1>5, <2>1 DEF Insertions
  <2>3. \A t \in Tickets : holder'[t] = w <=> On(w) = t /\ Writes(w)
    BY <1>1, <1>2, <1>3 DEF Places, Place
  <2> QED
    BY <1>1, <1>3, <2>1, <2>2, <2>3 DEF Places, Place, Running
<1> QED
  BY <1>7, <1>8, <1>9, OthersKeepPlace

LEMMA RecordAuditPlaced ==
  ASSUME Placed, NEW w \in Workers, RecordAudit(w)
  PROVE  Placed' /\ Framed(w)
<1> USE DEF Placed, TypeOK
<1>1. /\ pc[w] = "audit" /\ pc' = [pc EXCEPT ![w] = "commit"]
      /\ inserted' = [inserted EXCEPT ![w].audit = <<AuditLine(w)>>]
      /\ UNCHANGED <<ticket, transitions, audits, holder, request, seen, reply>>
  BY DEF RecordAudit, Goto
<1>2. AuditLine(w) \in AuditLines
  BY <1>1, OnTicket DEF Running
<1>3. TypeOK'
  <2>1. <<AuditLine(w)>> \in Seq(AuditLines)
    BY <1>2
  <2> QED
    BY <1>1, <2>1
<1>4. Framed(w)
  BY <1>1 DEF Framed
<1>5. Place(w)'
  <2>1. inserted[w] = [transition |-> HistoryLine(w), audit |-> <<>>]
    BY <1>1 DEF Places, Place, Insertions
  <2>2. inserted'[w] = [transition |-> HistoryLine(w), audit |-> <<AuditLine(w)>>]
    <3>1. inserted' = [inserted EXCEPT ![w] = [inserted[w] EXCEPT !.audit = <<AuditLine(w)>>]]
      BY <1>1
    <3> DEFINE a == <<AuditLine(w)>>
               h == HistoryLine(w)
    <3> HIDE DEF a, h
    <3>2. [inserted[w] EXCEPT !.audit = a] = [transition |-> h, audit |-> a]
      BY <2>1 DEF h
    <3> QED
      BY <3>1, <3>2 DEF a, h
  <2>3. HistoryLine(w)' = HistoryLine(w) /\ AuditLine(w)' = AuditLine(w)
        /\ Writes(w)' = Writes(w) /\ On(w)' = On(w)
    BY <1>1 DEF HistoryLine, ChangesStatus, StatusLine, AuditLine, Writes, On
  <2>4. inserted'[w] = Insertions(w)'
    BY <1>1, <2>2, <2>3 DEF Insertions
  <2> QED
    BY <1>1, <2>3, <2>4 DEF Places, Place, Running
<1> QED
  BY <1>3, <1>4, <1>5, OthersKeepPlace

LEMMA UnlockedFrame ==
  ASSUME TypeOK, NEW w \in Workers, holder' = Unlocked(w)
  PROVE  /\ holder' \in [Tickets -> Workers \cup {NoWorker}]
         /\ \A t \in Tickets : holder'[t] # w
         /\ \A v \in Workers \ {w}, t \in Tickets : holder'[t] = v <=> holder[t] = v
BY WorkersAssumption DEF TypeOK, Unlocked

LEMMA CommitPlaced ==
  ASSUME Placed, NEW w \in Workers, Commit(w)
  PROVE  Placed' /\ Framed(w)
<1> USE DEF Placed, TypeOK
<1>1. /\ pc[w] = "commit" /\ pc' = [pc EXCEPT ![w] = "answer"]
      /\ ticket' = IF holder[On(w)] = w
           THEN [ticket EXCEPT ![On(w)] = Changed(@, request[w])] ELSE ticket
      /\ transitions' = [transitions EXCEPT ![On(w)] = @ \o inserted[w].transition]
      /\ audits' = [audits EXCEPT ![On(w)] = @ \o inserted[w].audit]
      /\ holder' = Unlocked(w)
      /\ inserted' = [inserted EXCEPT ![w] = Nothing]
      /\ UNCHANGED <<request, seen, reply>>
  BY DEF Commit, Goto
<1>2. On(w) \in Tickets /\ Changed(ticket[On(w)], request[w]) \in Rows
  <2>1. /\ On(w) \in Tickets
        /\ request[w] \in Requests
        /\ request[w].op \in {"update", "cancel", "assign"}
        /\ Verdict(request[w], seen[w].status) = "ok" /\ seen[w].status \in TicketStatus
    BY <1>1, OnTicket DEF Running, Places, Place, Rows
  <2>2. /\ request[w].op # "assign" => request[w].to \in TicketStatus
        /\ request[w].op = "assign" => request[w].to \in Users
    BY <2>1, Entitled
  <2> QED
    BY <2>1, <2>2 DEF Changed, Rows
<1>3. transitions[On(w)] \o inserted[w].transition \in Seq(Lines)
      /\ audits[On(w)] \o inserted[w].audit \in Seq(AuditLines)
  BY <1>2, ConcatProperties
<1>4. TypeOK'
  <2>1. ticket' \in [Tickets -> Rows]
    BY <1>1, <1>2
  <2>2. transitions' \in [Tickets -> Seq(Lines)] /\ audits' \in [Tickets -> Seq(AuditLines)]
    BY <1>1, <1>2, <1>3
  <2>3. holder' \in [Tickets -> Workers \cup {NoWorker}]
    BY <1>1, UnlockedFrame
  <2>4. inserted' \in [Workers -> [transition : Seq(Lines), audit : Seq(AuditLines)]]
    BY <1>1 DEF Nothing
  <2> QED
    BY <1>1, <2>1, <2>2, <2>3, <2>4
<1>5. Framed(w)
  BY <1>1, UnlockedFrame DEF Framed
<1>6. Place(w)'
  BY <1>1, UnlockedFrame DEF Places, Place, Insertions, Nothing, Running
<1> QED
  BY <1>4, <1>5, <1>6, OthersKeepPlace

LEMMA AnswerPlaced ==
  ASSUME Placed, NEW w \in Workers, Answer(w)
  PROVE  Placed' /\ Framed(w)
<1> USE DEF Placed, TypeOK
<1>1. /\ pc[w] = "answer" /\ pc' = [pc EXCEPT ![w] = "idle"]
      /\ reply' = [reply EXCEPT ![w] = "ok"] /\ request' = [request EXCEPT ![w] = NoRequest]
      /\ seen' = [seen EXCEPT ![w] = NewRow]
      /\ UNCHANGED <<ticket, transitions, audits, holder, inserted>>
  BY DEF Answer, Finish, Goto
<1>2. TypeOK'
  BY <1>1 DEF Replies, Rows, NewRow, TicketStatus
<1>3. Framed(w)
  BY <1>1 DEF Framed
<1>4. Place(w)'
  BY <1>1 DEF Places, Place, Insertions, Running
<1> QED
  BY <1>2, <1>3, <1>4, OthersKeepPlace

LEMMA FailPlaced ==
  ASSUME Placed, NEW w \in Workers, Fail(w)
  PROVE  Placed' /\ Framed(w)
<1> USE DEF Placed, TypeOK
<1>1. /\ pc' = [pc EXCEPT ![w] = "idle"]
      /\ \E answer \in {"500", "lost"} : reply' = [reply EXCEPT ![w] = answer]
      /\ request' = [request EXCEPT ![w] = NoRequest] /\ seen' = [seen EXCEPT ![w] = NewRow]
      /\ holder' = Unlocked(w) /\ inserted' = [inserted EXCEPT ![w] = Nothing]
      /\ UNCHANGED <<ticket, transitions, audits>>
  BY DEF Fail, Finish, Goto, Rollback
<1>2. TypeOK'
  <2>1. inserted' \in [Workers -> [transition : Seq(Lines), audit : Seq(AuditLines)]]
    BY <1>1 DEF Nothing
  <2>2. reply' \in [Workers -> Replies]
    BY <1>1 DEF Replies
  <2> QED
    BY <1>1, <2>1, <2>2, UnlockedFrame DEF Rows, NewRow, TicketStatus
<1>3. Framed(w)
  BY <1>1, UnlockedFrame DEF Framed
<1>4. Place(w)'
  BY <1>1, UnlockedFrame DEF Places, Place, Insertions, Nothing, Running
<1> QED
  BY <1>2, <1>3, <1>4, OthersKeepPlace

LEMMA NextPlaced == Placed /\ [Next]_vars => Placed'
<1>1. ASSUME Placed, UNCHANGED vars PROVE Placed'
  BY <1>1 DEF vars, Placed, TypeOK, Places, Place, Insertions, HistoryLine, ChangesStatus,
              StatusLine, AuditLine, Running, On, Writes
<1> QED
  BY <1>1, RefusePlaced, LoadPlaced, WritePlaced, RecordAuditPlaced, CommitPlaced, AnswerPlaced,
     FailPlaced DEF Next, Step

LEMMA AlwaysPlaced == Spec => []Placed
BY InitPlaced, NextPlaced, PTL DEF Spec

(* Every variable keeps its type. *)
THEOREM TypeCorrect == Spec => []TypeOK
BY AlwaysPlaced, PTL DEF Placed

LEMMA PlacedLocks == Placed => HeldByWriter /\ NothingLeftBehind
<1> SUFFICES ASSUME Placed PROVE HeldByWriter /\ NothingLeftBehind
  OBVIOUS
<1>1. HeldByWriter
  BY DEF Placed, TypeOK, Places, Place, HeldByWriter
<1>2. NothingLeftBehind
  BY DEF Placed, Places, Place, Insertions, Nothing, NothingLeftBehind
<1> QED
  BY <1>1, <1>2

(* The row lock of a ticket is held only by a running transaction that has *)
(* updated it: no path, of success or of failure, leaks it.                *)
THEOREM LocksAreReleased == Spec => []HeldByWriter
BY AlwaysPlaced, PlacedLocks, PTL

(* No answer is sent, and no thread reused, with anything uncommitted.     *)
THEOREM SessionsEndClean == Spec => []NothingLeftBehind
BY AlwaysPlaced, PlacedLocks, PTL
-----------------------------------------------------------------------------
(* What the committed tables tell.  The history is inductive only together *)
(* with what the running handlers have read: a status the ticket had, and  *)
(* an assignee, if any, of an audited assignment.                          *)

Statuses(t) == {"open"} \cup {transitions[t][j].to : j \in DOMAIN transitions[t]}

Assigned(t) == \E i \in DOMAIN audits[t] : audits[t][i].action = "assign"

ReadFromPast(w) ==
  Running(w) => /\ seen[w].status \in Statuses(On(w))
                /\ seen[w].assignee # NoUser => Assigned(On(w))

Historical ==
  StatusRecorded /\ MovesPermitted /\ StartsFromPast /\ AssignmentAudited
    /\ \A w \in Workers : ReadFromPast(w)

\* What the commit of w makes visible.
LEMMA Committed ==
  ASSUME Placed, NEW w \in Workers, Commit(w)
  PROVE  LET t == On(w) IN
         /\ Running(w) /\ t \in Tickets
         /\ \A u \in Tickets \ {t} : /\ ticket'[u] = ticket[u]
                                     /\ transitions'[u] = transitions[u]
                                     /\ audits'[u] = audits[u]
         /\ audits'[t] = audits[t] \o <<AuditLine(w)>>
         /\ ChangesStatus(w) => /\ transitions'[t] = transitions[t] \o <<StatusLine(w)>>
                                /\ ticket'[t] = [ticket[t] EXCEPT !.status = request[w].to]
         /\ ~ ChangesStatus(w) =>
              /\ transitions'[t] = transitions[t]
              /\ ticket'[t] = IF Writes(w)
                   THEN [ticket[t] EXCEPT !.assignee = request[w].to] ELSE ticket[t]
<1> DEFINE t == On(w)
<1>1. /\ pc[w] = "commit" /\ Running(w)
      /\ ticket' = IF holder[t] = w
           THEN [ticket EXCEPT ![t] = Changed(@, request[w])] ELSE ticket
      /\ transitions' = [transitions EXCEPT ![t] = @ \o inserted[w].transition]
      /\ audits' = [audits EXCEPT ![t] = @ \o inserted[w].audit]
  BY DEF Commit, Running
<1>2. t \in Tickets /\ (ChangesStatus(w) => Writes(w)) /\ (holder[t] = w <=> Writes(w))
  BY <1>1, OnTicket DEF Placed, Places, Place
<1>3. inserted[w] = [transition |-> HistoryLine(w), audit |-> <<AuditLine(w)>>]
  BY <1>1 DEF Placed, Places, Place, Insertions
<1>4. /\ transitions'[t] = transitions[t] \o HistoryLine(w)
      /\ audits'[t] = audits[t] \o <<AuditLine(w)>>
      /\ ticket'[t] = IF Writes(w) THEN Changed(ticket[t], request[w]) ELSE ticket[t]
  BY <1>1, <1>2, <1>3 DEF Placed, TypeOK
<1>5. \A u \in Tickets \ {t} :
        ticket'[u] = ticket[u] /\ transitions'[u] = transitions[u] /\ audits'[u] = audits[u]
  BY <1>1, <1>2 DEF Placed, TypeOK
<1>6. ~ ChangesStatus(w) => transitions'[t] = transitions[t]
  <2>1. transitions[t] \in Seq(Lines)
    BY <1>2 DEF Placed, TypeOK
  <2> QED
    BY <1>4, <2>1, ConcatEmptySeq DEF HistoryLine
<1> QED
  BY <1>1, <1>2, <1>4, <1>5, <1>6 DEF HistoryLine, Changed, ChangesStatus

LEMMA SnocProperties ==
  ASSUME NEW S, NEW s \in Seq(S), NEW x \in S
  PROVE  LET n == Len(s) IN
         /\ n \in Nat /\ DOMAIN s = 1..n
         /\ Len(s \o <<x>>) = n + 1 /\ DOMAIN (s \o <<x>>) = 1..(n + 1)
         /\ \A i \in 1..n : (s \o <<x>>)[i] = s[i]
         /\ (s \o <<x>>)[n + 1] = x
         /\ s \o <<x>> # <<>>
         /\ SubSeq(s \o <<x>>, 1, n) = s
<1>1. <<x>> \in Seq(S) /\ Len(<<x>>) = 1 /\ <<x>>[1] = x
  OBVIOUS
<1>2. /\ s \o <<x>> \in Seq(S) /\ Len(s \o <<x>>) = Len(s) + 1
      /\ \A i \in 1..(Len(s) + 1) : (s \o <<x>>)[i] = IF i <= Len(s) THEN s[i] ELSE <<x>>[i - Len(s)]
  BY <1>1, ConcatProperties
<1>3. Len(s) \in Nat /\ DOMAIN s = 1..Len(s)
  OBVIOUS
<1>4. \A i \in 1..Len(s) : (s \o <<x>>)[i] = s[i]
  BY <1>2, <1>3
<1>5. (s \o <<x>>)[Len(s) + 1] = x
  <2>1. (Len(s) + 1) - Len(s) = 1 /\ ~ (Len(s) + 1 <= Len(s)) /\ Len(s) + 1 \in 1..(Len(s) + 1)
    BY <1>3
  <2> QED
    BY <1>1, <1>2, <2>1
<1>6. DOMAIN (s \o <<x>>) = 1..(Len(s) + 1) /\ s \o <<x>> # <<>>
  BY <1>2, <1>3
<1>7. SubSeq(s \o <<x>>, 1, Len(s)) = s
  BY <1>2, <1>3, <1>4
<1> QED
  BY <1>2, <1>3, <1>4, <1>5, <1>6, <1>7

LEMMA CommitAppends ==
  ASSUME Placed, NEW w \in Workers, Commit(w)
  PROVE  LET t == On(w)  n == Len(audits[t])  h == Len(transitions[t]) IN
         /\ n \in Nat /\ DOMAIN audits[t] = 1..n /\ DOMAIN audits'[t] = 1..(n + 1)
         /\ \A i \in 1..n : audits'[t][i] = audits[t][i]
         /\ audits'[t][n + 1] = AuditLine(w)
         /\ \A u \in Tickets \ {t} :
              ticket'[u] = ticket[u] /\ transitions'[u] = transitions[u] /\ audits'[u] = audits[u]
         /\ ChangesStatus(w) =>
              /\ h \in Nat /\ DOMAIN transitions[t] = 1..h /\ DOMAIN transitions'[t] = 1..(h + 1)
              /\ Len(transitions'[t]) = h + 1 /\ transitions'[t] # <<>>
              /\ \A i \in 1..h : transitions'[t][i] = transitions[t][i]
              /\ transitions'[t][h + 1] = StatusLine(w)
              /\ ticket'[t].status = request[w].to /\ ticket'[t].assignee = ticket[t].assignee
         /\ ~ ChangesStatus(w) =>
              /\ transitions'[t] = transitions[t] /\ ticket'[t].status = ticket[t].status
              /\ ticket'[t].assignee = IF Writes(w) THEN request[w].to ELSE ticket[t].assignee
<1> DEFINE t == On(w)
           q == request[w]
           h == Len(transitions[t])
           n == Len(audits[t])
<1>0. /\ t \in Tickets /\ q \in Requests /\ transitions[t] \in Seq(Lines)
      /\ audits[t] \in Seq(AuditLines) /\ ticket[t] \in Rows /\ Running(w)
      /\ AuditLine(w) \in AuditLines /\ (ChangesStatus(w) => StatusLine(w) \in Lines)
      /\ seen[w] \in Rows
  BY Committed, OnTicket DEF Placed, TypeOK
<1>1. /\ n \in Nat /\ DOMAIN audits[t] = 1..n /\ DOMAIN audits'[t] = 1..(n + 1)
      /\ \A i \in 1..n : audits'[t][i] = audits[t][i]
      /\ audits'[t][n + 1] = AuditLine(w)
  <2>1. audits'[t] = audits[t] \o <<AuditLine(w)>>
    BY Committed
  <2> DEFINE longer == audits[t] \o <<AuditLine(w)>>
  <2>2. /\ n \in Nat /\ DOMAIN audits[t] = 1..n /\ DOMAIN longer = 1..(n + 1)
        /\ \A i \in 1..n : longer[i] = audits[t][i]
        /\ longer[n + 1] = AuditLine(w)
    BY <1>0, SnocProperties
  <2> QED
    BY <2>1, <2>2
<1>2. \A u \in Tickets \ {t} :
        ticket'[u] = ticket[u] /\ transitions'[u] = transitions[u] /\ audits'[u] = audits[u]
  BY Committed
<1>3. ASSUME ChangesStatus(w)
      PROVE  /\ h \in Nat /\ DOMAIN transitions[t] = 1..h /\ DOMAIN transitions'[t] = 1..(h + 1)
             /\ Len(transitions'[t]) = h + 1 /\ transitions'[t] # <<>>
             /\ \A i \in 1..h : transitions'[t][i] = transitions[t][i]
             /\ transitions'[t][h + 1] = StatusLine(w)
             /\ ticket'[t].status = q.to /\ ticket'[t].assignee = ticket[t].assignee
  <2>1. transitions'[t] = transitions[t] \o <<StatusLine(w)>>
        /\ ticket'[t] = [ticket[t] EXCEPT !.status = q.to]
    BY <1>3, Committed
  <2> DEFINE longer == transitions[t] \o <<StatusLine(w)>>
  <2>2. /\ h \in Nat /\ DOMAIN transitions[t] = 1..h /\ DOMAIN longer = 1..(h + 1)
        /\ Len(longer) = h + 1 /\ longer # <<>>
        /\ \A i \in 1..h : longer[i] = transitions[t][i]
        /\ longer[h + 1] = StatusLine(w)
    BY <1>0, <1>3, SnocProperties
  <2>3. ticket'[t].status = q.to /\ ticket'[t].assignee = ticket[t].assignee
    BY <1>0, <2>1 DEF Rows
  <2> QED
    BY <2>1, <2>2, <2>3
<1>4. ASSUME ~ ChangesStatus(w)
      PROVE  /\ transitions'[t] = transitions[t] /\ ticket'[t].status = ticket[t].status
             /\ ticket'[t].assignee = IF Writes(w) THEN q.to ELSE ticket[t].assignee
  BY <1>0, <1>4, Committed DEF Rows
<1> QED
  BY <1>1, <1>2, <1>3, <1>4

LEMMA CommitHistorical ==
  ASSUME Placed, Historical, NEW w \in Workers, Commit(w)
  PROVE  Historical'
<1> DEFINE t == On(w)
           q == request[w]
           h == Len(transitions[t])
           n == Len(audits[t])
<1>0. /\ t \in Tickets /\ q \in Requests /\ transitions[t] \in Seq(Lines)
      /\ audits[t] \in Seq(AuditLines) /\ ticket[t] \in Rows /\ Running(w)
      /\ AuditLine(w) \in AuditLines /\ (ChangesStatus(w) => StatusLine(w) \in Lines)
      /\ seen[w] \in Rows
  BY Committed, OnTicket DEF Placed, TypeOK
<1>1. /\ n \in Nat /\ DOMAIN audits[t] = 1..n /\ DOMAIN audits'[t] = 1..(n + 1)
      /\ \A i \in 1..n : audits'[t][i] = audits[t][i]
      /\ audits'[t][n + 1] = AuditLine(w)
  BY CommitAppends
<1>2. \A u \in Tickets \ {t} :
        ticket'[u] = ticket[u] /\ transitions'[u] = transitions[u] /\ audits'[u] = audits[u]
  BY CommitAppends
<1>3. ASSUME ChangesStatus(w)
      PROVE  /\ h \in Nat /\ DOMAIN transitions[t] = 1..h /\ DOMAIN transitions'[t] = 1..(h + 1)
             /\ Len(transitions'[t]) = h + 1 /\ transitions'[t] # <<>>
             /\ \A i \in 1..h : transitions'[t][i] = transitions[t][i]
             /\ transitions'[t][h + 1] = StatusLine(w)
             /\ ticket'[t].status = q.to /\ ticket'[t].assignee = ticket[t].assignee
  BY <1>3, CommitAppends
<1>4. ASSUME ~ ChangesStatus(w)
      PROVE  /\ transitions'[t] = transitions[t] /\ ticket'[t].status = ticket[t].status
             /\ ticket'[t].assignee = IF Writes(w) THEN q.to ELSE ticket[t].assignee
  BY <1>4, CommitAppends
<1>5. StatusRecorded'
  <2> SUFFICES ASSUME NEW u \in Tickets
               PROVE  ticket'[u].status = IF transitions'[u] = <<>> THEN "open"
                                          ELSE transitions'[u][Len(transitions'[u])].to
    BY DEF StatusRecorded, LastOf
  <2>1. CASE u = t /\ ChangesStatus(w)
    BY <1>3, <2>1 DEF StatusLine
  <2>2. CASE u = t /\ ~ ChangesStatus(w)
    BY <1>0, <1>4, <2>2 DEF Historical, StatusRecorded, LastOf
  <2>3. CASE u # t
    BY <1>2, <2>3 DEF Historical, StatusRecorded, LastOf
  <2> QED
    BY <2>1, <2>2, <2>3
<1>6. \A u \in Tickets : Statuses(u) \subseteq Statuses(u)' /\ (Assigned(u) => Assigned(u)')
  <2> TAKE u \in Tickets
  <2>1. CASE u = t
    <3>1. Assigned(u) => Assigned(u)'
      BY <1>1, <2>1 DEF Assigned
    <3>2. CASE ChangesStatus(w)
      BY <1>3, <2>1, <3>1, <3>2 DEF Statuses
    <3>3. CASE ~ ChangesStatus(w)
      BY <1>4, <2>1, <3>1, <3>3 DEF Statuses
    <3> QED
      BY <3>2, <3>3
  <2>2. CASE u # t
    BY <1>2, <2>2 DEF Statuses, Assigned
  <2> QED
    BY <2>1, <2>2
<1>7. MovesPermitted'
  <2> SUFFICES ASSUME NEW u \in Tickets, NEW i \in DOMAIN transitions'[u]
               PROVE  MayMove(transitions'[u][i].user, u, transitions'[u][i].from, transitions'[u][i].to)
    BY DEF MovesPermitted, MayMove
  <2>1. CASE u = t /\ ChangesStatus(w)
    <3>1. CASE i \in 1..h
      BY <1>0, <1>3, <2>1, <3>1 DEF Historical, MovesPermitted
    <3>2. CASE i = h + 1
      <4>1. MayMove(q.user, t, seen[w].status, q.to)
        BY <1>0, <2>1, OnTicket DEF Placed
      <4> QED
        BY <1>3, <2>1, <3>2, <4>1 DEF StatusLine
    <3> QED
      BY <1>3, <2>1, <3>1, <3>2
  <2>2. CASE u = t /\ ~ ChangesStatus(w)
    BY <1>0, <1>4, <2>2 DEF Historical, MovesPermitted
  <2>3. CASE u # t
    BY <1>2, <2>3 DEF Historical, MovesPermitted
  <2> QED
    BY <2>1, <2>2, <2>3
<1>8. StartsFromPast'
  <2> SUFFICES ASSUME NEW u \in Tickets, NEW i \in DOMAIN transitions'[u]
               PROVE  transitions'[u][i].from
                        \in {"open"} \cup {transitions'[u][j].to : j \in 1..(i - 1)}
    BY DEF StartsFromPast
  <2>1. CASE u = t /\ ChangesStatus(w)
    <3>1. CASE i \in 1..h
      <4>1. \A j \in 1..(i - 1) : transitions'[t][j] = transitions[t][j]
        BY <1>3, <2>1, <3>1
      <4>2. transitions[t][i].from \in {"open"} \cup {transitions[t][j].to : j \in 1..(i - 1)}
        BY <1>0, <1>3, <2>1, <3>1 DEF Historical, StartsFromPast
      <4>3. transitions'[t][i] = transitions[t][i]
        BY <1>3, <2>1, <3>1
      <4> QED
        BY <2>1, <4>1, <4>2, <4>3
    <3>2. CASE i = h + 1
      <4>1. i - 1 = h /\ transitions'[t][i].from = seen[w].status
        <5>1. StatusLine(w).from = seen[w].status
          BY DEF StatusLine
        <5> QED
          BY <1>3, <2>1, <3>2, <5>1
      <4>2. seen[w].status \in {"open"} \cup {transitions[t][j].to : j \in 1..h}
        BY <1>0, <1>3, <2>1 DEF Historical, ReadFromPast, Statuses
      <4>3. \A j \in 1..(i - 1) : transitions'[t][j] = transitions[t][j]
        BY <1>3, <2>1, <4>1
      <4>4. seen[w].status \in {"open"} \cup {transitions'[t][j].to : j \in 1..(i - 1)}
        <5> HIDE DEF h, t
        <5> QED
          BY <4>1, <4>2, <4>3
      <4> HIDE DEF h, t
      <4> QED
        BY <2>1, <4>1, <4>4
    <3>3. i \in 1..h \/ i = h + 1
      BY <1>3, <2>1
    <3> QED
      BY <3>1, <3>2, <3>3
  <2>2. CASE u = t /\ ~ ChangesStatus(w)
    BY <1>0, <1>4, <2>2 DEF Historical, StartsFromPast
  <2>3. CASE u # t
    BY <1>2, <2>3 DEF Historical, StartsFromPast
  <2> QED
    BY <2>1, <2>2, <2>3
<1>9. \A v \in Workers : ReadFromPast(v)'
  <2> SUFFICES ASSUME NEW v \in Workers, Running(v)'
               PROVE  seen'[v].status \in Statuses(On(v))'
                        /\ (seen'[v].assignee # NoUser => Assigned(On(v))')
    BY DEF ReadFromPast
  <2>1. seen'[v] = seen[v] /\ On(v)' = On(v) /\ Running(v)
    BY <1>0 DEF Commit, Goto, On, Running, Placed, TypeOK
  <2>2. On(v) \in Tickets
    BY <2>1, OnTicket DEF Placed
  <2>3. PICK u \in Tickets : u = On(v) /\ u = On(v)'
    BY <2>1, <2>2
  <2>4. seen[v].status \in Statuses(u)' /\ (seen[v].assignee # NoUser => Assigned(u)')
    BY <1>6, <2>1, <2>3 DEF Historical, ReadFromPast
  <2> QED
    BY <2>1, <2>3, <2>4 DEF Statuses, Assigned
<1>10. AssignmentAudited'
  <2> SUFFICES ASSUME NEW u \in Tickets
               PROVE  IF Assigned(u)'
                      THEN /\ CanBeAssigned(ticket'[u].assignee)
                           /\ \E i \in DOMAIN audits'[u] :
                                /\ audits'[u][i].action = "assign"
                                /\ audits'[u][i].after.assignee = ticket'[u].assignee
                      ELSE ticket'[u].assignee = NoUser
    BY DEF AssignmentAudited, Assigned, CanBeAssigned, Staff
  <2>0. IF Assigned(u)
        THEN /\ CanBeAssigned(ticket[u].assignee)
             /\ \E i \in DOMAIN audits[u] :
                  /\ audits[u][i].action = "assign"
                  /\ audits[u][i].after.assignee = ticket[u].assignee
        ELSE ticket[u].assignee = NoUser
    BY DEF Historical, AssignmentAudited, Assigned
  <2>1. CASE u = t /\ ChangesStatus(w)
    <3>1. AuditLine(w).action # "assign"
      BY <2>1 DEF AuditLine, ChangesStatus
    <3>2. (Assigned(u)' => Assigned(u)) /\ ticket'[u].assignee = ticket[u].assignee
      <4>1. ticket'[u].assignee = ticket[u].assignee
        BY <1>3, <2>1
      <4>2. ASSUME NEW i \in DOMAIN audits'[u], audits'[u][i].action = "assign"
            PROVE  Assigned(u)
        <5>1. i \in 1..n
          BY <1>1, <2>1, <3>1, <4>2
        <5> QED
          BY <1>1, <2>1, <4>2, <5>1 DEF Assigned
      <4> QED
        BY <4>1, <4>2 DEF Assigned
    <3>3. CASE Assigned(u)
      <4>1. PICK i \in DOMAIN audits[u] : /\ audits[u][i].action = "assign"
                                          /\ audits[u][i].after.assignee = ticket[u].assignee
        BY <2>0, <3>3
      <4>2. i \in DOMAIN audits'[u] /\ audits'[u][i] = audits[u][i]
        BY <1>1, <2>1
      <4> QED
        BY <2>0, <3>2, <3>3, <4>1, <4>2 DEF Assigned
    <3>4. CASE ~ Assigned(u)
      BY <2>0, <3>2, <3>4
    <3> QED
      BY <3>3, <3>4
  <2>2. CASE u = t /\ ~ ChangesStatus(w)
    <3>1. /\ AuditLine(w).action = "assign" /\ AuditLine(w).after.assignee = q.to
          /\ CanBeAssigned(q.to) /\ q.to # NoUser
      <4>1. q.op = "assign" /\ CanBeAssigned(q.to) /\ q.to \in Users
        BY <1>0, <2>2, OnTicket DEF ChangesStatus, Placed
      <4> QED
        BY <1>0, <4>1, UsersAssumption DEF AuditLine, Changed, Rows
    <3>2. Assigned(u)'
      BY <1>1, <2>2, <3>1 DEF Assigned
    <3>3. CASE Writes(w)
      BY <1>1, <1>4, <2>2, <3>1, <3>2, <3>3
    <3>4. CASE ~ Writes(w)
      <4>1. seen[w].assignee = q.to
        BY <1>0, <2>2, <3>4 DEF Writes, Changed, ChangesStatus, Rows
      <4>2. Assigned(u)
        BY <1>0, <2>2, <3>1, <4>1 DEF Historical, ReadFromPast
      <4> QED
        BY <1>1, <1>4, <2>0, <2>2, <3>2, <3>4, <4>2
    <3> QED
      BY <3>3, <3>4
  <2>3. CASE u # t
    BY <1>2, <2>0, <2>3 DEF Assigned
  <2> QED
    BY <2>1, <2>2, <2>3
<1> QED
  BY <1>5, <1>7, <1>8, <1>9, <1>10 DEF Historical

LEMMA QuietHistorical ==
  ASSUME Historical, UNCHANGED <<ticket, transitions, audits>>,
         \A w \in Workers : ReadFromPast(w)'
  PROVE  Historical'
BY DEF Historical, StatusRecorded, LastOf, MovesPermitted, MayMove, Staff, Owns, StartsFromPast,
       AssignmentAudited, CanBeAssigned

LEMMA LoadHistorical ==
  ASSUME Placed, Historical, NEW w \in Workers, NEW q \in Requests, Load(w, q)
  PROVE  Historical'
<1>1. /\ request' = [request EXCEPT ![w] = q] /\ seen' = [seen EXCEPT ![w] = ticket[q.ticket]]
      /\ pc' = [pc EXCEPT ![w] = "write"] /\ UNCHANGED <<ticket, transitions, audits>>
      /\ q.ticket \in Tickets
  BY LoadPlaced DEF Load, Goto
<1>2. \A v \in Workers \ {w} : ReadFromPast(v)'
  <2> TAKE v \in Workers \ {w}
  <2>1. pc'[v] = pc[v] /\ request'[v] = request[v] /\ seen'[v] = seen[v]
    BY <1>1 DEF Placed, TypeOK
  <2> QED
    BY <1>1, <2>1 DEF Historical, ReadFromPast, Running, On, Statuses, Assigned
<1>3. ReadFromPast(w)'
  <2>1. ticket[q.ticket].status \in Statuses(q.ticket)
    <3>1. CASE transitions[q.ticket] = <<>>
      BY <1>1, <3>1 DEF Historical, StatusRecorded, Statuses
    <3>2. CASE transitions[q.ticket] # <<>>
      <4>1. Len(transitions[q.ticket]) \in DOMAIN transitions[q.ticket]
        BY <1>1, <3>2 DEF Placed, TypeOK
      <4> QED
        BY <1>1, <3>2, <4>1 DEF Historical, StatusRecorded, LastOf, Statuses
    <3> QED
      BY <3>1, <3>2
  <2>2. ticket[q.ticket].assignee # NoUser => Assigned(q.ticket)
    BY <1>1 DEF Historical, AssignmentAudited, Assigned
  <2>3. seen'[w] = ticket[q.ticket] /\ On(w)' = q.ticket
    BY <1>1 DEF On, Placed, TypeOK
  <2> QED
    BY <1>1, <2>1, <2>2, <2>3 DEF ReadFromPast, Statuses, Assigned
<1> QED
  BY <1>1, <1>2, <1>3, QuietHistorical

LEMMA OtherHistorical ==
  ASSUME Placed, Historical, NEW w \in Workers,
         Write(w) \/ RecordAudit(w) \/ Answer(w) \/ Fail(w) \/ (\E q \in Requests : Refuse(w, q))
  PROVE  Historical'
<1>1. /\ UNCHANGED <<ticket, transitions, audits>>
      /\ \A v \in Workers : Running(v)' =>
           Running(v) /\ request'[v] = request[v] /\ seen'[v] = seen[v]
  <2>1. CASE Write(w) \/ RecordAudit(w) \/ \E q \in Requests : Refuse(w, q)
    BY <2>1 DEF Write, RecordAudit, Refuse, Goto, Running, Placed, TypeOK
  <2>2. CASE Answer(w) \/ Fail(w)
    BY <2>2 DEF Answer, Fail, Finish, Goto, Running, Placed, TypeOK
  <2> QED
    BY <2>1, <2>2
<1>2. \A v \in Workers : ReadFromPast(v)'
  BY <1>1 DEF Historical, ReadFromPast, On, Statuses, Assigned
<1> QED
  BY <1>1, <1>2, QuietHistorical

LEMMA NextHistorical == Placed /\ Historical /\ [Next]_vars => Historical'
<1>1. ASSUME Historical, UNCHANGED vars PROVE Historical'
  <2>1. \A w \in Workers : ReadFromPast(w)'
    BY <1>1 DEF vars, Historical, ReadFromPast, Running, On, Statuses, Assigned
  <2> QED
    BY <1>1, <2>1, QuietHistorical DEF vars
<1> QED
  BY <1>1, LoadHistorical, OtherHistorical, CommitHistorical DEF Next, Step

LEMMA InitHistorical == Init => Historical
<1> SUFFICES ASSUME Init PROVE Historical
  OBVIOUS
<1>1. StatusRecorded /\ AssignmentAudited
  BY DEF Init, StatusRecorded, AssignmentAudited, NewRow
<1>2. MovesPermitted /\ StartsFromPast
  BY DEF Init, MovesPermitted, StartsFromPast
<1>3. \A w \in Workers : ReadFromPast(w)
  BY DEF Init, ReadFromPast, Running
<1> QED
  BY <1>1, <1>2, <1>3 DEF Historical

LEMMA AlwaysHistorical == Spec => []Historical
<1>1. Placed /\ Placed' /\ Historical /\ [Next]_vars => Historical'
  BY NextHistorical
<1> QED
  BY <1>1, InitHistorical, AlwaysPlaced, PTL DEF Spec

(* The status of a ticket is the target of its last history line, even     *)
(* when handlers overtake each other between reading and writing.          *)
THEOREM HistoryExplainsStatus == Spec => []StatusRecorded
BY AlwaysHistorical, PTL DEF Historical

(* Every history line is an edge of the state machine, taken by somebody   *)
(* who may take it.                                                        *)
THEOREM OnlyPermittedMoves == Spec => []MovesPermitted
BY AlwaysHistorical, PTL DEF Historical

(* A history line starts from a status the ticket had earlier.             *)
THEOREM MovesStartFromPast == Spec => []StartsFromPast
BY AlwaysHistorical, PTL DEF Historical

(* An assignee is active staff and is named by an audited assignment.      *)
THEOREM AssigneesAreAudited == Spec => []AssignmentAudited
BY AlwaysHistorical, PTL DEF Historical
-----------------------------------------------------------------------------
(* The audit log beside the history.  Only a commit touches either; one of *)
(* a status change adds the last line to both.                             *)

LEMMA StatusAuditsFinite ==
  ASSUME TypeOK, NEW t \in Tickets
  PROVE  /\ IsFiniteSet(StatusAudits(t)) /\ Cardinality(StatusAudits(t)) \in Nat
         /\ \A i : i \in StatusAudits(t) => Rank(i, t) \in 1..Cardinality(StatusAudits(t))
<1>1. DOMAIN audits[t] = 1..Len(audits[t]) /\ Len(audits[t]) \in Nat
  BY DEF TypeOK
<1>2. IsFiniteSet(StatusAudits(t)) /\ Cardinality(StatusAudits(t)) \in Nat
  <2>1. IsFiniteSet(1..Len(audits[t]))
    BY <1>1, FS_Interval
  <2>2. StatusAudits(t) \subseteq 1..Len(audits[t])
    BY <1>1 DEF StatusAudits
  <2> QED
    BY <2>1, <2>2, FS_Subset, FS_CardinalityType
<1>3. ASSUME NEW i, i \in StatusAudits(t) PROVE Rank(i, t) \in 1..Cardinality(StatusAudits(t))
  <2> DEFINE before == {j \in StatusAudits(t) : j <= i}
  <2>1. before \subseteq StatusAudits(t) /\ i \in before
    BY <1>1, <1>3 DEF StatusAudits
  <2>2. IsFiniteSet(before) /\ Cardinality(before) <= Cardinality(StatusAudits(t))
    BY <1>2, <2>1, FS_Subset
  <2>3. Cardinality(before) \in Nat /\ Cardinality(before) # 0
    BY <2>1, <2>2, FS_CardinalityType, FS_EmptySet
  <2> QED
    BY <1>2, <2>2, <2>3 DEF Rank
<1> QED
  BY <1>2, <1>3

LEMMA CommitAudited ==
  ASSUME Placed, AuditMatchesHistory, NEW w \in Workers, Commit(w)
  PROVE  AuditMatchesHistory'
<1> DEFINE t == On(w)
           n == Len(audits[t])
           h == Len(transitions[t])
           Line(entry) ==
             [from |-> entry.before.status, to |-> entry.after.status, user |-> entry.user]
<1>0. TypeOK /\ TypeOK' /\ t \in Tickets /\ Running(w)
  BY Committed, CommitPlaced DEF Placed
<1>1. \A u \in Tickets : /\ Cardinality(StatusAudits(u)) = Len(transitions[u])
                         /\ \A i \in StatusAudits(u) : transitions[u][Rank(i, u)] = Line(audits[u][i])
  BY DEF AuditMatchesHistory
<1> SUFFICES ASSUME NEW u \in Tickets
             PROVE  /\ Cardinality(StatusAudits(u)') = Len(transitions'[u])
                    /\ \A i \in StatusAudits(u)' : transitions'[u][Rank(i, u)'] = Line(audits'[u][i])
  BY DEF AuditMatchesHistory
<1>2. ASSUME StatusAudits(u)' = StatusAudits(u), transitions'[u] = transitions[u],
             \A i \in StatusAudits(u) : audits'[u][i] = audits[u][i]
      PROVE  /\ Cardinality(StatusAudits(u)') = Len(transitions'[u])
             /\ \A i \in StatusAudits(u)' : transitions'[u][Rank(i, u)'] = Line(audits'[u][i])
  BY <1>1, <1>2 DEF Rank
<1>3. CASE u # t
  BY <1>2, <1>3, CommitAppends DEF StatusAudits
<1>4. CASE u = t /\ ~ ChangesStatus(w)
  <2>1. AuditLine(w).action = "assign"
    BY <1>4 DEF AuditLine, ChangesStatus
  <2>2. StatusAudits(u)' = StatusAudits(u)
    BY <1>4, <2>1, CommitAppends DEF StatusAudits
  <2> QED
    BY <1>2, <1>4, <2>2, CommitAppends DEF StatusAudits
<1>5. CASE u = t /\ ChangesStatus(w)
  <2>1. /\ n \in Nat /\ h \in Nat /\ DOMAIN audits[t] = 1..n /\ DOMAIN audits'[t] = 1..(n + 1)
        /\ \A i \in 1..n : audits'[t][i] = audits[t][i]
        /\ audits'[t][n + 1] = AuditLine(w)
        /\ Len(transitions'[t]) = h + 1
        /\ \A i \in 1..h : transitions'[t][i] = transitions[t][i]
        /\ transitions'[t][h + 1] = StatusLine(w)
    BY <1>5, CommitAppends
  <2>2. AuditLine(w).action # "assign" /\ Line(AuditLine(w)) = StatusLine(w)
    <3>1. seen[w] \in Rows
      BY <1>0 DEF TypeOK
    <3>2. Changed(seen[w], request[w]).status = request[w].to
      BY <1>5, <3>1 DEF Changed, ChangesStatus, Rows
    <3> QED
      BY <1>5, <3>2 DEF AuditLine, StatusLine, ChangesStatus
  <2>3. StatusAudits(u)' = StatusAudits(u) \cup {n + 1} /\ StatusAudits(u) \subseteq 1..n
    BY <1>5, <2>1, <2>2 DEF StatusAudits
  <2>4. Cardinality(StatusAudits(u)) = h /\ IsFiniteSet(StatusAudits(u))
    BY <1>0, <1>1, <1>5, StatusAuditsFinite
  <2>5. Cardinality(StatusAudits(u)') = h + 1
    <3>1. n + 1 \notin StatusAudits(u)
      BY <2>1, <2>3
    <3> HIDE DEF n, h
    <3>2. Cardinality(StatusAudits(u) \cup {n + 1}) = h + 1
      BY <2>4, <3>1, FS_AddElement
    <3> QED
      BY <2>3, <3>2
  <2>6. ASSUME NEW i \in StatusAudits(u)' PROVE transitions'[t][Rank(i, u)'] = Line(audits'[t][i])
    <3>1. CASE i = n + 1
      <4>1. {j \in StatusAudits(u)' : j <= i} = StatusAudits(u)'
        BY <2>1, <2>3, <3>1
      <4>2. Rank(i, u)' = h + 1
        BY <2>5, <4>1 DEF Rank
      <4> QED
        BY <2>1, <2>2, <3>1, <4>2
    <3>2. CASE i \in StatusAudits(u)
      <4>1. Rank(i, u)' = Rank(i, u)
        <5>1. {j \in StatusAudits(u)' : j <= i} = {j \in StatusAudits(u) : j <= i}
          BY <2>1, <2>3, <3>2
        <5> QED
          BY <5>1 DEF Rank
      <4>2. Rank(i, u) \in 1..h
        BY <1>0, <2>4, <3>2, StatusAuditsFinite
      <4>3. transitions'[t][Rank(i, u)] = transitions[t][Rank(i, u)] /\ audits'[t][i] = audits[t][i]
        BY <1>1, <1>5, <2>1, <2>3, <3>2, <4>2
      <4> QED
        BY <1>1, <1>5, <2>1, <2>3, <3>2, <4>1, <4>3
    <3> QED
      BY <2>3, <3>1, <3>2
  <2> QED
    BY <1>5, <2>1, <2>5, <2>6
<1> QED
  BY <1>3, <1>4, <1>5

(* Only a commit changes the tables.                                       *)
LEMMA TablesAreCommitted ==
  [Next]_vars => \/ UNCHANGED <<ticket, transitions, audits>>
                 \/ \E w \in Workers : Commit(w)
BY DEF Next, Step, Refuse, Load, Write, RecordAudit, Answer, Fail, vars

(* The audit log has exactly the status changes of the history, in the     *)
(* same order, by the same users, however commits and failures interleave. *)
THEOREM AuditsTellHistory == Spec => []AuditMatchesHistory
<1>1. Init => AuditMatchesHistory
  BY FS_EmptySet DEF Init, AuditMatchesHistory, StatusAudits
<1>2. Placed /\ AuditMatchesHistory /\ [Next]_vars => AuditMatchesHistory'
  <2>1. ASSUME AuditMatchesHistory, UNCHANGED <<ticket, transitions, audits>>
        PROVE  AuditMatchesHistory'
    BY <2>1 DEF AuditMatchesHistory, StatusAudits, Rank
  <2> QED
    BY <2>1, CommitAudited, TablesAreCommitted
<1> QED
  BY <1>1, <1>2, AlwaysPlaced, PTL DEF Spec
-----------------------------------------------------------------------------
LEMMA CommitKeeps ==
  ASSUME Placed, NEW w \in Workers, Commit(w), NEW t \in Tickets
  PROVE  /\ ticket[t].status # "open" => ticket'[t].status # "open"
         /\ transitions[t] = SubSeq(transitions'[t], 1, Len(transitions[t]))
         /\ audits[t] = SubSeq(audits'[t], 1, Len(audits[t]))
<1>1. transitions[t] \in Seq(Lines) /\ audits[t] \in Seq(AuditLines) /\ ticket[t] \in Rows /\ Running(w)
  BY Committed DEF Placed, TypeOK
<1>2. transitions[t] = SubSeq(transitions[t], 1, Len(transitions[t]))
      /\ audits[t] = SubSeq(audits[t], 1, Len(audits[t]))
  BY <1>1
<1>3. CASE t # On(w)
  <2>1. ticket'[t] = ticket[t] /\ transitions'[t] = transitions[t] /\ audits'[t] = audits[t]
    BY <1>3, Committed
  <2> QED
    BY <1>2, <2>1
<1>4. CASE t = On(w)
  <2>1. audits[t] = SubSeq(audits'[t], 1, Len(audits[t]))
    <3>1. audits'[t] = audits[t] \o <<AuditLine(w)>> /\ AuditLine(w) \in AuditLines
      BY <1>1, <1>4, Committed, OnTicket DEF Placed
    <3>2. SubSeq(audits[t] \o <<AuditLine(w)>>, 1, Len(audits[t])) = audits[t]
      BY <1>1, <3>1, SnocProperties
    <3> QED
      BY <3>1, <3>2
  <2>2. CASE ChangesStatus(w)
    <3>1. /\ transitions'[t] = transitions[t] \o <<StatusLine(w)>>
          /\ ticket'[t] = [ticket[t] EXCEPT !.status = request[w].to]
      BY <1>4, <2>2, Committed
    <3>2. StatusLine(w) \in Lines
          /\ MayMove(request[w].user, On(w), seen[w].status, request[w].to)
      BY <1>1, <2>2, OnTicket DEF Placed
    <3>3. SubSeq(transitions[t] \o <<StatusLine(w)>>, 1, Len(transitions[t])) = transitions[t]
      BY <1>1, <3>2, SnocProperties
    <3>4. ticket'[t].status # "open"
      BY <1>1, <3>1, <3>2 DEF MayMove, ALLOWED_STATUS_TRANSITIONS, Rows
    <3> QED
      BY <2>1, <3>1, <3>3, <3>4
  <2>3. CASE ~ ChangesStatus(w)
    <3>1. transitions'[t] = transitions[t] /\ ticket'[t].status = ticket[t].status
      BY <1>1, <1>4, <2>3, Committed DEF Rows
    <3> QED
      BY <1>2, <2>1, <3>1
  <2> QED
    BY <2>2, <2>3
<1> QED
  BY <1>3, <1>4

(* No ticket becomes open again, and history and audit log only grow.      *)
THEOREM NoWayBack == Spec => NeverReopened
<1> DEFINE Kept == \A t \in Tickets :
                     /\ ticket[t].status # "open" => ticket'[t].status # "open"
                     /\ transitions[t] = SubSeq(transitions'[t], 1, Len(transitions[t]))
                     /\ audits[t] = SubSeq(audits'[t], 1, Len(audits[t]))
<1>1. ASSUME Placed, UNCHANGED <<ticket, transitions, audits>> PROVE Kept
  <2> SUFFICES ASSUME NEW t \in Tickets
               PROVE  /\ transitions[t] = SubSeq(transitions[t], 1, Len(transitions[t]))
                      /\ audits[t] = SubSeq(audits[t], 1, Len(audits[t]))
    BY <1>1
  <2>1. transitions[t] \in Seq(Lines) /\ audits[t] \in Seq(AuditLines)
    BY <1>1 DEF Placed, TypeOK
  <2> QED
    BY <2>1
<1>2. ASSUME Placed, Next PROVE Kept
  BY <1>1, <1>2, TablesAreCommitted, CommitKeeps
<1>3. Placed /\ [Next]_vars => [Kept]_vars
  BY <1>2
<1> QED
  BY <1>3, AlwaysPlaced, PTL DEF Spec, NeverReopened
==============================================================================
