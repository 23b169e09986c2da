------------------------- MODULE AgentClient_proofs -------------------------
(***************************************************************************)
(* Theorems about the Agent composed with the service, for every set of    *)
(* pending actions, calls and users' requests and every pattern of         *)
(* timeouts and failures.                                                  *)
(***************************************************************************)
EXTENDS AgentClient, InternalTicketService_proofs

(* The composition only restricts the service: what holds of every request *)
(* holds of the calls of the Agent.                                        *)
LEMMA AgentStepsAreSteps == [AgentNext]_agentVars => [Next]_vars
BY DEF AgentNext, agentVars, clientVars, Decide, Refuse, Send, TimeOut, Hear, Arrive, Quiescent,
   Next

LEMMA AgentRunsService == AgentSpec => Spec
<1>1. AgentInit => Init
  BY DEF AgentInit
<1> QED
  BY <1>1, AgentStepsAreSteps, PTL DEF AgentSpec, Spec

LEMMA AgentSound ==
  AgentSpec => [](TypeOK /\ Consistent /\ ExactlyOnce /\ ConflictAnswersTrue)
BY AgentRunsService, TypeCorrect, AlwaysConsistent, AtMostOneTicketPerKey, ConflictsToldTruly, PTL
-----------------------------------------------------------------------------
(* The requests of the calls never change: a call carries the key of its   *)
(* action, and nobody else carries a key.                                  *)

Addressed ==
  /\ \A r \in Calls : ActionOf(r) \in Actions /\ request[r] = Payload(ActionOf(r), r)
  /\ \A r \in Requests \ Calls : ~ IsInternal(r)

LEMMA PayloadsNameActions ==
  ASSUME NEW a \in Actions, NEW r \in Calls
  PROVE  /\ Payload(a, r).content.action = a
         /\ Payload(a, r).key # NoKey
BY KeysAssumption, AgentKeysAssumption DEF Payload

LEMMA InitAddressed == AgentInit => Addressed
BY PayloadsNameActions DEF AgentInit, Addressed, ActionOf

LEMMA NextKeepsRequests == [Next]_vars => request' = request
BY DEF Next, vars, Receive, Step, Fail, Crash, NextDay, Terminating, FirstSeen, SeenBefore, InsertKey,
   KeyTaken, GenerateTicketNo, InsertTicket, TicketTaken, CompleteCreation, Replay, TraceConflict,
   Commit, Answer, Recover

LEMMA NextAddressed == Addressed /\ [AgentNext]_agentVars => Addressed'
BY AgentStepsAreSteps, NextKeepsRequests DEF Addressed, ActionOf, Payload, IsInternal

LEMMA AlwaysAddressed == AgentSpec => []Addressed
BY InitAddressed, NextAddressed, PTL DEF AgentSpec

LEMMA CallsForOneAction ==
  ASSUME Addressed, NEW r \in Calls, NEW w \in Requests
  PROVE  /\ IsInternal(r)
         /\ SameKey(r, w) <=> (w \in Calls /\ ActionOf(w) = ActionOf(r))
<1>1. ASSUME NEW q \in Calls
      PROVE  IsInternal(q) /\ request[q].key = build_idempotency_key(ActionOf(q))
  <2>1. ActionOf(q) \in Actions /\ request[q] = Payload(ActionOf(q), q)
    BY DEF Addressed
  <2>2. Payload(ActionOf(q), q).key = build_idempotency_key(ActionOf(q))
    BY DEF Payload
  <2> QED
    BY <2>1, <2>2, PayloadsNameActions DEF IsInternal
<1>2. \A a, b : build_idempotency_key(a) = build_idempotency_key(b) => a = b
  BY DEF build_idempotency_key
<1>3. CASE w \in Calls
  BY <1>1, <1>2, <1>3 DEF SameKey
<1>4. CASE w \notin Calls
  BY <1>1, <1>4 DEF Addressed, SameKey, IsInternal
<1> QED
  BY <1>1, <1>3, <1>4
-----------------------------------------------------------------------------
LEMMA OneTicket == Addressed /\ ExactlyOnce => OneTicketPerAction
BY CallsForOneAction DEF OneTicketPerAction, ExactlyOnce, CallsFor, Creators

(* One pending action creates one ticket only, whatever is repeated, late   *)
(* or lost between the Agent and the service.                               *)
THEOREM OneTicketHowOftenSent == AgentSpec => []OneTicketPerAction
BY AgentSound, AlwaysAddressed, OneTicket, PTL

LEMMA TimedIsSame ==
  ASSUME Addressed, NEW r \in Calls, NEW w \in Calls, ActionOf(w) = ActionOf(r), ActionOf(r) \in Timed
  PROVE  SameContent(r, w)
BY DEF Addressed, SameContent, Payload, effective_confirmed_at

LEMMA NoConflict == Addressed /\ ConflictAnswersTrue => TimedNeverConflicts
<1> SUFFICES ASSUME Addressed, ConflictAnswersTrue, NEW r \in Calls, ActionOf(r) \in Timed,
                    reply[r] = "hash_conflict"
             PROVE  FALSE
  BY DEF TimedNeverConflicts
<1>1. PICK w \in Creators : SameKey(r, w) /\ ~ SameContent(r, w)
  BY CallsAssumption DEF ConflictAnswersTrue
<1>2. w \in Calls /\ ActionOf(w) = ActionOf(r)
  BY <1>1, CallsForOneAction DEF Creators
<1> QED
  BY <1>1, <1>2, TimedIsSame

(* If the confirmation carries its time, all calls for an action have one   *)
(* payload, and none of them is told of a conflict.                         *)
THEOREM RepetitionIsRecognised == AgentSpec => []TimedNeverConflicts
BY AgentSound, AlwaysAddressed, NoConflict, PTL

(* Were every confirmation to carry its time, what app/models/idempotency.py *)
(* promises of a repeated call would hold: none is refused for its payload.  *)
THEOREM TimesSuffice ==
  ASSUME Timed = Actions
  PROVE  AgentSpec => []RepeatedActionReplayed
<1>1. TimedNeverConflicts /\ Addressed => RepeatedActionReplayed
  BY DEF TimedNeverConflicts, RepeatedActionReplayed, Addressed
<1> QED
  BY <1>1, RepetitionIsRecognised, AlwaysAddressed, PTL
-----------------------------------------------------------------------------
(* Where a call is.  The server only knows calls that have been sent, they *)
(* are for confirmed actions, and a client has an answer only once its     *)
(* request is over.                                                        *)

Sent ==
  \A r \in Calls :
    /\ call[r] = "unsent" => pc[r] = "idle"
    /\ call[r] # "unsent" => Builds(ActionOf(r))
    /\ call[r] = "answered" => pc[r] = "done"

Sound == TypeOK /\ Consistent /\ ExactlyOnce /\ Addressed

Serve(r) == Step(r) \/ Fail(r) \/ Crash(r)

LEMMA ServedIsRunning ==
  ASSUME NEW r \in Requests, Serve(r)
  PROVE  pc[r] \notin {"idle", "done"}
BY DEF Serve, Step, Fail, Crash, Running, FirstSeen, SeenBefore, InsertKey, KeyTaken, GenerateTicketNo,
   InsertTicket, TicketTaken, CompleteCreation, Replay, TraceConflict, Commit, Answer, Recover

LEMMA ServeFramed ==
  ASSUME Sound, NEW r \in Requests, Serve(r) \/ Receive(r)
  PROVE  Framed(r) /\ Consistent'
BY ActKeeps DEF Sound, Serve, Act

LEMMA InitAgentTypeOK == AgentInit => AgentTypeOK
BY DEF AgentInit, AgentTypeOK

LEMMA NextAgentTypeOK == AgentTypeOK /\ [AgentNext]_agentVars => AgentTypeOK'
<1> SUFFICES ASSUME AgentTypeOK, [AgentNext]_agentVars PROVE AgentTypeOK'
  OBVIOUS
<1> USE DEF AgentTypeOK, clientVars
<1>1. ASSUME UNCHANGED clientVars PROVE AgentTypeOK'
  BY <1>1
<1>2. ASSUME NEW a \in Actions, Decide(a) \/ Refuse(a) PROVE AgentTypeOK'
  BY <1>2 DEF Decide, Refuse
<1>3. ASSUME NEW r \in Calls, Send(r) \/ TimeOut(r) \/ Hear(r) PROVE AgentTypeOK'
  BY <1>3 DEF Send, TimeOut, Hear, Settled
<1> QED
  BY <1>1, <1>2, <1>3 DEF AgentNext, agentVars, Arrive, Quiescent

(* A call is never in a state the client does not know.                     *)
THEOREM AgentTypeCorrect == AgentSpec => []AgentTypeOK
BY InitAgentTypeOK, NextAgentTypeOK, PTL DEF AgentSpec

LEMMA InitSent == AgentInit => Sent
BY CallsAssumption DEF AgentInit, Init, Sent

LEMMA NextSent == Sound /\ AgentTypeOK /\ Sent /\ [AgentNext]_agentVars => Sent'
<1> SUFFICES ASSUME Sound, AgentTypeOK, Sent, [AgentNext]_agentVars PROVE Sent'
  OBVIOUS
<1>1. \A r \in Calls : ActionOf(r)' = ActionOf(r) /\ ActionOf(r) \in Actions
  BY AgentStepsAreSteps, NextKeepsRequests DEF ActionOf, Sound, Addressed
<1> USE CallsAssumption DEF Sent
<1>2. CASE UNCHANGED <<pc, call, status>>
  BY <1>1, <1>2 DEF Builds
<1>3. ASSUME NEW a \in Actions, Decide(a) \/ Refuse(a) PROVE Sent'
  BY <1>1, <1>3 DEF Decide, Refuse, Builds, vars, AgentTypeOK
<1>4. ASSUME NEW r \in Calls, Send(r) \/ TimeOut(r) \/ Hear(r) PROVE Sent'
  BY <1>1, <1>4 DEF Send, TimeOut, Hear, Builds, vars, AgentTypeOK
<1>5. ASSUME NEW r \in Requests, Arrive(r) PROVE Sent'
  <2>1. Framed(r) /\ UNCHANGED <<call, status>> /\ pc[r] = "idle" /\ (r \in Calls => call[r] # "unsent")
    BY <1>5, ServeFramed DEF Arrive, clientVars, Receive
  <2> QED
    BY <1>1, <2>1 DEF Framed, Builds
<1>6. ASSUME NEW r \in Requests, Serve(r), UNCHANGED clientVars PROVE Sent'
  <2>1. Framed(r) /\ UNCHANGED <<call, status>> /\ pc[r] \notin {"idle", "done"}
    BY <1>6, ServeFramed, ServedIsRunning DEF clientVars
  <2> QED
    BY <1>1, <2>1 DEF Framed, Builds
<1> QED
  BY <1>2, <1>3, <1>4, <1>5, <1>6
  DEF AgentNext, agentVars, vars, clientVars, NextDay, Quiescent, Serve

LEMMA AlwaysSent == AgentSpec => [](Sound /\ AgentTypeOK /\ Sent)
<1>1. AgentSpec => []Sound
  BY AgentSound, AlwaysAddressed, PTL DEF Sound
<1> QED
  BY <1>1, AgentTypeCorrect, InitSent, NextSent, PTL DEF AgentSpec
-----------------------------------------------------------------------------
(* A call sent after its action has got a ticket finds the key, and from   *)
(* there no path of the handler leads to the retry answer.                 *)

SettledPlace(r) ==
  /\ Settled(r)
  /\ pc[r] \in {"idle", "lookup", "replay", "conflict", "commit", "answer", "done"}
  /\ reply[r] # "retry"

SettledPlaced == \A r \in Calls : settled[r] => SettledPlace(r)

LEMMA SettledStays ==
  ASSUME NEW q \in Requests, Framed(q), NEW r \in Calls, Settled(r)
  PROVE  Settled(r)'
BY CreatorsGrow DEF Settled, CallsFor, ActionOf, Framed

LEMMA ServedSettled ==
  ASSUME Sound, NEW r \in Calls, SettledPlace(r), Serve(r) \/ Receive(r)
  PROVE  SettledPlace(r)'
<1> USE CallsAssumption
<1>1. Framed(r) /\ TypeOK /\ Consistent /\ Progress(r) /\ Backed(r)
  BY ServeFramed DEF Sound, Consistent
<1>2. Settled(r)'
  BY <1>1, SettledStays DEF SettledPlace
<1>3. pc[r] # "done" => reply[r] = "none"
  BY <1>1 DEF Backed
<1> USE DEF SettledPlace, Goto, Reply, TypeOK
<1>4. CASE Receive(r)
  BY <1>1, <1>2, <1>4, CallsForOneAction DEF Receive, Sound
<1>5. CASE FirstSeen(r)
  <2>1. PICK w \in Creators : w \in CallsFor(ActionOf(r))
    BY DEF Settled
  <2>2. w \in Requests /\ SameKey(r, w)
    BY <2>1, CallsForOneAction DEF Sound, CallsFor
  <2>3. IsInternal(r) /\ rows[r] = NoRows /\ ~ Committed(r)
    BY <1>1, <1>5 DEF FirstSeen, Progress, Idle, Committed
  <2>4. w \in KeyRecords(r)
    BY <1>1, <2>1, <2>2, <2>3, KnownKeys DEF Creators
  <2> QED
    BY <1>5, <2>4 DEF FirstSeen
<1>6. CASE SeenBefore(r)
  BY <1>1, <1>2, <1>3, <1>6 DEF SeenBefore
<1>7. CASE Replay(r)
  BY <1>1, <1>2, <1>3, <1>7 DEF Replay
<1>8. CASE TraceConflict(r) \/ Commit(r)
  BY <1>1, <1>2, <1>3, <1>8 DEF TraceConflict, Commit
<1>9. CASE Answer(r)
  BY <1>1, <1>2, <1>9 DEF Answer
<1>10. CASE Fail(r) \/ Crash(r)
  BY <1>1, <1>2, <1>10 DEF Fail, Crash
<1> QED
  BY <1>4, <1>5, <1>6, <1>7, <1>8, <1>9, <1>10
  DEF Serve, Step, InsertKey, KeyTaken, GenerateTicketNo, InsertTicket, TicketTaken,
      CompleteCreation, Recover

LEMMA NextSettledPlaced ==
  Sound /\ AgentTypeOK /\ Sent /\ SettledPlaced /\ [AgentNext]_agentVars => SettledPlaced'
<1> SUFFICES ASSUME Sound, AgentTypeOK, Sent, SettledPlaced, [AgentNext]_agentVars
             PROVE  SettledPlaced'
  OBVIOUS
<1> USE CallsAssumption
<1>1. ASSUME NEW r \in Requests, Serve(r) \/ Receive(r), UNCHANGED clientVars PROVE SettledPlaced'
  <2>1. Framed(r)
    BY <1>1, ServeFramed
  <2>2. ASSUME NEW q \in Calls, q # r, SettledPlace(q) PROVE SettledPlace(q)'
    BY <2>1, <2>2, SettledStays DEF SettledPlace, Framed
  <2> QED
    BY <1>1, <2>2, ServedSettled DEF SettledPlaced, clientVars
<1>2. ASSUME UNCHANGED <<request, pc, tx, rows, reply>>, NEW q \in Calls
      PROVE  SettledPlace(q)' <=> SettledPlace(q)
  BY <1>2 DEF SettledPlace, Settled, Creators, Committed, HasTicket, CallsFor, ActionOf
<1>3. ASSUME NEW r \in Calls, Send(r) PROVE SettledPlaced'
  <2>1. pc[r] = "idle" /\ reply[r] = "none"
    BY <1>3 DEF Send, Sent, Sound, Consistent, Backed
  <2>2. Settled(r) => SettledPlace(r)
    BY <2>1 DEF SettledPlace
  <2> QED
    BY <1>2, <1>3, <2>2 DEF Send, SettledPlaced, AgentTypeOK, vars
<1>4. CASE UNCHANGED <<vars, settled>>
  BY <1>2, <1>4 DEF SettledPlaced, vars
<1>5. CASE NextDay /\ UNCHANGED clientVars
  BY <1>2, <1>5 DEF NextDay, SettledPlaced, clientVars
<1> QED
  BY <1>1, <1>3, <1>4, <1>5
  DEF AgentNext, agentVars, clientVars, Decide, Refuse, TimeOut, Hear, Arrive, Quiescent, Serve

LEMMA InitSettledPlaced == AgentInit => SettledPlaced
BY DEF AgentInit, SettledPlaced

(* A repetition made after the action has its ticket is never sent round    *)
(* again: one more call, and the Agent knows.                               *)
THEOREM RetryMeansRace == AgentSpec => []RetryOnlyWhenRacing
<1>1. SettledPlaced => RetryOnlyWhenRacing
  BY DEF SettledPlaced, SettledPlace, RetryOnlyWhenRacing
<1> QED
  BY <1>1, AlwaysSent, InitSettledPlaced, NextSettledPlaced, PTL DEF AgentSpec
-----------------------------------------------------------------------------
(* The composition implements HumanInTheLoop: a creation's commit carries  *)
(* the action out, and a response heard tells of it.                       *)

LEMMA OnlyCommitCreates ==
  ASSUME Sound, NEW r \in Requests, Serve(r) \/ Receive(r), ~ Commit(r)
  PROVE  Creators' = Creators
<1>1. Framed(r) /\ TypeOK
  BY ServeFramed DEF Sound
<1>2. Committed(r)' => Committed(r)
  <2> USE <1>1 DEF TypeOK, Committed
  <2>1. CASE Receive(r) \/ FirstSeen(r) \/ SeenBefore(r) \/ InsertKey(r) \/ GenerateTicketNo(r)
             \/ InsertTicket(r) \/ CompleteCreation(r) \/ Replay(r) \/ TraceConflict(r)
             \/ Answer(r) \/ Recover(r)
    BY <2>1 DEF Receive, FirstSeen, SeenBefore, InsertKey, GenerateTicketNo, InsertTicket,
         CompleteCreation, Replay, TraceConflict, Answer, Recover
  <2>2. CASE KeyTaken(r) \/ TicketTaken(r) \/ Fail(r) \/ Crash(r)
    BY <2>2, RollbackFrame DEF KeyTaken, TicketTaken, Fail, Crash
  <2> QED
    BY <2>1, <2>2 DEF Serve, Step
<1> QED
  BY <1>1, <1>2 DEF Framed, Creators, Committed, HasTicket

LEMMA ToldStays ==
  ASSUME Sent, NEW r \in Requests, pc[r] # "done", Framed(r), UNCHANGED call
  PROVE  Told' = Told
<1>1. ASSUME NEW q \in Calls, call[q] = "answered"
      PROVE  reply'[q] = reply[q] /\ found'[q] = found[q]
  BY <1>1, CallsAssumption DEF Sent, Framed
<1>2. \A a \in Actions : CallsFor(a)' = CallsFor(a)
  BY DEF CallsFor, ActionOf, Framed
<1> QED
  BY <1>1, <1>2 DEF Told, CallsFor

LEMMA CommitCarriesOut ==
  ASSUME Sound, OneTicketPerAction', AgentTypeOK, Sent,
         NEW r \in Requests, Commit(r), UNCHANGED clientVars
  PROVE  Confirmation!Next \/ UNCHANGED Confirmation!vars
<1>1. /\ Framed(r) /\ pc[r] = "commit" /\ tx[r] # "committed" /\ tx'[r] = "committed"
      /\ rows' = rows
  BY ServeFramed DEF Serve, Step, Commit, Sound, TypeOK, Consistent, Progress
<1>2. Told' = Told /\ status' = status
  BY <1>1, ToldStays DEF clientVars
<1>3. \A a \in Actions : CallsFor(a)' = CallsFor(a)
  BY <1>1 DEF CallsFor, ActionOf, Framed
<1>4. Creators' = IF HasTicket(r) THEN Creators \cup {r} ELSE Creators
  BY <1>1 DEF Framed, Creators, Committed, HasTicket
<1>5. CASE HasTicket(r) /\ r \in Calls
  <2>1. PICK a \in Actions : a = ActionOf(r) /\ status[a] = "confirmed"
    BY <1>1, <1>5 DEF Sound, Addressed, Sent, Builds
  <2>2. r \in CallsFor(a) /\ r \in Creators' /\ r \notin Creators
    BY <1>1, <1>4, <1>5, <2>1 DEF CallsFor, Creators, Committed
  <2>3. \A w \in Creators' \cap CallsFor(a)' : w = r
    BY <1>3, <2>2 DEF OneTicketPerAction
  <2>4. Creators \cap CallsFor(a) = {} /\ Creators' \cap CallsFor(a) = {r}
    BY <1>3, <1>4, <1>5, <2>2, <2>3
  <2>5. \A b \in Actions \ {a} : Creators' \cap CallsFor(b) = Creators \cap CallsFor(b)
    BY <1>4, <1>5, <2>1 DEF CallsFor
  <2>6. TicketsOf[a] = {} /\ TicketsOf' = [TicketsOf EXCEPT ![a] = {r}]
    BY <1>3, <2>4, <2>5 DEF TicketsOf
  <2>7. Confirmation!CarryOut(a)
    BY <1>2, <2>1, <2>6 DEF Confirmation!CarryOut
  <2> QED
    BY <2>7 DEF Confirmation!Next
<1>6. CASE ~ (HasTicket(r) /\ r \in Calls)
  <2>1. TicketsOf' = TicketsOf
    BY <1>3, <1>4, <1>6 DEF TicketsOf, CallsFor
  <2> QED
    BY <1>2, <2>1 DEF Confirmation!vars
<1> QED
  BY <1>5, <1>6

LEMMA HearTells ==
  ASSUME Sound, OneTicketPerAction, TicketAnswersTrue, AgentTypeOK, Sent, NEW r \in Calls, Hear(r)
  PROVE  Confirmation!Next \/ UNCHANGED Confirmation!vars
<1> USE CallsAssumption
<1>1. UNCHANGED <<vars, status>> /\ call' = [call EXCEPT ![r] = "answered"] /\ call[r] = "waiting"
  BY DEF Hear
<1>2. TicketsOf' = TicketsOf /\ \A a \in Actions : CallsFor(a)' = CallsFor(a)
  BY <1>1 DEF vars, TicketsOf, Creators, Committed, HasTicket, CallsFor, ActionOf
<1>3. CASE reply[r] = "ticket"
  <2>1. PICK a \in Actions : a = ActionOf(r)
    BY DEF Sound, Addressed
  <2>2. ASSUME NEW q \in CallsFor(a), reply[q] = "ticket"
        PROVE  found[q] \in Creators \cap CallsFor(a)
    <3>1. q \in Calls /\ ActionOf(q) = a /\ found[q] \in Creators /\ found[q] \in Requests
      BY <2>2 DEF TicketAnswersTrue, CallsFor, Creators
    <3> QED
      BY <3>1, <2>2, CallsForOneAction DEF TicketAnswersTrue, Sound, CallsFor
  <2>3. Creators \cap CallsFor(a) = {found[r]} /\ r \in CallsFor(a)
    BY <1>3, <2>1, <2>2 DEF OneTicketPerAction, CallsFor
  <2>4. Told'[a] = {found[r]}
    BY <1>1, <1>2, <1>3, <2>2, <2>3, AgentTypeOK DEF Told, CallsFor, vars, AgentTypeOK
  <2>5. \A b \in Actions \ {a} : Told'[b] = Told[b]
    BY <1>1, <1>2, <2>1 DEF Told, CallsFor, vars, AgentTypeOK
  <2>6. Told' = [Told EXCEPT ![a] = TicketsOf[a]]
    BY <2>3, <2>4, <2>5 DEF Told, TicketsOf
  <2>7. Confirmation!Tell(a)
    BY <1>1, <1>2, <2>6 DEF Confirmation!Tell
  <2> QED
    BY <2>7 DEF Confirmation!Next
<1>4. CASE reply[r] # "ticket"
  <2>1. Told' = Told
    BY <1>1, <1>2, <1>4 DEF Told, CallsFor, vars, AgentTypeOK
  <2> QED
    BY <1>1, <1>2, <2>1 DEF Confirmation!vars
<1> QED
  BY <1>3, <1>4

LEMMA DecisionStep ==
  ASSUME Sound, AgentTypeOK, Sent, NEW a \in Actions, Decide(a) \/ Refuse(a)
  PROVE  Confirmation!Next
<1>1. UNCHANGED <<TicketsOf, Told>>
  BY DEF Decide, Refuse, vars, TicketsOf, Told, Creators, Committed, HasTicket, CallsFor, ActionOf
<1>2. CASE Decide(a)
  BY <1>1, <1>2 DEF Decide, Confirmation!Next, Confirmation!Decide
<1>3. CASE Refuse(a)
  <2>1. ASSUME NEW w \in Creators \cap CallsFor(a)
        PROVE  FALSE
    <3>1. w \in Calls /\ w \in Requests /\ ActionOf(w) = a /\ Committed(w)
      BY DEF CallsFor, Creators
    <3>2. pc[w] # "idle"
      BY <3>1, CommittedIsOver DEF Sound, Consistent
    <3>3. Builds(a)
      BY <3>1, <3>2 DEF Sent
    <3> QED
      BY <1>3, <3>3 DEF Refuse
  <2>2. TicketsOf[a] = {}
    BY <2>1 DEF TicketsOf
  <2> QED
    BY <1>1, <1>3, <2>2 DEF Refuse, Confirmation!Next, Confirmation!Decide
<1> QED
  BY <1>2, <1>3

LEMMA ServiceStep ==
  ASSUME Sound, OneTicketPerAction', AgentTypeOK, Sent,
         NEW r \in Requests, Serve(r) \/ Receive(r), UNCHANGED clientVars
  PROVE  Confirmation!Next \/ UNCHANGED Confirmation!vars
<1>1. CASE Commit(r)
  BY <1>1, CommitCarriesOut
<1>2. CASE ~ Commit(r)
  <2>1. Creators' = Creators /\ Framed(r) /\ pc[r] # "done"
    BY <1>2, OnlyCommitCreates, ServeFramed, ServedIsRunning DEF Receive
  <2>2. Told' = Told
    BY <2>1, ToldStays DEF clientVars
  <2>3. TicketsOf' = TicketsOf
    BY <2>1 DEF TicketsOf, CallsFor, ActionOf, Framed
  <2> QED
    BY <2>2, <2>3 DEF Confirmation!vars, clientVars
<1> QED
  BY <1>1, <1>2

LEMMA NextOfConfirmation ==
  Sound /\ OneTicketPerAction /\ OneTicketPerAction' /\ TicketAnswersTrue /\ AgentTypeOK /\ Sent
    /\ [AgentNext]_agentVars => [Confirmation!Next]_(Confirmation!vars)
<1> SUFFICES ASSUME Sound, OneTicketPerAction, OneTicketPerAction', TicketAnswersTrue, AgentTypeOK,
                    Sent, [AgentNext]_agentVars
             PROVE  Confirmation!Next \/ UNCHANGED Confirmation!vars
  OBVIOUS
<1>1. ASSUME UNCHANGED <<request, tx, rows, found, reply, call, status>>
      PROVE  UNCHANGED Confirmation!vars
  BY <1>1 DEF Confirmation!vars, TicketsOf, Told, Creators, Committed, HasTicket, CallsFor, ActionOf
<1>2. ASSUME NEW r \in Calls, Send(r) \/ TimeOut(r)
      PROVE  UNCHANGED Confirmation!vars
  <2>1. UNCHANGED <<request, tx, rows, found, reply, status>>
    BY <1>2 DEF Send, TimeOut, vars
  <2>2. \A q \in Calls : call'[q] = "answered" <=> call[q] = "answered"
    BY <1>2 DEF Send, TimeOut, AgentTypeOK
  <2>3. UNCHANGED <<TicketsOf, Told>>
    BY <2>1, <2>2 DEF TicketsOf, Told, Creators, Committed, HasTicket, CallsFor, ActionOf
  <2> QED
    BY <2>1, <2>3 DEF Confirmation!vars
<1> QED
  BY <1>1, <1>2, HearTells, DecisionStep, ServiceStep
  DEF AgentNext, agentVars, vars, clientVars, Arrive, NextDay, Quiescent, Serve

LEMMA InitOfConfirmation == AgentInit => Confirmation!Init
BY DEF AgentInit, Init, Confirmation!Init, TicketsOf, Told, Creators, Committed, CallsFor

(* Client and service together keep the promise of HumanInTheLoop: nothing  *)
(* without a yes, at most one ticket with it, and only that one is told.    *)
THEOREM ConfirmationIsKept == AgentSpec => KeepsConfirmation
<1>1. AgentSpec => []TicketAnswersTrue
  BY AgentRunsService, TicketsToldTruly, PTL
<1> QED
  BY <1>1, AlwaysSent, OneTicketHowOftenSent, InitOfConfirmation, NextOfConfirmation, PTL
  DEF AgentSpec, KeepsConfirmation, Confirmation!Spec
=============================================================================
