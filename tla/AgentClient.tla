----------------------------- MODULE AgentClient -----------------------------
(***************************************************************************)
(* The Agent as a client of the Internal API, composed with the service.   *)
(* app/integrations/agent_contract.py builds the request of a pending      *)
(* action the user has confirmed, and HRBackendClient                      *)
(* (examples/agent_backend_adapter.py) posts it once with a timeout.  The  *)
(* Agent calls it again when it has heard nothing, when the user confirms  *)
(* twice, or when the task is repeated: several calls for one action may   *)
(* be under way, and a call that timed out goes on in the server.          *)
(*                                                                         *)
(* Each call is a request of InternalTicketService.  The specification     *)
(* fixes at the start which action each call is for, and lets the calls be *)
(* made in any order or not at all.  Requests of users are served beside.  *)
(***************************************************************************)
EXTENDS InternalTicketService

CONSTANTS
  Calls,          \* the requests that are calls of the Agent; the others are users'
  Actions,        \* pending actions, named by their pending_action_id
  SessionLength,  \* SessionLength[a]: characters of the session id of a
  Complete,       \* actions whose arguments name type, title and description
  Timed,          \* actions whose confirmation carries confirmed_at
  GivenTime       \* that confirmation time

MAX_SESSION == 128 \* AgentPendingAction.session_id

MAX_EXTERNAL == 128 \* InternalTicketCreate.created_by_external

ASSUME CallsAssumption == Calls \subseteq Requests
ASSUME SessionAssumption == SessionLength \in [Actions -> 1..MAX_SESSION]
ASSUME ActionSetsAssumption == Complete \subseteq Actions /\ Timed \subseteq Actions
ASSUME GivenTimeAssumption == GivenTime \notin Requests

VARIABLES
  status,       \* status[a]: what became of the question to the user
  call,         \* call[r]: the call as the Agent sees it
  settled       \* settled[r]: the action of r had a ticket when r was sent

clientVars == <<status, call, settled>>

agentVars == <<vars, clientVars>>
-----------------------------------------------------------------------------
(* The request of a call.  A confirmation without a time gets the moment   *)
(* of the call, which no other call has; the call itself stands for it.    *)

build_idempotency_key(a) == <<"agent", a>>

TimeOfCall(a, r) == r \* variant: the time given is not passed on

effective_confirmed_at(a, r) == IF a \in Timed THEN GivenTime ELSE r

PayloadPerCall(a, r) == \* variant: the tool call id is part of the key
  [key |-> <<build_idempotency_key(a), r>>,
   content |-> [action |-> a, confirmed_at |-> effective_confirmed_at(a, r)]]

Payload(a, r) ==
  [key |-> build_idempotency_key(a),
   content |-> [action |-> a, confirmed_at |-> effective_confirmed_at(a, r)]]

ASSUME AgentKeysAssumption == \A a \in Actions, r \in Calls : Payload(a, r).key \in Keys

\* created_by_external = "agent:" + session_id has to fit its column.
Builds(a) == status[a] = "confirmed" /\ a \in Complete /\ 6 + SessionLength[a] <= MAX_EXTERNAL

ActionOf(r) == request[r].content.action

CallsFor(a) == {r \in Calls : ActionOf(r) = a}

Settled(r) == Creators \cap CallsFor(ActionOf(r)) # {}
-----------------------------------------------------------------------------
(* Variants of the steps below.                                             *)

SendUnconfirmed(r) == \* variant: confirm_result.confirmed is not looked at
  /\ call[r] = "unsent"
  /\ status[ActionOf(r)] # "pending"
  /\ call' = [call EXCEPT ![r] = "waiting"]
  /\ settled' = [settled EXCEPT ![r] = Settled(r)]
  /\ UNCHANGED <<vars, status>>

HearResponse(r) == \* variant: the response is kept in place of the call's state
  /\ call[r] = "waiting" /\ pc[r] = "done" /\ reply[r] # "lost"
  /\ call' = [call EXCEPT ![r] = reply[r]]
  /\ UNCHANGED <<vars, status, settled>>

TimeOutCancelling(r) == \* variant: the server gives up a request its client has left
  /\ call[r] = "waiting"
  /\ call' = [call EXCEPT ![r] = "gave_up"]
  /\ Rollback(r) /\ Reply(r, "lost")
  /\ UNCHANGED <<request, today, no, found, status, settled>>
-----------------------------------------------------------------------------
AgentInit ==
  /\ Init
  /\ \A r \in Calls : \E a \in Actions : request[r] = Payload(a, r)
  /\ \A r \in Requests \ Calls : ~ IsInternal(r)
  /\ status = [a \in Actions |-> "pending"]
  /\ call = [r \in Calls |-> "unsent"]
  /\ settled = [r \in Calls |-> FALSE]

\* The user answers; AgentConfirmResult.confirmed.
Decide(a) ==
  /\ status[a] = "pending"
  /\ \E answer \in {"confirmed", "declined"} : status' = [status EXCEPT ![a] = answer]
  /\ UNCHANGED <<vars, call, settled>>

\* The builder raises: not confirmed, arguments missing, or a field too long.
Refuse(a) ==
  /\ status[a] \in {"confirmed", "declined"} /\ ~ Builds(a)
  /\ status' = [status EXCEPT ![a] = "refused"]
  /\ UNCHANGED <<vars, call, settled>>

\* create_ticket_from_confirmed_action builds the payload and posts it.
Send(r) ==
  /\ call[r] = "unsent" /\ Builds(ActionOf(r))
  /\ call' = [call EXCEPT ![r] = "waiting"]
  /\ settled' = [settled EXCEPT ![r] = Settled(r)]
  /\ UNCHANGED <<vars, status>>

\* A thread of the server takes the request, perhaps long after the client has left.
Arrive(r) == (r \in Calls => call[r] # "unsent") /\ Receive(r) /\ UNCHANGED clientVars

\* 15 seconds have passed, or the connection is lost.
TimeOut(r) ==
  /\ call[r] = "waiting"
  /\ call' = [call EXCEPT ![r] = "gave_up"]
  /\ UNCHANGED <<vars, status, settled>>

\* The response reaches a client that still waits.
Hear(r) ==
  /\ call[r] = "waiting" /\ pc[r] = "done" /\ reply[r] # "lost"
  /\ call' = [call EXCEPT ![r] = "answered"]
  /\ UNCHANGED <<vars, status, settled>>

\* No request is left but calls the Agent does not make.
Quiescent ==
  /\ \A r \in Requests : pc[r] = "done" \/ (r \in Calls /\ call[r] = "unsent")
  /\ UNCHANGED agentVars

AgentNext ==
  \/ \E a \in Actions : Decide(a) \/ Refuse(a)
  \/ \E r \in Calls : Send(r) \/ TimeOut(r) \/ Hear(r)
  \/ \E r \in Requests : Arrive(r)
  \/ (\E r \in Requests : Step(r) \/ Fail(r) \/ Crash(r)) /\ UNCHANGED clientVars
  \/ NextDay /\ UNCHANGED clientVars
  \/ Quiescent

AgentSpec == AgentInit /\ [][AgentNext]_agentVars /\ Fairness
-----------------------------------------------------------------------------
(* Properties *)

AgentTypeOK ==
  /\ status \in [Actions -> {"pending", "confirmed", "declined", "refused"}]
  /\ call \in [Calls -> {"unsent", "waiting", "gave_up", "answered"}]
  /\ settled \in [Calls -> BOOLEAN]

(* docs/api-contract-internal-ticket.md: one pending action creates one     *)
(* ticket only, however many calls are made for it, concurrently or after a *)
(* timeout, and whatever fails.                                             *)
OneTicketPerAction ==
  \A a \in Actions : \A r, w \in Creators \cap CallsFor(a) : r = w

(* A call whose confirmation carries its time is never told that its key    *)
(* belongs to a different request: a repetition is recognised as such.      *)
TimedNeverConflicts ==
  \A r \in Calls : ActionOf(r) \in Timed => reply[r] # "hash_conflict"

(* "Please retry" is an answer for racing calls only: a call sent when the  *)
(* action has its ticket is never sent round again.                         *)
RetryOnlyWhenRacing ==
  \A r \in Calls : settled[r] => reply[r] # "retry"

(* The client's timeout does not undo anything: a call that has reached a   *)
(* healthy server ends with the ticket of its action, or with the advice to *)
(* retry after a lost race, also when nobody waits for it any more.         *)
CallTakesEffect ==
  \A r \in Calls \ Faulty :
    Running(r) ~> Settled(r) \/ reply[r] = "retry"

(* idempotency.py lists what the key is for: the Agent did not get the      *)
(* response, or the same pending action is sent again; and the contract's   *)
(* table promises the existing ticket to the same payload.  So a call for   *)
(* an action that has its ticket would not be told of a conflict.           *)
RepeatedActionReplayed ==
  \A r \in Calls : reply[r] # "hash_conflict"

Told == [a \in Actions |->
  {found[r] : r \in {q \in CallsFor(a) : call[q] = "answered" /\ reply[q] = "ticket"}}]

TicketsOf == [a \in Actions |-> Creators \cap CallsFor(a)]

Confirmation ==
  INSTANCE HumanInTheLoop WITH Tickets <- Requests, tickets <- TicketsOf, told <- Told

(* The whole of client and service keeps the promise given to the user.     *)
KeepsConfirmation == Confirmation!Spec
=============================================================================
