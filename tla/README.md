# Formal models of the HR ticket backend

TLA+ models of `enterprise-hr-ticket-backend`: a FastAPI service with a
PostgreSQL database in which employees, HR and an AI Agent create and handle HR
tickets. The models are translated from the Python code; every definition that
models code is listed with its source lines in `PROJECT.json` ("map").

## 1. The system

| Part | Code | State | Operations |
|---|---|---|---|
| Internal ticket creation (Agent) | `app/services/internal_ticket_service.py`, `idempotency_repo.py`, `agent_trace_repo.py` | `idempotency_keys`, `pending_action_executions`, `agent_tool_calls`, `tickets`, `ticket_policy_references`, `audit_logs` | create once per key, replay, conflict, recovery after a lost race |
| Ticket creation by users | `ticket_service.py: create_ticket_for_user`, `ticket_repo.py` | `tickets`, `audit_logs` | number of the day, insert |
| Ticket life cycle | `ticket_service.py: update_status, cancel_ticket, assign_ticket`, `permissions.py` | `tickets.status`, `tickets.assignee_id`, `ticket_status_transitions`, `audit_logs` | move along the state machine, cancel, assign |
| Read side | `list_*`, `get_*` of the ticket, audit and trace services | none | pages of rows by role and ownership |
| Accounts | `auth_service.py`, `deps.py`, `security.py` | `users` | register, log in, find the current user |
| Agent contract and client | `app/integrations/agent_contract.py`, `examples/agent_backend_adapter.py` | the Agent's pending actions | build the request of a confirmed action, send it with a timeout |
| Metrics report | `scripts/collect_project_metrics.py` | none | count every table, statement by statement |
| Frame | config, logging, middleware, error handlers, schemas, migrations, other scripts | settings | - |

**How they interact.** A request is served by one thread of uvicorn's pool with
a database session of its own (`get_db`); threads share nothing but the
database. All handlers are synchronous: they interleave at SQL statements. The
session has `autoflush=False`; repositories flush explicitly, services commit.
No statement locks a row for reading, and the engine keeps PostgreSQL's default
isolation, READ COMMITTED: each statement sees what was committed when it began.
An INSERT that meets its unique value in another open transaction waits for
that transaction; an UPDATE waits for the holder of its row and then overwrites.

**What is hard.** Lost races for a key or a number and the answers given after
them; failures and process ends between flushes, between commit and refresh,
between commit and answer; repeated requests; midnight between count and insert;
checks made on a row that has changed by the time it is written; waiting on
unique indexes; a client that gives up while its request goes on and then calls
again; several statements that read tables which others write; tokens that
outlive what they say. `PROJECT.json` ("hazards") lists them line by line.

**What makes each part correct.**
- Creation: one ticket per key; a creation is whole or absent; every answer is
  true, also when recording it fails; what is committed stays; traces agree with
  what happened; numbers of a day have no gaps or repeats; no circular wait;
  every request ends.
- Life cycle: status changes only along allowed edges by somebody entitled; the
  history explains the status; the audit log agrees with the history; terminal
  tickets stay as they are; no lock outlives its transaction.
- Agent and service together: without the user's yes nothing happens, with it
  one ticket, and whoever is told of a ticket is told of that one.
- Accounts: one user per address; who is told 201 can log in; a role or an
  account that was taken away does not come back with an old token.
- Read side: nobody sees rows of others; turning pages skips no row that was
  there; the figures of a report do not contradict each other.

## 2. Modules

| Module | Models | Used by |
|---|---|---|
| `InternalTicketService` | creation of tickets by the Agent and by users | `MCInternalTicketService`, the proofs |
| `IdempotentCreate` | what creation promises its callers (abstract) | `InternalTicketService` as `Promise` |
| `TicketRules` | state machine, roles, ownership, the verdicts of all checks | `TicketService`, `TicketLifecycle` |
| `TicketService` | update, cancel and assign by concurrent threads | `MCTicketService`, the proofs |
| `TicketLifecycle` | the state machine as it is meant (abstract) | `TicketService` as `Lifecycle` |
| `AgentClient` | the Agent's mapper and client, composed with `InternalTicketService` | `MCAgentClient`, the proofs |
| `HumanInTheLoop` | what Agent and service promise the user (abstract) | `AgentClient` as `Confirmation` |
| `AuthService` | registration, login, tokens | `MCAuthService`, the proofs; implements `IdempotentCreate` |
| `ReadSide` | lists and the metrics report, beside `InternalTicketService` | `MCReadSide`, the proofs |
| `InternalTicketService_proofs`, `_numbers`, `_promise` | theorems about creation | `AgentClient_proofs`, `ReadSide_proofs` |
| `TicketService_proofs`, `TicketService_serial` | theorems about the life cycle, with and without overlap | - |
| `AgentClient_proofs`, `AuthService_proofs`, `ReadSide_proofs` | theorems about the other modules | - |
| `MCInternalTicketService`, `MCTicketService`, `MCAgentClient`, `MCAuthService`, `MCReadSide` | small instances for TLC | the `.cfg` files |

### InternalTicketService

One action is one statement, or a group of statements that touch only rows no
other transaction can see yet. A handler writes only rows it has inserted, so
the tables are kept the way a multi-version database keeps them: `rows[r]` is
what request `r` has inserted, one field per table with the status of the row,
and others see it once `tx[r]` is `"committed"`. The content of an idempotency
record (key, hash) is a function of the request that inserted it.

| Action | Code |
|---|---|
| `Receive`, `FirstSeen`, `SeenBefore` | `create_ticket_from_internal`, `_handle_existing_idempotency_record` |
| `InsertKey`, `KeyTaken` | `create_processing` and its unique index; `KeyTaken` is the `IntegrityError` and its rollback |
| `GenerateTicketNo` | `_create_received_trace_records`, then the count in `generate_ticket_no` |
| `InsertTicket`, `TicketTaken` | the insert of the ticket, both unique indexes; for a user's request the 409 of `create_ticket_for_user` |
| `CompleteCreation` | references, audit line, `_mark_success` |
| `Replay`, `TraceConflict` | `_handle_replay`, `_handle_conflict` |
| `Commit`, `Answer` | `db.commit()`; `db.refresh` and the response |
| `Recover` | `_handle_integrity_error_after_rollback` |
| `Fail`, `Crash`, `NextDay` | an exception in any statement; the worker or its connection lost; the UTC date |

A retry by a client is another request with the same key. Trace ids are not part
of the content, because `_stable_request_hash` leaves them out. The variable
`found` doubles as the local variable `ticket` of the handlers.

### TicketRules, TicketService, TicketLifecycle

`TicketRules` gives each handler's checks in their order as a verdict, "ok" or
the code of the first check that fails. In `TicketService` a thread serves one
request after another: `Refuse` (a check fails), `Load` (the row is read and all
checks pass), `Write` (UPDATE of the row and history line), `RecordAudit`,
`Commit`, `Answer`, and `Fail` (exception or lost connection anywhere). `seen`
is the ORM object as loaded; `holder` is the row lock an UPDATE takes; `Writes`
says that the ORM sends no UPDATE for an attribute set to the value it was read
with. `ticket`, `transitions` and `audits` are the committed tables;
`inserted` the flushed lines of an open transaction. Users, roles and the
creator of a ticket are constants: no endpoint changes them.

`TicketLifecycle` is the same life without any overlap. The code implements it
when requests about a ticket do not overlap, and does not when they do.

### AgentClient, HumanInTheLoop

Every call of the Agent is a request of `InternalTicketService`; the other
requests are users'. Which action a call is for is fixed at the start, and calls
are made in any order or not at all, so any pattern of repetition is a behaviour.

| Action | Code |
|---|---|
| `Decide` | the user's answer; `AgentConfirmResult.confirmed` |
| `Refuse` | the builder raises: not confirmed, arguments missing, `"agent:" + session_id` too long for `created_by_external` |
| `Send` | `build_internal_ticket_payload` and `httpx.post` |
| `Arrive` | the request reaches a thread, perhaps after its client has left |
| `TimeOut`, `Hear` | 15 seconds are over or the connection is lost; the response |

The content of a request is its action and `confirmed_at`, because these decide
whether two calls hash alike: a confirmation without a time gets the moment of
the call, which no other call has. The RAG result and the other fields are taken
to be stored with the action, so that a repetition carries them unchanged.
`settled` is a history variable. In the mapping to `HumanInTheLoop` an action is
carried out when its creation commits.

### AuthService

A registration has the statements `EmailKnown`/`EmailFree` (the lookup),
`Insert`/`EmailTaken` (the insert, which waits for an open transaction with the
same address, and its `IntegrityError`), `Commit`, `Answer` and `Fail`. `LogIn`
reads one row. A request with a token has three steps: `Decode`
(`decode_access_token`), `LoadUser` (`get_current_user`,
`get_current_active_user`; `access` is the `User` object they return) and `Leave`
(the handler is through, or the request breaks off). The object is loaded once
per request and never refreshed, so a handler runs on a role that may be out of
date. `Administer` changes a role or `is_active` in the database, which no
endpoint does; in the other modules roles are constants. `EmailStr` lowers the case
of the domain on `/auth/register` and `/auth/login`; the form of `/auth/token`
takes the text as it is. bcrypt sees 72 bytes of a password. A token is accepted
up to and including the instant of its expiry.

### ReadSide

`order` tells which of two rows of a list is older by `created_at`, which a row
gets when it is flushed, committed or not. `Place` counts the newer rows among
those a viewer may see, and a page is the set of rows whose place lies between
its OFFSET and LIMIT. A page costs two statements, `Count` and `Select`, and the client turns
pages (`Turn`) after a full one; `Figure` is a statement of the report. `Write`
is any step of the handlers of `InternalTicketService`; a crash leaves the same
rows as a failure and is left out. No two rows of a table are taken to share a
microsecond, since PostgreSQL's order between them is free. hr and admin differ
only in audit lines about resources other than tickets, which no code writes.

## 3. What the runs check

| Run | Instance | Shows |
|---|---|---|
| `internal_requests` | 3 requests, 2 keys, 2 contents, 2 days, one request may fail | one ticket per key, whole or absent creations, truthful answers and traces, conflicts answered as conflicts, durability, dense numbers, no circular wait; implements `IdempotentCreate`; every request ends |
| `internal_call_recorded` | 2 requests, 1 key | the API contract's "record replayed / conflict call" fails for the loser of a race |
| `agent_client` | 2 calls and a user's request, 2 actions, one with a confirmation time, one call may fail, 2 days | one ticket per action, a repetition is recognised, the time-out undoes nothing; implements `HumanInTheLoop` |
| `agent_retry_rebuilt` | 2 calls for 1 action without a confirmation time | the second call is told of a conflict |
| `accounts` | 2 registrations, one may fail; 2 spellings, 3 passwords, 1 client | one user per address, accounts open, tokens are their owners', revocation; implements `IdempotentCreate`; every registration ends |
| `read_side` | 3 requests, one by staff that may fail; 1 reader with pages of one row, or the report | totals and pages, complete reads, order of the executions, figures of the report |
| `lifecycle_changes` | 2 threads, both may fail, 2 users, 5 changes | what remains true of status, history, audit log, assignment and locks under overtaking; every request ends |
| `lifecycle_serial` | 1 thread, may fail, 5 users, 4 changes | implements `TicketLifecycle`; the checks are the documented rights |
| `lifecycle_legal_edges`, `_history_chains`, `_assigned_while_open`, `_last_assignment` | 2 threads | the four claims that overlapping requests break |

That answers are true (`TicketAnswersTrue`, `ConflictAnswersTrue`,
`NoHalfDoneKeySeen`) is part of what `KeepsPromise` checks: `IdempotentCreate`
tells of a ticket or a conflict only where there is one and has no other
answers. It allows a failure at any time, though; that an exception while a
conflict is recorded does not become a 500 is `ConflictNotMasked`. The three,
`HeldByWriter`, `OwnRowsOnly` and the inductive invariants `Consistent` and
`Numbering` are in no configuration of their own; they hold in the instances
above, and §5 has their proofs.

`RevocationHolds` says what is left of a token once the database has changed.
There is no instant at which a request's token, user and role are all checked:
a token may expire after `Decode`, a user switched on before `LoadUser`, a role
change while the handler runs. What holds is that a request that loads its user
after a role has gone for good is not served with it, and that one that starts
with an expired token is not served.

**Bounds.** `LastDay` bounds the calendar, `LastMinute` the clock, `MaxChanges`
the changes of one ticket; the sets of requests, keys, contents, threads,
registrations and rows are finite. Creation: a lost race needs two requests, a
race among losers or a third party (a user taking the number) three; two days
suffice because a number belongs to one day and only the step from a day to the
next matters. Contents are compared for equality only: two suffice. Every safety
property of this run is proved for any number of requests. Agent: two calls are
a call and its repetition; the third request disturbs the numbers. The session
ids have 122 characters, the longest that fit. Life cycle: the longest life has
three changes, so with five a handler that has read `open` can be overtaken by
the whole life and still write, and be followed by another; a creator and an
admin hold between them every right the checks tell apart there, and the other
roles enter in `lifecycle_serial`. More threads only repeat what two do to each
other, since a ticket has a single lock. Accounts: a race needs two
registrations; tokens live no minute, so that the clock can pass them in one, and
with two roles and `is_active` a user can lose what a token claims and get it back.
Lists: pages of one row are turned as often as possible, and three rows allow
for one that is old, one that appears between count and page, and one that is
committed late. Symmetry is used only in `read_side`, which has no temporal
property, for requests of the same employee and for contents.

**Fairness.** `WF_vars(Step(r))`: a thread that serves a request is scheduled
until it has answered. The clients, failures, and the calendar have no
fairness; `AgentClient` adds none: neither user, client nor network is obliged to
do anything, and `CallTakesEffect` speaks of calls that a healthy thread has
taken. `AuthService` likewise obliges only the threads of registrations.
`ReadSide` has no fairness, all its properties being invariants, and its client
may stop at any page. In `TicketService` also `SF_vars(Write(w))`: PostgreSQL queues the
transactions that wait for a row, so a waiting UPDATE gets the row eventually
though others hold it again and again in between.

**Variants.** Definitions marked "variant" next to an original hold a slip the
code could contain; no specification uses them. Each property is violated when
the variant named in `PROJECT.json` ("mutants") replaces its original.

## 4. Where the code and its documentation differ

- Overlapping life cycle requests: the status leaves the state machine
  (`LegalEdges`; also out of `closed` and `cancelled`), history lines do not
  chain (`HistoryChains`), a ticket is assigned after it was cancelled
  (`AssignedWhileOpen`), and the assignee can differ from the last audited
  assignment (`LastAssignmentHolds`). All four come from checking a row that is
  not locked and not compared when it is written.
- The loser of a race for an idempotency key leaves no replayed or conflict
  record (`CallRecorded`), against the table in
  `docs/api-contract-internal-ticket.md`.
- A repeated call whose confirmation carries no time is answered 409
  (`RepeatedActionReplayed`): `effective_confirmed_at` gives it another time,
  which the request hash covers. `app/models/idempotency.py` names the repeated
  call after a lost answer as the purpose of the key.
- Not a finding, but an omission: the rights listed in §10 of the repository's
  README do not name cancelling for hr. The docstring of `cancel_ticket`
  (`ticket_service.py:235`) and the code grant it, and `RulesAsDocumented` and
  `MovesPermitted` go by these.

## 5. Proofs

TLAPS proves the following for any sets of requests, keys and contents and any
number of days, from the assumptions named in the modules (finite `Requests`,
the null values outside of their sets, `LastDay` positive).

The invariants of creation are not inductive: that an answer is true depends on
what was committed when the handler read it. `Consistent` adds what is needed:
`UniqueKeys` (the index holds for open transactions, so a committed key has one
owner), `Progress` (a request's transaction and rows are those of its place in
the handler, so a commit publishes exactly a whole creation or trace) and
`Backed` (a handler on its way to replay, conflict or recovery has a committed
creation that justifies the answer). `InternalTicketService_proofs` shows
`TypeOK` and `Consistent` inductive, one step per action, and derives
`ExactlyOnce`, `AllOrNothing`, `TicketAnswersTrue`, `ConflictAnswersTrue`,
`RetryHasWinner`, `NoHalfDoneKeySeen`, `TraceTrue`, `LocksProgress` and
`Durable`. For `ConflictNotMasked` it follows a request that has found a conflict
(`Refused`) to its answer. `InternalTicketService_numbers` adds `Numbering`: a number in use is
at most one ahead of its day's committed tickets, and the unique index keeps it
single; hence a commit extends the numbers 1..n of the day by n + 1.
`InternalTicketService_promise` shows that every step is a step of
`IdempotentCreate` or leaves its variables unchanged.

`AgentClient_proofs` rests on these: the composition only restricts the service,
so its theorems carry over. `Addressed` (a call's request is the payload of its
action, and nobody else has a key) turns "one ticket per key" into
`OneTicketPerAction` and gives `TimedNeverConflicts`. `Sent` (the server knows
only calls that were sent, for actions that were confirmed) and `SettledPlaced`
(where a call can be that was sent when its action had a ticket) are inductive
beside them and give `RetryOnlyWhenRacing` and the refinement
`KeepsConfirmation`, in which `Commit` of a creation carries the action out.

`AuthService_proofs` needs that a registration's transaction is that of its
place in the handler and that the index admits one open or committed row per
address; `OneUserPerEmail`, `AccountOpens`, `TokenIsOwners` and the refinement
`RegistersAsPromised` follow. For `RevocationHolds`, `Attending` says that only a
handler has a user and only a token starts a request; as long as a role is not
granted, no step brings it in (`RoleIsGranted`), and none starts a request with
an expired token (`StartsUnexpired`).

`ReadSide_proofs` is about two readers. For the report, a figure is from then on
a lower bound for its table (`Bounded`), because committed rows stay, and some
tables contain the rows of others, because creations and traces are whole. Hence
later figures are no smaller: `ReportAgrees`. For the lists, `Chronological`
says that creation times order the flushed rows of a table totally, whatever is
rolled back in between. In such an order on n rows the places are 0, ..., n - 1,
each taken once (`Ranked`, by injectivity and counting), so a page has exactly
as many rows as OFFSET and LIMIT leave (`PageSizes`): `PageHoldsTotal`. Rows that
commit only push the others down (`PlaceGrows`), hence the invariant `Paging`: a
row that was there at the beginning and has not been shown has its place behind
everything asked for; on a page that is not full there is nothing behind, which
is `FullReadComplete`. That an employee is shown only tickets of his own
(`OwnRowsOnly`) follows because what was visible stays visible and nobody's role
changes while he reads. `CreationFirst` needs the
records that are not committed as well (`CreatedFirst`): an execution without a
key is written after the creation of its key was committed.

For the life cycle, `TicketService_proofs` first shows `TypeOK` and `Place`
inductive: what a thread has inserted and which row it holds follow from its
request, the row it has read and the statement it is at. That gives
`HeldByWriter` and `NothingLeftBehind`. The claims about the history need one
more fact, `ReadFromPast`: what a running handler has read is a status the
ticket had, and an assignee, if any, of an audited assignment. With it a commit,
the only step that changes the tables, keeps `StatusRecorded`, `MovesPermitted`,
`StartsFromPast` and `AssignmentAudited`; `NeverReopened` follows from `Place`
alone, because no permitted move leads to `open`.

`AuditMatchesHistory` compares the two logs by position: the n-th audit line about
the status is the n-th history line, where n counts the lines up to it. A commit
adds one line to both or, for an assignment, an audit line that is not counted
(`CommitAppends`).

`TicketService_serial` looks at the checks and at what overlapping takes away.
`RightsAsDocumented`: in every status the checks of the three handlers together
grant exactly the documented rights. A handler is `Deciding` from the moment it
has read its row until it commits. If at most one at a time is deciding about a
ticket (`OneAtATime`), then what it has read is still the row when it commits
(`UpToDate`), whatever the other threads do to other tickets and wherever
handlers fail. Then every commit is a step of `TicketLifecycle`
(`UncontendedLifecycle`), and the four claims of §4 about histories and
assignments hold (`UncontendedEdges`, `UncontendedHistory`,
`UncontendedAssignment`, `UncontendedAssignee`). `OneAtATime` is a hypothesis
about the schedule: the code does not ensure it, a single thread does
(`SerialLifecycle`, the case that `lifecycle_serial` checks), and so would a lock
taken by the read. `TimesSuffice` in `AgentClient_proofs` delimits the other
finding: were every confirmation to carry its time, no repetition would be
refused.

Only model-checked: liveness (`EveryRequestEnds`, `CallTakesEffect`,
`EveryRegistrationEnds`), which is out of the prover's reach, and the findings,
which are counterexamples. Every invariant and every action property of the
passing runs, and every refinement, is proved.

## 6. Not modelled

- Field validation by the schemas, JSON layout, wording of errors, hashing and
  token cryptography, the internal API key: they decide which requests and tokens
  exist, and keep no state.
- Reads of one row or of all rows of one ticket (detail, history, policy
  references): single statements, consistent by themselves. In the report: users
  and status transitions, which have no writer beside creations, and the lists
  of the latest rows.
- Configuration, logging, the request id middleware, application start: settings
  are read once, the middleware touches one request only.
- Migrations: generated, and run while the service is down. The models use the
  unique indexes they create.
- Smoke and debug scripts and the demo: sequential callers of the interface.
- The connection pool's limit: a request uses one connection, so waiting for one
  delays but cannot deadlock.
- Code that is never called: `mark_failed`, `require_roles`, `ensure_role`,
  `can_view_audit_logs`; `expires_at` of idempotency keys is written and never
  read.
- A client that repeats an action with another RAG result: the service sees
  another content under the same key, which `InternalTicketService` covers and
  answers with a conflict.

What could still be added: the reader beside life cycle changes, which alter rows
but neither add nor remove any, and a theorem that every request with a key ends
with its record unless it lost the race for it.
