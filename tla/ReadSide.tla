------------------------------ MODULE ReadSide ------------------------------
(***************************************************************************)
(* Reading while tickets are created.  A reader is a client that turns the *)
(* pages of a list (tickets, audit log, executions, tool calls), or        *)
(* scripts/collect_project_metrics.py, which reports figures about all     *)
(* tables.  Both run several statements, and at READ COMMITTED each one    *)
(* sees what is committed when it begins.  The writers are the handlers of *)
(* InternalTicketService, statement by statement; no code deletes a row.   *)
(*                                                                         *)
(* Lists are ordered by created_at, which a row gets when it is flushed,   *)
(* not when it is committed.  The model takes no two rows of one table to  *)
(* have the same microsecond: between such rows PostgreSQL's order is free.*)
(***************************************************************************)
EXTENDS InternalTicketService, Sequences, Functions

CONSTANTS
  Employees,    \* users with the role employee
  Staff,        \* stands for any user with the role hr or admin
  Creator,      \* Creator[r]: who has made the user's request r
  PageSize      \* page_size of the client, 20 if not given

ASSUME CreatorAssumption == Creator \in [Requests -> Employees \cup {Staff}]
ASSUME PageSizeAssumption == PageSize \in 1..100

VARIABLES
  order,        \* order[t]: <<v, w>> if v's row of list t was created before w's
  job,          \* what the reader is after
  at,           \* the statement it executes next
  page,         \* the page it asks for
  total,        \* the total of that page's response
  seen,         \* the rows it has been shown on earlier pages
  items,        \* the rows of the last page
  begun,        \* the rows it could have seen when it began
  figures       \* the figures of a report so far

reading == <<job, at, page, total, seen, items, begun, figures>>

readVars == <<vars, order, reading>>
-----------------------------------------------------------------------------
(* Tables.  users and ticket_status_transitions have no writer here.        *)

TABLES == <<"tickets", "audit_logs", "idempotency_keys", "pending_action_executions",
            "agent_tool_calls", "ticket_policy_references">>

Listed == {"tickets", "audit_logs", "pending_action_executions", "agent_tool_calls"}

Field == [tickets |-> "ticket", audit_logs |-> "audit", idempotency_keys |-> "key",
          pending_action_executions |-> "execution", agent_tool_calls |-> "tool_call",
          ticket_policy_references |-> "references"]

\* The rows that have been flushed, and those that are committed.
Present(t) == {w \in Requests : rows[w][Field[t]] # "absent"}

InTableUncommitted(t) == Present(t) \* variant: READ UNCOMMITTED

InTable(t) == {w \in Present(t) : Committed(w)}

StampedOnReceipt(t, r) == \* variant: created_at is the time of the request
  IF pc[r] = "idle" THEN order[t] \cup {<<w, r>> : w \in {v \in Requests : pc[v] # "idle"}}
  ELSE order[t]

\* A flushed row is the youngest; a row that is rolled back is gone.
Stamped(t, r) ==
  IF rows'[r][Field[t]] = "absent" THEN {p \in order[t] : p[1] # r /\ p[2] # r}
  ELSE IF rows[r][Field[t]] = "absent" THEN order[t] \cup {<<w, r>> : w \in Present(t)}
  ELSE order[t]
-----------------------------------------------------------------------------
(* Lists: who may see which rows, and one page of them.                     *)

Viewers == Employees \cup {Staff}

MayList(t, viewer) == viewer = Staff \/ t = "tickets"

OwnRows(t, viewer) == {w \in InTable(t) : ~ IsInternal(w) /\ Creator[w] = viewer}

Visible(t, viewer) == IF viewer = Staff THEN InTable(t) ELSE OwnRows(t, viewer)

CountedOfAll(t, viewer) == Cardinality(InTable(t)) \* variant: the count has no WHERE

Counted(t, viewer) == Cardinality(Visible(t, viewer))

OffsetOfNext(n) == n * PageSize \* variant: pages are taken to start at 0

Offset(n) == (n - 1) * PageSize

Shorter(m, n) == IF m < n THEN m ELSE n

\* ORDER BY created_at DESC: the place of a row is the number of newer ones.
Place(t, viewer, r) == Cardinality({w \in Visible(t, viewer) : <<r, w>> \in order[t]})

PageAndOneMore(t, viewer, n) == \* variant: the row fetched to look ahead is shown
  {r \in Visible(t, viewer) : Place(t, viewer, r) \in Offset(n)..(Offset(n) + PageSize)}

\* OFFSET and LIMIT.  What a page shows is kept as a set.
Page(t, viewer, n) ==
  {r \in Visible(t, viewer) : Place(t, viewer, r) \in Offset(n)..(Offset(n) + PageSize - 1)}
-----------------------------------------------------------------------------
(* The report: row counts, then distributions, then the signals, each a     *)
(* statement of its own.  A figure is the number of rows it rests on.       *)

Distributed == <<"tickets", "audit_logs", "idempotency_keys", "pending_action_executions",
                 "agent_tool_calls">>

Statements == TABLES \o Distributed \o TABLES

RowCount(t) == CHOOSE i \in 1..Len(TABLES) : TABLES[i] = t

Distribution(t) == Len(TABLES) + RowCount(t)

Signal(t) == Len(TABLES) + Len(Distributed) + RowCount(t)
-----------------------------------------------------------------------------
Jobs == {[table |-> t, viewer |-> v] : t \in Listed, v \in Viewers}

Report == [table |-> "all", viewer |-> Staff]

ReadInit ==
  /\ Init
  /\ order = [t \in Listed |-> {}]
  /\ job \in {j \in Jobs : MayList(j.table, j.viewer)} \cup {Report}
  /\ at = IF job = Report THEN "figure" ELSE "count"
  /\ page = 1 /\ total = 0
  /\ seen = {} /\ items = {} /\ begun = {}
  /\ figures = <<>>

\* total = db.scalar(select(func.count(...)))
Count ==
  /\ at = "count" /\ at' = "page"
  /\ total' = Counted(job.table, job.viewer)
  /\ begun' = IF page = 1 THEN Visible(job.table, job.viewer) ELSE begun
  /\ seen' = seen \cup items /\ items' = {}
  /\ UNCHANGED <<vars, order, job, page, figures>>

\* The SELECT of the page, and the response.
Select ==
  /\ at = "page" /\ at' = "shown"
  /\ items' = Page(job.table, job.viewer, page)
  /\ UNCHANGED <<vars, order, job, page, total, seen, begun, figures>>

\* The client asks for the next page after a full one.
Turn ==
  /\ at = "shown" /\ Cardinality(items) = PageSize
  /\ at' = "count" /\ page' = page + 1
  /\ UNCHANGED <<vars, order, job, total, seen, items, begun, figures>>

(* build_report *)
Figure ==
  /\ at = "figure"
  /\ figures' = Append(figures, Cardinality(InTable(Statements[Len(figures) + 1])))
  /\ at' = IF Len(figures') = Len(Statements) THEN "reported" ELSE "figure"
  /\ UNCHANGED <<vars, order, job, page, total, seen, items, begun>>

\* A crash leaves the same rows behind as a failure, so the latter will do.
Write ==
  /\ \E r \in Requests :
       /\ Receive(r) \/ Step(r) \/ Fail(r)
       /\ order' = [t \in Listed |-> Stamped(t, r)]
  /\ UNCHANGED reading

ReadNext == Write \/ Count \/ Select \/ Turn \/ Figure

ReadSpec == ReadInit /\ [][ReadNext]_readVars
-----------------------------------------------------------------------------
(* Properties *)

ReadTypeOK ==
  /\ order \in [Listed -> SUBSET (Requests \X Requests)]
  /\ job \in Jobs \cup {Report}
  /\ at \in {"count", "page", "shown", "figure", "reported"}
  /\ page \in Nat /\ total \in 0..Cardinality(Requests)
  /\ seen \subseteq Requests /\ begun \subseteq Requests
  /\ items \subseteq Requests /\ Cardinality(items) <= PageSize
  /\ figures \in Seq(0..Cardinality(Requests)) /\ Len(figures) <= Len(Statements)

(* The count runs before the page and rows only come: a page may show more  *)
(* than its total announces, but never less.                                *)
PageHoldsTotal ==
  at = "shown" => Cardinality(items) >= Shorter(PageSize, total - Offset(page))

(* A client that turns pages until one is not full has been shown every row *)
(* that was there when it began, although rows appear between its requests  *)
(* and a row committed late may sort before rows it has been shown.         *)
FullReadComplete ==
  at = "shown" /\ Cardinality(items) < PageSize => begun \subseteq seen \cup items

(* An employee is shown the tickets of nobody else, of the Agent neither.   *)
OwnRowsOnly ==
  \A w \in seen \cup items :
    /\ Committed(w)
    /\ job.viewer # Staff =>
         job.table = "tickets" /\ ~ IsInternal(w) /\ Creator[w] = job.viewer

(* GET /pending-action-executions/{id} shows the record with the latest     *)
(* created_at.  By that order the records of a key tell their story in      *)
(* sequence: the creation comes before every replay and every conflict.     *)
CreationFirst ==
  \A r, w \in InTable("pending_action_executions") :
    SameKey(r, w) /\ rows[w].execution = "succeeded" =>
      <<r, w>> \notin order["pending_action_executions"]

\* A ticket never shows without its audit line, nor a key without its traces.
TablesAgree ==
  /\ figures[RowCount("tickets")] <= figures[RowCount("audit_logs")]
  /\ figures[RowCount("idempotency_keys")] <= figures[RowCount("pending_action_executions")]
  /\ figures[RowCount("pending_action_executions")] <= figures[RowCount("agent_tool_calls")]

\* A distribution adds up to the row count at least, and no signal denies it.
PartsAgree ==
  /\ \A t \in Range(Distributed) : figures[RowCount(t)] <= figures[Distribution(t)]
  /\ \A t \in Range(TABLES) : figures[RowCount(t)] > 0 => figures[Signal(t)] > 0

(* The report is no snapshot, but later figures rest on no fewer rows: it   *)
(* does not contradict itself, neither between tables nor between its parts.*)
ReportAgrees == at = "reported" => TablesAgree /\ PartsAgree
=============================================================================
