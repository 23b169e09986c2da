---------------------------- MODULE ReadSide_proofs ----------------------------
(***************************************************************************)
(* Theorems about lists, their pages and the report, for any number of     *)
(* requests that create tickets meanwhile and for every page size.         *)
(***************************************************************************)
EXTENDS ReadSide, InternalTicketService_proofs, SequenceTheorems, FunctionTheorems

(* A reader only watches: what holds of the service holds beside it.       *)
LEMMA ReadStepsAreSteps == [ReadNext]_readVars => [Next]_vars
BY DEF ReadNext, readVars, Write, Count, Select, Turn, Figure, Next

LEMMA ReadSound == ReadSpec => [](TypeOK /\ Consistent)
<1>1. ReadInit => TypeOK /\ Consistent
  BY InitTypeOK, InitConsistent DEF ReadInit
<1>2. TypeOK /\ Consistent /\ [ReadNext]_readVars => TypeOK' /\ Consistent'
  BY ReadStepsAreSteps, NextTypeOK, NextConsistent
<1> QED
  BY <1>1, <1>2, PTL DEF ReadSpec
-----------------------------------------------------------------------------
(* Tables only grow, and some of them get their rows together.             *)

LEMMA CommittedRowsStay ==
  ASSUME TypeOK, Consistent, [Next]_vars, NEW r \in Requests, Committed(r)
  PROVE  Committed(r)' /\ rows'[r] = rows[r]
<1>1. ASSUME NEW q \in Requests, Act(q) PROVE tx'[r] = tx[r] /\ rows'[r] = rows[r]
  BY <1>1, ActKeeps DEF Framed
<1>2. CASE NextDay \/ Terminating \/ UNCHANGED vars
  BY <1>2 DEF NextDay, Terminating, vars, Committed
<1> QED
  BY <1>1, <1>2 DEF Next, Act, Committed

LEMMA TablesGrow ==
  ASSUME TypeOK, Consistent, [ReadNext]_readVars, NEW t
  PROVE  InTable(t) \subseteq InTable(t)'
BY ReadStepsAreSteps, CommittedRowsStay DEF InTable, Present

HoldsRowsOf(t, s) == \* whoever has inserted into s has inserted into t
  s = t \/ <<s, t>> \in {<<"tickets", "audit_logs">>,
                         <<"idempotency_keys", "pending_action_executions">>,
                         <<"pending_action_executions", "agent_tool_calls">>}

LEMMA RowsComeTogether ==
  ASSUME TypeOK, Consistent, NEW s, NEW t, HoldsRowsOf(t, s)
  PROVE  InTable(s) \subseteq InTable(t)
<1>1. ASSUME NEW r \in Requests, Committed(r)
      PROVE  /\ rows[r].ticket # "absent" => rows[r].audit # "absent"
             /\ rows[r].key # "absent" => rows[r].execution # "absent"
             /\ rows[r].execution # "absent" => rows[r].tool_call # "absent"
  <2>1. rows[r] = CreationRows(r) \/ rows[r] = ReplayRows \/ rows[r] = ConflictRows
    BY <1>1, ConsistentAllOrNothing DEF AllOrNothing
  <2>2. CASE rows[r] = CreationRows(r)
    BY <2>2 DEF CreationRows, NoRows
  <2>3. CASE rows[r] = ReplayRows \/ rows[r] = ConflictRows
    BY <2>3 DEF ReplayRows, ConflictRows, NoRows
  <2> QED
    BY <2>1, <2>2, <2>3
<1> QED
  BY <1>1 DEF HoldsRowsOf, InTable, Present, Field

LEMMA SizeIsNat == \A t : IsFiniteSet(InTable(t)) /\ Cardinality(InTable(t)) \in Nat
BY RequestsAssumption, FS_Subset, FS_CardinalityType DEF InTable, Present
-----------------------------------------------------------------------------
(* The statements of a report, by the table they read.                     *)

LEMMA StatementList ==
  /\ Len(Statements) = 17
  /\ \A i \in 1..6 : Statements[i] = TABLES[i] /\ Statements[11 + i] = TABLES[i]
  /\ \A i \in 1..5 : Statements[6 + i] = TABLES[i] /\ Distributed[i] = TABLES[i]
<1> DEFINE Names == {"tickets", "audit_logs", "idempotency_keys", "pending_action_executions",
                     "agent_tool_calls", "ticket_policy_references"}
<1>1. TABLES \in Seq(Names) /\ Len(TABLES) = 6
  BY DEF TABLES
<1>2. Distributed \in Seq(Names) /\ Len(Distributed) = 5
  BY DEF Distributed
<1>3. \A i \in 1..5 : Distributed[i] = TABLES[i]
  BY DEF TABLES, Distributed
<1> HIDE DEF Names
<1> DEFINE Rest == Distributed \o TABLES
<1>4. /\ Rest \in Seq(Names) /\ Len(Rest) = 11
      /\ \A i \in 1..11 : Rest[i] = IF i <= 5 THEN Distributed[i] ELSE TABLES[i - 5]
  <2>1. /\ Rest \in Seq(Names) /\ Len(Rest) = Len(Distributed) + Len(TABLES)
        /\ \A i \in 1..Len(Distributed) + Len(TABLES) :
              Rest[i] = IF i <= Len(Distributed) THEN Distributed[i] ELSE TABLES[i - Len(Distributed)]
    BY <1>1, <1>2, ConcatProperties, Zenon
  <2> HIDE DEF Rest
  <2> QED
    BY <1>1, <1>2, <2>1
<1> DEFINE All == TABLES \o Rest
<1>5. Statements = All
  BY <1>1, <1>2, ConcatAssociative DEF Statements
<1> HIDE DEF Rest
<1>6. /\ Len(All) = 17
      /\ \A i \in 1..17 : All[i] = IF i <= 6 THEN TABLES[i] ELSE Rest[i - 6]
  <2>1. /\ Len(All) = Len(TABLES) + Len(Rest)
        /\ \A i \in 1..Len(TABLES) + Len(Rest) :
              All[i] = IF i <= Len(TABLES) THEN TABLES[i] ELSE Rest[i - Len(TABLES)]
    BY <1>1, <1>4, ConcatProperties, Zenon
  <2> HIDE DEF All
  <2> QED
    BY <1>1, <1>4, <2>1
<1> HIDE DEF All
<1>7. ASSUME NEW i \in 1..6 PROVE Statements[i] = TABLES[i] /\ Statements[11 + i] = TABLES[i]
  <2>1. /\ i \in 1..17 /\ i <= 6 /\ 11 + i \in 1..17 /\ ~ 11 + i <= 6 /\ 11 + i - 6 = 5 + i
        /\ 5 + i \in 1..11 /\ ~ 5 + i <= 5 /\ 5 + i - 5 = i
    OBVIOUS
  <2>2. All[i] = TABLES[i] /\ All[11 + i] = Rest[5 + i]
    BY <1>6, <2>1
  <2>3. Rest[5 + i] = TABLES[i]
    BY <1>4, <2>1
  <2> QED
    BY <1>5, <2>2, <2>3
<1>8. ASSUME NEW i \in 1..5 PROVE Statements[6 + i] = TABLES[i]
  BY <1>3, <1>4, <1>5, <1>6
<1> QED
  BY <1>3, <1>5, <1>6, <1>7, <1>8

LEMMA RowCounts ==
  /\ \A t \in Range(TABLES) : RowCount(t) \in 1..6 /\ TABLES[RowCount(t)] = t
  /\ \A t \in Range(Distributed) : t \in Range(TABLES) /\ RowCount(t) \in 1..5
  /\ RowCount("tickets") = 1 /\ RowCount("audit_logs") = 2
  /\ RowCount("idempotency_keys") = 3 /\ RowCount("pending_action_executions") = 4
  /\ RowCount("agent_tool_calls") = 5
<1>1. \A i \in 1..6 : RowCount(TABLES[i]) = i
  BY DEF RowCount, TABLES
<1>2. Range(TABLES) = {TABLES[i] : i \in 1..6}
  BY DEF Range, TABLES
<1>3. Range(Distributed) = {TABLES[i] : i \in 1..5}
  BY DEF Range, TABLES, Distributed
<1> QED
  BY <1>1, <1>2, <1>3 DEF TABLES
-----------------------------------------------------------------------------
(* A figure is a lower bound for its table from then on; hence a later one *)
(* about the same table, or about one that contains it, is no smaller.     *)

Recorded ==
  /\ at \in {"count", "page", "shown", "figure", "reported"}
  /\ figures \in Seq(Nat) /\ Len(figures) <= Len(Statements)
  /\ at = "figure" => Len(figures) < Len(Statements)
  /\ at = "reported" => Len(figures) = Len(Statements)

Bounded ==
  \A i \in 1..Len(figures) : figures[i] <= Cardinality(InTable(Statements[i]))

Ordered ==
  \A i, j \in 1..Len(figures) :
    i <= j /\ HoldsRowsOf(Statements[j], Statements[i]) => figures[i] <= figures[j]

Reported == Recorded /\ Bounded /\ Ordered

LEMMA InitReported == ReadInit => Reported
BY StatementList DEF ReadInit, Reported, Recorded, Bounded, Ordered

LEMMA FigureRecorded ==
  ASSUME Recorded, Figure
  PROVE  /\ Recorded' /\ Len(figures') = Len(figures) + 1
         /\ \A i \in 1..Len(figures) : figures'[i] = figures[i]
         /\ figures'[Len(figures')] = Cardinality(InTable(Statements[Len(figures')]))
         /\ \A t : InTable(t)' = InTable(t)
<1>1. Cardinality(InTable(Statements[Len(figures) + 1])) \in Nat
  BY SizeIsNat
<1>2. \A t : InTable(t)' = InTable(t)
  BY DEF Figure, InTable, Present, Committed, vars
<1>3. /\ figures' \in Seq(Nat) /\ Len(figures') = Len(figures) + 1
      /\ \A i \in 1..Len(figures) : figures'[i] = figures[i]
      /\ figures'[Len(figures) + 1] = Cardinality(InTable(Statements[Len(figures) + 1]))
  BY <1>1, AppendProperties DEF Recorded, Figure
<1>4. Recorded'
  BY <1>3, StatementList DEF Recorded, Figure
<1> QED
  BY <1>2, <1>3, <1>4

LEMMA FigureReported ==
  ASSUME TypeOK, Consistent, Reported, Figure
  PROVE  Reported'
<1> DEFINE n == Len(figures')
<1>0. Recorded /\ Bounded /\ Ordered /\ Recorded'
  BY FigureRecorded DEF Reported
<1>1. ASSUME NEW i \in 1..n, HoldsRowsOf(Statements[n], Statements[i]) PROVE figures'[i] <= figures'[n]
  <2>1. CASE i = n
    BY <2>1, <1>0, FigureRecorded, SizeIsNat DEF Recorded
  <2>2. CASE i # n
    <3>1. i \in 1..Len(figures) /\ figures'[i] = figures[i] /\ figures[i] \in Nat
      BY <2>2, <1>0, FigureRecorded DEF Recorded
    <3>2. Cardinality(InTable(Statements[i])) <= Cardinality(InTable(Statements[n]))
      BY <1>1, RowsComeTogether, SizeIsNat, FS_Subset
    <3> QED
      BY <3>1, <3>2, <1>0, FigureRecorded, SizeIsNat DEF Bounded
  <2> QED
    BY <2>1, <2>2
<1>2. ASSUME NEW i \in 1..n, NEW j \in 1..n, i <= j, HoldsRowsOf(Statements[j], Statements[i])
      PROVE  figures'[i] <= figures'[j]
  <2>1. CASE j = n
    BY <1>1, <1>2, <2>1
  <2>2. CASE j # n
    <3>0. Len(figures) \in Nat /\ n = Len(figures) + 1
      BY <1>0, FigureRecorded DEF Recorded
    <3>1. i \in 1..Len(figures) /\ j \in 1..Len(figures)
      BY <1>2, <2>2, <3>0
    <3>2. figures'[i] = figures[i] /\ figures'[j] = figures[j]
      BY <1>0, <3>1, FigureRecorded
    <3> QED
      BY <1>0, <1>2, <3>1, <3>2 DEF Ordered
  <2> QED
    BY <2>1, <2>2
<1>3. ASSUME NEW i \in 1..n PROVE figures'[i] <= Cardinality(InTable(Statements[i])')
  <2>1. InTable(Statements[i])' = InTable(Statements[i])
    BY FigureRecorded, <1>0
  <2>2. CASE i = n
    BY <1>0, <2>1, <2>2, FigureRecorded, SizeIsNat
  <2>3. CASE i # n
    <3>1. i \in 1..Len(figures)
      BY <1>0, <2>3, FigureRecorded DEF Recorded
    <3> QED
      BY <1>0, <2>1, <3>1, FigureRecorded DEF Bounded
  <2> QED
    BY <2>2, <2>3
<1>4. Ordered' /\ Bounded'
  BY <1>2, <1>3 DEF Ordered, Bounded
<1> QED
  BY <1>0, <1>4 DEF Reported

LEMMA NextReported ==
  TypeOK /\ Consistent /\ Reported /\ [ReadNext]_readVars => Reported'
<1> SUFFICES ASSUME TypeOK, Consistent, Reported, [ReadNext]_readVars PROVE Reported'
  OBVIOUS
<1>1. CASE Figure
  BY <1>1, FigureReported
<1>2. CASE ~ Figure
  <2>1. figures' = figures /\ (at' = at \/ at' \in {"count", "page", "shown"})
    BY <1>2 DEF ReadNext, readVars, reading, Write, Count, Select, Turn
  <2>2. Recorded' /\ Ordered'
    BY <2>1 DEF Reported, Recorded, Ordered
  <2>3. ASSUME NEW i \in 1..Len(figures)
        PROVE  figures[i] <= Cardinality(InTable(Statements[i]))'
    <3>1. IsFiniteSet(InTable(Statements[i])') /\ Cardinality(InTable(Statements[i])') \in Nat
      BY RequestsAssumption, FS_Subset, FS_CardinalityType DEF InTable, Present
    <3>2. Cardinality(InTable(Statements[i])) <= Cardinality(InTable(Statements[i])')
      BY <3>1, TablesGrow, FS_Subset
    <3> QED
      BY <3>1, <3>2, SizeIsNat DEF Reported, Recorded, Bounded
  <2> QED
    BY <2>1, <2>2, <2>3 DEF Reported, Bounded
<1> QED
  BY <1>1, <1>2

LEMMA AlwaysReported == ReadSpec => []Reported
BY InitReported, NextReported, ReadSound, PTL DEF ReadSpec

LEMMA OrderedReport == Reported /\ at = "reported" => TablesAgree
<1> SUFFICES ASSUME Reported, at = "reported"
             PROVE  /\ figures[1] <= figures[2] /\ figures[3] <= figures[4]
                    /\ figures[4] <= figures[5]
  BY RowCounts DEF TablesAgree
<1>1. Len(figures) = 17
  BY StatementList DEF Reported, Recorded
<1>2. /\ HoldsRowsOf(Statements[2], Statements[1]) /\ HoldsRowsOf(Statements[4], Statements[3])
      /\ HoldsRowsOf(Statements[5], Statements[4])
  BY StatementList DEF HoldsRowsOf, TABLES
<1> QED
  BY <1>1, <1>2 DEF Reported, Ordered

LEMMA GrowingReport == Reported /\ at = "reported" => PartsAgree
<1> SUFFICES ASSUME Reported, at = "reported"
             PROVE  /\ \A t \in Range(Distributed) : figures[RowCount(t)] <= figures[Distribution(t)]
                    /\ \A t \in Range(TABLES) : figures[RowCount(t)] <= figures[Signal(t)]
                    /\ \A i \in 1..17 : figures[i] \in Nat
  <2>1. \A t \in Range(TABLES) : RowCount(t) \in 1..17 /\ Signal(t) \in 1..17
    BY RowCounts DEF Signal, TABLES, Distributed
  <2> QED
    BY <2>1 DEF PartsAgree
<1>1. figures \in Seq(Nat) /\ Len(figures) = 17
  BY StatementList DEF Reported, Recorded
<1>2. \A i, j \in 1..17 : i <= j /\ Statements[i] = Statements[j] => figures[i] <= figures[j]
  BY <1>1 DEF Reported, Ordered, HoldsRowsOf
<1>3. Len(TABLES) = 6 /\ Len(Distributed) = 5
  BY DEF TABLES, Distributed
<1>4. ASSUME NEW t \in Range(Distributed) PROVE figures[RowCount(t)] <= figures[Distribution(t)]
  BY <1>2, <1>3, RowCounts, StatementList DEF Distribution
<1>5. ASSUME NEW t \in Range(TABLES) PROVE figures[RowCount(t)] <= figures[Signal(t)]
  BY <1>2, <1>3, RowCounts, StatementList DEF Signal
<1>6. \A i \in 1..17 : figures[i] \in Nat
  BY <1>1, ElementOfSeq
<1> QED
  BY <1>4, <1>5, <1>6

(* However many requests are committed while a report is made, it shows no  *)
(* more tickets than audit lines, keys than executions, or executions than  *)
(* tool calls, and no distribution or signal falls behind a row count.      *)
THEOREM ReportsAgree == ReadSpec => []ReportAgrees
BY AlwaysReported, OrderedReport, GrowingReport, PTL DEF ReportAgrees
-----------------------------------------------------------------------------
(* Places in an order.  In a strict total order on n elements the numbers  *)
(* of elements above each are 0, 1, ..., n - 1, each taken once; so OFFSET  *)
(* and LIMIT cut out exactly as many rows as there are numbers in between. *)

TotalOn(R, S) ==
  /\ \A x \in S : <<x, x>> \notin R
  /\ \A x, y, z \in S : <<x, y>> \in R /\ <<y, z>> \in R => <<x, z>> \in R
  /\ \A x, y \in S : x # y => <<x, y>> \in R \/ <<y, x>> \in R

Above(R, S, x) == {y \in S : <<x, y>> \in R}

LEMMA RanksBound ==
  ASSUME NEW S, NEW R, IsFiniteSet(S), TotalOn(R, S), NEW x \in S
  PROVE  Cardinality(S) \in Nat /\ Cardinality(Above(R, S, x)) \in 0..(Cardinality(S) - 1)
<1>1. Above(R, S, x) \subseteq S \ {x}
  BY DEF Above, TotalOn
<1>2. IsFiniteSet(S \ {x}) /\ Cardinality(S \ {x}) = Cardinality(S) - 1
  BY FS_RemoveElement
<1>3. IsFiniteSet(Above(R, S, x)) /\ Cardinality(Above(R, S, x)) <= Cardinality(S) - 1
  BY <1>1, <1>2, FS_Subset
<1> QED
  BY <1>3, FS_CardinalityType

LEMMA RanksDescend ==
  ASSUME NEW S, NEW R, IsFiniteSet(S), TotalOn(R, S), NEW x \in S, NEW y \in S, <<x, y>> \in R
  PROVE  Cardinality(Above(R, S, y)) # Cardinality(Above(R, S, x))
<1>1. /\ Above(R, S, y) \subseteq Above(R, S, x)
      /\ y \in Above(R, S, x) /\ y \notin Above(R, S, y)
  BY DEF Above, TotalOn
<1>2. IsFiniteSet(Above(R, S, x))
  BY FS_Subset DEF Above
<1> QED
  BY <1>1, <1>2, FS_Subset

LEMMA Ranked ==
  ASSUME NEW S, NEW R, IsFiniteSet(S), TotalOn(R, S)
  PROVE  [x \in S |-> Cardinality(Above(R, S, x))] \in Bijection(S, 0..(Cardinality(S) - 1))
<1> DEFINE T == 0..(Cardinality(S) - 1)
           f == [x \in S |-> Cardinality(Above(R, S, x))]
<1>1. f \in [S -> T]
  BY RanksBound
<1>2. \A x, y \in S : f[x] = f[y] => x = y
  BY RanksDescend DEF TotalOn
<1>3. f \in Injection(S, T)
  <2> HIDE DEF f, T
  <2> QED
    BY <1>1, <1>2, Fun_IsInj
<1>4. IsFiniteSet(T) /\ Cardinality(T) = Cardinality(S)
  <2>1. Cardinality(S) \in Nat
    BY FS_CardinalityType
  <2>2. IsFiniteSet(T) /\ Cardinality(T) = IF 0 > Cardinality(S) - 1 THEN 0 ELSE Cardinality(S) - 1 - 0 + 1
    BY <2>1, FS_Interval
  <2> QED
    BY <2>1, <2>2
<1>5. f \in Surjection(S, T)
  <2> HIDE DEF f, T
  <2> QED
    BY <1>3, <1>4, FS_Injection
<1> QED
  BY <1>3, <1>5 DEF Bijection

Slice(R, S, a, b) == {x \in S : Cardinality(Above(R, S, x)) \in a..b}

LEMMA SliceSize ==
  ASSUME NEW S, NEW R, IsFiniteSet(S), TotalOn(R, S), NEW a \in Nat, NEW b \in Nat, a <= b
  PROVE  Cardinality(Slice(R, S, a, b)) =
           IF b < Cardinality(S) THEN b - a + 1
           ELSE IF a < Cardinality(S) THEN Cardinality(S) - a ELSE 0
<1> DEFINE f == [x \in S |-> Cardinality(Above(R, S, x))]
           A == {x \in S : f[x] \in a..b}
           T == {i \in a..b : i < Cardinality(S)}
           g == [x \in A |-> f[x]]
<1>0. Cardinality(S) \in Nat
  BY FS_CardinalityType
<1>1. /\ f \in [S -> 0..(Cardinality(S) - 1)]
      /\ \A x, y \in S : f[x] = f[y] => x = y
      /\ \A i \in 0..(Cardinality(S) - 1) : \E x \in S : f[x] = i
  <2>1. f \in Bijection(S, 0..(Cardinality(S) - 1))
    BY Ranked
  <2> HIDE DEF f
  <2> QED
    BY <2>1 DEF Bijection, Injection, Surjection, IsInjective
<1> HIDE DEF f
<1>2. g \in [A -> T] /\ (\A x, y \in A : g[x] = g[y] => x = y) /\ (\A i \in T : \E x \in A : g[x] = i)
  BY <1>0, <1>1
<1>3. g \in Bijection(A, T)
  <2> HIDE DEF g, A, T
  <2> QED
    BY <1>2, Fun_IsBij
<1>4. ExistsBijection(A, T)
  BY <1>3 DEF ExistsBijection
<1>5. IsFiniteSet(A)
  BY FS_Subset
<1>6. Cardinality(A) = Cardinality(T)
  <2> HIDE DEF A, T
  <2> QED
    BY <1>4, <1>5, FS_Bijection
<1>7. A = Slice(R, S, a, b)
  BY DEF f, Slice
<1> HIDE DEF A
<1>8. CASE b < Cardinality(S)
  <2>1. T = a..b
    BY <1>0, <1>8
  <2>2. Cardinality(a..b) = IF a > b THEN 0 ELSE b - a + 1
    BY FS_Interval
  <2> HIDE DEF T
  <2> QED
    BY <1>6, <1>7, <1>8, <2>1, <2>2
<1>9. CASE ~ b < Cardinality(S)
  <2> DEFINE m == Cardinality(S) - 1
  <2>1. T = a..m /\ m \in Int
    BY <1>0, <1>9
  <2>2. Cardinality(a..m) = IF a > m THEN 0 ELSE m - a + 1
    BY <2>1, FS_Interval
  <2> HIDE DEF T
  <2> QED
    BY <1>0, <1>6, <1>7, <1>9, <2>1, <2>2
<1> QED
  BY <1>8, <1>9

LEMMA VisibleIsFinite ==
  ASSUME NEW t, NEW viewer
  PROVE  /\ Visible(t, viewer) \subseteq InTable(t)
         /\ IsFiniteSet(Visible(t, viewer)) /\ Counted(t, viewer) \in Nat
<1>1. Visible(t, viewer) \subseteq InTable(t)
  BY DEF Visible, OwnRows
<1> QED
  BY <1>1, SizeIsNat, FS_Subset, FS_CardinalityType DEF Counted

LEMMA Offsets ==
  /\ Offset(1) = 0
  /\ \A n \in Nat \ {0} : Offset(n) \in Nat /\ Offset(n + 1) = Offset(n) + PageSize
<1>1. PageSize \in Nat
  BY PageSizeAssumption
<1>2. ASSUME NEW n \in Nat \ {0} PROVE Offset(n) \in Nat /\ Offset(n + 1) = Offset(n) + PageSize
  BY <1>1 DEF Offset
<1> QED
  BY <1>1, <1>2 DEF Offset

LEMMA PageSizes ==
  ASSUME NEW t, NEW viewer, NEW n \in Nat \ {0}, TotalOn(order[t], Visible(t, viewer))
  PROVE  /\ Cardinality(Page(t, viewer, n)) =
               IF Counted(t, viewer) > Offset(n)
               THEN Shorter(PageSize, Counted(t, viewer) - Offset(n)) ELSE 0
         /\ \A r \in Visible(t, viewer) : Place(t, viewer, r) \in 0..(Counted(t, viewer) - 1)
<1> DEFINE S == Visible(t, viewer)
           a == Offset(n)
           b == a + PageSize - 1
<1>1. /\ IsFiniteSet(S) /\ Cardinality(S) \in Nat
      /\ a \in Nat /\ b \in Nat /\ a <= b /\ PageSize \in Nat
  BY VisibleIsFinite, Offsets, PageSizeAssumption DEF Counted
<1>2. /\ Page(t, viewer, n) = Slice(order[t], S, a, b)
      /\ \A r : Place(t, viewer, r) = Cardinality(Above(order[t], S, r))
  BY DEF Page, Slice, Place, Above
<1>3. Cardinality(Slice(order[t], S, a, b)) =
         IF Cardinality(S) > a THEN Shorter(PageSize, Cardinality(S) - a) ELSE 0
  BY <1>1, SliceSize DEF Shorter
<1>4. ASSUME NEW r \in S PROVE Place(t, viewer, r) \in 0..(Cardinality(S) - 1)
  BY <1>1, <1>2, RanksBound
<1> QED
  BY <1>2, <1>3, <1>4 DEF Counted
-----------------------------------------------------------------------------
(* created_at orders the rows of a list, committed or not: a row is flushed *)
(* after all that are there, and one that is rolled back leaves no gap in   *)
(* the order.                                                               *)

Chronological ==
  /\ order \in [Listed -> SUBSET (Requests \X Requests)]
  /\ \A t \in Listed :
       /\ \A x, y : <<x, y>> \in order[t] => x \in Present(t) /\ y \in Present(t)
       /\ TotalOn(order[t], Present(t))

LEMMA InitChronological == ReadInit => Chronological
BY DEF ReadInit, Init, Chronological, TotalOn, Present, Field, Listed, NoRows

Writer(r) == Act(r) /\ order' = [t \in Listed |-> Stamped(t, r)]

LEMMA WriteHasWriter == Write => \E r \in Requests : Writer(r)
BY DEF Write, Writer, Act

LEMMA OnlyOwnRows ==
  ASSUME TypeOK, Consistent, NEW r \in Requests, Act(r), NEW t
  PROVE  \A q : q # r => (q \in Present(t)' <=> q \in Present(t))
BY ActKeeps DEF Framed, Present

LEMMA StampedPairs ==
  ASSUME TypeOK, Consistent, Chronological, NEW r \in Requests, Writer(r), NEW t \in Listed
  PROVE  \/ /\ r \notin Present(t)'
            /\ \A x, y : <<x, y>> \in order'[t] <=> <<x, y>> \in order[t] /\ x # r /\ y # r
         \/ /\ r \notin Present(t) /\ r \in Present(t)'
            /\ \A x, y : <<x, y>> \in order'[t] <=>
                            <<x, y>> \in order[t] \/ (x \in Present(t) /\ y = r)
         \/ /\ r \in Present(t) /\ r \in Present(t)'
            /\ order'[t] = order[t]
<1>1. order'[t] = Stamped(t, r)
  BY DEF Writer
<1>2. CASE rows'[r][Field[t]] = "absent"
  BY <1>1, <1>2 DEF Stamped, Present
<1>3. CASE rows'[r][Field[t]] # "absent" /\ rows[r][Field[t]] = "absent"
  BY <1>1, <1>3 DEF Stamped, Present
<1>4. CASE rows'[r][Field[t]] # "absent" /\ rows[r][Field[t]] # "absent"
  BY <1>1, <1>4 DEF Stamped, Present
<1> QED
  BY <1>2, <1>3, <1>4

LEMMA WriterChronological ==
  ASSUME TypeOK, Consistent, Chronological, NEW r \in Requests, Writer(r)
  PROVE  Chronological'
<1>1. ASSUME NEW t \in Listed
      PROVE  /\ \A x, y : <<x, y>> \in order'[t] => x \in Present(t)' /\ y \in Present(t)'
             /\ TotalOn(order[t], Present(t))'
  <2>1. \A q : q # r => (q \in Present(t)' <=> q \in Present(t))
    BY OnlyOwnRows DEF Writer
  <2>2. /\ \A x, y : <<x, y>> \in order[t] => x \in Present(t) /\ y \in Present(t)
        /\ TotalOn(order[t], Present(t))
    BY DEF Chronological
  <2> QED
    BY <2>1, <2>2, StampedPairs DEF TotalOn
<1>2. ASSUME NEW t \in Listed PROVE Stamped(t, r) \subseteq Requests \X Requests
  BY DEF Chronological, Stamped, Present
<1>3. order' \in [Listed -> SUBSET (Requests \X Requests)]
  BY <1>2 DEF Writer
<1> QED
  BY <1>1, <1>3 DEF Chronological

LEMMA NextChronological ==
  ASSUME TypeOK, Consistent, Chronological, [ReadNext]_readVars
  PROVE  Chronological'
<1>1. CASE Write
  BY <1>1, WriteHasWriter, WriterChronological
<1>2. CASE UNCHANGED <<vars, order>>
  BY <1>2 DEF Chronological, Present, vars
<1> QED
  BY <1>1, <1>2 DEF ReadNext, readVars, Count, Select, Turn, Figure

\* Rows that are committed keep their order.
LEMMA OrderStays ==
  ASSUME TypeOK, Consistent, Chronological, [ReadNext]_readVars, NEW t \in Listed,
         NEW x \in InTable(t), NEW y \in InTable(t), <<x, y>> \in order[t]
  PROVE  <<x, y>> \in order'[t]
<1>1. x \in Present(t)' /\ y \in Present(t)'
  BY TablesGrow DEF InTable
<1>2. CASE Write
  <2>1. PICK r \in Requests : Writer(r)
    BY <1>2, WriteHasWriter
  <2> QED
    BY <1>1, <2>1, StampedPairs
<1>3. CASE order' = order
  BY <1>3
<1> QED
  BY <1>2, <1>3 DEF ReadNext, readVars, Count, Select, Turn, Figure

LEMMA VisibleGrows ==
  ASSUME TypeOK, Consistent, [ReadNext]_readVars, NEW t, NEW viewer
  PROVE  Visible(t, viewer) \subseteq Visible(t, viewer)'
<1>1. request' = request
  BY ReadStepsAreSteps, ActKeeps DEF Next, Act, Framed, NextDay, Terminating, vars
<1> QED
  BY <1>1, TablesGrow DEF Visible, OwnRows, IsInternal

LEMMA PlaceGrows ==
  ASSUME TypeOK, Consistent, Chronological, [ReadNext]_readVars, NEW t \in Listed, NEW viewer,
         NEW r \in Visible(t, viewer)
  PROVE  /\ Place(t, viewer, r) \in Nat /\ Place(t, viewer, r)' \in Nat
         /\ Place(t, viewer, r) <= Place(t, viewer, r)'
<1> DEFINE before == {w \in Visible(t, viewer) : <<r, w>> \in order[t]}
           now == {w \in Visible(t, viewer)' : <<r, w>> \in order'[t]}
<1>1. before \subseteq now
  BY VisibleIsFinite, VisibleGrows, OrderStays
<1>2. IsFiniteSet(now)
  <2>1. now \subseteq Requests
    BY DEF Visible, OwnRows, InTable, Present
  <2> QED
    BY <2>1, RequestsAssumption, FS_Subset
<1>3. Place(t, viewer, r) = Cardinality(before) /\ Place(t, viewer, r)' = Cardinality(now)
  BY DEF Place
<1> HIDE DEF before, now
<1> QED
  BY <1>1, <1>2, <1>3, FS_Subset, FS_CardinalityType
-----------------------------------------------------------------------------
(* Turning pages.  A row that was there at the beginning and has not been   *)
(* shown has only moved down: its place is past everything asked for.       *)

Reading ==
  /\ \/ job \in Jobs /\ MayList(job.table, job.viewer) /\ at \in {"count", "page", "shown"}
     \/ job = Report /\ at \in {"figure", "reported"} /\ seen = {} /\ items = {} /\ begun = {}
  /\ page \in Nat \ {0} /\ total \in 0..Cardinality(Requests)
  /\ figures \in Seq(0..Cardinality(Requests))
  /\ seen \cup items \cup begun \subseteq Visible(job.table, job.viewer)
  /\ at = "page" => items = {} /\ total <= Counted(job.table, job.viewer)
  /\ Cardinality(items) \in 0..PageSize
  /\ at = "shown" => Cardinality(items) >= Shorter(PageSize, total - Offset(page))

Asked == Offset(page) + (IF at = "shown" THEN PageSize ELSE 0)

Paging ==
  /\ \A r \in begun \ (seen \cup items) : Asked <= Place(job.table, job.viewer, r)
  /\ at = "shown" /\ Cardinality(items) < PageSize => begun \subseteq seen \cup items

LEMMA InitReading == ReadInit => Reading /\ Paging
<1>1. Cardinality(Requests) \in Nat /\ Cardinality({}) = 0 /\ PageSize \in Nat
  BY RequestsAssumption, FS_CardinalityType, FS_EmptySet, PageSizeAssumption
<1> QED
  BY <1>1 DEF ReadInit, Reading, Paging, Jobs, Report, Listed

LEMMA JobListed ==
  ASSUME Reading, at \in {"count", "page", "shown"} \/ begun # {}
  PROVE  job \in Jobs /\ MayList(job.table, job.viewer) /\ job.table \in Listed
BY DEF Reading, Jobs

LEMMA PlaceIsNat == \A t, viewer, r : Place(t, viewer, r) \in Nat
BY VisibleIsFinite, FS_Subset, FS_CardinalityType DEF Place

LEMMA VisibleOrdered ==
  ASSUME Chronological, NEW t \in Listed, NEW viewer
  PROVE  TotalOn(order[t], Visible(t, viewer))
<1>1. Visible(t, viewer) \subseteq Present(t)
  BY VisibleIsFinite DEF InTable
<1> QED
  BY <1>1 DEF Chronological, TotalOn

LEMMA SizesBounded ==
  /\ Cardinality(Requests) \in Nat
  /\ \A t : Cardinality(InTable(t)) \in 0..Cardinality(Requests)
  /\ \A t, viewer : Counted(t, viewer) \in 0..Cardinality(Requests)
<1>1. \A t, viewer : InTable(t) \subseteq Requests /\ Visible(t, viewer) \subseteq Requests
  BY DEF Visible, OwnRows, InTable, Present
<1> QED
  BY <1>1, RequestsAssumption, FS_Subset, FS_CardinalityType DEF Counted

LEMMA WriteReading ==
  ASSUME TypeOK, Consistent, Chronological, Reading, Paging, [ReadNext]_readVars,
         UNCHANGED reading
  PROVE  Reading' /\ Paging'
<1> SUFFICES ASSUME NEW t, NEW v, t = job.table, v = job.viewer PROVE Reading' /\ Paging'
  OBVIOUS
<1>1. Visible(t, v) \subseteq Visible(t, v)' /\ Counted(t, v) <= Counted(t, v)'
  <2>1. Visible(t, v) \subseteq Visible(t, v)'
    BY VisibleGrows
  <2>2. Visible(t, v)' \subseteq Requests
    BY DEF Visible, OwnRows, InTable, Present
  <2>3. IsFiniteSet(Visible(t, v)')
    BY <2>2, RequestsAssumption, FS_Subset
  <2> QED
    BY <2>1, <2>3, FS_Subset DEF Counted
<1>2. Counted(t, v) \in Nat /\ Counted(t, v)' \in Nat
  <2>1. Visible(t, v)' \subseteq Requests
    BY DEF Visible, OwnRows, InTable, Present
  <2> QED
    BY <2>1, VisibleIsFinite, RequestsAssumption, FS_Subset, FS_CardinalityType DEF Counted
<1>3. /\ job' = job /\ at' = at /\ page' = page /\ total' = total /\ seen' = seen
      /\ items' = items /\ begun' = begun /\ figures' = figures
      /\ job'.table = t /\ job'.viewer = v
  BY DEF reading
<1>4. Reading'
  <2>1. seen \cup items \cup begun \subseteq Visible(t, v)'
    BY <1>1 DEF Reading
  <2>2. at = "page" => total <= Counted(t, v)'
    BY <1>1, <1>2, SizesBounded DEF Reading
  <2> QED
    BY <1>3, <2>1, <2>2 DEF Reading, Offset, Shorter
<1>5. ASSUME NEW r \in begun \ (seen \cup items) PROVE Asked' <= Place(t, v, r)'
  <2>1. r \in Visible(t, v) /\ t \in Listed
    BY JobListed DEF Reading
  <2>2. Asked \in Nat /\ Asked' = Asked
    <3>1. Asked \in Nat
      <4>1. page \in Nat \ {0} /\ PageSize \in Nat
        BY PageSizeAssumption DEF Reading
      <4> QED
        BY <4>1, Offsets DEF Asked
    <3>2. Asked' = Asked
      BY <1>3 DEF Asked, Offset
    <3> QED
      BY <3>1, <3>2
  <2>3. Asked <= Place(t, v, r)
    BY DEF Paging
  <2> QED
    BY <2>1, <2>2, <2>3, PlaceGrows
<1> QED
  BY <1>3, <1>4, <1>5 DEF Paging

LEMMA ReaderKeeps ==
  ASSUME UNCHANGED <<vars, order, job>>, NEW t, NEW v
  PROVE  /\ Visible(t, v)' = Visible(t, v) /\ Counted(t, v)' = Counted(t, v)
         /\ \A r : Place(t, v, r)' = Place(t, v, r)
<1>1. Visible(t, v)' = Visible(t, v)
  BY DEF Visible, OwnRows, InTable, Present, Committed, IsInternal, vars
<1> QED
  BY <1>1 DEF Counted, Place

LEMMA CountReading ==
  ASSUME TypeOK, Consistent, Chronological, Reading, Paging, Count
  PROVE  Reading' /\ Paging'
<1> SUFFICES ASSUME NEW t, t = job.table, NEW v, v = job.viewer PROVE Reading' /\ Paging'
  OBVIOUS
<1>1. /\ job' = job /\ at' = "page" /\ page' = page /\ total' = Counted(t, v)
      /\ seen' = seen \cup items /\ items' = {} /\ figures' = figures
      /\ begun' = (IF page = 1 THEN Visible(t, v) ELSE begun)
      /\ at = "count" /\ job'.table = t /\ job'.viewer = v
      /\ job \in Jobs /\ MayList(t, v)
  BY JobListed DEF Count
<1>2. /\ Visible(t, v)' = Visible(t, v) /\ Counted(t, v)' = Counted(t, v)
      /\ \A r : Place(t, v, r)' = Place(t, v, r)
  BY ReaderKeeps DEF Count
<1>3. Reading'
  <2>1. Cardinality({}) = 0 /\ Counted(t, v) \in 0..Cardinality(Requests) /\ PageSize \in Nat
    BY FS_EmptySet, SizesBounded, PageSizeAssumption
  <2>2. Counted(t, v)' = total'
    BY <1>1, <1>2
  <2> QED
    BY <1>1, <1>2, <2>1, <2>2 DEF Reading
<1>4. ASSUME NEW r \in (begun \ (seen \cup items))' PROVE Asked' <= Place(t, v, r)'
  <2>1. Asked' = Offset(page)
    <3>1. Offset(page) \in Nat
      BY Offsets DEF Reading
    <3> QED
      BY <1>1, <3>1 DEF Asked, Offset
  <2>2. CASE page = 1
    BY <1>2, <2>1, <2>2, PlaceIsNat, Offsets
  <2>3. CASE page # 1
    <3>1. Asked = Offset(page) + 0 /\ Offset(page) \in Nat /\ Asked <= Place(t, v, r)
      BY <1>1, <2>3, Offsets DEF Paging, Asked, Reading
    <3> QED
      BY <1>2, <2>1, <3>1
  <2> QED
    BY <2>2, <2>3
<1> QED
  BY <1>1, <1>3, <1>4 DEF Paging

LEMMA SelectReading ==
  ASSUME TypeOK, Consistent, Chronological, Reading, Paging, Select
  PROVE  Reading' /\ Paging'
<1> SUFFICES ASSUME NEW t, t = job.table, NEW v, v = job.viewer PROVE Reading' /\ Paging'
  OBVIOUS
<1>1. /\ job' = job /\ at' = "shown" /\ page' = page /\ total' = total
      /\ seen' = seen /\ items' = Page(t, v, page) /\ figures' = figures /\ begun' = begun
      /\ at = "page" /\ job'.table = t /\ job'.viewer = v
      /\ job \in Jobs /\ MayList(t, v) /\ t \in Listed
  BY JobListed DEF Select
<1>0. /\ page \in Nat \ {0} /\ items = {} /\ total \in Nat
      /\ begun \subseteq Visible(t, v) /\ total <= Counted(t, v)
  BY <1>1, SizesBounded DEF Reading
<1>2. /\ Visible(t, v)' = Visible(t, v) /\ \A r : Place(t, v, r)' = Place(t, v, r)
  BY ReaderKeeps DEF Select
<1>3. /\ Cardinality(Page(t, v, page)) =
            IF Counted(t, v) > Offset(page)
            THEN Shorter(PageSize, Counted(t, v) - Offset(page)) ELSE 0
      /\ \A r \in Visible(t, v) : Place(t, v, r) \in 0..(Counted(t, v) - 1)
  BY <1>0, <1>1, VisibleOrdered, PageSizes
<1>4. Offset(page) \in Nat /\ Counted(t, v) \in Nat /\ PageSize \in Nat \ {0}
  BY <1>0, <1>1, Offsets, VisibleIsFinite, PageSizeAssumption
<1>5. Offset(page)' = Offset(page)
  BY <1>1 DEF Offset
<1>6. Reading'
  <2>1. Cardinality(Page(t, v, page)) \in 0..PageSize
    BY <1>3, <1>4 DEF Shorter
  <2>2. Cardinality(Page(t, v, page)) >= Shorter(PageSize, total - Offset(page))
    BY <1>0, <1>3, <1>4 DEF Shorter
  <2>3. Page(t, v, page) \subseteq Visible(t, v)
    BY DEF Page
  <2> QED
    BY <1>1, <1>2, <1>5, <2>1, <2>2, <2>3 DEF Reading, Shorter
<1>7. ASSUME NEW r \in (begun \ (seen \cup items))' PROVE Offset(page) + PageSize <= Place(t, v, r)
  <2>1. r \in begun /\ r \notin seen \cup items /\ r \in Visible(t, v) /\ r \notin Page(t, v, page)
    BY <1>0, <1>1
  <2>2. Asked = Offset(page) + 0 /\ Asked <= Place(t, v, r)
    BY <1>1, <2>1 DEF Paging, Asked
  <2>3. Place(t, v, r) \notin Offset(page)..(Offset(page) + PageSize - 1)
    BY <2>1 DEF Page
  <2> QED
    BY <1>3, <1>4, <2>1, <2>2, <2>3
<1>8. Asked' = Offset(page) + PageSize
  BY <1>1, <1>5 DEF Asked
<1>9. ASSUME Cardinality(Page(t, v, page)) < PageSize PROVE (begun \subseteq seen \cup items)'
  <2>1. Counted(t, v) < Offset(page) + PageSize
    BY <1>3, <1>4, <1>9 DEF Shorter
  <2>2. ASSUME NEW r \in (begun \ (seen \cup items))' PROVE FALSE
    BY <1>0, <1>1, <1>3, <1>4, <1>7, <2>1, <2>2
  <2> QED
    BY <2>2
<1> QED
  BY <1>1, <1>2, <1>6, <1>7, <1>8, <1>9 DEF Paging

LEMMA TurnReading ==
  ASSUME TypeOK, Consistent, Chronological, Reading, Paging, Turn
  PROVE  Reading' /\ Paging'
<1> SUFFICES ASSUME NEW t, t = job.table, NEW v, v = job.viewer PROVE Reading' /\ Paging'
  OBVIOUS
<1>1. /\ job' = job /\ at' = "count" /\ page' = page + 1 /\ total' = total
      /\ seen' = seen /\ items' = items /\ figures' = figures /\ begun' = begun
      /\ at = "shown" /\ job'.table = t /\ job'.viewer = v
      /\ job \in Jobs /\ MayList(t, v)
  BY JobListed DEF Turn
<1>2. page \in Nat \ {0} /\ PageSize \in Nat
  BY PageSizeAssumption DEF Reading
<1>3. /\ Visible(t, v)' = Visible(t, v) /\ \A r : Place(t, v, r)' = Place(t, v, r)
  BY ReaderKeeps DEF Turn
<1>4. Reading'
  BY <1>1, <1>2, <1>3 DEF Reading
<1>5. Asked' = Asked
  <2>1. Offset(page + 1) \in Nat /\ Offset(page + 1) = Offset(page) + PageSize
    BY <1>2, Offsets
  <2>2. Offset(page)' = Offset(page + 1)
    BY <1>1 DEF Offset
  <2> QED
    BY <1>1, <2>1, <2>2 DEF Asked
<1> QED
  BY <1>1, <1>3, <1>4, <1>5 DEF Paging

LEMMA FigureReading ==
  ASSUME Reported, Reading, Paging, Figure
  PROVE  Reading' /\ Paging'
<1> DEFINE new == Cardinality(InTable(Statements[Len(figures) + 1]))
<1>1. /\ job' = job /\ at' \in {"figure", "reported"} /\ page' = page /\ total' = total
      /\ seen' = seen /\ items' = items /\ begun' = begun /\ figures' = Append(figures, new)
      /\ at = "figure"
  BY DEF Figure
<1>2. /\ job = Report /\ seen = {} /\ items = {} /\ begun = {}
      /\ figures \in Seq(0..Cardinality(Requests))
  BY <1>1 DEF Reading
<1>3. figures' \in Seq(0..Cardinality(Requests))
  <2>1. new \in 0..Cardinality(Requests)
    BY SizesBounded
  <2> HIDE DEF new
  <2> QED
    BY <1>1, <1>2, <2>1, AppendProperties
<1>4. Reading'
  BY <1>1, <1>2, <1>3 DEF Reading
<1> QED
  BY <1>1, <1>2, <1>4 DEF Paging

Read == Chronological /\ Reported /\ Reading /\ Paging

LEMMA NextRead == TypeOK /\ Consistent /\ Read /\ [ReadNext]_readVars => Read'
<1> SUFFICES ASSUME TypeOK, Consistent, Read, [ReadNext]_readVars PROVE Read'
  OBVIOUS
<1>1. Chronological' /\ Reported'
  BY NextChronological, NextReported DEF Read
<1>2. ASSUME UNCHANGED reading PROVE Reading' /\ Paging'
  BY <1>2, WriteReading DEF Read
<1>3. ASSUME Count \/ Select \/ Turn \/ Figure PROVE Reading' /\ Paging'
  BY <1>3, CountReading, SelectReading, TurnReading, FigureReading DEF Read
<1>4. Reading' /\ Paging'
  BY <1>2, <1>3 DEF ReadNext, Write, readVars, reading
<1> QED
  BY <1>1, <1>4 DEF Read

LEMMA AlwaysRead == ReadSpec => [](TypeOK /\ Consistent /\ Read)
<1>1. ReadInit => Read
  BY InitChronological, InitReported, InitReading DEF Read
<1> QED
  BY <1>1, NextRead, ReadSound, PTL DEF ReadSpec

(* Every value a reader or the report can hold is one of the documented     *)
(* kinds, and no page is longer than page_size.                             *)
THEOREM ReadTypeCorrect == ReadSpec => []ReadTypeOK
<1>1. TypeOK /\ Consistent /\ Read => ReadTypeOK
  <2> SUFFICES ASSUME Read PROVE ReadTypeOK
    OBVIOUS
  <2>1. seen \cup items \cup begun \subseteq Requests
    <3>1. Visible(job.table, job.viewer) \subseteq Requests
      BY DEF Visible, OwnRows, InTable, Present
    <3> QED
      BY <3>1 DEF Read, Reading
  <2>2. PageSize \in Nat
    BY PageSizeAssumption
  <2> QED
    BY <2>1, <2>2 DEF Read, Reading, Chronological, Reported, Recorded, ReadTypeOK
<1> QED
  BY <1>1, AlwaysRead, PTL

(* However many requests commit between the count and the page, a page does *)
(* not show fewer rows than the total of its response announces.            *)
THEOREM PagesHoldTotals == ReadSpec => []PageHoldsTotal
<1>1. TypeOK /\ Consistent /\ Read => PageHoldsTotal
  BY DEF Read, Reading, PageHoldsTotal
<1> QED
  BY <1>1, AlwaysRead, PTL

(* Whatever is committed while a client turns pages of whatever size, at    *)
(* the first page that is not full it has been shown every row that was     *)
(* there when it began.                                                     *)
THEOREM FullReadsComplete == ReadSpec => []FullReadComplete
<1>1. TypeOK /\ Consistent /\ Read => FullReadComplete
  BY DEF Read, Paging, FullReadComplete
<1> QED
  BY <1>1, AlwaysRead, PTL

(* No page ever showed a row that was not committed, nor to an employee a   *)
(* ticket that is not his own.                                              *)
THEOREM OnlyOwnRowsShown == ReadSpec => []OwnRowsOnly
<1>1. TypeOK /\ Consistent /\ Read => OwnRowsOnly
  <2> SUFFICES ASSUME Reading, NEW w \in seen \cup items
               PROVE  /\ Committed(w)
                      /\ job.viewer # Staff =>
                           job.table = "tickets" /\ ~ IsInternal(w) /\ Creator[w] = job.viewer
    BY DEF Read, OwnRowsOnly
  <2>1. MayList(job.table, job.viewer) /\ w \in Visible(job.table, job.viewer)
    BY DEF Reading
  <2> QED
    BY <2>1 DEF Visible, OwnRows, InTable, MayList
<1> QED
  BY <1>1, AlwaysRead, PTL
-----------------------------------------------------------------------------
(* The story of a key.  Whoever replays or refuses a key has found its      *)
(* creation committed, so none of their records is older than the record of *)
(* the request that holds the key.                                          *)

CreatedFirst ==
  \A r, w \in Requests :
    <<r, w>> \in order["pending_action_executions"] /\ SameKey(r, w) => rows[w].key = "absent"

LEMMA ExecutionTable == Present("pending_action_executions") = {w \in Requests : rows[w].execution # "absent"}
BY DEF Present, Field

\* A creation halfway holds its key before it has an execution.
LEMMA MidwayRows ==
  ASSUME NEW r, Progress(r), pc[r] \in {"number", "insert_ticket", "complete"}
  PROVE  IF IsInternal(r) THEN rows[r].key # "absent" ELSE rows[r].execution = "absent"
<1>1. CASE pc[r] = "number"
  BY <1>1 DEF Progress, Idle, NoRows
<1>2. CASE pc[r] = "insert_ticket"
  <2>1. NoRows.execution = "absent" /\ ReceivedRows.key = "processing"
    BY DEF ReceivedRows, NoRows
  <2> QED
    BY <1>2, <2>1 DEF Progress, Idle
<1>3. CASE pc[r] = "complete"
  BY <1>3 DEF Progress, ReceivedRows, NoRows
<1> QED
  BY <1>1, <1>2, <1>3

\* A request takes a key before it records its execution, or never.
LEMMA KeyTakenFirst ==
  ASSUME TypeOK, Consistent, NEW r \in Requests, Act(r),
         rows[r].execution # "absent", rows[r].key = "absent"
  PROVE  rows'[r].key = "absent"
<1> USE DEF TypeOK
<1>1. CASE InsertKey(r)
  BY <1>1 DEF InsertKey, Consistent, Progress, Idle, NoRows
<1>2. CASE KeyTaken(r) \/ TicketTaken(r) \/ Fail(r) \/ Crash(r)
  BY <1>2 DEF KeyTaken, TicketTaken, Fail, Crash, Rollback, NoRows
<1>3. CASE GenerateTicketNo(r)
  BY <1>3 DEF GenerateTicketNo, Traced
<1>4. CASE InsertTicket(r)
  BY <1>4 DEF InsertTicket
<1>5. CASE CompleteCreation(r)
  <2>1. Progress(r) /\ pc[r] = "complete"
    BY <1>5 DEF CompleteCreation, Consistent
  <2>2. ~ IsInternal(r)
    BY <2>1, MidwayRows
  <2> QED
    BY <1>5, <2>2 DEF CompleteCreation
<1>6. CASE Replay(r)
  BY <1>6 DEF Replay, Consistent, Progress, Idle, NoRows
<1>7. CASE TraceConflict(r)
  BY <1>7 DEF TraceConflict, Traced
<1>8. CASE rows' = rows
  BY <1>8
<1> QED
  BY <1>1, <1>2, <1>3, <1>4, <1>5, <1>6, <1>7, <1>8
  DEF Act, Step, Receive, FirstSeen, SeenBefore, Commit, Answer, Recover

\* An execution without a key tells of a creation that is committed.
LEMMA TracesHaveCreator ==
  ASSUME TypeOK, Consistent, NEW w \in Requests,
         rows[w].execution # "absent", rows[w].key = "absent"
  PROVE  \E c \in Creators : SameKey(w, c) /\ rows[c].key # "absent"
<1>1. HasMatch(w) \/ HasOther(w) \/ (\E c \in Creators : SameKey(w, c))
  <2>1. Progress(w) /\ pc[w] \in Labels
    BY DEF Consistent, TypeOK
  <2>2. rows[w] \notin {NoRows, CreationRows(w)}
    <3>1. NoRows.execution = "absent"
      BY DEF NoRows
    <3>2. ~ IsInternal(w) => CreationRows(w).execution = "absent"
      BY DEF CreationRows, NoRows
    <3> QED
      BY <3>1, <3>2, CreationHasTicket
  <2>3. CASE pc[w] \in {"commit", "answer"}
    BY <2>1, <2>2, <2>3 DEF Progress, Outcome
  <2>4. CASE pc[w] = "done"
    BY <2>1, <2>2, <2>4 DEF Progress, Idle
  <2>5. CASE pc[w] \in {"number", "insert_ticket", "complete"}
    BY <2>1, <2>5, MidwayRows
  <2>6. CASE pc[w] \in {"idle", "lookup", "insert_key", "replay", "conflict", "recover"}
    BY <2>1, <2>2, <2>6 DEF Progress, Idle
  <2> QED
    BY <2>1, <2>3, <2>4, <2>5, <2>6 DEF Labels
<1>2. PICK c \in Creators : SameKey(w, c)
  BY <1>1 DEF HasMatch, HasOther
<1> QED
  BY <1>2, CreatorHasKey DEF SameKey, IsInternal

LEMMA NextCreatedFirst ==
  ASSUME TypeOK, Consistent, Chronological, CreatedFirst, [ReadNext]_readVars
  PROVE  CreatedFirst'
<1> DEFINE t == "pending_action_executions"
<1>1. ASSUME NEW q \in Requests, Writer(q), NEW r \in Requests, NEW w \in Requests,
             <<r, w>> \in order'[t], SameKey(r, w)'
      PROVE  rows'[w].key = "absent"
  <2>1. Consistent' /\ Framed(q) /\ Act(q)
    BY <1>1, ActKeeps DEF Writer
  <2>2. SameKey(r, w) /\ request' = request
    BY <1>1, <2>1 DEF Framed, SameKey, IsInternal
  <2>3. CASE <<r, w>> \in order[t]
    <3>1. rows[w].key = "absent" /\ rows[w].execution # "absent"
      BY <2>2, <2>3, ExecutionTable DEF CreatedFirst, Chronological, Listed
    <3> QED
      BY <2>1, <3>1, KeyTakenFirst DEF Framed
  <2>4. CASE <<r, w>> \notin order[t]
    <3>1. w = q /\ r \in Present(t) /\ q \notin Present(t) /\ q \in Present(t)'
      BY <1>1, <2>4, StampedPairs DEF Listed
    <3>2. r # q /\ rows'[r] = rows[r] /\ rows[r].execution # "absent"
      BY <2>1, <3>1, ExecutionTable DEF Framed
    <3>3. \A c \in Requests : rows'[c].key # "absent" /\ rows'[q].key # "absent"
                                /\ StoredKey(c) = StoredKey(q) => c = q
      BY <2>1, <2>2 DEF Consistent, UniqueKeys, StoredKey
    <3>4. ASSUME rows'[q].key # "absent" PROVE FALSE
      <4>1. CASE rows[r].key # "absent"
        BY <2>2, <3>1, <3>2, <3>3, <3>4, <4>1 DEF SameKey, StoredKey
      <4>2. CASE rows[r].key = "absent"
        <5>1. PICK c \in Creators : SameKey(r, c) /\ rows[c].key # "absent"
          BY <3>2, <4>2, TracesHaveCreator
        <5>2. Committed(c) /\ rows'[c] = rows[c]
          BY <2>1, <5>1 DEF Creators, Framed
        <5>3. c = q
          BY <2>2, <3>1, <3>3, <3>4, <5>1, <5>2 DEF SameKey, StoredKey, Creators
        <5>4. Present(t)' \cap {q} = Present(t) \cap {q}
          BY <5>2, <5>3 DEF Present
        <5> QED
          BY <3>1, <5>4
      <4> QED
        BY <4>1, <4>2
    <3> QED
      BY <3>1, <3>4
  <2> QED
    BY <2>3, <2>4
<1>2. CASE Write
  <2>1. PICK q \in Requests : Writer(q)
    BY <1>2, WriteHasWriter
  <2> QED
    BY <1>1, <2>1 DEF CreatedFirst
<1>3. CASE UNCHANGED <<vars, order>>
  BY <1>3 DEF CreatedFirst, SameKey, IsInternal, vars
<1> QED
  BY <1>2, <1>3 DEF ReadNext, readVars, Count, Select, Turn, Figure

(* However many requests carry a key, the committed record of its creation  *)
(* is the oldest of the key's executions.                                   *)
THEOREM CreationsFirst == ReadSpec => []CreationFirst
<1>1. ReadInit => CreatedFirst
  BY DEF ReadInit, CreatedFirst, Listed
<1>2. TypeOK /\ Consistent /\ Read /\ CreatedFirst /\ [ReadNext]_readVars => CreatedFirst'
  BY NextCreatedFirst DEF Read
<1>3. TypeOK /\ Consistent /\ CreatedFirst => CreationFirst
  <2> SUFFICES ASSUME TypeOK, Consistent, CreatedFirst,
                      NEW r \in Requests, NEW w \in Requests, Committed(w),
                      SameKey(r, w), rows[w].execution = "succeeded"
               PROVE  <<r, w>> \notin order["pending_action_executions"]
    BY ExecutionTable DEF CreationFirst, InTable
  <2>1. rows[w] = CreationRows(w) /\ IsInternal(w)
    <3>1. rows[w] \in {CreationRows(w), ReplayRows, ConflictRows}
      BY ConsistentAllOrNothing DEF AllOrNothing
    <3>2. /\ ReplayRows.execution # "succeeded" /\ ConflictRows.execution # "succeeded"
          /\ ~ IsInternal(w) => CreationRows(w).execution # "succeeded"
      BY DEF CreationRows, ReplayRows, ConflictRows, NoRows
    <3> QED
      BY <3>1, <3>2
  <2> QED
    BY <2>1, CreationHasTicket DEF CreatedFirst
<1> QED
  BY <1>1, <1>2, <1>3, AlwaysRead, PTL DEF ReadSpec
================================================================================
