---------------------------- MODULE AxiomSource ----------------------------
(***************************************************************************)
(* The Axiom source (internal/source/axiom): every panel is a query that   *)
(* the service answers, and the stream is polled with the newest event     *)
(* time as the cursor, while rows arrive at the service in any order of    *)
(* their times.                                                            *)
(*                                                                         *)
(* The service is modelled by what the queries ask of it: where, summarize *)
(* by, sort and take mean what they say, Null is a group of its own, and   *)
(* rows that tie in a sort come in any order.  A second is one unit.       *)
(***************************************************************************)
EXTENDS Integers, Sequences, FiniteSetsExt, Sums

CONSTANTS
  Rows,       \* what may be logged: see RowAssumption
  Null,       \* the value of a field that is not there
  Routes,     \* messages that start with a route prefix
  TakeRows,   \* 500: what the stream's query takes
  Bin,        \* PickBinDuration of the lookback
  Lookback, TableSize,
  MaxNow,     \* bound: the clock
  MaxRows     \* bound: rows logged

ASSUME RowAssumption ==
  /\ \A r \in Rows : r.time \in Nat /\ r.cost \in Int \cup {Null}
  /\ {TakeRows, Bin, Lookback, MaxNow, MaxRows} \subseteq Nat \ {0}
  /\ TableSize \in Nat

VARIABLES
  rows,       \* the dataset, in the order of arrival
  now,        \* the service's clock
  cursor,     \* the reader's cursor, 0 for none
  delivered,  \* history: rows the reader got, in order
  passed      \* history: rows excused from delivery: see SkipsExcused

axiomVars == <<rows, now, cursor, delivered, passed>>

------------------------------------------------------------------------------
(***************************************************************************)
(* Queries.                                                                *)
(***************************************************************************)

\* The literal for ago(): a count and the size of its unit.
AplDuration(d) ==
  IF d >= 86400 /\ d % 86400 = 0 THEN <<d \div 86400, 86400>>
  ELSE IF d >= 3600 /\ d % 3600 = 0 THEN <<d \div 3600, 3600>>
  ELSE IF d >= 60 /\ d % 60 = 0 THEN <<d \div 60, 60>>
  ELSE <<d, 1>>

Ago(d) == now - (AplDuration(d)[1] * AplDuration(d)[2])

\* where _time > ago(lookback)
Window == {i \in DOMAIN rows : rows[i].time > Ago(Lookback)}

OfLevel(S, level) == {i \in S : rows[i].level = level}

Issues == OfLevel(Window, "error") \cup OfLevel(Window, "warn")

Stats ==
  [total |-> Cardinality(Window), errors |-> Cardinality(OfLevel(Window, "error")),
   warns |-> Cardinality(OfLevel(Window, "warn")), infos |-> Cardinality(OfLevel(Window, "info"))]

\* summarize ... by: the classes of S, by what is the same in them.
Classes(S, key(_)) == {{i \in S : key(i) = k} : k \in {key(j) : j \in S}}

\* sort by weight desc | take n: the n heaviest of T, in each way ties fall.
Heaviest(T, weight(_), n) ==
  {P \in SUBSET T : /\ Cardinality(P) = IF Cardinality(T) < n THEN Cardinality(T) ELSE n
                    /\ \A p \in P, q \in T \ P : weight(p) >= weight(q)}

BinOf(i) == rows[i].time - (rows[i].time % Bin)

AsString(v) == IF v = Null THEN "" ELSE v

Times == {BinOf(i) : i \in Window}

\* seriesFromTimeBin: the points there are.
Series(S) == [t \in Times |-> Cardinality({i \in S : BinOf(i) = t})]

Throughput == Series(Window)

ErrorRate == <<Series(OfLevel(Window, "error")), Series(OfLevel(Window, "warn"))>>

TopErrors(n) ==
  Heaviest(Classes(Issues, LAMBDA i : <<rows[i].message, rows[i].level>>), Cardinality, n)

TopRoutes(n) ==
  Heaviest(Classes({i \in Window : rows[i].message \in Routes}, LAMBDA i : rows[i].message), Cardinality, n)

RecentIssues(n) == Heaviest(Issues, LAMBDA i : rows[i].time, n)

\* A class without a name is dropped after it took its place among the n.
TopClientHealth(n) ==
  {{C \in P : \A i \in C : AsString(rows[i].group) # ""} :
     P \in Heaviest(Classes(Issues, LAMBDA i : rows[i].group), Cardinality, n)}

\* Dollars by group: classes that cost nothing are dropped.
Dollars(C) == SumOver([i \in C |-> rows[i].cost])

Cost ==
  LET byGroup == {C \in Classes({i \in Window : rows[i].cost # Null}, LAMBDA i : rows[i].group) :
                    Dollars(C) > 0}
  IN  [byGroup |-> byGroup, total |-> SumOver([C \in byGroup |-> Dollars(C)])]

------------------------------------------------------------------------------
(***************************************************************************)
(* topSeriesFromBin.                                                       *)
(***************************************************************************)
GroupName(i) == IF AsString(rows[i].group) = "" THEN "(none)" ELSE rows[i].group

\* The service's table: one row for each bin and value of the group field.
BinTable == Classes(Window, LAMBDA i : <<BinOf(i), rows[i].group>>)

SameCell(C, D) == \E i \in C, j \in D : GroupName(i) = GroupName(j) /\ BinOf(i) = BinOf(j)

\* byGroup: of table rows with the same bin and name the last one counts.
ByGroup ==
  LET table == BinTable
  IN  {kept \in SUBSET table :
         /\ \A C \in table : \E D \in kept : SameCell(C, D)
         /\ \A C, D \in kept : SameCell(C, D) => C = D}

\* The value of a group in a bin.
Value(kept, g, t) == Cardinality({i \in UNION kept : GroupName(i) = g /\ BinOf(i) = t})

\* totals: they add up over all table rows.
Total(g) == Cardinality({i \in Window : GroupName(i) = g})

\* Fault: there is no "Other" for a single group below the top.
OtherFew(kept, rest, t) ==
  IF Cardinality(rest) <= 1 THEN 0 ELSE SumOver([g \in rest |-> Value(kept, g, t)])

Other(kept, rest, t) == SumOver([g \in rest |-> Value(kept, g, t)])

Names == {GroupName(i) : i \in Window}

\* Series of the names in P, and of the rest.
Chart(P, kept) ==
  [top |-> [g \in P |-> [t \in Times |-> Value(kept, g, t)]],
   other |-> [t \in Times |-> Other(kept, Names \ P, t)]]

\* The charts there may be, with the top n names.
ThroughputSegmented(n) ==
  {Chart(P, kept) : P \in Heaviest(Names, Total, n), kept \in ByGroup}

------------------------------------------------------------------------------
(***************************************************************************)
(* The stream.                                                             *)
(***************************************************************************)

\* A row arrives; its time may be any, a little ahead of the clock even.  One
\* that is not past the cursor will not be asked for.
Log ==
  /\ Len(rows) < MaxRows
  /\ \E r \in Rows :
       /\ r.time <= now + 1
       /\ rows' = Append(rows, r)
       /\ passed' = IF cursor # 0 /\ r.time <= cursor THEN passed \cup {Len(rows) + 1} ELSE passed
  /\ UNCHANGED <<now, cursor, delivered>>

Tick == now < MaxNow /\ now' = now + 1 /\ UNCHANGED <<rows, cursor, delivered, passed>>

\* A zero cursor starts five seconds ago.
Since == IF cursor = 0 THEN now - 5 ELSE cursor

\* Fault: rows at the cursor are asked for again.
AfterOrAt(since) == {i \in DOMAIN rows : rows[i].time >= since}

\* where _time > since
After(since) == {i \in DOMAIN rows : rows[i].time > since}

\* Fault: the cursor goes to the present.
NextCursorNow(since, batch) == now

NextCursor(since, batch) == Max({since} \cup {rows[i].time : i \in batch})

\* A batch in the order of its times, as the service sorts it.
Sorted(s) == \A k, l \in DOMAIN s : k < l => rows[s[k]].time <= rows[s[l]].time

Orders(batch) == {s \in [1..Cardinality(batch) -> batch] :
                    Sorted(s) /\ \A i \in batch : \E k \in DOMAIN s : s[k] = i}

\* sort by _time asc | take 500
Stream ==
  /\ \E batch \in Heaviest(After(Since), LAMBDA i : -rows[i].time, TakeRows) :
       /\ \E s \in Orders(batch) : delivered' = delivered \o s
       /\ cursor' = NextCursor(Since, batch)
       /\ passed' = passed
            \cup (IF cursor = 0 THEN {i \in DOMAIN rows : rows[i].time <= Since} ELSE {})
            \cup (IF Cardinality(batch) = TakeRows
                    THEN {i \in After(Since) \ batch : \E j \in batch : rows[i].time = rows[j].time}
                    ELSE {})
  /\ UNCHANGED <<rows, now>>

AxiomInit == rows = <<>> /\ now = 6 /\ cursor = 0 /\ delivered = <<>> /\ passed = {}

\* A poll that fails changes nothing.
AxiomNext == Log \/ Tick \/ Stream

AxiomSpec == AxiomInit /\ [][AxiomNext]_axiomVars

------------------------------------------------------------------------------
(***************************************************************************)
(* Properties.                                                             *)
(***************************************************************************)

\* The stream delivers no row twice, and each poll's rows are newer than those
\* of the one before (Stream).
NoRowTwice ==
  /\ \A k, l \in DOMAIN delivered : delivered[k] = delivered[l] => k = l
  /\ Sorted(delivered)

\* A row the cursor has gone past was delivered, unless it was older than the
\* start, arrived when newer ones had been delivered, or was cut off from rows
\* of its own time by a full batch.
SkipsExcused ==
  cursor # 0 =>
    \A i \in DOMAIN rows : rows[i].time <= cursor =>
      i \in passed \/ \E k \in DOMAIN delivered : delivered[k] = i

Nameless == {v \in {rows[i].group : i \in Window} : AsString(v) \in {"", "(none)"}}

\* "Anything outside the top N is summed into an "Other" bucket so the chart
\* still sums to the real total" (topSeriesFromBin).
ChartSums ==
  LET throughput == Throughput
  IN  \A chart \in ThroughputSegmented(TableSize) : \A t \in DOMAIN throughput :
        throughput[t] = chart.other[t] + SumOver([g \in DOMAIN chart.top |-> chart.top[g][t]])

\* At any moment the panels agree about the rows of the window: the charts and
\* tables add up to the counts, a table cut at n shows the most of them there
\* can be, the segmented chart loses nothing unless a bin has two nameless
\* groups, and the groups left out of the costs cost nothing (axiom.go).
AxiomPanelsAgree ==
  LET stats == Stats
      issues == Issues
      throughput == Throughput
      rates == ErrorRate
  IN  /\ SumOver(throughput) = stats.total
      /\ SumOver(rates[1]) = stats.errors /\ SumOver(rates[2]) = stats.warns
      /\ \A P \in TopErrors(stats.total) : UNION P = issues
      /\ \A P \in TopClientHealth(stats.total) :
           UNION P = {i \in issues : AsString(rows[i].group) # ""}
      /\ \A P \in TopRoutes(stats.total) : UNION P = {i \in Window : rows[i].message \in Routes}
      /\ RecentIssues(stats.total) = {issues}
      /\ \A P \in TopErrors(TableSize) : \A C \in P, i \in issues \ UNION P :
           Cardinality(C) >= Cardinality({j \in issues : /\ rows[j].message = rows[i].message
                                                         /\ rows[j].level = rows[i].level})
      /\ Cardinality(Nameless) <= 1 => ChartSums
      /\ Cost.total >= Dollars({i \in Window : rows[i].cost # Null})

==============================================================================
