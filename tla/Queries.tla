------------------------------ MODULE Queries ------------------------------
(***************************************************************************)
(* The aggregate queries of the in-memory store                            *)
(* (internal/source/store.go): counts, charts, tables and costs over the   *)
(* events of a lookback window.  A query holds the read lock, so it is a   *)
(* function of the events stored and of the time it is asked at; events    *)
(* are appended in any order of their times, which may lie in the future.  *)
(*                                                                         *)
(* Levels are the indices of the level table, other names are numbers in   *)
(* the order of the strings, 0 the empty one.  The placeholders "(none)"   *)
(* and "(unknown)", which sort before every name, are 0 again.  Costs are  *)
(* integers: rounding is left out.                                         *)
(***************************************************************************)
EXTENDS Sums, Sequences, FiniteSets

LOCAL INSTANCE FiniteSetsExt

CONSTANTS
  Records,      \* what may be logged
  NaN,          \* a cost or duration that is absent
  Minute,       \* units of time in a minute, even
  Nows,         \* times a query is asked at
  Lookbacks,    \* windows a query is asked for
  TableSizes,   \* n and topN of a query
  MaxEvents     \* bound: events stored

ASSUME QueriesAssumption ==
  /\ Records \subseteq [ts : Nat, level : 0..4, message : Nat, client : Nat, route : Nat,
                        duration : Nat \cup {NaN}, cost : Int \cup {NaN}, costDim : Nat]
  /\ Minute \in Nat \ {0} /\ Minute % 2 = 0
  /\ Nows \subseteq Nat
  /\ Lookbacks \subseteq Nat \ {0}
  /\ TableSizes \subseteq Nat
  /\ MaxEvents \in Nat

VARIABLE events   \* store.events, in sequence order

Hour == 60 * Minute
Day  == 24 * Hour

levelError == 0
levelWarn  == 1
levelInfo  == 2

costDimNone  == 0
costDimGroup == 1
costDimModel == 2

Init == events = <<>>

AppendEvent == Len(events) < MaxEvents /\ \E e \in Records : events' = Append(events, e)

Next == AppendEvent

QueriesSpec == Init /\ [][Next]_events

------------------------------------------------------------------------------
(***************************************************************************)
(* Windows, levels, tables.                                                *)
(***************************************************************************)

\* The window is open at its start and has no end, so what is timed after the
\* present is in it, though windowStart's comment ends it at the present.
InWindow(ts, after) == ts > after

Window(now, lookback) == {n \in DOMAIN events : InWindow(events[n].ts, now - lookback)}

OfLevel(S, level) == {n \in S : events[n].level = level}

\* Errors and warnings in the window.
Issues(now, lookback) ==
  OfLevel(Window(now, lookback), levelError) \cup OfLevel(Window(now, lookback), levelWarn)

\* sort.Slice: no order here leaves ties.
Ranked(S, Before(_, _)) ==
  CHOOSE s \in [1..Cardinality(S) -> S] : \A p, q \in DOMAIN s : p < q => Before(s[p], s[q])

First(rows, n) == IF Len(rows) > n THEN SubSeq(rows, 1, n) ELSE rows

\* sortRows: most frequent first, then by message, then by level.
RowBefore(a, b) ==
  \/ a.count > b.count
  \/ a.count = b.count /\ a.message < b.message
  \/ a.count = b.count /\ a.message = b.message /\ a.level < b.level

TopRows(rows, n) == First(Ranked(rows, RowBefore), n)

TopErrors(now, n, lookback) ==
  LET issues == Issues(now, lookback)
      Row(m) == [message |-> events[m].message, level |-> events[m].level,
                 count   |-> Cardinality({o \in issues : /\ events[o].message = events[m].message
                                                         /\ events[o].level = events[m].level})]
  IN  TopRows({Row(m) : m \in issues}, n)

TopRoutes(now, n, lookback) ==
  LET routed == {m \in Window(now, lookback) : events[m].route # 0}
      Row(m) == [message |-> events[m].route, level |-> 0,
                 count   |-> Cardinality({o \in routed : events[o].route = events[m].route})]
  IN  TopRows({Row(m) : m \in routed}, n)

\* Clients with most issues first, then by name.
TopClientHealth(now, n, lookback) ==
  LET issues == {m \in Issues(now, lookback) : events[m].client # 0}
      Of(m)  == {o \in issues : events[o].client = events[m].client}
      Row(m) == [client |-> events[m].client,
                 errors |-> Cardinality(OfLevel(Of(m), levelError)),
                 warns  |-> Cardinality(OfLevel(Of(m), levelWarn))]
      Before(a, b) == \/ a.errors + a.warns > b.errors + b.warns
                      \/ a.errors + a.warns = b.errors + b.warns /\ a.client < b.client
  IN  First(Ranked({Row(m) : m \in issues}, Before), n)

\* The order of newestHeap; an index stands for the sequence number.
Older(m, n) == events[m].ts < events[n].ts \/ (events[m].ts = events[n].ts /\ m < n)

\* newestHeap.offer: a full heap exchanges its oldest element for a newer one.
Offer(heap, m, limit) ==
  IF Cardinality(heap) < limit
    THEN heap \cup {m}
    ELSE LET root == CHOOSE o \in heap : \A h \in heap \ {o} : Older(o, h)
         IN  IF Older(root, m) THEN (heap \ {root}) \cup {m} ELSE heap

\* Every issue is offered in array order; newest first.
RecentIssues(now, n, lookback) ==
  LET issues == Issues(now, lookback)
      offered[m \in 0..Len(events)] ==
        IF m = 0 THEN {}
        ELSE IF n > 0 /\ m \in issues THEN Offer(offered[m - 1], m, n) ELSE offered[m - 1]
  IN  Ranked(offered[Len(events)], LAMBDA a, b : Older(b, a))

------------------------------------------------------------------------------
(***************************************************************************)
(* Charts.  A series is a function from bins, numbered from 0, to counts.  *)
(***************************************************************************)

\* About sixty bins, of a round length.
PickBinDuration(lookback) ==
  LET target(d) == lookback < 60 * d
  IN  IF target(Minute) THEN Minute \div 2
      ELSE IF target(5 * Minute) THEN Minute
      ELSE IF target(15 * Minute) THEN 5 * Minute
      ELSE IF target(Hour) THEN 15 * Minute
      ELSE IF target(4 * Hour) THEN 30 * Minute
      ELSE Hour

\* time.Time.Truncate.
Truncate(t, unit) == (t \div unit) * unit

\* Fault: the last bin, which holds the present, is not counted.
BinsShort(now, lookback) ==
  LET bin   == PickBinDuration(lookback)
      start == Truncate(now - lookback, bin)
  IN  [start |-> start, bin |-> bin, n |-> (Truncate(now, bin) - start) \div bin]

\* bins: aligned bins from the one the window starts in to the present one.
Bins(now, lookback) ==
  LET bin   == PickBinDuration(lookback)
      start == Truncate(now - lookback, bin)
  IN  [start |-> start, bin |-> bin, n |-> (Truncate(now, bin) - start) \div bin + 1]

\* binIndex: division rounds towards zero; -1 when there is no such bin.
BinIndex(ts, b) ==
  LET d == ts - b.start
      c == IF d >= 0 THEN d \div b.bin ELSE -((-d) \div b.bin)
  IN  IF c < 0 \/ c >= b.n THEN -1 ELSE c

\* The series of the events in S.
BinSeries(S, b) ==
  [c \in 0..(b.n - 1) |-> Cardinality({m \in S : BinIndex(events[m].ts, b) = c})]

Throughput(now, lookback) == BinSeries(Window(now, lookback), Bins(now, lookback))

ErrorRate(now, lookback) ==
  LET b == Bins(now, lookback)
  IN  [errors |-> BinSeries(OfLevel(Window(now, lookback), levelError), b),
       warns  |-> BinSeries(OfLevel(Window(now, lookback), levelWarn), b)]

\* A series for each of the topN groups with most events in the chart, by
\* name on ties, and one for all others together if there are any.
ThroughputSegmented(now, topN, lookback) ==
  LET b         == Bins(now, lookback)
      charted   == {m \in Window(now, lookback) : BinIndex(events[m].ts, b) >= 0}
      Of(g)     == {m \in charted : events[m].client = g}
      Before(g, h) == \/ Cardinality(Of(g)) > Cardinality(Of(h))
                      \/ Cardinality(Of(g)) = Cardinality(Of(h)) /\ g < h
      ranked    == Ranked({events[m].client : m \in charted}, Before)
      top       == [r \in DOMAIN First(ranked, topN) |-> BinSeries(Of(ranked[r]), b)]
      rest      == {ranked[r] : r \in (topN + 1)..Len(ranked)}
  IN  IF rest = {} THEN top ELSE Append(top, BinSeries(UNION {Of(g) : g \in rest}, b))

------------------------------------------------------------------------------
(***************************************************************************)
(* Counts and costs.                                                       *)
(***************************************************************************)

\* stats, with one duration field; p95 is SelectKth's.  The average is kept
\* as the sum.
Stats(now, lookback) ==
  LET w      == Window(now, lookback)
      timed  == {m \in w : events[m].duration # NaN}
      values == {events[m].duration : m \in timed}
  IN  [total |-> Cardinality(w),
       error |-> Cardinality(OfLevel(w, levelError)),
       warn  |-> Cardinality(OfLevel(w, levelWarn)),
       info  |-> Cardinality(OfLevel(w, levelInfo)),
       timed |-> Cardinality(timed),
       sum   |-> SumOver([m \in timed |-> events[m].duration]),
       max   |-> IF timed = {} THEN 0 ELSE Max(values)]

Dollars(S) == SumOver([m \in S |-> events[m].cost])

\* sortedCosts: groups, by the field that names them, with a positive sum,
\* highest first, then by name.
SortedCosts(S, name) ==
  LET Of(m)  == {o \in S : events[o][name] = events[m][name]}
      rows   == {[client |-> events[m][name], dollars |-> Dollars(Of(m))] : m \in S}
      Before(a, b) == a.dollars > b.dollars \/ (a.dollars = b.dollars /\ a.client < b.client)
  IN  Ranked({row \in rows : row.dollars > 0}, Before)

\* The group is the client unless the cost dimension is a group.
GroupCosts(S, costDimRole) ==
  IF costDimRole = costDimGroup THEN SortedCosts(S, "costDim") ELSE SortedCosts(S, "client")

\* cost: the window has no end, today and the trailing hour end now.
Cost(now, lookback, costDimRole) ==
  LET costed   == {m \in DOMAIN events : events[m].cost # NaN}
      w        == costed \cap Window(now, lookback)
      Since(t) == {m \in costed : t <= events[m].ts /\ events[m].ts <= now}
  IN  [total        |-> Dollars(w),
       today        |-> Dollars(Since(Truncate(now, Day))),
       trailingHour |-> Dollars(Since(now - Hour)),
       byGroup      |-> GroupCosts(w, costDimRole),
       byModel      |-> IF costDimRole = costDimModel
                          THEN SortedCosts({m \in w : events[m].costDim # 0}, "costDim") ELSE <<>>]

------------------------------------------------------------------------------
(***************************************************************************)
(* Properties.                                                             *)
(***************************************************************************)

\* Every event the stats count and that is not past the present bin stands in
\* the one bin its time falls in, levels and groups make up the whole chart,
\* and the tables make up the counts.  Events past the present bin (late), all
\* of them timed in the future, are in counts and tables, as the window has no
\* end, and missing from the charts: these differ by exactly those events.
ChartsAddUp ==
  \A now \in Nows, lookback \in Lookbacks :
    LET w     == Window(now, lookback)
        st    == Stats(now, lookback)
        b     == Bins(now, lookback)
        past  == {m \in w : events[m].ts <= now}
        late  == {m \in w : events[m].ts >= b.start + b.n * b.bin}
        chart == Throughput(now, lookback)
        rates == ErrorRate(now, lookback)
        rows  == TopErrors(now, MaxEvents, lookback)
    IN  /\ past \cap late = {}
        /\ \A m \in w \ late : \E c \in DOMAIN chart :
             /\ b.start + c * b.bin <= events[m].ts
             /\ events[m].ts < b.start + (c + 1) * b.bin
             /\ chart[c] > 0
        /\ SumOver(chart) + Cardinality(late) = st.total
        /\ SumOver(rates.errors) + Cardinality(OfLevel(late, levelError)) = st.error
        /\ SumOver(rates.warns) + Cardinality(OfLevel(late, levelWarn)) = st.warn
        /\ \A topN \in TableSizes :
             LET parts == ThroughputSegmented(now, topN, lookback)
             IN  \A c \in DOMAIN chart : SumOver([r \in DOMAIN parts |-> parts[r][c]]) = chart[c]
        /\ SumOver([r \in DOMAIN rows |-> rows[r].count]) = st.error + st.warn

\* A table cut off at n rows shows the n that matter: rows are in order, and
\* no error, client, route or issue left out outranks one that is shown.
TopIsTop ==
  \A now \in Nows, lookback \in Lookbacks, n \in TableSizes :
    LET issues  == Issues(now, lookback)
        errors  == TopErrors(now, n, lookback)
        health  == TopClientHealth(now, n, lookback)
        routes  == TopRoutes(now, n, lookback)
        recent  == RecentIssues(now, n, lookback)
        Alike(m)  == Cardinality({o \in issues : events[o].message = events[m].message
                                               /\ events[o].level = events[m].level})
        ByClient(c) == Cardinality({o \in issues : events[o].client = c})
        ByRoute(r)  == Cardinality({o \in Window(now, lookback) : events[o].route = r})
        Shown(s)    == {s[r] : r \in DOMAIN s}
    IN  /\ \A m \in issues :
             \/ \E row \in Shown(errors) :
                  <<row.message, row.level, row.count>> = <<events[m].message, events[m].level, Alike(m)>>
             \/ Len(errors) = n /\ \A row \in Shown(errors) : row.count >= Alike(m)
        /\ \A m \in issues : events[m].client # 0 =>
             \/ \E row \in Shown(health) : row.client = events[m].client
             \/ Len(health) = n
        /\ \A row \in Shown(health) : row.errors + row.warns = ByClient(row.client)
        /\ \A m \in issues, row \in Shown(health) :
             \/ events[m].client = 0
             \/ events[m].client \in {shown.client : shown \in Shown(health)}
             \/ ByClient(events[m].client) <= row.errors + row.warns
        /\ \A m \in Window(now, lookback), row \in Shown(routes) :
             \/ events[m].route \in {0} \cup {shown.message : shown \in Shown(routes)}
             \/ ByRoute(events[m].route) <= row.count
        /\ Len(recent) = IF Cardinality(issues) > n THEN n ELSE Cardinality(issues)
        /\ \A m \in issues \ Shown(recent), o \in Shown(recent) : Older(m, o)
        /\ \A p, q \in DOMAIN recent : p < q => Older(recent[q], recent[p])
        /\ \A p, q \in DOMAIN errors : p < q => errors[p].count >= errors[q].count

\* The cost panel adds up: the rows make up the total, negative sums aside,
\* the models make up the cost of the events that name one, and a window that
\* began before midnight, or over an hour ago, costs no less than today, or
\* the trailing hour.
CostAddsUp ==
  \A now \in Nows, lookback \in Lookbacks, role \in {costDimNone, costDimGroup, costDimModel} :
    LET rep  == Cost(now, lookback, role)
        w    == {m \in Window(now, lookback) : events[m].cost # NaN}
        refunds == \E m \in DOMAIN events : events[m].cost # NaN /\ events[m].cost < 0
        Rows(s) == SumOver([r \in DOMAIN s |-> s[r].dollars])
    IN  /\ Rows(rep.byGroup) >= rep.total
        /\ ~refunds =>
             /\ Rows(rep.byGroup) = rep.total
             /\ role = costDimModel =>
                  Rows(rep.byModel) = Dollars({m \in w : events[m].costDim # 0})
             /\ now - lookback < Truncate(now, Day) => rep.today <= rep.total
             /\ lookback > Hour => rep.trailingHour <= rep.total
        /\ \A p, q \in DOMAIN rep.byGroup : p < q =>
             rep.byGroup[p].dollars >= rep.byGroup[q].dollars

\* Panels drawn from one store at one time agree, although each query picks
\* its window, its bins and its keys for itself (stats, throughput, errorRate,
\* throughputSegmented, topErrors, topClientHealth, topRoutes, recentIssues,
\* cost), but for events timed past the present bin, which are counted and not
\* charted.  An empty store has nothing to disagree on.
PanelsAgree == events # <<>> => ChartsAddUp /\ TopIsTop /\ CostAddsUp

==============================================================================
