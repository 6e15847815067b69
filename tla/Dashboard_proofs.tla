--------------------------- MODULE Dashboard_proofs ---------------------------
(***************************************************************************)
(* The safety invariants of the update loop, for every set of sources,     *)
(* every batch and buffer size, and any number of commands on their way.   *)
(***************************************************************************)
EXTENDS Dashboard, SequenceTheorems, WellFoundedInduction, TLAPS

------------------------------------------------------------------------------
(***************************************************************************)
(* Sequences.                                                              *)
(***************************************************************************)
\* Removing one element keeps all the others.
LEMMA RemoveKeeps ==
  ASSUME NEW S, NEW s \in Seq(S), NEW i \in DOMAIN s, NEW t, t = RemoveAt(s, i)
  PROVE  /\ t \in Seq(S)
         /\ Len(t) = Len(s) - 1
         /\ \A j \in DOMAIN s : j # i => \E k \in DOMAIN t : t[k] = s[j]
<1>1. Len(s) \in Nat /\ DOMAIN s = 1..Len(s) /\ i \in 1..Len(s)
  BY LenProperties
<1>2. \A j \in 1..Len(s) : s[j] \in S
  BY ElementOfSeq
<1> DEFINE n == Len(s)
           l == SubSeq(s, 1, i - 1)
           r == SubSeq(s, i + 1, n)
<1>3. n \in Nat /\ i \in 1..n
  BY <1>1
<1>4. l \in Seq(S) /\ Len(l) = i - 1 /\ \A k \in 1..(i - 1) : l[k] = s[k]
  <2>1. \A k \in 1..(i - 1) : s[k] \in S
    BY <1>2, <1>3
  <2>2. /\ l \in Seq(S)
        /\ Len(l) = IF 1 <= i - 1 THEN i - 1 - 1 + 1 ELSE 0
        /\ \A k \in 1..(i - 1 - 1 + 1) : l[k] = s[1 + k - 1]
    BY <1>3, <2>1, SubSeqProperties
  <2> HIDE DEF l, n
  <2>3. Len(l) = i - 1
    BY <1>3, <2>2
  <2>4. ASSUME NEW k \in 1..(i - 1) PROVE l[k] = s[k]
    <3>1. k \in 1..(i - 1 - 1 + 1) /\ 1 + k - 1 = k
      BY <1>3
    <3> QED BY <2>2, <3>1
  <2> QED BY <2>2, <2>3, <2>4
<1>5. r \in Seq(S) /\ Len(r) = n - i /\ \A k \in 1..(n - i) : r[k] = s[i + k]
  <2>1. \A k \in (i + 1)..n : s[k] \in S
    BY <1>2, <1>3
  <2>2. /\ r \in Seq(S)
        /\ Len(r) = IF i + 1 <= n THEN n - (i + 1) + 1 ELSE 0
        /\ \A k \in 1..(n - (i + 1) + 1) : r[k] = s[(i + 1) + k - 1]
    <3>1. i + 1 \in Int /\ n \in Int
      BY <1>3
    <3> HIDE DEF n
    <3> QED BY <2>1, <3>1, SubSeqProperties
  <2> HIDE DEF r, n
  <2>3. Len(r) = n - i
    BY <1>3, <2>2
  <2>4. ASSUME NEW k \in 1..(n - i) PROVE r[k] = s[i + k]
    <3>1. k \in 1..(n - (i + 1) + 1) /\ (i + 1) + k - 1 = i + k
      BY <1>3
    <3> QED BY <2>2, <3>1
  <2> QED BY <2>2, <2>3, <2>4
<1>6. t = l \o r
  BY DEF RemoveAt
<1> HIDE DEF l, r, n
<1>7. /\ t \in Seq(S)
      /\ Len(t) = Len(l) + Len(r)
      /\ \A k \in 1..(Len(l) + Len(r)) : t[k] = IF k <= Len(l) THEN l[k] ELSE r[k - Len(l)]
  BY <1>4, <1>5, <1>6, ConcatProperties
<1>8. Len(t) = n - 1 /\ DOMAIN t = 1..(n - 1)
  <2>1. Len(t) = n - 1
    BY <1>3, <1>4, <1>5, <1>7
  <2> QED BY <1>7, <2>1, LenProperties
<1>9. \A k \in 1..(n - 1) : t[k] = IF k < i THEN s[k] ELSE s[k + 1]
  <2> SUFFICES ASSUME NEW k \in 1..(n - 1) PROVE t[k] = IF k < i THEN s[k] ELSE s[k + 1]
    OBVIOUS
  <2>1. t[k] = IF k <= i - 1 THEN l[k] ELSE r[k - (i - 1)]
    <3>1. k \in 1..(Len(l) + Len(r)) /\ Len(l) = i - 1
      BY <1>3, <1>4, <1>5
    <3> QED BY <1>7, <3>1
  <2>2. CASE k < i
    BY <1>3, <1>4, <2>1, <2>2
  <2>3. CASE ~(k < i)
    <3>1. k - (i - 1) \in 1..(n - i) /\ i + (k - (i - 1)) = k + 1 /\ ~(k <= i - 1)
      BY <1>3, <2>3
    <3>2. r[k - (i - 1)] = s[i + (k - (i - 1))]
      BY <1>5, <3>1
    <3> QED BY <2>1, <2>3, <3>1, <3>2
  <2> QED BY <2>2, <2>3
<1>10. DOMAIN s = 1..n
  BY <1>1 DEF n
<1>12. ASSUME NEW j \in DOMAIN s, j # i PROVE \E k \in DOMAIN t : t[k] = s[j]
  <2>1. CASE j < i
    <3>1. j \in 1..(n - 1)
      BY <1>3, <1>10, <2>1
    <3> QED BY <1>8, <1>9, <2>1, <3>1
  <2>2. CASE ~(j < i)
    <3>1. j - 1 \in 1..(n - 1) /\ ~(j - 1 < i) /\ (j - 1) + 1 = j
      BY <1>3, <1>10, <1>12, <2>2
    <3>2. t[j - 1] = s[(j - 1) + 1]
      BY <1>9, <3>1
    <3> QED BY <1>8, <3>1, <3>2
  <2> QED BY <2>1, <2>2
<1>13. Len(t) = Len(s) - 1
  BY <1>8 DEF n
<1> QED BY <1>7, <1>12, <1>13

Joins(S, u, s, t) ==
  /\ u \in Seq(S)
  /\ Len(u) = Len(s) + Len(t)
  /\ \A j \in DOMAIN s : j \in DOMAIN u /\ u[j] = s[j]
  /\ \A j \in DOMAIN t : \E k \in DOMAIN u : u[k] = t[j]

\* A concatenation keeps the first part in its place, and has every element
\* of the second.
LEMMA ConcatKeeps ==
  ASSUME NEW S, NEW s \in Seq(S), NEW t \in Seq(S)
  PROVE  Joins(S, s \o t, s, t)
<1> DEFINE u == s \o t
<1>1. /\ Len(s) \in Nat /\ DOMAIN s = 1..Len(s)
      /\ Len(t) \in Nat /\ DOMAIN t = 1..Len(t)
  BY LenProperties
<1>2. /\ u \in Seq(S)
      /\ Len(u) = Len(s) + Len(t)
      /\ \A k \in 1..(Len(s) + Len(t)) : u[k] = IF k <= Len(s) THEN s[k] ELSE t[k - Len(s)]
  BY ConcatProperties
<1> HIDE DEF u
<1>3. DOMAIN u = 1..(Len(s) + Len(t))
  BY <1>2, LenProperties
<1>5. ASSUME NEW j \in DOMAIN s PROVE j \in DOMAIN u /\ u[j] = s[j]
  BY <1>1, <1>2, <1>3
<1>6. ASSUME NEW j \in DOMAIN t PROVE \E k \in DOMAIN u : u[k] = t[j]
  <2>1. j + Len(s) \in DOMAIN u /\ ~(j + Len(s) <= Len(s)) /\ (j + Len(s)) - Len(s) = j
    BY <1>1, <1>3
  <2>2. u[j + Len(s)] = t[(j + Len(s)) - Len(s)]
    BY <1>2, <1>3, <2>1
  <2> QED BY <2>1, <2>2
<1> QED BY <1>2, <1>5, <1>6 DEF Joins, u

------------------------------------------------------------------------------
(***************************************************************************)
(* The log: whatever all its rows and all the rows of a batch have in      *)
(* common, all its rows have in common when the batch has been added.      *)
(***************************************************************************)
LEMMA LeastElement ==
  ASSUME NEW S \in SUBSET Nat, S # {}
  PROVE  \E x \in S : \A y \in S : x <= y
<1>1. PICK x \in S : \A y \in S : ~(<<y, x>> \in OpToRel(<, Nat))
  BY NatLessThanWellFounded, WFMin
<1>2. \A y \in S : <<y, x>> \in Nat \X Nat /\ ~(y < x)
  BY <1>1 DEF OpToRel
<1>3. ASSUME NEW y \in S PROVE x <= y
  <2>1. x \in Nat /\ y \in Nat /\ ~(y < x)
    BY <1>2
  <2> QED BY <2>1
<1> QED BY <1>3

\* Induction, for the set of the numbers that have a property.
LEMMA SetInduction ==
  ASSUME NEW S, 0 \in S, \A n \in S \cap Nat : n + 1 \in S
  PROVE  Nat \subseteq S
<1> SUFFICES ASSUME Nat \ S # {} PROVE FALSE
  OBVIOUS
<1>1. PICK x \in Nat \ S : \A y \in Nat \ S : x <= y
  BY LeastElement
<1>2. x - 1 \in S /\ x - 1 \in Nat
  BY <1>1
<1> QED BY <1>1, <1>2

LEMMA AddKeeps ==
  ASSUME NEW S, NEW s \in Seq(S), NEW ev \in S
  PROVE  Buffer!Add(s, ev) \in Seq(S)
<1> DEFINE a == Append(s, ev)
<1>1. a \in Seq(S) /\ Len(a) \in Nat /\ \A i \in 1..Len(a) : a[i] \in S
  <2>1. a \in Seq(S)
    BY AppendProperties
  <2> QED BY <2>1, LenProperties, ElementOfSeq
<1>2. Buffer!Latest(a, BufferSize) \in Seq(S)
  <2> DEFINE from == IF Len(a) > BufferSize THEN Len(a) - BufferSize + 1 ELSE 1
  <2>1. from \in 1..(Len(a) + 1)
    BY <1>1, DashboardAssumption
  <2>2. \A i \in from..Len(a) : a[i] \in S
    BY <1>1, <2>1
  <2> HIDE DEF a
  <2>3. SubSeq(a, from, Len(a)) \in Seq(S)
    <3> HIDE DEF from
    <3> QED BY <1>1, <2>1, <2>2, SubSeqProperties
  <2> QED BY <2>3 DEF Buffer!Latest
<1> QED BY <1>2 DEF Buffer!Add

\* f lists the logs after 0, 1, ..., n rows of batch have been added to s.
IsAdded(f, s, batch, n) ==
  f = [m \in 0..n |-> IF m = 0 THEN s ELSE Buffer!Add(f[m - 1], batch[m])]

LEMMA AddedExists ==
  ASSUME NEW n \in Nat, NEW s, NEW batch
  PROVE  \E f : IsAdded(f, s, batch, n)
<1> DEFINE S == {m \in Nat : \E f : IsAdded(f, s, batch, m)}
<1>1. 0 \in S
  <2>1. IsAdded([m \in 0..0 |-> s], s, batch, 0)
    BY DEF IsAdded
  <2> QED BY <2>1
<1>2. ASSUME NEW m \in S PROVE m + 1 \in S
  <2>1. m \in Nat
    OBVIOUS
  <2>2. PICK f : f = [k \in 0..m |-> IF k = 0 THEN s ELSE Buffer!Add(f[k - 1], batch[k])]
    BY DEF IsAdded
  <2> DEFINE g == [k \in 0..(m + 1) |-> IF k = m + 1 THEN Buffer!Add(f[m], batch[m + 1])
                                                     ELSE f[k]]
  <2>3. ASSUME NEW k \in 0..(m + 1)
        PROVE  g[k] = IF k = 0 THEN s ELSE Buffer!Add(g[k - 1], batch[k])
    <3>1. CASE k = m + 1
      <4>1. g[k] = Buffer!Add(f[m], batch[k]) /\ g[m] = f[m] /\ k - 1 = m /\ k # 0
        BY <2>1, <3>1
      <4> QED BY <4>1
    <3>2. CASE k # m + 1 /\ k # 0
      <4>1. k - 1 \in 0..m /\ k - 1 \in 0..(m + 1) /\ k - 1 # m + 1 /\ k \in 0..m
        BY <2>1, <3>2
      <4>2. g[k] = f[k] /\ g[k - 1] = f[k - 1]
        BY <3>2, <4>1
      <4>3. f[k] = Buffer!Add(f[k - 1], batch[k])
        BY <2>2, <3>2, <4>1
      <4> QED BY <3>2, <4>2, <4>3
    <3>3. CASE k = 0
      <4>1. 0 \in 0..m /\ 0 # m + 1
        BY <2>1
      <4>2. g[0] = f[0] /\ f[0] = s
        BY <2>1, <2>2, <4>1
      <4> QED BY <3>3, <4>2
    <3> QED BY <3>1, <3>2, <3>3
  <2>4. g = [k \in 0..(m + 1) |-> g[k]]
    OBVIOUS
  <2> HIDE DEF g
  <2>5. IsAdded(g, s, batch, m + 1)
    BY <2>3, <2>4 DEF IsAdded
  <2> QED BY <2>1, <2>5
<1>3. n \in S
  <2> HIDE DEF S
  <2> QED BY <1>1, <1>2, SetInduction
<1> QED BY <1>3

LEMMA AddAllKeeps ==
  ASSUME NEW S, NEW s \in Seq(S), NEW batch \in Seq(S)
  PROVE  Buffer!AddAll(s, batch) \in Seq(S)
<1>1. Len(batch) \in Nat /\ \A m \in 1..Len(batch) : batch[m] \in S
  BY LenProperties, ElementOfSeq
<1> DEFINE n     == Len(batch)
           added == CHOOSE f : IsAdded(f, s, batch, n)
<1>2. IsAdded(added, s, batch, n)
  BY <1>1, AddedExists
<1>3. Buffer!AddAll(s, batch) = added[n]
  BY DEF Buffer!AddAll, IsAdded
<1> HIDE DEF added
<1>4. \A m \in 0..n : added[m] = IF m = 0 THEN s ELSE Buffer!Add(added[m - 1], batch[m])
  BY <1>2 DEF IsAdded
<1> DEFINE M == {m \in Nat : m <= n => added[m] \in Seq(S)}
<1>5. 0 \in M
  BY <1>1, <1>4
<1>6. ASSUME NEW m \in M \cap Nat PROVE m + 1 \in M
  <2> SUFFICES ASSUME m + 1 <= n PROVE added[m + 1] \in Seq(S)
    OBVIOUS
  <2>1. added[m] \in Seq(S) /\ batch[m + 1] \in S
    BY <1>1
  <2>2. Buffer!Add(added[m], batch[m + 1]) \in Seq(S)
    BY <2>1, AddKeeps
  <2>3. m + 1 \in 0..n /\ m + 1 # 0 /\ (m + 1) - 1 = m
    BY <1>1
  <2> QED BY <1>4, <2>2, <2>3
<1>7. n \in M
  <2> HIDE DEF M
  <2> QED BY <1>1, <1>5, <1>6, SetInduction
<1> QED BY <1>1, <1>3, <1>7

------------------------------------------------------------------------------
(***************************************************************************)
(* The inductive invariant.  The invariants that the runs check speak of   *)
(* what has arrived; they are kept because of what is known of every       *)
(* command that is still on its way.                                       *)
(***************************************************************************)
\* Every event below c, from the newest first batch on, was appended.
Reached(c) == \A n \in 1..MaxEvents : firstAt < n /\ n < c => n \in shown

\* A batch is of its command's epoch, and has no gap: all the events from the
\* cursor it was asked for to the one it returns.
Carries(f) ==
  /\ \A n \in DOMAIN f.value.events : f.value.events[n].epoch = f.epoch
  /\ f.arg # 0 => \A n \in 1..MaxEvents : f.arg <= n /\ n < f.value.next =>
                     \E m \in DOMAIN f.value.events : f.value.events[m].event = n

\* A command of the current epoch reads the current source, from a cursor
\* that the log has reached.
FetchInv(f) ==
  /\ f.state = "done" <=> f.value # None
  /\ f.epoch <= epoch
  /\ f.epoch = epoch => f.src = name
  /\ f.kind = "hydrate" => f.arg.epoch = f.epoch /\ (f.state = "done" => f.value = f.arg)
  /\ f.kind = "panel" /\ f.state = "done" => f.value.epoch = f.epoch
  /\ f.kind = "logs" /\ f.epoch = epoch /\ f.arg # 0 => Reached(f.arg)
  /\ f.kind = "logs" /\ f.state = "done" => Carries(f)

Known == {f \in Fetch : FetchInv(f)}

FlightInv == flight \in Seq(Known)

DashInv ==
  TypeOK /\ FlightInv /\ NothingForeign /\ NoGap /\ ModalOwnRow /\ SettledMeansRefreshed

------------------------------------------------------------------------------
(***************************************************************************)
(* Commands.                                                               *)
(***************************************************************************)
LEMMA FetchTypes ==
  ASSUME NEW f \in Fetch
  PROVE  /\ f.epoch \in 1..MaxEpoch /\ f.src \in Sources
         /\ f.state \in {"running", "failed", "done"}
         /\ f.kind \in {"logs", "panel", "hydrate"}
         /\ f.kind = "logs" => f \in Command("logs", 0..(MaxEvents + 1), Batch)
         /\ f.kind = "panel" => f \in Command("panel", Range(Ranges), Results)
         /\ f.kind = "hydrate" => f \in Command("hydrate", Row, Row)
BY DEF Fetch, Command

\* What is known of a message that has a value.
LEMMA MessageTypes ==
  ASSUME NEW f \in Fetch, f.value # None
  PROVE  /\ f.kind = "logs" => f.arg \in 0..(MaxEvents + 1) /\ f.value \in Batch
         /\ f.kind = "panel" => f.value \in Results
         /\ f.kind = "hydrate" => f.arg \in Row /\ f.value \in Row
BY FetchTypes DEF Command

LEMMA NewFetches ==
  /\ \A ep \in 1..MaxEpoch, src \in Sources, arg \in 0..(MaxEvents + 1) :
       Running("logs", ep, src, arg) \in Fetch
  /\ \A ep \in 1..MaxEpoch, src \in Sources, arg \in Range(Ranges) :
       Running("panel", ep, src, arg) \in Fetch
  /\ \A ep \in 1..MaxEpoch, src \in Sources, arg \in Row :
       Running("hydrate", ep, src, arg) \in Fetch
BY DEF Fetch, Command, Running

\* What a step does to what is known of a command that it leaves alone.
LEMMA FetchKept ==
  ASSUME TypeOK, epoch' \in Nat, firstAt' \in Nat, NEW f \in Fetch, FetchInv(f),
         \/ /\ epoch' = epoch /\ name' = name
            /\ shown \subseteq shown' /\ firstAt <= firstAt'
         \/ epoch' > epoch
  PROVE  FetchInv(f)'
<1>1. /\ epoch \in Nat /\ epoch' \in Nat /\ firstAt \in Nat /\ firstAt' \in Nat
      /\ f.epoch \in Nat
  <2>1. f.epoch \in Nat
    BY FetchTypes, DashboardAssumption
  <2>2. epoch \in Nat /\ firstAt \in Nat
    BY DashboardAssumption DEF TypeOK
  <2> QED BY <2>1, <2>2
<1>2. Carries(f)' <=> Carries(f)
  BY DEF Carries
<1>3. CASE epoch' = epoch /\ name' = name /\ shown \subseteq shown' /\ firstAt <= firstAt'
  <2>1. ASSUME Reached(f.arg) PROVE Reached(f.arg)'
    BY <1>1, <1>3, <2>1, DashboardAssumption DEF Reached
  <2> QED BY <1>2, <1>3, <2>1 DEF FetchInv
<1>4. CASE epoch' > epoch
  <2>1. f.epoch <= epoch' /\ f.epoch # epoch'
    BY <1>1, <1>4 DEF FetchInv
  <2> QED BY <1>2, <2>1 DEF FetchInv
<1> QED BY <1>3, <1>4

\* The rows from one event to another.
LEMMA RowsFit ==
  ASSUME NEW ep \in 1..MaxEpoch, NEW from \in Nat \ {0}, NEW to \in 0..MaxEvents
  PROVE  /\ Rows(ep, from, to) \in Seq(Row)
         /\ \A n \in DOMAIN Rows(ep, from, to) : Rows(ep, from, to)[n].epoch = ep
         /\ \A n \in 1..MaxEvents : from <= n /\ n <= to =>
              \E m \in DOMAIN Rows(ep, from, to) : Rows(ep, from, to)[m].event = n
<1> DEFINE k == to - from + 1
           rows == Rows(ep, from, to)
<1>1. rows = [i \in 1..k |-> [epoch |-> ep, event |-> from + i - 1]]
  BY DEF Rows
<1>2. \A i \in 1..k : from + i - 1 \in 1..MaxEvents
  BY DashboardAssumption
<1>3. k \in Int
  BY DashboardAssumption
<1> HIDE DEF rows
<1>4. rows \in Seq(Row)
  <2>1. \A i \in 1..k : rows[i] \in Row
    BY <1>1, <1>2 DEF Row
  <2>2. CASE k >= 0
    <3>1. k \in Nat
      BY <1>3, <2>2
    <3> HIDE DEF k
    <3>2. rows \in [1..k -> Row]
      BY <1>1, <2>1
    <3> QED BY <3>1, <3>2, SeqDef
  <2>3. CASE k < 0
    <3>1. 1..k = 1..0
      BY <1>3, <2>3
    <3>2. rows \in [1..0 -> Row] /\ 0 \in Nat
      BY <1>1, <3>1
    <3> QED BY <3>2, SeqDef
  <2> QED BY <1>3, <2>2, <2>3
<1>5. ASSUME NEW n \in 1..MaxEvents, from <= n, n <= to
      PROVE  \E m \in DOMAIN rows : rows[m].event = n
  <2>1. n - from + 1 \in 1..k /\ from + (n - from + 1) - 1 = n
    BY <1>3, <1>5, DashboardAssumption
  <2> QED BY <1>1, <2>1
<1>6. \A n \in DOMAIN rows : rows[n].epoch = ep
  BY <1>1
<1> QED BY <1>4, <1>5, <1>6 DEF rows

LEMMA StreamedFits ==
  ASSUME NEW f, f.epoch \in 1..MaxEpoch, f.arg \in 0..(MaxEvents + 1),
         published[f.src] \in 0..MaxEvents, NEW v, v = Streamed(f)
  PROVE  /\ v \in Batch
         /\ \A n \in DOMAIN v.events : v.events[n].epoch = f.epoch
         /\ f.arg # 0 => \A n \in 1..MaxEvents : f.arg <= n /\ n < v.next =>
                            \E m \in DOMAIN v.events : v.events[m].event = n
<1> DEFINE last == published[f.src]
           from == IF f.arg # 0 THEN f.arg
                     ELSE IF last > StreamLimit THEN last - StreamLimit + 1 ELSE 1
           to   == IF from + StreamLimit - 1 <= last THEN from + StreamLimit - 1 ELSE last
           rows == Rows(f.epoch, from, to)
<1>1. CASE f.arg = 0 /\ loading[f.src]
  <2>1. v = [events |-> <<>>, next |-> 0]
    BY <1>1 DEF Streamed
  <2>2. v.events = <<>> /\ <<>> \in Seq(Row) /\ DOMAIN v.events = {}
    BY <2>1
  <2>3. v \in Batch
    BY <2>1, <2>2, DashboardAssumption DEF Batch
  <2> QED BY <1>1, <2>2, <2>3
<1>2. CASE ~(f.arg = 0 /\ loading[f.src])
  <2>1. v = [events |-> rows, next |-> to + 1]
    BY <1>2 DEF Streamed
  <2>2. from \in Nat \ {0} /\ to \in 0..MaxEvents /\ (f.arg # 0 => from = f.arg)
    <3>1. last \in Nat /\ last <= MaxEvents /\ f.arg \in Nat
      BY DashboardAssumption
    <3> HIDE DEF last
    <3>2. from \in Nat \ {0} /\ (f.arg # 0 => from = f.arg)
      BY <3>1, DashboardAssumption
    <3> HIDE DEF from
    <3>3. to \in 0..MaxEvents
      BY <3>1, <3>2, DashboardAssumption
    <3> QED BY <3>2, <3>3
  <2> HIDE DEF from, to, rows
  <2>3. /\ rows \in Seq(Row)
        /\ \A n \in DOMAIN rows : rows[n].epoch = f.epoch
        /\ \A n \in 1..MaxEvents : from <= n /\ n <= to =>
              \E m \in DOMAIN rows : rows[m].event = n
    BY <2>2, RowsFit DEF rows
  <2>4. v \in Batch
    BY <2>1, <2>2, <2>3, DashboardAssumption DEF Batch
  <2>5. v.events = rows /\ v.next = to + 1
    BY <2>1
  <2>6. ASSUME f.arg # 0, NEW n \in 1..MaxEvents, f.arg <= n, n < v.next
        PROVE  \E m \in DOMAIN v.events : v.events[m].event = n
    <3>1. from <= n /\ n <= to
      BY <2>2, <2>5, <2>6
    <3> QED BY <2>3, <2>5, <3>1
  <2> QED BY <2>3, <2>4, <2>5, <2>6
<1> QED BY <1>1, <1>2

\* What a command brings back fits its kind and satisfies what is said of
\* messages.
LEMMA AnswerFits ==
  ASSUME TypeOK, NEW f \in Fetch, FetchInv(f), f.state = "running",
         NEW g, g = [f EXCEPT !.state = "done", !.value = Answer(f)]
  PROVE  /\ g \in Fetch
         /\ FetchInv(g)
         /\ f.kind = "panel" => g.value.complete = ~loading[f.src]
<1>1. /\ f.epoch \in 1..MaxEpoch /\ f.src \in Sources
      /\ f.kind \in {"logs", "panel", "hydrate"}
  BY FetchTypes
<1>2. loading[f.src] \in BOOLEAN /\ published[f.src] \in 0..MaxEvents
  BY <1>1 DEF TypeOK
<1>3. CASE f.kind = "panel"
  <2>1. f \in Command("panel", Range(Ranges), Results) /\ f.arg \in Range(Ranges)
    BY <1>3, FetchTypes DEF Command
  <2>2. Answer(f) = [epoch |-> f.epoch, range |-> f.arg, complete |-> ~loading[f.src]]
    BY <1>3 DEF Answer
  <2>3. Answer(f) \in Results
    BY <1>1, <1>2, <2>1, <2>2 DEF Results
  <2>4. g \in Command("panel", Range(Ranges), Results) /\ g.value = Answer(f)
    BY <2>1, <2>3 DEF Command
  <2>5. g \in Fetch
    BY <2>4 DEF Fetch
  <2>6. g.value # None
    BY <2>3, <2>4, NoneAssumption
  <2>7. /\ g.epoch = f.epoch /\ g.src = f.src /\ g.kind = f.kind /\ g.arg = f.arg
        /\ g.state = "done"
    BY <2>1 DEF Command
  <2>8. g.value.epoch = f.epoch /\ g.value.complete = ~loading[f.src]
    BY <2>2, <2>4
  <2> QED BY <1>3, <2>5, <2>6, <2>7, <2>8 DEF FetchInv
<1>4. CASE f.kind = "hydrate"
  <2>1. f \in Command("hydrate", Row, Row) /\ f.arg \in Row
    BY <1>4, FetchTypes DEF Command
  <2>2. Answer(f) = f.arg
    BY <1>4 DEF Answer
  <2>3. g \in Command("hydrate", Row, Row) /\ g.value = f.arg
    BY <2>1, <2>2 DEF Command
  <2>4. g \in Fetch
    BY <2>3 DEF Fetch
  <2>5. g.value # None
    BY <2>1, <2>3, NoneAssumption
  <2>6. /\ g.epoch = f.epoch /\ g.src = f.src /\ g.kind = f.kind /\ g.arg = f.arg
        /\ g.state = "done"
    BY <2>1 DEF Command
  <2> QED BY <1>4, <2>3, <2>4, <2>5, <2>6 DEF FetchInv
<1>5. CASE f.kind = "logs"
  <2>1. f \in Command("logs", 0..(MaxEvents + 1), Batch) /\ f.arg \in 0..(MaxEvents + 1)
    BY <1>5, FetchTypes DEF Command
  <2>2. Answer(f) = Streamed(f)
    BY <1>5 DEF Answer
  <2>3. /\ Streamed(f) \in Batch
        /\ \A n \in DOMAIN Streamed(f).events : Streamed(f).events[n].epoch = f.epoch
        /\ f.arg # 0 => \A n \in 1..MaxEvents : f.arg <= n /\ n < Streamed(f).next =>
              \E m \in DOMAIN Streamed(f).events : Streamed(f).events[m].event = n
    BY <1>1, <1>2, <2>1, StreamedFits
  <2>4. g \in Command("logs", 0..(MaxEvents + 1), Batch) /\ g.value = Streamed(f)
    BY <2>1, <2>2, <2>3 DEF Command
  <2>5. g \in Fetch
    BY <2>4 DEF Fetch
  <2>6. g.value # None
    BY <2>3, <2>4, NoneAssumption
  <2>7. /\ g.epoch = f.epoch /\ g.src = f.src /\ g.kind = f.kind /\ g.arg = f.arg
        /\ g.state = "done"
    BY <2>1 DEF Command
  <2>8. Carries(g)
    BY <2>3, <2>4, <2>7 DEF Carries
  <2> QED BY <1>5, <2>5, <2>6, <2>7, <2>8 DEF FetchInv
<1> QED BY <1>1, <1>3, <1>4, <1>5

------------------------------------------------------------------------------
(***************************************************************************)
(* What is on its way: what is known of it, and what it will end.          *)
(***************************************************************************)
SoundFlight == flight \in Seq(Known) /\ Len(flight) <= MaxFlight + 1

\* Commands that end the loading of the modal.
Ending == {f \in Fetch : f.kind = "hydrate" /\ f.epoch = epoch /\ f.arg = expandedLog.row}

\* Commands that bring the panels a refresh from the complete store, or the
\* news that it failed.
Refreshing ==
  {f \in Fetch : /\ f.kind = "panel"
                 /\ f.epoch = epoch
                 /\ CASE f.state = "running" -> ~loading[name]
                      [] f.state = "failed"  -> TRUE
                      [] f.state = "done"    -> f.value.complete}

LEMMA FlightElements ==
  ASSUME SoundFlight
  PROVE  \A i \in DOMAIN flight : flight[i] \in Fetch /\ flight[i] \in Known /\ FetchInv(flight[i])
BY ElementOfSeq, LenProperties DEF SoundFlight, Known

LEMMA FlightReceived ==
  ASSUME SoundFlight, NEW i \in DOMAIN flight, flight' = RemoveAt(flight, i), Known \subseteq Known'
  PROVE  /\ SoundFlight'
         /\ \A j \in DOMAIN flight : j # i => \E k \in DOMAIN flight' : flight'[k] = flight[j]
<1>1. flight \in Seq(Known')
  BY SeqMonotonic DEF SoundFlight
<1>2. /\ flight' \in Seq(Known')
      /\ Len(flight') = Len(flight) - 1
      /\ \A j \in DOMAIN flight : j # i => \E k \in DOMAIN flight' : flight'[k] = flight[j]
  BY <1>1, RemoveKeeps
<1>3. Len(flight) \in Nat /\ Len(flight) <= MaxFlight + 1
  BY <1>1, LenProperties DEF SoundFlight
<1>4. Len(flight') <= MaxFlight + 1
  BY <1>2, <1>3, DashboardAssumption
<1> QED BY <1>2, <1>4 DEF SoundFlight

LEMMA FlightIssued ==
  ASSUME SoundFlight, NEW cmds \in Seq(Known'), Len(cmds) <= 2, Issue(cmds), Known \subseteq Known'
  PROVE  /\ SoundFlight'
         /\ \A j \in DOMAIN flight : \E k \in DOMAIN flight' : flight'[k] = flight[j]
         /\ \A j \in DOMAIN cmds : \E k \in DOMAIN flight' : flight'[k] = cmds[j]
<1>1. flight \in Seq(Known')
  BY SeqMonotonic DEF SoundFlight
<1>2. flight' = flight \o cmds /\ Len(flight) < MaxFlight
  BY DEF Issue
<1>3. /\ flight' \in Seq(Known')
      /\ Len(flight') = Len(flight) + Len(cmds)
      /\ \A j \in DOMAIN flight : j \in DOMAIN flight' /\ flight'[j] = flight[j]
      /\ \A j \in DOMAIN cmds : \E k \in DOMAIN flight' : flight'[k] = cmds[j]
  <2>1. Joins(Known', flight \o cmds, flight, cmds)
    BY <1>1, ConcatKeeps, Zenon
  <2> QED BY <1>2, <2>1 DEF Joins
<1>4. Len(flight') <= MaxFlight + 1
  <2>1. Len(flight) \in Nat /\ Len(cmds) \in Nat
    BY <1>1, LenProperties
  <2> QED BY <1>2, <1>3, <2>1, DashboardAssumption
<1> QED BY <1>3, <1>4 DEF SoundFlight

LEMMA FlightSet ==
  ASSUME SoundFlight, NEW i \in DOMAIN flight, NEW g \in Known',
         flight' = [flight EXCEPT ![i] = g], Known \subseteq Known'
  PROVE  /\ SoundFlight'
         /\ DOMAIN flight' = DOMAIN flight
         /\ \A j \in DOMAIN flight : flight'[j] = IF j = i THEN g ELSE flight[j]
<1>1. flight \in Seq(Known') /\ DOMAIN flight = 1..Len(flight)
  BY SeqMonotonic, LenProperties DEF SoundFlight
<1>2. /\ flight' \in Seq(Known')
      /\ Len(flight') = Len(flight)
      /\ \A j \in 1..Len(flight) : flight'[j] = IF j = i THEN g ELSE flight[j]
  BY <1>1, ExceptSeq
<1>3. DOMAIN flight' = DOMAIN flight
  BY <1>1, <1>2, LenProperties
<1> QED BY <1>1, <1>2, <1>3 DEF SoundFlight

\* The two invariants that promise that something is on its way.
LEMMA ModalKept ==
  ASSUME ModalOwnRow, SoundFlight, UNCHANGED <<mode, expandedLog, expandLoading>>,
         SoundFlight', epoch' = epoch \/ ~expandLoading,
         \A j \in DOMAIN flight :
           flight[j] \in Ending => \E k \in DOMAIN flight' : flight'[k] \in Ending
  PROVE  ModalOwnRow'
<1>1. CASE expandLoading
  <2>1. PICK j \in DOMAIN flight : /\ flight[j].kind = "hydrate" /\ flight[j].epoch = epoch
                                   /\ flight[j].arg = expandedLog.row
    BY <1>1 DEF ModalOwnRow
  <2>2. flight[j] \in Ending
    BY <2>1, FlightElements DEF Ending
  <2>3. PICK k \in DOMAIN flight' : flight'[k] \in Ending
    BY <2>2
  <2> QED BY <1>1, <2>3 DEF ModalOwnRow, Ending
<1>2. CASE ~expandLoading
  BY <1>2 DEF ModalOwnRow
<1> QED BY <1>1, <1>2

LEMMA SettledKept ==
  ASSUME SettledMeansRefreshed, SoundFlight, settled' => settled, refreshed => refreshed',
         \A j \in DOMAIN flight : flight[j] \in Refreshing =>
            refreshed' \/ \E k \in DOMAIN flight' : flight'[k] \in Refreshing'
  PROVE  SettledMeansRefreshed'
<1> SUFFICES ASSUME settled', ~refreshed'
             PROVE  \E k \in DOMAIN flight' : flight'[k] \in Refreshing'
  BY DEF SettledMeansRefreshed, Refreshing
<1>1. PICK j \in DOMAIN flight : /\ flight[j].kind = "panel"
                                 /\ flight[j].epoch = epoch
                                 /\ CASE flight[j].state = "running" -> ~loading[name]
                                      [] flight[j].state = "failed"  -> TRUE
                                      [] flight[j].state = "done"    -> flight[j].value.complete
  BY DEF SettledMeansRefreshed
<1>2. flight[j] \in Refreshing
  BY <1>1, FlightElements DEF Refreshing
<1> QED BY <1>2

LEMMA InvIsSound ==
  ASSUME DashInv
  PROVE  SoundFlight
BY DEF DashInv, FlightInv, TypeOK, SoundFlight

\* What was known of commands stays known while the epoch and its source stay
\* and the log only gains events; and when the epoch grows, it speaks of past
\* epochs only.
LEMMA KnownKept ==
  ASSUME TypeOK, epoch' \in Nat, firstAt' \in Nat,
         \/ /\ epoch' = epoch /\ name' = name
            /\ shown \subseteq shown' /\ firstAt <= firstAt'
         \/ epoch' > epoch
  PROVE  Known \subseteq Known'
<1> SUFFICES ASSUME NEW f \in Fetch, FetchInv(f) PROVE FetchInv(f)'
  BY DEF Known
<1> QED BY FetchKept

LEMMA KnownUnchanged ==
  ASSUME TypeOK, UNCHANGED <<epoch, name, shown, firstAt>>
  PROVE  Known \subseteq Known'
<1>1. epoch' \in Nat /\ firstAt' \in Nat /\ firstAt <= firstAt'
  BY DashboardAssumption DEF TypeOK
<1> QED BY <1>1, KnownKept

\* A refresh from the complete store stays one: a source that has been read
\* to its end stays so until it is opened again.
LEMMA RefreshingKept ==
  ASSUME epoch' = epoch, name' = name, loading'[name] => loading[name]
  PROVE  Refreshing \subseteq Refreshing'
<1> SUFFICES ASSUME NEW f \in Fetch, f \in Refreshing PROVE f \in Refreshing'
  BY DEF Refreshing
<1>1. f.kind = "panel" /\ f.epoch = epoch'
  BY DEF Refreshing
<1>2. CASE f.state = "running"
  <2>1. ~loading[name]
    BY <1>2 DEF Refreshing
  <2> QED BY <1>1, <1>2, <2>1 DEF Refreshing
<1>3. CASE f.state = "failed"
  BY <1>1, <1>3 DEF Refreshing
<1>4. CASE f.state = "done"
  <2>1. f.value.complete
    BY <1>4 DEF Refreshing
  <2> QED BY <1>1, <1>4, <2>1 DEF Refreshing
<1> QED BY <1>2, <1>3, <1>4, FetchTypes

\* The types of the flight are among what is known of it.
LEMMA FlightTypes ==
  ASSUME SoundFlight
  PROVE  /\ FlightInv
         /\ flight \in Seq(Fetch)
         /\ \A i \in DOMAIN flight : flight[i].state = "done" <=> flight[i].value # None
         /\ Len(flight) <= MaxFlight + 1
<1>1. Known \subseteq Fetch
  BY DEF Known
<1>2. flight \in Seq(Fetch)
  BY <1>1, SeqMonotonic DEF SoundFlight
<1>3. \A i \in DOMAIN flight : FetchInv(flight[i])
  BY FlightElements
<1> QED BY <1>2, <1>3 DEF SoundFlight, FlightInv, FetchInv

LEMMA FlightTypesNext ==
  ASSUME SoundFlight'
  PROVE  /\ FlightInv'
         /\ flight' \in Seq(Fetch)
         /\ \A i \in DOMAIN flight' : flight'[i].state = "done" <=> flight'[i].value # None
         /\ Len(flight') <= MaxFlight + 1
<1>1. Known' \subseteq Fetch
  BY DEF Known
<1>2. flight' \in Seq(Known')
  BY DEF SoundFlight
<1>3. flight' \in Seq(Fetch)
  BY <1>1, <1>2, SeqMonotonic
<1>4. ASSUME NEW i \in DOMAIN flight'
      PROVE  flight'[i].state = "done" <=> flight'[i].value # None
  <2>1. flight'[i] \in Known'
    BY <1>2, ElementOfSeq, LenProperties
  <2>2. PICK f \in Known' : f = flight'[i]
    BY <2>1
  <2>3. FetchInv(f)'
    BY DEF Known
  <2> QED BY <2>2, <2>3 DEF FetchInv
<1> QED BY <1>2, <1>3, <1>4 DEF SoundFlight, FlightInv

------------------------------------------------------------------------------
(***************************************************************************)
(* The steps.                                                              *)
(***************************************************************************)
LEMMA InitInv == Init => DashInv
<1> SUFFICES ASSUME Init PROVE DashInv
  OBVIOUS
<1>1. Ranges[1] \in Range(Ranges)
  <2>1. Len(Ranges) \in Nat /\ Len(Ranges) # 0 /\ DOMAIN Ranges = 1..Len(Ranges)
    BY DashboardAssumption, LenProperties, EmptySeq
  <2>2. 1 \in DOMAIN Ranges
    BY <2>1
  <2> QED BY <2>2 DEF Range
<1> DEFINE f == Running("panel", 1, First, Ranges[1])
<1>2. flight = <<f>>
  BY DEF Init, RefreshAll
<1>3. f \in Fetch
  BY <1>1, NewFetches, DashboardAssumption
<1>4. FetchInv(f)
  BY DashboardAssumption DEF FetchInv, Running, Init
<1>5. SoundFlight
  <2>1. f \in Known
    BY <1>3, <1>4 DEF Known
  <2> HIDE DEF f
  <2> QED BY <1>2, <2>1, DashboardAssumption DEF SoundFlight
<1>6. TypeOK
  <2>1. /\ published \in [Sources -> 0..MaxEvents]
        /\ loading \in [Sources -> BOOLEAN]
        /\ name \in Sources
        /\ epoch \in 1..MaxEpoch
        /\ timeRange \in Range(Ranges)
    BY <1>1, DashboardAssumption DEF Init
  <2>2. /\ log \in Seq(Row)
        /\ cursor \in 0..(MaxEvents + 1)
        /\ failures \in 0..MaxFailures
        /\ shown \subseteq 1..MaxEvents
        /\ firstAt \in 0..MaxEvents
    BY DashboardAssumption DEF Init
  <2>3. /\ settled \in BOOLEAN /\ paused \in BOOLEAN /\ queryErr \in BOOLEAN
        /\ mode \in {"normal", "expand", "switcher"}
        /\ expandLoading \in BOOLEAN /\ refreshed \in BOOLEAN
        /\ panel \in Results \cup {None} /\ expandedLog \in Modal \cup {None}
    BY DEF Init
  <2> QED BY <1>5, <2>1, <2>2, <2>3, FlightTypes DEF TypeOK
<1>7. NothingForeign /\ NoGap
  <2>1. DOMAIN log = {} /\ cursor = 0 /\ panel = None /\ expandedLog = None
    BY DEF Init
  <2> QED BY <2>1 DEF NothingForeign, NoGap
<1>8. ModalOwnRow /\ SettledMeansRefreshed
  BY DEF Init, ModalOwnRow, SettledMeansRefreshed
<1> QED BY <1>5, <1>6, <1>7, <1>8, FlightTypes DEF DashInv

\* Steps of the sources and keys that touch neither the flight nor the log.
LEMMA QuietStep ==
  ASSUME DashInv, UNCHANGED <<name, epoch, settled, streamVars, timeRange, panelVars, flight>>,
         TypeOK', loading'[name] => loading[name],
         expandedLog' \in {expandedLog, None}, ModalOwnRow'
  PROVE  DashInv'
<1>1. Known \subseteq Known'
  BY KnownUnchanged DEF DashInv, streamVars
<1>2. FlightInv'
  BY <1>1, SeqMonotonic, InvIsSound DEF SoundFlight, FlightInv
<1>3. NothingForeign' /\ NoGap'
  BY DEF DashInv, NothingForeign, NoGap, streamVars, panelVars
<1>4. SettledMeansRefreshed'
  <2>1. Refreshing \subseteq Refreshing'
    BY RefreshingKept
  <2> QED BY <2>1, SettledKept, InvIsSound DEF DashInv, panelVars
<1> QED BY <1>2, <1>3, <1>4 DEF DashInv

LEMMA SourceStep ==
  ASSUME DashInv, NEW s \in Sources, Publish(s) \/ FinishBackfill(s)
  PROVE  DashInv'
<1>1. TypeOK' /\ (loading'[name] => loading[name])
  <2>1. CASE Publish(s)
    <3>1. published'[s] \in 0..MaxEvents /\ published' = [published EXCEPT ![s] = published[s] + 1]
      BY <2>1, DashboardAssumption DEF Publish, DashInv, TypeOK
    <3>2. published' \in [Sources -> 0..MaxEvents]
      BY <3>1 DEF DashInv, TypeOK
    <3> QED BY <2>1, <3>2 DEF Publish, DashInv, TypeOK, streamVars, panelVars, modalVars
  <2>2. CASE FinishBackfill(s)
    <3>1. loading' \in [Sources -> BOOLEAN] /\ (loading'[name] => loading[name])
      BY <2>2 DEF FinishBackfill, DashInv, TypeOK
    <3> QED BY <2>2, <3>1 DEF FinishBackfill, DashInv, TypeOK, streamVars, panelVars, modalVars
  <2> QED BY <2>1, <2>2
<1>2. UNCHANGED <<name, epoch, settled, streamVars, timeRange, panelVars, flight, modalVars>>
  BY DEF Publish, FinishBackfill
<1>3. ModalOwnRow'
  BY <1>2 DEF DashInv, ModalOwnRow, modalVars
<1> QED BY <1>1, <1>2, <1>3, QuietStep DEF modalVars

LEMMA QuietKey ==
  ASSUME DashInv, KeyPause \/ KeyEscape \/ KeySourceSwitcher \/ SwitchNowhere
  PROVE  DashInv'
<1>1. UNCHANGED <<sourceVars, name, epoch, settled, streamVars, timeRange, panelVars, queryErr,
                  flight, failures>>
  BY DEF KeyPause, KeyEscape, KeySourceSwitcher, SwitchNowhere
<1>2. paused' \in BOOLEAN /\ mode' \in {"normal", "expand", "switcher"}
  BY DEF KeyPause, KeyEscape, KeySourceSwitcher, SwitchNowhere, DashInv, TypeOK, modalVars
<1>3. expandedLog' \in {expandedLog, None} /\ expandLoading' \in BOOLEAN
  BY DEF KeyPause, KeyEscape, KeySourceSwitcher, SwitchNowhere, DashInv, TypeOK, modalVars
<1>4. TypeOK'
  BY <1>1, <1>2, <1>3 DEF DashInv, TypeOK, sourceVars, streamVars, panelVars
<1>5. ModalOwnRow'
  <2>1. CASE KeyPause
    BY <2>1 DEF KeyPause, DashInv, ModalOwnRow, modalVars
  <2>2. CASE KeyEscape
    <3>1. mode' = "normal" /\ expandedLog' = None /\ expandLoading' = FALSE
      BY <2>2 DEF KeyEscape, DashInv, ModalOwnRow, TypeOK
    <3> QED BY <3>1 DEF ModalOwnRow
  <2>3. CASE KeySourceSwitcher
    BY <2>3 DEF KeySourceSwitcher, DashInv, ModalOwnRow
  <2>4. CASE SwitchNowhere
    BY <2>4 DEF SwitchNowhere, DashInv, ModalOwnRow
  <2> QED BY <2>1, <2>2, <2>3, <2>4
<1> QED BY <1>1, <1>3, <1>4, <1>5, QuietStep DEF sourceVars

\* A refresh, whatever asked for it: its command is known.
LEMMA RefreshKnown ==
  ASSUME epoch' \in 1..MaxEpoch, name' \in Sources, NEW r \in Range(Ranges),
         NEW f, f = Running("panel", epoch', name', r)
  PROVE  f \in Known'
<1>1. f \in Fetch
  BY NewFetches
<1>2. /\ f.kind = "panel" /\ f.epoch = epoch' /\ f.src = name'
      /\ f.state = "running" /\ f.value = None
  BY DEF Running
<1>3. FetchInv(f)'
  BY <1>2, DashboardAssumption DEF FetchInv
<1> QED BY <1>1, <1>3 DEF Known

LEMMA RefreshStep ==
  ASSUME DashInv, Refresh
  PROVE  DashInv'
<1> DEFINE f == Running("panel", epoch, name, timeRange)
<1>1. UNCHANGED <<sourceVars, name, epoch, settled, streamVars, paused, timeRange, panelVars,
                  modalVars, failures>> /\ queryErr' = FALSE
  BY DEF Refresh
<1>2. Known \subseteq Known'
  BY <1>1, KnownUnchanged DEF DashInv, streamVars
<1>3. f \in Known'
  BY <1>1, RefreshKnown DEF DashInv, TypeOK
<1>4. Issue(<<f>>)
  BY DEF Refresh, RefreshAll
<1> HIDE DEF f
<1>5. /\ SoundFlight'
      /\ \A j \in DOMAIN flight : \E k \in DOMAIN flight' : flight'[k] = flight[j]
  <2>1. <<f>> \in Seq(Known') /\ Len(<<f>>) <= 2
    BY <1>3
  <2> QED BY <1>2, <1>4, <2>1, InvIsSound, FlightIssued
<1>6. TypeOK'
  BY <1>1, <1>5, FlightTypesNext DEF DashInv, TypeOK, sourceVars, streamVars, panelVars, modalVars
<1>7. NothingForeign' /\ NoGap'
  BY <1>1 DEF DashInv, NothingForeign, NoGap, streamVars, panelVars, modalVars
<1>8. ModalOwnRow'
  BY <1>1, <1>5, InvIsSound, ModalKept DEF DashInv, modalVars
<1>9. SettledMeansRefreshed'
  <2>1. Refreshing \subseteq Refreshing'
    BY <1>1, RefreshingKept DEF sourceVars
  <2> QED BY <1>1, <1>5, <2>1, InvIsSound, SettledKept DEF DashInv, panelVars
<1> QED BY <1>5, <1>6, <1>7, <1>8, <1>9, FlightTypesNext DEF DashInv

LEMMA NextRangeIsRange ==
  ASSUME NEW r \in Range(Ranges)
  PROVE  NextRange(r) \in Range(Ranges)
<1> DEFINE i == CHOOSE n \in DOMAIN Ranges : Ranges[n] = r
<1>1. Len(Ranges) \in Nat \ {0} /\ DOMAIN Ranges = 1..Len(Ranges)
  BY DashboardAssumption, LenProperties, EmptySeq
<1>2. i \in DOMAIN Ranges
  BY DEF Range
<1> HIDE DEF i
<1>3. (i % Len(Ranges)) + 1 \in DOMAIN Ranges
  <2> DEFINE n == Len(Ranges)
  <2>1. n \in Nat \ {0} /\ i \in Nat
    BY <1>1, <1>2
  <2> HIDE DEF n
  <2>2. i % n \in 0..(n - 1)
    BY <2>1
  <2> QED BY <1>1, <2>1, <2>2 DEF n
<1>4. Ranges[(i % Len(Ranges)) + 1] \in Range(Ranges)
  BY <1>3 DEF Range
<1> QED BY <1>4 DEF NextRange, i

LEMMA KeyTimeRangeStep ==
  ASSUME DashInv, KeyTimeRange
  PROVE  DashInv'
<1>1. /\ UNCHANGED <<sourceVars, name, epoch, settled, streamVars, paused, panelVars, queryErr,
                     modalVars, failures>>
      /\ timeRange' = NextRange(timeRange)
  BY DEF KeyTimeRange
<1>2. timeRange' \in Range(Ranges)
  BY <1>1, NextRangeIsRange DEF DashInv, TypeOK
<1> DEFINE f == Running("panel", epoch, name, timeRange')
<1>3. Known \subseteq Known'
  BY <1>1, KnownUnchanged DEF DashInv, streamVars
<1>4. f \in Known'
  BY <1>1, <1>2, RefreshKnown DEF DashInv, TypeOK
<1>5. Issue(<<f>>)
  BY DEF KeyTimeRange, RefreshAll
<1> HIDE DEF f
<1>6. /\ SoundFlight'
      /\ \A j \in DOMAIN flight : \E k \in DOMAIN flight' : flight'[k] = flight[j]
  <2>1. <<f>> \in Seq(Known') /\ Len(<<f>>) <= 2
    BY <1>4
  <2> QED BY <1>3, <1>5, <2>1, InvIsSound, FlightIssued
<1>7. TypeOK'
  BY <1>1, <1>2, <1>6, FlightTypesNext
     DEF DashInv, TypeOK, sourceVars, streamVars, panelVars, modalVars
<1>8. NothingForeign' /\ NoGap'
  BY <1>1 DEF DashInv, NothingForeign, NoGap, streamVars, panelVars, modalVars
<1>9. ModalOwnRow'
  BY <1>1, <1>6, InvIsSound, ModalKept DEF DashInv, modalVars
<1>10. SettledMeansRefreshed'
  <2>1. Refreshing \subseteq Refreshing'
    BY <1>1, RefreshingKept DEF sourceVars
  <2> QED BY <1>1, <1>6, <2>1, InvIsSound, SettledKept DEF DashInv, panelVars
<1> QED BY <1>6, <1>7, <1>8, <1>9, <1>10, FlightTypesNext DEF DashInv

\* A poll is known when the log has reached the cursor it starts from.
LEMMA PollKnown ==
  ASSUME epoch' \in 1..MaxEpoch, name' \in Sources, NEW c \in 0..(MaxEvents + 1),
         \A n \in 1..MaxEvents : firstAt' < n /\ n < c => n \in shown',
         NEW f, f = Running("logs", epoch', name', c)
  PROVE  f \in Known'
<1>1. f \in Fetch
  BY NewFetches
<1>2. /\ f.kind = "logs" /\ f.epoch = epoch' /\ f.src = name' /\ f.arg = c
      /\ f.state = "running" /\ f.value = None
  BY DEF Running
<1>3. FetchInv(f)'
  BY <1>2, DashboardAssumption DEF FetchInv, Reached
<1> QED BY <1>1, <1>3 DEF Known

\* The tick that says that the panels are settled has seen the complete
\* source, and unless they were settled before, it issues the refresh.
LEMMA StreamTickStep ==
  ASSUME DashInv, StreamTick
  PROVE  DashInv'
<1> DEFINE log1   == Running("logs", epoch, name, cursor)
           panel1 == Running("panel", epoch, name, timeRange)
           poll   == IF paused THEN <<>> ELSE <<log1>>
           settle == IF Settling THEN <<panel1>> ELSE <<>>
<1>1. /\ UNCHANGED <<sourceVars, name, epoch, streamVars, paused, timeRange, panelVars, queryErr,
                     modalVars, failures>>
      /\ settled' = IF name \in Following THEN ~loading[name] ELSE settled
      /\ Issue(poll \o settle)
  BY DEF StreamTick, RefreshAll, FetchLogs
<1>2. Known \subseteq Known'
  BY <1>1, KnownUnchanged DEF DashInv, streamVars
<1>3. panel1 \in Known'
  BY <1>1, RefreshKnown DEF DashInv, TypeOK
<1>4. log1 \in Known'
  <2>1. \A n \in 1..MaxEvents : firstAt' < n /\ n < cursor => n \in shown'
    BY <1>1 DEF DashInv, NoGap, streamVars
  <2> QED BY <1>1, <2>1, PollKnown DEF DashInv, TypeOK
<1>5. poll \in Seq(Known') /\ Len(poll) <= 1
  <2> HIDE DEF log1
  <2> QED BY <1>4
<1>6. settle \in Seq(Known') /\ Len(settle) <= 1
  <2> HIDE DEF panel1
  <2> QED BY <1>3
<1>7. Settling => \E j \in DOMAIN settle : settle[j] = panel1
  <2>1. ASSUME Settling PROVE settle[1] = panel1 /\ 1 \in DOMAIN settle
    BY <2>1
  <2> QED BY <2>1
<1> HIDE DEF poll, settle
<1>8. Joins(Known', poll \o settle, poll, settle)
  BY <1>5, <1>6, ConcatKeeps, Zenon
<1> DEFINE cmds == poll \o settle
<1>9. /\ cmds \in Seq(Known') /\ Len(cmds) <= 2
      /\ Settling => \E j \in DOMAIN cmds : cmds[j] = panel1
  <2>1. Len(poll) \in Nat /\ Len(settle) \in Nat
    BY <1>5, <1>6, LenProperties
  <2>2. /\ cmds \in Seq(Known')
        /\ Len(cmds) = Len(poll) + Len(settle)
        /\ \A j \in DOMAIN settle : \E k \in DOMAIN cmds : cmds[k] = settle[j]
    BY <1>8 DEF Joins
  <2> HIDE DEF cmds, panel1
  <2>3. Len(cmds) <= 2
    BY <1>5, <1>6, <2>1, <2>2
  <2> QED BY <1>7, <2>2, <2>3
<1> HIDE DEF cmds
<1>10. /\ SoundFlight'
       /\ \A j \in DOMAIN flight : \E k \in DOMAIN flight' : flight'[k] = flight[j]
       /\ \A j \in DOMAIN cmds : \E k \in DOMAIN flight' : flight'[k] = cmds[j]
  <2>1. Issue(cmds)
    BY <1>1 DEF cmds
  <2> QED BY <1>2, <1>9, <2>1, InvIsSound, FlightIssued
<1>11. settled' \in BOOLEAN
  BY <1>1 DEF DashInv, TypeOK
<1>12. TypeOK'
  BY <1>1, <1>10, <1>11, FlightTypesNext
     DEF DashInv, TypeOK, sourceVars, streamVars, panelVars, modalVars
<1>13. NothingForeign' /\ NoGap'
  BY <1>1 DEF DashInv, NothingForeign, NoGap, streamVars, panelVars, modalVars
<1>14. ModalOwnRow'
  BY <1>1, <1>10, InvIsSound, ModalKept DEF DashInv, modalVars
<1>15. SettledMeansRefreshed'
  <2>1. Refreshing \subseteq Refreshing'
    BY <1>1, RefreshingKept DEF sourceVars
  <2>2. CASE settled' => settled
    BY <1>1, <1>10, <2>1, <2>2, InvIsSound, SettledKept DEF DashInv, panelVars
  <2>3. CASE settled' /\ ~settled
    <3>1. name \in Following /\ ~loading[name] /\ Settling
      BY <1>1, <2>3 DEF Settling
    <3>2. PICK k \in DOMAIN flight' : flight'[k] = panel1
      BY <1>9, <1>10, <3>1
    <3>3. /\ panel1.kind = "panel" /\ panel1.epoch = epoch' /\ panel1.state = "running"
          /\ ~loading'[name']
      BY <1>1, <3>1 DEF Running, sourceVars
    <3> HIDE DEF panel1
    <3> QED BY <3>2, <3>3 DEF SettledMeansRefreshed
  <2> QED BY <2>2, <2>3
<1> QED BY <1>10, <1>12, <1>13, <1>14, <1>15, FlightTypesNext DEF DashInv

\* The row that is expanded is one of the log's, so of this epoch, and the
\* command that fetches its object is for this very row.
LEMMA KeyEnterStep ==
  ASSUME DashInv, KeyEnter
  PROVE  DashInv'
<1>1. /\ UNCHANGED <<sourceVars, name, epoch, settled, streamVars, paused, timeRange, panelVars,
                     queryErr, failures>>
      /\ mode' = "expand" /\ expandLoading' = (name \in Following)
  BY DEF KeyEnter
<1>2. PICK i \in DOMAIN log :
        IF name \in Following
          THEN /\ expandedLog' = [row |-> log[i], raw |-> None]
               /\ Issue(<<Running("hydrate", epoch, name, log[i])>>)
          ELSE /\ expandedLog' = [row |-> log[i], raw |-> log[i]]
               /\ UNCHANGED flight
  BY DEF KeyEnter
<1>3. PICK r : r = log[i] /\ r \in Row /\ r.epoch = epoch
  BY ElementOfSeq, LenProperties DEF DashInv, TypeOK, NothingForeign
<1>4. /\ expandedLog' \in Modal /\ expandedLog'.row = r
      /\ expandedLog'.raw = IF expandLoading' THEN None ELSE r
      /\ expandedLog' # None
  <2>1. expandedLog' = [row |-> r, raw |-> IF name \in Following THEN None ELSE r]
    BY <1>2, <1>3
  <2>2. expandedLog' \in Modal
    BY <1>3, <2>1 DEF Modal
  <2> QED BY <1>1, <2>1, <2>2, NoneAssumption
<1>5. Known \subseteq Known'
  BY <1>1, KnownUnchanged DEF DashInv, streamVars
<1> DEFINE f == Running("hydrate", epoch, name, r)
<1>6. f \in Known'
  <2>1. PICK g : g = f
    OBVIOUS
  <2>2. g \in Fetch
    BY <1>3, <2>1, NewFetches DEF DashInv, TypeOK
  <2>3. /\ g.kind = "hydrate" /\ g.epoch = epoch' /\ g.src = name' /\ g.arg = r
        /\ g.state = "running" /\ g.value = None
    BY <1>1, <2>1 DEF Running
  <2>4. epoch' \in Nat /\ r.epoch = epoch'
    BY <1>1, <1>3, DashboardAssumption DEF DashInv, TypeOK
  <2>5. FetchInv(g)'
    BY <2>3, <2>4 DEF FetchInv
  <2> QED BY <2>1, <2>2, <2>5 DEF Known
<1>7. f.kind = "hydrate" /\ f.epoch = epoch /\ f.arg = r
  BY DEF Running
<1>8. /\ SoundFlight'
      /\ \A j \in DOMAIN flight : \E k \in DOMAIN flight' : flight'[k] = flight[j]
      /\ name \in Following => \E k \in DOMAIN flight' : flight'[k] = f
  <2>1. CASE name \in Following
    <3>1. Issue(<<f>>)
      BY <1>2, <1>3, <2>1
    <3> HIDE DEF f
    <3>2. <<f>> \in Seq(Known') /\ Len(<<f>>) <= 2
      BY <1>6
    <3>3. /\ SoundFlight'
          /\ \A j \in DOMAIN flight : \E k \in DOMAIN flight' : flight'[k] = flight[j]
          /\ \A j \in DOMAIN <<f>> : \E k \in DOMAIN flight' : flight'[k] = <<f>>[j]
      BY <1>5, <3>1, <3>2, InvIsSound, FlightIssued
    <3>4. 1 \in DOMAIN <<f>> /\ <<f>>[1] = f
      OBVIOUS
    <3>5. \E k \in DOMAIN flight' : flight'[k] = <<f>>[1]
      BY <3>3, <3>4
    <3> QED BY <3>3, <3>4, <3>5
  <2>2. CASE name \notin Following
    <3>1. flight' = flight
      BY <1>2, <2>2
    <3> QED BY <1>5, <2>2, <3>1, InvIsSound, SeqMonotonic DEF SoundFlight
  <2> QED BY <2>1, <2>2
<1>9. TypeOK'
  BY <1>1, <1>4, <1>8, FlightTypesNext DEF DashInv, TypeOK, sourceVars, streamVars, panelVars
<1>10. NothingForeign' /\ NoGap'
  BY <1>1, <1>3, <1>4 DEF DashInv, NothingForeign, NoGap, streamVars, panelVars
<1>11. ModalOwnRow'
  <2>1. expandLoading' => \E k \in DOMAIN flight' :
          flight'[k].kind = "hydrate" /\ flight'[k].epoch = epoch' /\ flight'[k].arg = r
    BY <1>1, <1>7, <1>8
  <2> QED BY <1>1, <1>4, <2>1 DEF ModalOwnRow
<1>12. SettledMeansRefreshed'
  <2>1. Refreshing \subseteq Refreshing'
    BY <1>1, RefreshingKept DEF sourceVars
  <2> QED BY <1>1, <1>8, <2>1, InvIsSound, SettledKept DEF DashInv, panelVars
<1> QED BY <1>8, <1>9, <1>10, <1>11, <1>12, FlightTypesNext DEF DashInv

\* A new epoch: whatever is on its way is of a past one.
LEMMA SwitchSourceStep ==
  ASSUME DashInv, NEW next \in Sources, SwitchSource(next)
  PROVE  DashInv'
<1>1. /\ mode = "switcher" /\ mode' = "normal"
      /\ epoch < MaxEpoch /\ epoch' = epoch + 1 /\ name' = next
      /\ loading' = [loading EXCEPT ![next] = next \in Following]
      /\ log' = <<>> /\ cursor' = 0 /\ shown' = {} /\ firstAt' = 0
      /\ panel' = None /\ refreshed' = FALSE /\ queryErr' = FALSE /\ settled' = FALSE
      /\ paused' = FALSE
      /\ UNCHANGED <<published, timeRange, expandedLog, expandLoading, failures>>
  BY DEF SwitchSource
<1>2. expandedLog = None /\ ~expandLoading
  BY <1>1 DEF DashInv, ModalOwnRow
<1>3. epoch' \in 1..MaxEpoch /\ epoch' \in Nat /\ epoch' > epoch
  BY <1>1, DashboardAssumption DEF DashInv, TypeOK
<1>4. Known \subseteq Known'
  BY <1>1, <1>3, KnownKept DEF DashInv
<1> DEFINE f == Running("panel", epoch', next, timeRange)
<1>5. f \in Known'
  BY <1>1, <1>3, RefreshKnown DEF DashInv, TypeOK
<1>6. Issue(<<f>>)
  BY DEF SwitchSource, RefreshAll
<1> HIDE DEF f
<1>7. SoundFlight'
  <2>1. <<f>> \in Seq(Known') /\ Len(<<f>>) <= 2
    BY <1>5
  <2> QED BY <1>4, <1>6, <2>1, InvIsSound, FlightIssued
<1>8. TypeOK'
  <2>1. loading' \in [Sources -> BOOLEAN]
    BY <1>1 DEF DashInv, TypeOK
  <2>2. /\ cursor' \in 0..(MaxEvents + 1) /\ firstAt' \in 0..MaxEvents
        /\ shown' \subseteq 1..MaxEvents /\ log' \in Seq(Row)
    BY <1>1, DashboardAssumption
  <2>3. /\ published' \in [Sources -> 0..MaxEvents] /\ name' \in Sources
        /\ settled' \in BOOLEAN /\ paused' \in BOOLEAN
        /\ timeRange' \in Range(Ranges) /\ panel' \in Results \cup {None}
        /\ queryErr' \in BOOLEAN /\ mode' \in {"normal", "expand", "switcher"}
        /\ expandedLog' \in Modal \cup {None} /\ expandLoading' \in BOOLEAN
        /\ failures' \in 0..MaxFailures /\ refreshed' \in BOOLEAN
    BY <1>1 DEF DashInv, TypeOK
  <2> QED BY <1>3, <1>7, <2>1, <2>2, <2>3, FlightTypesNext DEF TypeOK
<1>9. NothingForeign' /\ NoGap'
  <2>1. DOMAIN log' = {} /\ panel' = None /\ expandedLog' = None
    BY <1>1, <1>2
  <2>2. \A n \in 1..MaxEvents : ~(n < cursor')
    BY <1>1, DashboardAssumption
  <2> QED BY <2>1, <2>2 DEF NothingForeign, NoGap
<1>10. ModalOwnRow' /\ SettledMeansRefreshed'
  BY <1>1, <1>2 DEF ModalOwnRow, SettledMeansRefreshed
<1> QED BY <1>7, <1>8, <1>9, <1>10, FlightTypesNext DEF DashInv

\* A command whose state changes stays what it was for, and a refresh that was
\* asked of the complete source is complete when it comes.
LEMMA CommandStep ==
  ASSUME DashInv, NEW i \in 1..(MaxFlight + 1), Run(i) \/ Fail(i)
  PROVE  DashInv'
<1>1. /\ UNCHANGED <<sourceVars, name, epoch, settled, streamVars, paused, timeRange, panelVars,
                     queryErr, modalVars>>
      /\ i \in DOMAIN flight /\ flight[i].state = "running"
  BY DEF Run, Fail
<1>2. PICK f : f = flight[i]
  OBVIOUS
<1>3. f \in Fetch /\ FetchInv(f) /\ f.state = "running"
  BY <1>1, <1>2, InvIsSound, FlightElements
<1>4. Known \subseteq Known'
  BY <1>1, KnownUnchanged DEF DashInv, streamVars
<1>5. PICK g : /\ flight' = [flight EXCEPT ![i] = g] /\ g \in Known
               /\ g.kind = f.kind /\ g.epoch = f.epoch /\ g.arg = f.arg
               /\ \/ g.state = "done" /\ (f.kind = "panel" => g.value.complete = ~loading[f.src])
                  \/ g.state = "failed"
  <2>1. CASE Run(i)
    <3>1. PICK g : g = [f EXCEPT !.state = "done", !.value = Answer(f)]
      OBVIOUS
    <3>2. /\ g \in Fetch /\ FetchInv(g)
          /\ f.kind = "panel" => g.value.complete = ~loading[f.src]
      BY <1>3, <3>1, AnswerFits DEF DashInv
    <3>3. flight' = [flight EXCEPT ![i] = g]
      BY <1>2, <2>1, <3>1 DEF Run
    <3>4. g.kind = f.kind /\ g.epoch = f.epoch /\ g.arg = f.arg /\ g.state = "done"
      BY <1>3, <3>1 DEF Fetch, Command
    <3> QED BY <3>2, <3>3, <3>4 DEF Known
  <2>2. CASE Fail(i)
    <3>1. PICK g : g = [f EXCEPT !.state = "failed"]
      OBVIOUS
    <3>2. flight' = [flight EXCEPT ![i] = g]
      BY <1>2, <2>2, <3>1 DEF Fail
    <3>3. /\ g \in Fetch
          /\ g.kind = f.kind /\ g.epoch = f.epoch /\ g.arg = f.arg /\ g.src = f.src
          /\ g.state = "failed" /\ g.value = f.value
      BY <1>3, <3>1 DEF Fetch, Command
    <3>4. FetchInv(g)
      BY <1>3, <3>3 DEF FetchInv
    <3> QED BY <3>2, <3>3, <3>4 DEF Known
  <2> QED BY <2>1, <2>2
<1>6. /\ SoundFlight'
      /\ DOMAIN flight' = DOMAIN flight
      /\ \A j \in DOMAIN flight : flight'[j] = IF j = i THEN g ELSE flight[j]
  BY <1>1, <1>4, <1>5, InvIsSound, FlightSet
<1>7. failures' \in 0..MaxFailures
  <2>1. CASE Run(i)
    BY <2>1 DEF Run, DashInv, TypeOK
  <2>2. CASE Fail(i)
    <3>1. failures \in 0..MaxFailures /\ failures < MaxFailures /\ failures' = failures + 1
      BY <2>2 DEF Fail, DashInv, TypeOK
    <3> QED BY <3>1, DashboardAssumption
  <2> QED BY <2>1, <2>2
<1>8. TypeOK'
  BY <1>1, <1>6, <1>7, FlightTypesNext
     DEF DashInv, TypeOK, sourceVars, streamVars, panelVars, modalVars
<1>9. NothingForeign' /\ NoGap'
  BY <1>1 DEF DashInv, NothingForeign, NoGap, streamVars, panelVars, modalVars
<1>10. ModalOwnRow'
  <2>1. ASSUME NEW j \in DOMAIN flight, flight[j] \in Ending
        PROVE  flight'[j] \in Ending
    <3>1. CASE j = i
      BY <1>2, <1>5, <1>6, <2>1, <3>1 DEF Ending, Known
    <3>2. CASE j # i
      BY <1>6, <2>1, <3>2
    <3> QED BY <3>1, <3>2
  <2> QED BY <1>1, <1>6, <2>1, InvIsSound, ModalKept DEF DashInv, modalVars
<1>11. SettledMeansRefreshed'
  <2>1. Refreshing \subseteq Refreshing'
    BY <1>1, RefreshingKept DEF sourceVars
  <2>2. ASSUME NEW j \in DOMAIN flight, flight[j] \in Refreshing
        PROVE  flight'[j] \in Refreshing'
    <3>1. CASE j = i
      <4>1. f \in Refreshing
        BY <1>2, <2>2, <3>1
      <4>2. f.kind = "panel" /\ f.epoch = epoch /\ ~loading[name]
        BY <1>3, <4>1 DEF Refreshing
      <4>3. f.src = name
        BY <1>3, <4>2 DEF FetchInv
      <4>4. g \in Refreshing
        BY <1>5, <4>2, <4>3 DEF Refreshing, Known
      <4> QED BY <1>6, <2>1, <3>1, <4>4
    <3>2. CASE j # i
      BY <1>6, <2>1, <2>2, <3>2
    <3> QED BY <3>1, <3>2
  <2> QED BY <1>1, <1>6, <2>2, InvIsSound, SettledKept DEF DashInv, panelVars
<1> QED BY <1>6, <1>8, <1>9, <1>10, <1>11, FlightTypesNext DEF DashInv

\* A message of a past epoch changes nothing, and nothing waits for it.
LEMMA ReceiveStaleStep ==
  ASSUME DashInv, NEW i \in 1..(MaxFlight + 1), ReceiveStale(i)
  PROVE  DashInv'
<1>1. /\ UNCHANGED <<sourceVars, name, epoch, settled, streamVars, paused, timeRange, panelVars,
                     queryErr, modalVars, failures>>
      /\ i \in DOMAIN flight /\ flight[i].epoch # epoch /\ flight' = RemoveAt(flight, i)
  BY DEF ReceiveStale, Message, IsStale
<1>2. Known \subseteq Known'
  BY <1>1, KnownUnchanged DEF DashInv, streamVars
<1>3. /\ SoundFlight'
      /\ \A j \in DOMAIN flight : j # i => \E k \in DOMAIN flight' : flight'[k] = flight[j]
  BY <1>1, <1>2, InvIsSound, FlightReceived
<1>4. TypeOK'
  BY <1>1, <1>3, FlightTypesNext
     DEF DashInv, TypeOK, sourceVars, streamVars, panelVars, modalVars
<1>5. NothingForeign' /\ NoGap'
  BY <1>1 DEF DashInv, NothingForeign, NoGap, streamVars, panelVars, modalVars
<1>6. ModalOwnRow'
  <2>1. flight[i] \notin Ending
    BY <1>1 DEF Ending
  <2> QED BY <1>1, <1>3, <2>1, InvIsSound, ModalKept DEF DashInv, modalVars
<1>7. SettledMeansRefreshed'
  <2>1. Refreshing \subseteq Refreshing' /\ flight[i] \notin Refreshing
    BY <1>1, RefreshingKept DEF sourceVars, Refreshing
  <2> QED BY <1>1, <1>3, <2>1, InvIsSound, SettledKept DEF DashInv, panelVars
<1> QED BY <1>3, <1>4, <1>5, <1>6, <1>7, FlightTypesNext DEF DashInv

\* The panels have been told when their refresh failed.
LEMMA ReceiveErrorStep ==
  ASSUME DashInv, NEW i \in 1..(MaxFlight + 1), ReceiveError(i)
  PROVE  DashInv'
<1>1. /\ UNCHANGED <<sourceVars, name, epoch, settled, streamVars, paused, timeRange, panel,
                     modalVars, failures>>
      /\ queryErr' = TRUE /\ refreshed' = (refreshed \/ flight[i].kind = "panel")
      /\ i \in DOMAIN flight /\ flight[i].kind # "hydrate" /\ flight' = RemoveAt(flight, i)
  BY DEF ReceiveError, Message
<1>2. Known \subseteq Known'
  BY <1>1, KnownUnchanged DEF DashInv, streamVars
<1>3. /\ SoundFlight'
      /\ \A j \in DOMAIN flight : j # i => \E k \in DOMAIN flight' : flight'[k] = flight[j]
  BY <1>1, <1>2, InvIsSound, FlightReceived
<1>4. TypeOK'
  BY <1>1, <1>3, FlightTypesNext
     DEF DashInv, TypeOK, sourceVars, streamVars, modalVars
<1>5. NothingForeign' /\ NoGap'
  BY <1>1 DEF DashInv, NothingForeign, NoGap, streamVars, modalVars
<1>6. ModalOwnRow'
  <2>1. flight[i] \notin Ending
    BY <1>1 DEF Ending
  <2> QED BY <1>1, <1>3, <2>1, InvIsSound, ModalKept DEF DashInv, modalVars
<1>7. SettledMeansRefreshed'
  <2>1. Refreshing \subseteq Refreshing' /\ (flight[i] \in Refreshing => refreshed')
    BY <1>1, RefreshingKept DEF sourceVars, Refreshing
  <2>2. settled' = settled /\ (refreshed => refreshed')
    BY <1>1
  <2> QED BY <1>3, <2>1, <2>2, InvIsSound, SettledKept DEF DashInv
<1> QED BY <1>3, <1>4, <1>5, <1>6, <1>7, FlightTypesNext DEF DashInv

\* The cursor moves to the end of a batch without a gap, whose command
\* started from a cursor that was reached; or the batch is a first one, and
\* what the cursor skips is below firstAt.
LEMMA ReceiveLogsStep ==
  ASSUME DashInv, NEW i \in 1..(MaxFlight + 1), ReceiveLogs(i)
  PROVE  DashInv'
<1>1. /\ UNCHANGED <<sourceVars, name, epoch, settled, paused, timeRange, panelVars, queryErr,
                     modalVars, failures>>
      /\ i \in DOMAIN flight /\ flight' = RemoveAt(flight, i)
  BY DEF ReceiveLogs, Message
<1>2. PICK f : f = flight[i]
  OBVIOUS
<1>3. /\ f.epoch = epoch /\ f.kind = "logs" /\ f.state = "done"
      /\ log' = Buffer!AddAll(log, f.value.events)
      /\ cursor' = IF f.value.next # 0 THEN f.value.next ELSE cursor
      /\ shown' = shown \cup {f.value.events[n].event : n \in DOMAIN f.value.events}
      /\ firstAt' = IF f.arg = 0 /\ f.value.next > firstAt + 1 THEN f.value.next - 1 ELSE firstAt
  BY <1>2 DEF ReceiveLogs, IsStale
<1>4. f \in Fetch /\ FetchInv(f)
  BY <1>1, <1>2, InvIsSound, FlightElements
<1>5. /\ f.arg \in 0..(MaxEvents + 1) /\ f.value \in Batch /\ Carries(f)
      /\ f.arg # 0 => Reached(f.arg)
  BY <1>3, <1>4, MessageTypes DEF FetchInv
<1> DEFINE rows == f.value.events
           next == f.value.next
<1>6. rows \in Seq(Row) /\ next \in 0..(MaxEvents + 1)
  BY <1>5 DEF Batch
<1>7. /\ cursor' = IF next # 0 THEN next ELSE cursor
      /\ shown' = shown \cup {rows[n].event : n \in DOMAIN rows}
      /\ firstAt' = IF f.arg = 0 /\ next > firstAt + 1 THEN next - 1 ELSE firstAt
      /\ log' = Buffer!AddAll(log, rows)
  BY <1>3
<1>8. /\ \A n \in DOMAIN rows : rows[n].epoch = epoch
      /\ f.arg # 0 => \A n \in 1..MaxEvents : f.arg <= n /\ n < next =>
                         \E m \in DOMAIN rows : rows[m].event = n
  BY <1>3, <1>5 DEF Carries
<1> HIDE DEF rows, next
<1>9. /\ cursor \in Nat /\ firstAt \in 0..MaxEvents /\ MaxEvents \in Nat
      /\ shown \subseteq 1..MaxEvents
  BY DashboardAssumption DEF DashInv, TypeOK
<1>10. firstAt' \in 0..MaxEvents /\ firstAt <= firstAt' /\ (f.arg = 0 => next <= firstAt' + 1)
  BY <1>6, <1>7, <1>9
<1>11. cursor' \in 0..(MaxEvents + 1)
  <2>1. cursor \in 0..(MaxEvents + 1)
    BY DEF DashInv, TypeOK
  <2> QED BY <1>6, <1>7, <2>1
<1>12. shown \subseteq shown' /\ shown' \subseteq 1..MaxEvents
  <2>1. \A n \in DOMAIN rows : rows[n] \in Row
    BY <1>6, ElementOfSeq, LenProperties
  <2>2. \A n \in DOMAIN rows : rows[n].event \in 1..MaxEvents
    BY <2>1 DEF Row
  <2> QED BY <1>7, <1>9, <2>2
<1>13. Known \subseteq Known'
  <2>1. epoch' = epoch /\ name' = name /\ epoch' \in Nat /\ firstAt' \in Nat
    BY <1>1, <1>10, DashboardAssumption DEF DashInv, TypeOK
  <2> QED BY <1>10, <1>12, <2>1, KnownKept DEF DashInv
<1>14. /\ SoundFlight'
       /\ \A j \in DOMAIN flight : j # i => \E k \in DOMAIN flight' : flight'[k] = flight[j]
  BY <1>1, <1>13, InvIsSound, FlightReceived
<1>15. log' \in Seq(Row) /\ \A n \in DOMAIN log' : log'[n].epoch = epoch
  <2> DEFINE Own == {r \in Row : r.epoch = epoch}
  <2>1. log \in Seq(Own)
    <3>1. log \in Seq(Row) /\ \A n \in DOMAIN log : log[n].epoch = epoch
      BY DEF DashInv, TypeOK, NothingForeign
    <3>2. \A n \in DOMAIN log : log[n] \in Own
      BY <3>1, ElementOfSeq, LenProperties
    <3> HIDE DEF Own
    <3> QED BY <3>1, <3>2, SeqDef, LenProperties
  <2>2. rows \in Seq(Own)
    <3>1. \A n \in DOMAIN rows : rows[n] \in Own
      BY <1>6, <1>8, ElementOfSeq, LenProperties
    <3> HIDE DEF Own
    <3> QED BY <1>6, <3>1, SeqDef, LenProperties
  <2>3. log' \in Seq(Own)
    <3> HIDE DEF Own
    <3> QED BY <1>7, <2>1, <2>2, AddAllKeeps
  <2>4. \A n \in DOMAIN log' : log'[n] \in Own
    <3> HIDE DEF Own
    <3> QED BY <2>3, ElementOfSeq, LenProperties
  <2>5. Own \subseteq Row
    OBVIOUS
  <2>6. log' \in Seq(Row)
    <3> HIDE DEF Own
    <3> QED BY <2>3, <2>5, SeqMonotonic
  <2> QED BY <2>4, <2>6
<1>16. TypeOK'
  BY <1>1, <1>10, <1>11, <1>12, <1>14, <1>15, FlightTypesNext
     DEF DashInv, TypeOK, sourceVars, panelVars, modalVars
<1>17. NothingForeign'
  BY <1>1, <1>15 DEF DashInv, NothingForeign, panelVars, modalVars
<1>18. NoGap'
  <2> SUFFICES ASSUME NEW n \in 1..MaxEvents, firstAt' < n, n < cursor' PROVE n \in shown'
    BY DEF NoGap
  <2>1. n \in Nat /\ firstAt < n
    BY <1>9, <1>10
  <2>2. CASE next = 0
    <3>1. n \in shown
      BY <1>7, <2>1, <2>2 DEF DashInv, NoGap
    <3> QED BY <1>12, <3>1
  <2>3. CASE next # 0 /\ f.arg = 0
    BY <1>6, <1>7, <1>9, <1>10, <2>1, <2>3
  <2>4. CASE next # 0 /\ f.arg # 0 /\ n < f.arg
    <3>1. n \in shown
      BY <1>5, <2>1, <2>4 DEF Reached
    <3> QED BY <1>12, <3>1
  <2>5. CASE next # 0 /\ f.arg # 0 /\ ~(n < f.arg)
    <3>1. f.arg <= n /\ n < next
      BY <1>5, <1>7, <2>1, <2>5
    <3>2. PICK m \in DOMAIN rows : rows[m].event = n
      BY <1>8, <2>5, <3>1
    <3> QED BY <1>7, <3>2
  <2> QED BY <2>2, <2>3, <2>4, <2>5
<1>19. ModalOwnRow'
  <2>1. flight[i] \notin Ending
    BY <1>2, <1>3 DEF Ending
  <2> QED BY <1>1, <1>14, <2>1, InvIsSound, ModalKept DEF DashInv, modalVars
<1>20. SettledMeansRefreshed'
  <2>1. Refreshing \subseteq Refreshing' /\ flight[i] \notin Refreshing
    BY <1>1, <1>2, <1>3, RefreshingKept DEF sourceVars, Refreshing
  <2> QED BY <1>1, <1>14, <2>1, InvIsSound, SettledKept DEF DashInv, panelVars
<1> QED BY <1>14, <1>16, <1>17, <1>18, <1>19, <1>20, FlightTypesNext DEF DashInv

LEMMA ReceivePanelStep ==
  ASSUME DashInv, NEW i \in 1..(MaxFlight + 1), ReceivePanel(i)
  PROVE  DashInv'
<1>1. /\ UNCHANGED <<sourceVars, name, epoch, settled, streamVars, paused, timeRange, queryErr,
                     modalVars, failures>>
      /\ i \in DOMAIN flight /\ flight' = RemoveAt(flight, i)
  BY DEF ReceivePanel, Message
<1>2. PICK f : f = flight[i]
  OBVIOUS
<1>3. /\ f.epoch = epoch /\ f.kind = "panel" /\ f.state = "done"
      /\ panel' = f.value /\ refreshed' = (refreshed \/ f.value.complete)
  BY <1>2 DEF ReceivePanel, IsStale
<1>4. f \in Fetch /\ FetchInv(f)
  BY <1>1, <1>2, InvIsSound, FlightElements
<1>5. f.value \in Results /\ f.value.epoch = epoch
  BY <1>3, <1>4, MessageTypes DEF FetchInv
<1>6. panel' \in Results /\ refreshed' \in BOOLEAN
  BY <1>3, <1>5 DEF Results, DashInv, TypeOK
<1>7. Known \subseteq Known'
  BY <1>1, KnownUnchanged DEF DashInv, streamVars
<1>8. /\ SoundFlight'
      /\ \A j \in DOMAIN flight : j # i => \E k \in DOMAIN flight' : flight'[k] = flight[j]
  BY <1>1, <1>7, InvIsSound, FlightReceived
<1>9. TypeOK'
  BY <1>1, <1>6, <1>8, FlightTypesNext DEF DashInv, TypeOK, sourceVars, streamVars, modalVars
<1>10. NothingForeign' /\ NoGap'
  BY <1>1, <1>3, <1>5 DEF DashInv, NothingForeign, NoGap, streamVars, modalVars
<1>11. ModalOwnRow'
  <2>1. flight[i] \notin Ending
    BY <1>2, <1>3 DEF Ending
  <2> QED BY <1>1, <1>8, <2>1, InvIsSound, ModalKept DEF DashInv, modalVars
<1>12. SettledMeansRefreshed'
  <2>1. Refreshing \subseteq Refreshing'
    BY <1>1, RefreshingKept DEF sourceVars
  <2>2. flight[i] \in Refreshing => refreshed'
    BY <1>2, <1>3 DEF Refreshing
  <2>3. settled' = settled /\ (refreshed => refreshed')
    BY <1>1, <1>3
  <2> QED BY <1>8, <2>1, <2>2, <2>3, InvIsSound, SettledKept DEF DashInv
<1> QED BY <1>8, <1>9, <1>10, <1>11, <1>12, FlightTypesNext DEF DashInv

\* The full object that comes is that of the row the modal waits for; another
\* row's leaves the command of the modal's row on its way.
LEMMA ReceiveHydrateStep ==
  ASSUME DashInv, NEW i \in 1..(MaxFlight + 1), ReceiveHydrate(i)
  PROVE  DashInv'
<1>1. /\ UNCHANGED <<sourceVars, name, epoch, settled, streamVars, paused, timeRange, panelVars,
                     queryErr, mode, failures>>
      /\ i \in DOMAIN flight /\ flight' = RemoveAt(flight, i)
  BY DEF ReceiveHydrate, Message
<1>2. PICK f : f = flight[i]
  OBVIOUS
<1>3. /\ f.epoch = epoch /\ f.kind = "hydrate" /\ f.state # "running"
      /\ IF Awaited(f)
           THEN /\ expandLoading' = FALSE
                /\ expandedLog' = [expandedLog EXCEPT !.raw =
                                     IF f.state = "failed" THEN expandedLog.row ELSE f.value]
           ELSE UNCHANGED <<expandLoading, expandedLog>>
  BY <1>2 DEF ReceiveHydrate, IsStale, Message
<1>4. f \in Fetch /\ FetchInv(f)
  BY <1>1, <1>2, InvIsSound, FlightElements
<1>5. f.state = "done" => f.value = f.arg
  BY <1>3, <1>4 DEF FetchInv
<1>6. Known \subseteq Known'
  BY <1>1, KnownUnchanged DEF DashInv, streamVars
<1>7. /\ SoundFlight'
      /\ \A j \in DOMAIN flight : j # i => \E k \in DOMAIN flight' : flight'[k] = flight[j]
  BY <1>1, <1>6, InvIsSound, FlightReceived
<1>8. ASSUME Awaited(f)
      PROVE  TypeOK' /\ NothingForeign' /\ NoGap' /\ ModalOwnRow'
  <2>1. expandedLog \in Modal /\ mode = "expand" /\ expandedLog.row = f.arg
    BY <1>8 DEF Awaited, DashInv, TypeOK, ModalOwnRow
  <2>2. (IF f.state = "failed" THEN expandedLog.row ELSE f.value) = expandedLog.row
    BY <1>3, <1>4, <1>5, <2>1, FetchTypes
  <2>3. /\ expandedLog' \in Modal /\ expandedLog'.row = expandedLog.row
        /\ expandedLog'.raw = expandedLog.row
    BY <1>3, <1>8, <2>1, <2>2 DEF Modal
  <2>4. expandedLog' # None /\ expandedLog # None
    BY <2>1, <2>3, NoneAssumption
  <2>5. TypeOK'
    BY <1>1, <1>3, <1>7, <1>8, <2>3, FlightTypesNext
       DEF DashInv, TypeOK, sourceVars, streamVars, panelVars
  <2>6. NothingForeign' /\ NoGap'
    BY <1>1, <2>3, <2>4 DEF DashInv, NothingForeign, NoGap, streamVars, panelVars
  <2>7. ModalOwnRow'
    BY <1>1, <1>3, <1>8, <2>1, <2>3, <2>4 DEF ModalOwnRow
  <2> QED BY <2>5, <2>6, <2>7
<1>9. ASSUME ~Awaited(f)
      PROVE  TypeOK' /\ NothingForeign' /\ NoGap' /\ ModalOwnRow'
  <2>1. UNCHANGED <<expandLoading, expandedLog>>
    BY <1>3, <1>9
  <2>2. TypeOK'
    BY <1>1, <1>7, <2>1, FlightTypesNext DEF DashInv, TypeOK, sourceVars, streamVars, panelVars
  <2>3. NothingForeign' /\ NoGap'
    BY <1>1, <2>1 DEF DashInv, NothingForeign, NoGap, streamVars, panelVars
  <2>4. ModalOwnRow'
    <3>1. CASE expandLoading
      <4>1. PICK j \in DOMAIN flight : /\ flight[j].kind = "hydrate" /\ flight[j].epoch = epoch
                                       /\ flight[j].arg = expandedLog.row
        BY <3>1 DEF DashInv, ModalOwnRow
      <4>2. j # i
        BY <1>2, <1>9, <3>1, <4>1 DEF Awaited, DashInv, ModalOwnRow
      <4>3. PICK k \in DOMAIN flight' : flight'[k] = flight[j]
        BY <1>7, <4>2
      <4> QED BY <1>1, <2>1, <4>1, <4>3 DEF DashInv, ModalOwnRow
    <3>2. CASE ~expandLoading
      BY <1>1, <2>1, <3>2 DEF DashInv, ModalOwnRow
    <3> QED BY <3>1, <3>2
  <2> QED BY <2>2, <2>3, <2>4
<1>10. SettledMeansRefreshed'
  <2>1. Refreshing \subseteq Refreshing' /\ flight[i] \notin Refreshing
    BY <1>1, <1>2, <1>3, RefreshingKept DEF sourceVars, Refreshing
  <2> QED BY <1>1, <1>7, <2>1, InvIsSound, SettledKept DEF DashInv, panelVars
<1> QED BY <1>7, <1>8, <1>9, <1>10, FlightTypesNext DEF DashInv

\* Every step of the dashboard preserves the invariant.
LEMMA StepKeepsInv ==
  ASSUME DashInv, [Next]_vars
  PROVE  DashInv'
<1>1. ASSUME NEW s \in Sources, Publish(s) \/ FinishBackfill(s) PROVE DashInv'
  BY <1>1, SourceStep
<1>2. ASSUME NEW i \in 1..(MaxFlight + 1), Run(i) \/ Fail(i) PROVE DashInv'
  BY <1>2, CommandStep
<1>3. ASSUME NEW i \in 1..(MaxFlight + 1), Receive(i) PROVE DashInv'
  BY <1>3, ReceiveStaleStep, ReceiveErrorStep, ReceiveLogsStep, ReceivePanelStep,
     ReceiveHydrateStep DEF Receive
<1>4. CASE StreamTick
  BY <1>4, StreamTickStep
<1>5. CASE Refresh
  BY <1>5, RefreshStep
<1>6. CASE Key
  <2>1. CASE KeyPause \/ KeyEscape \/ KeySourceSwitcher \/ SwitchNowhere
    BY <2>1, QuietKey
  <2>2. CASE KeyTimeRange
    BY <2>2, KeyTimeRangeStep
  <2>3. CASE KeyEnter
    BY <2>3, KeyEnterStep
  <2>4. ASSUME NEW next \in Sources, SwitchSource(next) PROVE DashInv'
    BY <2>4, SwitchSourceStep
  <2> QED BY <1>6, <2>1, <2>2, <2>3, <2>4 DEF Key
<1>7. CASE UNCHANGED vars
  <2>1. /\ UNCHANGED <<sourceVars, name, epoch, settled, paused, timeRange, queryErr, flight,
                       failures>>
        /\ UNCHANGED streamVars /\ UNCHANGED panelVars /\ UNCHANGED modalVars
    BY <1>7 DEF vars
  <2>2. TypeOK'
    BY <2>1 DEF DashInv, TypeOK, sourceVars, streamVars, panelVars, modalVars
  <2>3. ModalOwnRow'
    BY <2>1 DEF DashInv, ModalOwnRow, modalVars
  <2> QED BY <2>1, <2>2, <2>3, QuietStep DEF sourceVars, modalVars
<1> QED BY <1>1, <1>2, <1>3, <1>4, <1>5, <1>6, <1>7 DEF Next

------------------------------------------------------------------------------
(***************************************************************************)
(* The theorems.                                                           *)
(***************************************************************************)
\* The inductive invariant: what has arrived and what is on its way.
THEOREM DashboardInvariant == Spec => []DashInv
<1>1. Init => DashInv
  BY InitInv
<1>2. DashInv /\ [Next]_vars => DashInv'
  BY StepKeepsInv
<1> QED BY <1>1, <1>2, PTL DEF Spec

\* Type correctness, for any sources, ranges, limits and bounds.
THEOREM DashboardTypes == Spec => []TypeOK
<1>1. DashInv => TypeOK
  BY DEF DashInv
<1> QED BY <1>1, DashboardInvariant, PTL

\* A result of a source that was left never lands on the new one, although
\* its command cannot be cancelled and its message may come at any time
\* (epochMsg, Model.isStale).
THEOREM DashboardNothingForeign == Spec => []NothingForeign
<1>1. DashInv => NothingForeign
  BY DEF DashInv
<1> QED BY <1>1, DashboardInvariant, PTL

\* The cursor never passes an event that was not appended, however many polls
\* overlap and in whatever order they land (fetchLogs, logBatchMsg.apply).
THEOREM DashboardNoGap == Spec => []NoGap
<1>1. DashInv => NoGap
  BY DEF DashInv
<1> QED BY <1>1, DashboardInvariant, PTL

\* The modal shows its own row's object, and one that says it is loading will
\* be answered (openExpand, applyHydrate).
THEOREM DashboardModalOwnRow == Spec => []ModalOwnRow
<1>1. DashInv => ModalOwnRow
  BY DEF DashInv
<1> QED BY <1>1, DashboardInvariant, PTL

\* The panels count as settled only when a refresh from the complete store has
\* come, is on its way, or has failed (onStreamTick).
THEOREM DashboardSettled == Spec => []SettledMeansRefreshed
<1>1. DashInv => SettledMeansRefreshed
  BY DEF DashInv
<1> QED BY <1>1, DashboardInvariant, PTL

==============================================================================
