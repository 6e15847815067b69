-------------------------- MODULE AxiomSource_proofs --------------------------
(***************************************************************************)
(* What the stream of the Axiom source delivers, for every dataset, every  *)
(* order of arrival and every size of a batch, and that the panels made of *)
(* the rows of one window agree.                                           *)
(*                                                                         *)
(* The service's sort and take are modelled by what they promise, so the   *)
(* argument rests on three facts about a batch: a batch that leaves a row  *)
(* out is full, the row is no older than any row in it, and the cursor     *)
(* stops at the newest row in it.                                          *)
(*                                                                         *)
(* The tables of the panels are made of classes of the window, so what     *)
(* they add up to is a matter of sums by class.                            *)
(***************************************************************************)
EXTENDS AxiomSource, SumTheorems, SequenceTheorems

------------------------------------------------------------------------------
(***************************************************************************)
(* The inductive invariant.                                                *)
(***************************************************************************)
\* Rows are seen at most one unit before their time; the cursor is the time of
\* one of them, or of the past.
ClockInv ==
  /\ rows \in Seq(Rows)
  /\ now \in Nat /\ now >= 6
  /\ cursor \in Nat /\ cursor <= now + 1
  /\ \A i \in 1..Len(rows) : rows[i].time <= now + 1

\* Whatever was delivered lies below the cursor, so that a later batch cannot
\* hold it, or anything older.
DeliveredInv ==
  /\ delivered \in Seq(1..Len(rows))
  /\ cursor = 0 => delivered = <<>>
  /\ \A k \in 1..Len(delivered) : rows[delivered[k]].time <= cursor

AxiomInv == ClockInv /\ DeliveredInv /\ NoRowTwice /\ SkipsExcused

LEMMA RowTimes ==
  ASSUME ClockInv
  PROVE  /\ Len(rows) \in Nat /\ DOMAIN rows = 1..Len(rows)
         /\ \A i \in 1..Len(rows) : rows[i] \in Rows /\ rows[i].time \in Nat
BY LenProperties, ElementOfSeq, RowAssumption DEF ClockInv

------------------------------------------------------------------------------
(***************************************************************************)
(* Batches.                                                                *)
(***************************************************************************)
LEMMA MaxOfBounded ==
  ASSUME NEW S \in SUBSET Int, S # {}, NEW b \in Int, \A x \in S : x <= b
  PROVE  Max(S) \in S /\ \A y \in S : Max(S) >= y
<1> DEFINE D == {b - x : x \in S}
<1>1. D \in SUBSET Nat /\ D # {}
  <2>1. \A x \in S : b - x \in Nat
    OBVIOUS
  <2> QED BY <2>1
<1>2. PICK d \in D : \A e \in D : d <= e
  <2> HIDE DEF D
  <2> QED BY <1>1, LeastElement
<1>3. PICK x \in S : d = b - x
  OBVIOUS
<1>4. ASSUME NEW y \in S PROVE x >= y
  <2>1. b - x <= b - y
    BY <1>2, <1>3
  <2> QED BY <2>1
<1>5. \E m \in S : \A y \in S : m >= y
  BY <1>4
<1> QED BY <1>5 DEF Max

\* What a poll from since on may get.
Batches(since) == Heaviest(After(since), LAMBDA i : -rows[i].time, TakeRows)

\* A batch that leaves a row out is full, and the row is no older than any row
\* that it takes.
LEMMA BatchTakes ==
  ASSUME ClockInv, NEW since \in Nat, NEW batch \in Batches(since)
  PROVE  /\ batch \subseteq 1..Len(rows) /\ IsFiniteSet(batch)
         /\ \A i \in batch : rows[i].time > since
         /\ \A i \in 1..Len(rows) : rows[i].time > since /\ i \notin batch
              => Cardinality(batch) = TakeRows /\ \A p \in batch : rows[p].time <= rows[i].time
<1> DEFINE T == After(since)
<1>1. T \subseteq 1..Len(rows) /\ \A i \in 1..Len(rows) : i \in T <=> rows[i].time > since
  BY RowTimes DEF After
<1>2. IsFiniteSet(T)
  <2> HIDE DEF T
  <2>1. IsFiniteSet(1..Len(rows))
    <3>1. Len(rows) \in Int /\ 1 \in Int
      BY RowTimes
    <3> QED BY <3>1, FS_Interval
  <2> QED BY <1>1, <2>1, FS_Subset
<1>3. /\ batch \in SUBSET T
      /\ Cardinality(batch) = IF Cardinality(T) < TakeRows THEN Cardinality(T) ELSE TakeRows
      /\ \A p \in batch, q \in T \ batch : -rows[p].time >= -rows[q].time
  BY DEF Heaviest, Batches
<1> HIDE DEF T
<1>4. /\ IsFiniteSet(batch)
      /\ Cardinality(T) = Cardinality(batch) => T = batch
  BY <1>2, <1>3, FS_Subset
<1>5. ASSUME NEW i \in 1..Len(rows), rows[i].time > since, i \notin batch
      PROVE  Cardinality(batch) = TakeRows /\ \A p \in batch : rows[p].time <= rows[i].time
  <2>1. i \in T
    BY <1>1, <1>5
  <2>2. Cardinality(batch) = TakeRows
    BY <1>3, <1>4, <1>5, <2>1, Zenon
  <2>3. ASSUME NEW p \in batch PROVE rows[p].time <= rows[i].time
    <3>1. -rows[p].time >= -rows[i].time
      BY <1>3, <1>5, <2>1
    <3>2. rows[p].time \in Nat /\ rows[i].time \in Nat
      BY <1>1, <1>3, RowTimes
    <3> QED BY <3>1, <3>2
  <2> QED BY <2>2, <2>3
<1>6. \A i \in batch : rows[i].time > since
  BY <1>1, <1>3
<1> QED BY <1>1, <1>3, <1>4, <1>5, <1>6

\* The cursor stops at the newest row of the batch.
LEMMA CursorStops ==
  ASSUME ClockInv, NEW since \in Nat, since <= now + 1, NEW batch \in SUBSET (1..Len(rows)),
         NEW next, next = NextCursor(since, batch)
  PROVE  /\ next \in Nat /\ since <= next /\ next <= now + 1
         /\ next = since \/ \E i \in batch : next = rows[i].time
         /\ \A i \in batch : rows[i].time <= next
<1> DEFINE S == {since} \cup {rows[i].time : i \in batch}
<1>1. \A i \in batch : rows[i].time \in Nat /\ rows[i].time <= now + 1
  BY RowTimes DEF ClockInv
<1>2. now + 1 \in Int /\ since \in Int
  BY DEF ClockInv
<1>3. S \in SUBSET Int /\ S # {} /\ \A x \in S : x <= now + 1
  BY <1>1, <1>2
<1>4. next = Max(S)
  BY DEF NextCursor
<1>5. next \in S /\ \A y \in S : next >= y
  <2> HIDE DEF S
  <2> QED BY <1>2, <1>3, <1>4, MaxOfBounded
<1>6. next = since \/ \E i \in batch : next = rows[i].time
  BY <1>5
<1>7. since \in S /\ \A i \in batch : rows[i].time \in S
  OBVIOUS
<1> HIDE DEF S
<1>8. next \in Nat /\ next <= now + 1
  BY <1>1, <1>2, <1>6
<1>9. since <= next /\ \A i \in batch : rows[i].time <= next
  BY <1>1, <1>5, <1>7, <1>8
<1> QED BY <1>6, <1>8, <1>9

\* The rows of a batch are delivered once each.
LEMMA OrderFacts ==
  ASSUME NEW batch, IsFiniteSet(batch), NEW s \in Orders(batch)
  PROVE  /\ s \in Seq(batch) /\ DOMAIN s = 1..Len(s) /\ Len(s) \in Nat
         /\ \A k, l \in 1..Len(s) : s[k] = s[l] => k = l
         /\ \A k, l \in 1..Len(s) : k < l => rows[s[k]].time <= rows[s[l]].time
         /\ \A i \in batch : \E k \in 1..Len(s) : s[k] = i
<1> DEFINE n == Cardinality(batch)
<1>1. n \in Nat
  BY FS_CardinalityType
<1>2. /\ s \in [1..n -> batch]
      /\ Sorted(s)
      /\ \A i \in batch : \E k \in DOMAIN s : s[k] = i
  BY DEF Orders
<1> HIDE DEF n
<1>3. s \in Seq(batch) /\ Len(s) = n /\ DOMAIN s = 1..n
  BY <1>1, <1>2
<1>4. s \in Surjection(1..n, batch)
  BY <1>2, <1>3 DEF Surjection
<1>5. IsFiniteSet(1..n) /\ Cardinality(1..n) = n
  BY <1>1, FS_Interval
<1>6. s \in Injection(1..n, batch)
  BY <1>4, <1>5, FS_SurjSameCardinalityImpliesInj DEF n
<1>7. \A k, l \in 1..n : s[k] = s[l] => k = l
  BY <1>6 DEF Injection, IsInjective
<1> QED BY <1>1, <1>2, <1>3, <1>7 DEF Sorted

------------------------------------------------------------------------------
(***************************************************************************)
(* Steps.                                                                  *)
(***************************************************************************)
LEMMA AxiomInitial == AxiomInit => AxiomInv
<1> SUFFICES ASSUME AxiomInit PROVE AxiomInv
  OBVIOUS
<1>1. /\ rows = <<>> /\ now = 6 /\ cursor = 0 /\ delivered = <<>>
      /\ Len(<<>>) = 0 /\ <<>> \in Seq(Rows) /\ <<>> \in Seq(1..0) /\ DOMAIN <<>> = {}
  BY EmptySeq DEF AxiomInit
<1>2. ClockInv
  BY <1>1 DEF ClockInv
<1>3. DeliveredInv
  BY <1>1 DEF DeliveredInv
<1>4. NoRowTwice /\ SkipsExcused
  BY <1>1 DEF NoRowTwice, Sorted, SkipsExcused
<1> QED BY <1>2, <1>3, <1>4 DEF AxiomInv

\* A row that arrives changes no row before it, and is excused if it is late.
LEMMA LogKeeps ==
  ASSUME AxiomInv, Log
  PROVE  AxiomInv'
<1> DEFINE n == Len(rows)
<1>1. PICK r \in Rows :
        /\ r.time <= now + 1
        /\ rows' = Append(rows, r)
        /\ passed' = IF cursor # 0 /\ r.time <= cursor THEN passed \cup {Len(rows) + 1} ELSE passed
  BY DEF Log
<1>2. now' = now /\ cursor' = cursor /\ delivered' = delivered
  BY DEF Log
<1>3. n \in Nat /\ DOMAIN rows = 1..n /\ rows \in Seq(Rows)
  BY RowTimes DEF AxiomInv, ClockInv
<1>4. /\ rows' \in Seq(Rows) /\ Len(rows') = n + 1
      /\ \A i \in 1..n : rows'[i] = rows[i]
      /\ rows'[n + 1] = r
  BY <1>1, <1>3, AppendProperties
<1>5. DOMAIN rows' = 1..(n + 1)
  BY <1>4, LenProperties
<1>6. /\ delivered \in Seq(1..n) /\ DOMAIN delivered = 1..Len(delivered)
      /\ \A k \in 1..Len(delivered) : delivered[k] \in 1..n
  BY LenProperties, ElementOfSeq DEF AxiomInv, DeliveredInv
<1> HIDE DEF n
<1>7. \A i \in 1..(n + 1) : i \in 1..n \/ i = n + 1
  BY <1>3
<1>8. ClockInv'
  <2>1. \A i \in 1..(n + 1) : rows'[i].time <= now + 1
    BY <1>1, <1>4, <1>7 DEF AxiomInv, ClockInv, n
  <2> QED BY <1>2, <1>4, <2>1 DEF AxiomInv, ClockInv
<1>9. DeliveredInv'
  <2>1. delivered' \in Seq(1..(n + 1))
    <3>1. 1..n \subseteq 1..(n + 1)
      BY <1>3
    <3> QED BY <1>2, <1>6, <3>1, SeqMonotonic
  <2>2. \A k \in 1..Len(delivered) : rows'[delivered[k]].time <= cursor
    BY <1>4, <1>6 DEF AxiomInv, DeliveredInv
  <2> QED BY <1>2, <1>4, <2>1, <2>2 DEF AxiomInv, DeliveredInv
<1>10. NoRowTwice'
  <2>1. \A k, l \in DOMAIN delivered : k < l => rows'[delivered[k]].time <= rows'[delivered[l]].time
    BY <1>4, <1>6 DEF AxiomInv, NoRowTwice, Sorted
  <2> QED BY <1>2, <2>1 DEF AxiomInv, NoRowTwice, Sorted
<1>11. SkipsExcused'
  <2> SUFFICES ASSUME cursor # 0, NEW i \in 1..(n + 1), rows'[i].time <= cursor
               PROVE  i \in passed' \/ \E k \in DOMAIN delivered : delivered[k] = i
    BY <1>2, <1>5 DEF SkipsExcused
  <2>1. CASE i \in 1..n
    <3>1. rows[i].time <= cursor
      BY <1>4, <2>1
    <3>2. i \in passed \/ \E k \in DOMAIN delivered : delivered[k] = i
      BY <1>3, <2>1, <3>1 DEF AxiomInv, SkipsExcused
    <3> QED BY <1>1, <3>2
  <2>2. CASE i = n + 1
    BY <1>1, <1>4, <2>2 DEF n
  <2> QED BY <1>7, <2>1, <2>2
<1> QED BY <1>8, <1>9, <1>10, <1>11 DEF AxiomInv

LEMMA TickKeeps ==
  ASSUME AxiomInv, Tick
  PROVE  AxiomInv'
<1>1. now' = now + 1 /\ UNCHANGED <<rows, cursor, delivered, passed>>
  BY DEF Tick
<1>2. ClockInv'
  <2>1. \A i \in 1..Len(rows) : rows[i].time <= now + 1 + 1
    BY RowTimes DEF AxiomInv, ClockInv
  <2> QED BY <1>1, <2>1 DEF AxiomInv, ClockInv
<1>3. DeliveredInv' /\ NoRowTwice' /\ SkipsExcused'
  BY <1>1 DEF AxiomInv, DeliveredInv, NoRowTwice, Sorted, SkipsExcused
<1> QED BY <1>2, <1>3 DEF AxiomInv

\* A poll delivers rows past all that were delivered; what it leaves below its
\* new cursor ties with a row of a full batch.
LEMMA StreamKeeps ==
  ASSUME AxiomInv, Stream
  PROVE  AxiomInv'
<1> DEFINE n == Len(rows)
<1>1. PICK since : since = Since
  OBVIOUS
<1>2. PICK batch \in Batches(since) :
        /\ \E s \in Orders(batch) : delivered' = delivered \o s
        /\ cursor' = NextCursor(since, batch)
        /\ passed' = passed
             \cup (IF cursor = 0 THEN {i \in DOMAIN rows : rows[i].time <= since} ELSE {})
             \cup (IF Cardinality(batch) = TakeRows
                     THEN {i \in After(since) \ batch : \E j \in batch : rows[i].time = rows[j].time}
                     ELSE {})
  BY <1>1 DEF Stream, Batches
<1>3. PICK s \in Orders(batch) : delivered' = delivered \o s
  BY <1>2
<1>4. rows' = rows /\ now' = now
  BY DEF Stream
<1>5. ClockInv
  BY DEF AxiomInv
<1>6. /\ n \in Nat /\ DOMAIN rows = 1..n
      /\ \A i \in 1..n : rows[i] \in Rows /\ rows[i].time \in Nat
  BY <1>5, RowTimes
<1>7. /\ since \in Nat /\ since >= 1 /\ since <= now + 1
      /\ cursor # 0 => since = cursor
      /\ cursor = 0 => delivered = <<>>
  BY <1>1, <1>5 DEF Since, ClockInv, AxiomInv, DeliveredInv
<1>8. /\ batch \subseteq 1..n /\ IsFiniteSet(batch)
      /\ \A i \in batch : rows[i].time > since
      /\ \A i \in 1..n : rows[i].time > since /\ i \notin batch
           => Cardinality(batch) = TakeRows /\ \A p \in batch : rows[p].time <= rows[i].time
  BY <1>5, <1>7, BatchTakes
<1> DEFINE next == cursor'
<1>9. /\ next \in Nat /\ since <= next /\ next <= now + 1
      /\ next = since \/ \E i \in batch : next = rows[i].time
      /\ \A i \in batch : rows[i].time <= next
  <2>1. next = NextCursor(since, batch)
    BY <1>2
  <2> HIDE DEF next
  <2> QED BY <1>5, <1>7, <1>8, <2>1, CursorStops
<1>10. /\ s \in Seq(batch) /\ DOMAIN s = 1..Len(s) /\ Len(s) \in Nat
       /\ \A k, l \in 1..Len(s) : s[k] = s[l] => k = l
       /\ \A k, l \in 1..Len(s) : k < l => rows[s[k]].time <= rows[s[l]].time
       /\ \A i \in batch : \E k \in 1..Len(s) : s[k] = i
  BY <1>8, OrderFacts
<1> DEFINE d == delivered
           e == delivered \o s
           m == Len(delivered)
           q == Len(s)
<1>11. /\ d \in Seq(1..n) /\ m \in Nat /\ DOMAIN d = 1..m
       /\ \A k \in 1..m : d[k] \in 1..n /\ rows[d[k]].time <= cursor
  BY LenProperties, ElementOfSeq DEF AxiomInv, DeliveredInv
<1>12. s \in Seq(1..n) /\ \A k \in 1..q : s[k] \in batch
  BY <1>8, <1>10, SeqMonotonic, ElementOfSeq
<1>13. /\ e \in Seq(1..n) /\ Len(e) = m + q /\ DOMAIN e = 1..(m + q)
       /\ \A k \in 1..(m + q) : e[k] = IF k <= m THEN d[k] ELSE s[k - m]
  <2>1. /\ e \in Seq(1..n) /\ Len(e) = m + q
        /\ \A k \in 1..(m + q) : e[k] = IF k <= m THEN d[k] ELSE s[k - m]
    BY <1>11, <1>12, ConcatProperties
  <2> HIDE DEF e
  <2> QED BY <2>1, LenProperties
<1>14. delivered' = e /\ cursor' = next
  BY <1>3
<1> HIDE DEF n, next, d, e, m, q
\* Places of the old rows, and of the new ones.
<1>15. ASSUME NEW k \in 1..m
       PROVE  k \in 1..(m + q) /\ e[k] = d[k] /\ rows[d[k]].time \in Nat /\ rows[d[k]].time <= since
  <2>1. k \in 1..(m + q) /\ k <= m
    BY <1>10, <1>11 DEF q
  <2>2. cursor # 0
    <3>1. d # <<>>
      BY <1>11, EmptySeq DEF m, d
    <3> QED BY <1>7, <3>1 DEF d
  <2>3. rows[d[k]].time <= since
    BY <1>7, <1>11, <2>2
  <2> QED BY <1>6, <1>11, <1>13, <2>1, <2>3
<1>16. ASSUME NEW k \in 1..q
       PROVE  /\ m + k \in 1..(m + q) /\ e[m + k] = s[k]
              /\ s[k] \in batch /\ s[k] \in 1..n
              /\ rows[s[k]].time \in Nat /\ rows[s[k]].time > since /\ rows[s[k]].time <= next
  <2>1. q \in Nat
    BY <1>10 DEF q
  <2>2. m + k \in 1..(m + q) /\ ~(m + k <= m) /\ (m + k) - m = k
    BY <1>11, <2>1
  <2>3. e[m + k] = s[k]
    BY <1>13, <2>2
  <2>4. s[k] \in batch /\ s[k] \in 1..n
    BY <1>8, <1>12
  <2> QED BY <1>6, <1>8, <1>9, <2>2, <2>3, <2>4
<1>17. ASSUME NEW k \in 1..(m + q), ~(k <= m)
       PROVE  k - m \in 1..q /\ k = m + (k - m)
  BY <1>10, <1>11, <1>17 DEF q
<1>18. ASSUME NEW k \in 1..(m + q), k <= m PROVE k \in 1..m
  BY <1>11, <1>18
<1>19. ClockInv'
  BY <1>4, <1>5, <1>9, <1>14 DEF ClockInv
<1>20. DeliveredInv'
  <2>1. next # 0
    BY <1>7, <1>9
  <2>2. ASSUME NEW k \in 1..(m + q) PROVE rows[e[k]].time <= next
    <3>1. CASE k <= m
      <4>1. e[k] = d[k] /\ rows[d[k]].time \in Nat /\ rows[d[k]].time <= since
        BY <1>15, <1>18, <3>1
      <4> QED BY <1>7, <1>9, <4>1
    <3>2. CASE ~(k <= m)
      <4> DEFINE l == k - m
      <4>1. l \in 1..q /\ k = m + l
        BY <1>17, <3>2
      <4> HIDE DEF l
      <4> QED BY <1>16, <4>1
    <3> QED BY <3>1, <3>2
  <2> QED BY <1>4, <1>13, <1>14, <2>1, <2>2 DEF DeliveredInv, n
<1>21. ASSUME NEW k \in 1..(m + q), NEW l \in 1..(m + q)
       PROVE  /\ e[k] = e[l] => k = l
              /\ k < l => rows[e[k]].time <= rows[e[l]].time
  <2>1. CASE k <= m /\ l <= m
    <3>1. k \in 1..m /\ l \in 1..m /\ e[k] = d[k] /\ e[l] = d[l]
      BY <1>15, <1>18, <2>1
    <3> QED BY <1>11, <3>1 DEF AxiomInv, NoRowTwice, Sorted, d
  <2>2. CASE k <= m /\ ~(l <= m)
    <3> DEFINE l2 == l - m
    <3>1. l2 \in 1..q /\ l = m + l2 /\ k \in 1..m
      BY <1>17, <1>18, <2>2
    <3> HIDE DEF l2
    <3>2. e[l] = s[l2] /\ rows[s[l2]].time \in Nat /\ rows[s[l2]].time > since
      BY <1>16, <3>1
    <3>3. e[k] = d[k] /\ rows[d[k]].time \in Nat /\ rows[d[k]].time <= since
      BY <1>15, <3>1
    <3>4. rows[e[k]].time < rows[e[l]].time /\ rows[e[k]].time \in Nat /\ rows[e[l]].time \in Nat
      BY <1>7, <3>2, <3>3
    <3>5. e[k] # e[l]
      BY <3>4
    <3> QED BY <3>4, <3>5
  <2>3. CASE ~(k <= m) /\ l <= m
    <3> DEFINE k2 == k - m
    <3>1. k2 \in 1..q /\ k = m + k2 /\ l \in 1..m
      BY <1>17, <1>18, <2>3
    <3> HIDE DEF k2
    <3>2. e[k] = s[k2] /\ rows[s[k2]].time \in Nat /\ rows[s[k2]].time > since
      BY <1>16, <3>1
    <3>3. e[l] = d[l] /\ rows[d[l]].time \in Nat /\ rows[d[l]].time <= since
      BY <1>15, <3>1
    <3>4. rows[e[l]].time < rows[e[k]].time /\ rows[e[k]].time \in Nat /\ rows[e[l]].time \in Nat
      BY <1>7, <3>2, <3>3
    <3>5. e[k] # e[l] /\ ~(k < l)
      BY <1>11, <2>3, <3>4
    <3> QED BY <3>5
  <2>4. CASE ~(k <= m) /\ ~(l <= m)
    <3> DEFINE k2 == k - m
               l2 == l - m
    <3>1. k2 \in 1..q /\ k = m + k2 /\ l2 \in 1..q /\ l = m + l2
      BY <1>17, <2>4
    <3> HIDE DEF k2, l2
    <3>2. e[k] = s[k2] /\ e[l] = s[l2]
      BY <1>16, <3>1
    <3>3. (k < l => k2 < l2) /\ (k2 = l2 => k = l)
      BY <1>10, <1>11, <3>1 DEF q
    <3> QED BY <1>10, <3>1, <3>2, <3>3 DEF q
  <2> QED BY <2>1, <2>2, <2>3, <2>4
<1>22. NoRowTwice'
  BY <1>4, <1>13, <1>14, <1>21 DEF NoRowTwice, Sorted
<1>23. SkipsExcused'
  <2> SUFFICES ASSUME NEW i \in 1..n, rows[i].time <= next
               PROVE  i \in passed' \/ \E k \in DOMAIN e : e[k] = i
    BY <1>4, <1>6, <1>14 DEF SkipsExcused
  <2>1. rows[i].time \in Nat
    BY <1>6
  <2>2. CASE rows[i].time <= since /\ cursor = 0
    BY <1>2, <1>6, <2>2
  <2>3. CASE rows[i].time <= since /\ cursor # 0
    <3>1. i \in passed \/ \E k \in DOMAIN d : d[k] = i
      BY <1>6, <1>7, <2>3 DEF AxiomInv, SkipsExcused, d
    <3>2. ASSUME NEW k \in DOMAIN d, d[k] = i PROVE \E l \in DOMAIN e : e[l] = i
      BY <1>11, <1>13, <1>15, <3>2
    <3> QED BY <1>2, <3>1, <3>2
  <2>4. CASE i \in batch
    <3>1. PICK k \in 1..q : s[k] = i
      BY <1>10, <2>4 DEF q
    <3> QED BY <1>13, <1>16, <3>1
  <2>5. CASE rows[i].time > since /\ i \notin batch
    <3>1. Cardinality(batch) = TakeRows /\ \A p \in batch : rows[p].time <= rows[i].time
      BY <1>8, <2>5
    <3>2. PICK p \in batch : next = rows[p].time
      BY <1>7, <1>9, <2>1, <2>5
    <3>3. rows[i].time = rows[p].time
      BY <1>9, <2>1, <3>1, <3>2
    <3>4. i \in After(since) \ batch
      BY <1>6, <2>5 DEF After
    <3> QED BY <1>2, <3>1, <3>3, <3>4
  <2>6. rows[i].time <= since \/ rows[i].time > since
    BY <1>7, <2>1
  <2> QED BY <2>2, <2>3, <2>4, <2>5, <2>6
<1> QED BY <1>19, <1>20, <1>22, <1>23 DEF AxiomInv

------------------------------------------------------------------------------
(***************************************************************************)
(* Theorems.                                                               *)
(***************************************************************************)
\* The cursor separates what was delivered from what a poll can still get
\* (Stream).
THEOREM AxiomInvariant == AxiomSpec => []AxiomInv
<1>1. AxiomInv /\ [AxiomNext]_axiomVars => AxiomInv'
  <2> SUFFICES ASSUME AxiomInv, [AxiomNext]_axiomVars PROVE AxiomInv'
    OBVIOUS
  <2>1. CASE Log
    BY <2>1, LogKeeps
  <2>2. CASE Tick
    BY <2>2, TickKeeps
  <2>3. CASE Stream
    BY <2>3, StreamKeeps
  <2>4. CASE UNCHANGED axiomVars
    BY <2>4 DEF axiomVars, AxiomInv, ClockInv, DeliveredInv, NoRowTwice, Sorted, SkipsExcused
  <2> QED BY <2>1, <2>2, <2>3, <2>4 DEF AxiomNext
<1> QED BY <1>1, AxiomInitial, PTL DEF AxiomSpec

\* No row is delivered twice, and the deliveries are in the order of their
\* times, however late rows arrive (Stream).
THEOREM AxiomNoRowTwice == AxiomSpec => []NoRowTwice
BY AxiomInvariant, PTL DEF AxiomInv

\* A row the cursor has gone past was delivered, or is excused for one of the
\* three reasons (Stream).
THEOREM AxiomSkipsExcused == AxiomSpec => []SkipsExcused
BY AxiomInvariant, PTL DEF AxiomInv

------------------------------------------------------------------------------
(***************************************************************************)
(* The panels of one moment.  summarize by is a partition of the rows: the *)
(* classes of a key, which is a function on them.                          *)
(***************************************************************************)
LEMMA WindowFinite ==
  ASSUME ClockInv
  PROVE  /\ Window \in SUBSET (1..Len(rows)) /\ IsFiniteSet(Window)
         /\ Cardinality(Window) \in Nat
<1>1. Window \in SUBSET (1..Len(rows))
  BY RowTimes DEF Window
<1>2. IsFiniteSet(1..Len(rows))
  <2>1. Len(rows) \in Int /\ 1 \in Int
    BY RowTimes
  <2> QED BY <2>1, FS_Interval
<1> QED BY <1>1, <1>2, FS_Subset, FS_CardinalityType

\* A part of the window is finite and no larger.
LEMMA PartFinite ==
  ASSUME ClockInv, NEW S \in SUBSET Window
  PROVE  IsFiniteSet(S) /\ Cardinality(S) \in Nat /\ Cardinality(S) <= Cardinality(Window)
BY WindowFinite, FS_Subset, FS_CardinalityType

LEMMA IssuesInWindow ==
  /\ Issues \in SUBSET Window
  /\ \A level : OfLevel(Window, level) \in SUBSET Window
BY DEF Issues, OfLevel

\* The classes of the key k.
Kinds(k) == {{i \in DOMAIN k : k[i] = v} : v \in {k[j] : j \in DOMAIN k}}

LEMMA KindOf ==
  ASSUME NEW k, NEW C \in Kinds(k), NEW j \in C
  PROVE  j \in DOMAIN k /\ C = {i \in DOMAIN k : k[i] = k[j]}
BY DEF Kinds

LEMMA KindsCover ==
  ASSUME NEW k
  PROVE  /\ UNION Kinds(k) = DOMAIN k
         /\ \A C \in Kinds(k) : C # {}
         /\ \A j \in DOMAIN k : {i \in DOMAIN k : k[i] = k[j]} \in Kinds(k)
BY DEF Kinds

LEMMA KindsFinite ==
  ASSUME NEW k, IsFiniteSet(DOMAIN k)
  PROVE  IsFiniteSet(Kinds(k)) /\ Cardinality(Kinds(k)) <= Cardinality(DOMAIN k)
<1> DEFINE g == [j \in DOMAIN k |-> {i \in DOMAIN k : k[i] = k[j]}]
<1>1. DOMAIN g = DOMAIN k
  OBVIOUS
<1>2. {g[x] : x \in DOMAIN g} = Kinds(k)
  BY DEF Kinds
<1> HIDE DEF g
<1> QED BY <1>1, <1>2, ImageSize

\* take n of a table with no more rows is all of it.
LEMMA TakesAll ==
  ASSUME NEW T, IsFiniteSet(T), NEW n \in Nat, Cardinality(T) <= n, NEW P \in SUBSET T,
         Cardinality(P) = IF Cardinality(T) < n THEN Cardinality(T) ELSE n
  PROVE  P = T
<1>1. Cardinality(T) \in Nat
  BY FS_CardinalityType
<1>2. Cardinality(P) = Cardinality(T)
  BY <1>1
<1> QED BY <1>2, FS_Subset

\* A table of classes of a part S of the window, by the key k, cut off at n.
TopKinds(k, n) == Heaviest(Kinds(k), Cardinality, n)

LEMMA WholeTable ==
  ASSUME ClockInv, NEW k, DOMAIN k \in SUBSET Window, NEW P \in TopKinds(k, Cardinality(Window))
  PROVE  P = Kinds(k)
<1>1. IsFiniteSet(Kinds(k)) /\ Cardinality(Kinds(k)) <= Cardinality(DOMAIN k)
  BY PartFinite, KindsFinite
<1>2. /\ Cardinality(DOMAIN k) \in Nat /\ Cardinality(DOMAIN k) <= Cardinality(Window)
      /\ Cardinality(Window) \in Nat /\ Cardinality(Kinds(k)) \in Nat
  BY <1>1, PartFinite, WindowFinite, FS_CardinalityType
<1>3. /\ P \in SUBSET Kinds(k)
      /\ Cardinality(P) = IF Cardinality(Kinds(k)) < Cardinality(Window)
                            THEN Cardinality(Kinds(k)) ELSE Cardinality(Window)
  BY DEF TopKinds, Heaviest
<1>4. Cardinality(Kinds(k)) <= Cardinality(Window)
  BY <1>1, <1>2
<1> QED BY <1>1, <1>2, <1>3, <1>4, TakesAll

LEMMA TablesAreKinds ==
  ASSUME NEW n
  PROVE  /\ TopErrors(n) = TopKinds([i \in Issues |-> <<rows[i].message, rows[i].level>>], n)
         /\ TopRoutes(n) = TopKinds([i \in {j \in Window : rows[j].message \in Routes} |-> rows[i].message], n)
         /\ TopClientHealth(n) = {{C \in P : \A i \in C : AsString(rows[i].group) # ""} :
                                    P \in TopKinds([i \in Issues |-> rows[i].group], n)}
<1>1. Classes(Issues, LAMBDA i : <<rows[i].message, rows[i].level>>)
        = Kinds([i \in Issues |-> <<rows[i].message, rows[i].level>>])
  <2> DEFINE S == Issues
             k == [i \in S |-> <<rows[i].message, rows[i].level>>]
  <2>1. DOMAIN k = S /\ \A i \in S : k[i] = <<rows[i].message, rows[i].level>>
    OBVIOUS
  <2>2. Classes(S, LAMBDA i : <<rows[i].message, rows[i].level>>)
          = {{i \in S : <<rows[i].message, rows[i].level>> = v} : v \in {<<rows[j].message, rows[j].level>> : j \in S}}
    BY DEF Classes
  <2> HIDE DEF S, k
  <2>3. {<<rows[j].message, rows[j].level>> : j \in S} = {k[j] : j \in DOMAIN k}
    BY <2>1
  <2>4. \A v : {i \in S : <<rows[i].message, rows[i].level>> = v} = {i \in DOMAIN k : k[i] = v}
    BY <2>1
  <2>5. ASSUME NEW C PROVE C \in Classes(S, LAMBDA i : <<rows[i].message, rows[i].level>>) <=> C \in Kinds(k)
    <3> DEFINE V == {<<rows[j].message, rows[j].level>> : j \in S}
    <3>1. C \in Classes(S, LAMBDA i : <<rows[i].message, rows[i].level>>) <=> \E v \in V : C = {i \in S : <<rows[i].message, rows[i].level>> = v}
      BY <2>2
    <3>2. C \in Kinds(k) <=> \E v \in {k[j] : j \in DOMAIN k} : C = {i \in DOMAIN k : k[i] = v}
      BY DEF Kinds
    <3> HIDE DEF V
    <3>3. C \in Kinds(k) <=> \E v \in V : C = {i \in S : <<rows[i].message, rows[i].level>> = v}
      BY <2>3, <2>4, <3>2 DEF V
    <3> QED BY <3>1, <3>3
  <2> QED BY <2>5 DEF S, k
<1>2. Classes({j \in Window : rows[j].message \in Routes}, LAMBDA i : rows[i].message)
        = Kinds([i \in {j \in Window : rows[j].message \in Routes} |-> rows[i].message])
  <2> DEFINE S == {j \in Window : rows[j].message \in Routes}
             k == [i \in S |-> rows[i].message]
  <2>1. DOMAIN k = S /\ \A i \in S : k[i] = rows[i].message
    OBVIOUS
  <2>2. Classes(S, LAMBDA i : rows[i].message)
          = {{i \in S : rows[i].message = v} : v \in {rows[j].message : j \in S}}
    BY DEF Classes
  <2> HIDE DEF S, k
  <2>3. {rows[j].message : j \in S} = {k[j] : j \in DOMAIN k}
    BY <2>1
  <2>4. \A v : {i \in S : rows[i].message = v} = {i \in DOMAIN k : k[i] = v}
    BY <2>1
  <2>5. ASSUME NEW C PROVE C \in Classes(S, LAMBDA i : rows[i].message) <=> C \in Kinds(k)
    <3> DEFINE V == {rows[j].message : j \in S}
    <3>1. C \in Classes(S, LAMBDA i : rows[i].message) <=> \E v \in V : C = {i \in S : rows[i].message = v}
      BY <2>2
    <3>2. C \in Kinds(k) <=> \E v \in {k[j] : j \in DOMAIN k} : C = {i \in DOMAIN k : k[i] = v}
      BY DEF Kinds
    <3> HIDE DEF V
    <3>3. C \in Kinds(k) <=> \E v \in V : C = {i \in S : rows[i].message = v}
      BY <2>3, <2>4, <3>2 DEF V
    <3> QED BY <3>1, <3>3
  <2> QED BY <2>5 DEF S, k
<1>3. Classes(Issues, LAMBDA i : rows[i].group)
        = Kinds([i \in Issues |-> rows[i].group])
  <2> DEFINE S == Issues
             k == [i \in S |-> rows[i].group]
  <2>1. DOMAIN k = S /\ \A i \in S : k[i] = rows[i].group
    OBVIOUS
  <2>2. Classes(S, LAMBDA i : rows[i].group)
          = {{i \in S : rows[i].group = v} : v \in {rows[j].group : j \in S}}
    BY DEF Classes
  <2> HIDE DEF S, k
  <2>3. {rows[j].group : j \in S} = {k[j] : j \in DOMAIN k}
    BY <2>1
  <2>4. \A v : {i \in S : rows[i].group = v} = {i \in DOMAIN k : k[i] = v}
    BY <2>1
  <2>5. ASSUME NEW C PROVE C \in Classes(S, LAMBDA i : rows[i].group) <=> C \in Kinds(k)
    <3> DEFINE V == {rows[j].group : j \in S}
    <3>1. C \in Classes(S, LAMBDA i : rows[i].group) <=> \E v \in V : C = {i \in S : rows[i].group = v}
      BY <2>2
    <3>2. C \in Kinds(k) <=> \E v \in {k[j] : j \in DOMAIN k} : C = {i \in DOMAIN k : k[i] = v}
      BY DEF Kinds
    <3> HIDE DEF V
    <3>3. C \in Kinds(k) <=> \E v \in V : C = {i \in S : rows[i].group = v}
      BY <2>3, <2>4, <3>2 DEF V
    <3> QED BY <3>1, <3>3
  <2> QED BY <2>5 DEF S, k
<1>4. TopErrors(n) = TopKinds([i \in Issues |-> <<rows[i].message, rows[i].level>>], n)
  BY <1>1 DEF TopErrors, TopKinds
<1>5. TopRoutes(n) = TopKinds([i \in {j \in Window : rows[j].message \in Routes} |-> rows[i].message], n)
  BY <1>2 DEF TopRoutes, TopKinds
<1>6. TopClientHealth(n) = {{C \in P : \A i \in C : AsString(rows[i].group) # ""} :
                                    P \in TopKinds([i \in Issues |-> rows[i].group], n)}
  BY <1>3 DEF TopClientHealth, TopKinds
<1> QED BY <1>4, <1>5, <1>6

\* The tables make up the rows they are of.
LEMMA TablesWhole ==
  ASSUME ClockInv, NEW n, n = Cardinality(Window)
  PROVE  /\ \A P \in TopErrors(n) : UNION P = Issues
         /\ \A P \in TopRoutes(n) : UNION P = {i \in Window : rows[i].message \in Routes}
         /\ \A P \in TopClientHealth(n) : UNION P = {i \in Issues : AsString(rows[i].group) # ""}
<1>1. ASSUME NEW P \in TopErrors(n) PROVE UNION P = Issues
  <2> DEFINE k == [i \in Issues |-> <<rows[i].message, rows[i].level>>]
  <2>1. DOMAIN k = Issues
    OBVIOUS
  <2>2. P \in TopKinds(k, n)
    BY <1>1, TablesAreKinds
  <2> HIDE DEF k
  <2>3. P = Kinds(k)
    BY <2>1, <2>2, IssuesInWindow, WholeTable
  <2> QED BY <2>1, <2>3, KindsCover
<1>2. ASSUME NEW P \in TopRoutes(n) PROVE UNION P = {i \in Window : rows[i].message \in Routes}
  <2> DEFINE S == {j \in Window : rows[j].message \in Routes}
             k == [i \in S |-> rows[i].message]
  <2>1. DOMAIN k = S /\ S \in SUBSET Window
    OBVIOUS
  <2>2. P \in TopKinds(k, n)
    BY <1>2, TablesAreKinds
  <2> HIDE DEF k, S
  <2>3. P = Kinds(k)
    BY <2>1, <2>2, WholeTable
  <2>4. UNION P = S
    BY <2>1, <2>3, KindsCover
  <2> QED BY <2>4 DEF S
<1>3. ASSUME NEW R \in TopClientHealth(n) PROVE UNION R = {i \in Issues : AsString(rows[i].group) # ""}
  <2> DEFINE k == [i \in Issues |-> rows[i].group]
  <2>1. DOMAIN k = Issues /\ \A i \in Issues : k[i] = rows[i].group
    OBVIOUS
  <2>6. R \in {{C \in P : \A i \in C : AsString(rows[i].group) # ""} : P \in TopKinds(k, n)}
    BY <1>3, TablesAreKinds, Zenon
  <2> HIDE DEF k
  <2>2. PICK P \in TopKinds(k, n) : R = {C \in P : \A i \in C : AsString(rows[i].group) # ""}
    BY <2>6
  <2>3. P = Kinds(k)
    BY <2>1, <2>2, IssuesInWindow, WholeTable
  <2>4. ASSUME NEW i \in UNION R PROVE i \in Issues /\ AsString(rows[i].group) # ""
    <3>1. PICK C \in Kinds(k) : i \in C /\ \A j \in C : AsString(rows[j].group) # ""
      BY <2>2, <2>3, <2>4
    <3> QED BY <2>1, <3>1, KindOf
  <2>5. ASSUME NEW i \in Issues, AsString(rows[i].group) # "" PROVE i \in UNION R
    <3> DEFINE C == {j \in DOMAIN k : k[j] = k[i]}
    <3>1. C \in Kinds(k) /\ i \in C
      BY <2>1, KindsCover
    <3>2. \A j \in C : AsString(rows[j].group) # ""
      <4>1. ASSUME NEW j \in C PROVE rows[j].group = rows[i].group
        BY <2>1
      <4> QED BY <2>5, <4>1 DEF AsString
    <3>3. C \in R
      BY <2>2, <2>3, <3>1, <3>2
    <3> QED BY <3>1, <3>3
  <2> QED BY <2>4, <2>5
<1> QED BY <1>1, <1>2, <1>3

\* A table that is cut off shows no fewer rows than it leaves out.
LEMMA CutTableShowsMost ==
  ASSUME NEW n, NEW P \in TopErrors(n), NEW C \in P, NEW i \in Issues \ UNION P
  PROVE  Cardinality(C) >= Cardinality({j \in Issues : /\ rows[j].message = rows[i].message
                                                       /\ rows[j].level = rows[i].level})
<1> DEFINE k == [j \in Issues |-> <<rows[j].message, rows[j].level>>]
           D == {j \in Issues : rows[j].message = rows[i].message /\ rows[j].level = rows[i].level}
<1>1. DOMAIN k = Issues /\ i \in D /\ {j \in DOMAIN k : k[j] = k[i]} = D
  OBVIOUS
<1>2. P \in TopKinds(k, n)
  BY TablesAreKinds
<1> HIDE DEF k, D
<1>3. D \in Kinds(k) \ P
  <2>1. D \in Kinds(k)
    BY <1>1, KindsCover
  <2> QED BY <1>1, <2>1
<1>4. \A p \in P, q \in Kinds(k) \ P : Cardinality(p) >= Cardinality(q)
  BY <1>2 DEF TopKinds, Heaviest
<1>5. Cardinality(C) >= Cardinality(D)
  BY <1>3, <1>4
<1> QED BY <1>5 DEF D

LEMMA RecentWhole ==
  ASSUME ClockInv, NEW n, n = Cardinality(Window)
  PROVE  RecentIssues(n) = {Issues}
<1>1. IsFiniteSet(Issues) /\ Cardinality(Issues) \in Nat /\ Cardinality(Issues) <= n /\ n \in Nat
  BY IssuesInWindow, PartFinite, WindowFinite
<1>2. RecentIssues(n) =
        {P \in SUBSET Issues : /\ Cardinality(P) = IF Cardinality(Issues) < n THEN Cardinality(Issues) ELSE n
                               /\ \A p \in P, q \in Issues \ P : rows[p].time >= rows[q].time}
  BY DEF RecentIssues, Heaviest
<1>3. ASSUME NEW P \in RecentIssues(n) PROVE P = Issues
  BY <1>1, <1>2, TakesAll
<1>4. Issues \in RecentIssues(n)
  <2>1. Cardinality(Issues) = IF Cardinality(Issues) < n THEN Cardinality(Issues) ELSE n
    BY <1>1
  <2>2. \A p \in Issues, q \in Issues \ Issues : rows[p].time >= rows[q].time
    OBVIOUS
  <2> QED BY <1>2, <2>1, <2>2
<1> QED BY <1>3, <1>4

\* A chart of a part of the window has each of its rows in one bin.
LEMMA SeriesWhole ==
  ASSUME ClockInv, NEW S \in SUBSET Window
  PROVE  SumOver(Series(S)) = Cardinality(S)
<1> DEFINE T == Times
           b == [i \in S |-> BinOf(i)]
<1>1. IsFiniteSet(S)
  BY PartFinite
<1>2. IsFiniteSet(T)
  <2> DEFINE g == [i \in Window |-> BinOf(i)]
  <2>1. IsFiniteSet(DOMAIN g) /\ T = {g[x] : x \in DOMAIN g}
    BY WindowFinite DEF Times
  <2> HIDE DEF g, T
  <2> QED BY <2>1, ImageSize
<1>3. b \in [S -> T]
  BY DEF Times
<1>4. Series(S) = [t \in T |-> Cardinality({i \in S : b[i] = t})]
  <2>1. ASSUME NEW t PROVE {i \in S : BinOf(i) = t} = {i \in S : b[i] = t}
    OBVIOUS
  <2> QED BY <2>1 DEF Series
<1> HIDE DEF T, b
<1>5. SumOver([t \in T |-> Cardinality({i \in S : b[i] = t})]) = Cardinality(S)
  BY <1>1, <1>2, <1>3, CountByClass
<1> QED BY <1>4, <1>5

\* Rows of one name have one group, unless two values are shown as "(none)".
LEMMA NameIsGroup ==
  ASSUME ClockInv, Cardinality(Nameless) <= 1, NEW i \in Window, NEW j \in Window,
         GroupName(i) = GroupName(j)
  PROVE  rows[i].group = rows[j].group
<1> DEFINE a == rows[i].group
           b == rows[j].group
<1>1. IsFiniteSet(Nameless)
  <2> DEFINE g == [m \in Window |-> rows[m].group]
             G == {rows[m].group : m \in Window}
  <2>1. IsFiniteSet(DOMAIN g) /\ G = {g[x] : x \in DOMAIN g}
    BY WindowFinite
  <2>2. Nameless \in SUBSET G
    BY DEF Nameless
  <2> HIDE DEF g, G
  <2>3. IsFiniteSet(G)
    BY <2>1, ImageSize
  <2> QED BY <2>2, <2>3, FS_Subset
<1>2. CASE GroupName(i) = "(none)"
  <2>1. AsString(a) \in {"", "(none)"} /\ AsString(b) \in {"", "(none)"}
    BY <1>2 DEF GroupName, AsString
  <2>2. a \in Nameless /\ b \in Nameless
    BY <2>1 DEF Nameless
  <2> HIDE DEF a, b
  <2>3. ASSUME a # b PROVE FALSE
    <3>1. IsFiniteSet({a}) /\ Cardinality({a}) = 1
      BY FS_Singleton
    <3>2. Cardinality({a} \cup {b}) = 2 /\ IsFiniteSet({a} \cup {b})
      <4>1. b \notin {a}
        BY <2>3
      <4> DEFINE A == {a}
      <4> HIDE DEF A
      <4>2. Cardinality(A \cup {b}) = Cardinality(A) + 1 /\ IsFiniteSet(A \cup {b})
        BY <3>1, <4>1, FS_AddElement DEF A
      <4> QED BY <3>1, <4>2 DEF A
    <3>3. Cardinality({a} \cup {b}) <= Cardinality(Nameless)
      BY <1>1, <2>2, FS_Subset
    <3>4. Cardinality(Nameless) \in Nat
      BY <1>1, FS_CardinalityType
    <3> QED BY <3>2, <3>3, <3>4
  <2> QED BY <2>3 DEF a, b
<1>3. CASE GroupName(i) # "(none)"
  BY <1>3 DEF GroupName
<1> QED BY <1>2, <1>3

\* Then no row of the service's table is lost.
LEMMA KeptIsWindow ==
  ASSUME ClockInv, Cardinality(Nameless) <= 1, NEW kept \in ByGroup
  PROVE  UNION kept = Window
<1> DEFINE k == [i \in Window |-> <<BinOf(i), rows[i].group>>]
<1>1. DOMAIN k = Window /\ \A i \in Window : k[i] = <<BinOf(i), rows[i].group>>
  OBVIOUS
<1>2. BinTable = {{i \in Window : <<BinOf(i), rows[i].group>> = v} :
                    v \in {<<BinOf(j), rows[j].group>> : j \in Window}}
  BY DEF BinTable, Classes
<1> HIDE DEF k
<1>3. \A C : C \in BinTable <=> C \in Kinds(k)
  <2> SUFFICES ASSUME NEW C PROVE C \in BinTable <=> C \in Kinds(k)
    OBVIOUS
  <2>1. C \in BinTable <=> \E v \in {<<BinOf(j), rows[j].group>> : j \in Window} :
                             C = {i \in Window : <<BinOf(i), rows[i].group>> = v}
    BY <1>2
  <2>2. C \in Kinds(k) <=> \E v \in {k[j] : j \in DOMAIN k} : C = {i \in DOMAIN k : k[i] = v}
    BY DEF Kinds
  <2>3. {k[j] : j \in DOMAIN k} = {<<BinOf(j), rows[j].group>> : j \in Window}
    BY <1>1
  <2>4. \A v : {i \in DOMAIN k : k[i] = v} = {i \in Window : <<BinOf(i), rows[i].group>> = v}
    BY <1>1
  <2> QED BY <2>1, <2>2, <2>3, <2>4
<1>4. BinTable = Kinds(k)
  BY <1>3
<1>5. kept \in SUBSET Kinds(k) /\ \A C \in Kinds(k) : \E D \in kept : SameCell(C, D)
  BY <1>4 DEF ByGroup
<1>6. ASSUME NEW C \in Kinds(k) PROVE C \in kept
  <2>1. PICK D \in kept : SameCell(C, D)
    BY <1>5
  <2>2. PICK i \in C, j \in D : GroupName(i) = GroupName(j) /\ BinOf(i) = BinOf(j)
    BY <2>1 DEF SameCell
  <2>3. i \in Window /\ C = {m \in DOMAIN k : k[m] = k[i]}
    BY <1>1, KindOf
  <2>4. j \in Window /\ D = {m \in DOMAIN k : k[m] = k[j]}
    BY <1>1, <1>5, KindOf
  <2>5. k[i] = k[j]
    BY <1>1, <2>2, <2>3, <2>4, NameIsGroup
  <2>6. C = D
    BY <2>3, <2>4, <2>5
  <2> QED BY <2>6
<1>7. kept = Kinds(k)
  BY <1>5, <1>6
<1> QED BY <1>1, <1>7, KindsCover

LEMMA ChartWhole ==
  ASSUME ClockInv, Cardinality(Nameless) <= 1
  PROVE  ChartSums
<1> SUFFICES ASSUME NEW chart \in ThroughputSegmented(TableSize), NEW t \in Times
             PROVE  Throughput[t] = chart.other[t] + SumOver([g \in DOMAIN chart.top |-> chart.top[g][t]])
  BY DEF ChartSums, Throughput, Series
<1> DEFINE names == Names
<1>20. \E Q \in Heaviest(names, Total, TableSize) : \E c \in ByGroup : chart = Chart(Q, c)
  BY DEF ThroughputSegmented
<1>21. PICK P \in Heaviest(names, Total, TableSize) : \E c \in ByGroup : chart = Chart(P, c)
  BY <1>20
<1>22. PICK kept \in ByGroup : chart = Chart(P, kept)
  BY <1>21
<1>1. chart = [top |-> [g \in P |-> [u \in Times |-> Value(kept, g, u)]],
               other |-> [u \in Times |-> Other(kept, names \ P, u)]]
  BY <1>22 DEF Chart
<1>2. P \in SUBSET names
  BY DEF Heaviest
<1>3. UNION kept = Window
  BY KeptIsWindow
<1> DEFINE S == {i \in Window : BinOf(i) = t}
           b == [i \in S |-> GroupName(i)]
           f == [g \in names |-> Value(kept, g, t)]
<1>4. /\ IsFiniteSet(S) /\ Throughput[t] = Cardinality(S)
  BY PartFinite DEF Throughput, Series
<1>5. IsFiniteSet(names)
  <2> DEFINE h == [i \in Window |-> GroupName(i)]
  <2>1. IsFiniteSet(DOMAIN h) /\ names = {h[x] : x \in DOMAIN h}
    BY WindowFinite DEF Names
  <2> HIDE DEF h, names
  <2> QED BY <2>1, ImageSize
<1>6. b \in [S -> names]
  BY DEF Names
<1>7. ASSUME NEW g \in names
      PROVE  /\ f[g] = Cardinality({i \in S : b[i] = g}) /\ f[g] \in Nat
             /\ Value(kept, g, t) \in Int
  <2>1. {i \in UNION kept : GroupName(i) = g /\ BinOf(i) = t} = {i \in S : b[i] = g}
    BY <1>3
  <2>2. {i \in S : b[i] = g} \in SUBSET Window
    OBVIOUS
  <2>3. Cardinality({i \in S : b[i] = g}) \in Nat
    BY <2>2, PartFinite
  <2>4. f[g] = Cardinality({i \in UNION kept : GroupName(i) = g /\ BinOf(i) = t})
    BY DEF Value
  <2>5. Value(kept, g, t) = f[g]
    OBVIOUS
  <2>6. f[g] = Cardinality({i \in S : b[i] = g})
    BY <2>1, <2>4
  <2> HIDE DEF f, b, S
  <2> QED BY <2>3, <2>5, <2>6
<1>8. f = [g \in names |-> Cardinality({i \in S : b[i] = g})]
  BY <1>7
<1>9. DOMAIN chart.top = P /\ \A g \in P : chart.top[g][t] = f[g]
  BY <1>1, <1>2
<1>10. [g \in DOMAIN chart.top |-> chart.top[g][t]] = [g \in P |-> f[g]]
  BY <1>9
<1>11. chart.other[t] = SumIn(f, names \ P)
  <2>1. chart.other[t] = Other(kept, names \ P, t)
    BY <1>1
  <2>2. [g \in names \ P |-> Value(kept, g, t)] = [g \in names \ P |-> f[g]]
    OBVIOUS
  <2> QED BY <2>1, <2>2 DEF Other, SumIn
<1>12. f \in [names -> Int]
  <2>1. \A g \in names : Value(kept, g, t) \in Int
    BY <1>7
  <2> QED BY <2>1
<1>13. SumOver([g \in DOMAIN chart.top |-> chart.top[g][t]]) = SumIn(f, P)
  BY <1>10 DEF SumIn
<1>14. SumOver(f) = Cardinality(S)
  <2> HIDE DEF names, S, b, f
  <2> QED BY <1>4, <1>5, <1>6, <1>8, CountByClass
<1>15. SumOver(f) = SumIn(f, P) + SumIn(f, names \ P) /\ SumIn(f, P) \in Int /\ SumIn(f, names \ P) \in Int
  <2> HIDE DEF names, f
  <2>1. IsFiniteSet(P) /\ IsFiniteSet(names \ P)
    BY <1>2, <1>5, FS_Subset
  <2>2. (\A g \in P : f[g] \in Int) /\ (\A g \in names \ P : f[g] \in Int)
    BY <1>2, <1>12
  <2> QED BY <1>2, <1>5, <1>12, <2>1, <2>2, SumSplit, SumInInt
<1> HIDE DEF names, S, f, b
<1> QED BY <1>4, <1>11, <1>13, <1>14, <1>15

\* The groups that are left out of the costs cost nothing, or less.
LEMMA CostWhole ==
  ASSUME ClockInv
  PROVE  Cost.total >= Dollars({i \in Window : rows[i].cost # Null})
<1> DEFINE S == {i \in Window : rows[i].cost # Null}
           f == [i \in S |-> rows[i].cost]
           k == [i \in S |-> rows[i].group]
           K == Kinds(k)
           d == [C \in K |-> Dollars(C)]
           byGroup == {C \in K : Dollars(C) > 0}
<1>1. IsFiniteSet(S) /\ DOMAIN k = S
  BY PartFinite
<1>2. f \in [S -> Int]
  <2>1. ASSUME NEW i \in S PROVE rows[i].cost \in Int
    <3>1. rows[i] \in Rows
      BY WindowFinite, RowTimes
    <3> QED BY <3>1, RowAssumption
  <2> QED BY <2>1
<1>3. IsFiniteSet(K) /\ UNION K = S
  <2> HIDE DEF k
  <2> QED BY <1>1, KindsFinite, KindsCover
<1>4. ASSUME NEW C \in K PROVE Dollars(C) = SumIn(f, C) /\ Dollars(C) \in Int
  <2>1. C \in SUBSET S
    BY <1>3
  <2>2. [i \in C |-> rows[i].cost] = [i \in C |-> f[i]]
    BY <2>1
  <2>3. Dollars(C) = SumIn(f, C)
    BY <2>2 DEF Dollars, SumIn
  <2>4. IsFiniteSet(C) /\ \A i \in C : f[i] \in Int
    BY <1>1, <1>2, <2>1, FS_Subset
  <2> HIDE DEF f
  <2>5. SumIn(f, C) \in Int
    BY <2>4, SumInInt
  <2> QED BY <2>3, <2>5
<1>5. Dollars(S) = SumOver(f)
  BY DEF Dollars
<1>6. SumOver(d) = SumOver(f)
  <2> DEFINE b == [i \in S |-> {j \in DOMAIN k : k[j] = k[i]}]
  <2>1. b \in [S -> K]
    <3>1. \A i \in S : {j \in DOMAIN k : k[j] = k[i]} \in K
      <4> HIDE DEF k
      <4> QED BY <1>1, KindsCover
    <3> QED BY <3>1
  <2>2. ASSUME NEW C \in K PROVE {i \in S : b[i] = C} = C
    <3>1. C \in SUBSET S
      BY <1>3
    <3>2. ASSUME NEW i \in S PROVE b[i] = C <=> i \in C
      <4>1. b[i] = {j \in DOMAIN k : k[j] = k[i]}
        OBVIOUS
      <4> HIDE DEF k, b
      <4>2. i \in b[i]
        BY <1>1, <4>1
      <4>3. i \in C => C = {j \in DOMAIN k : k[j] = k[i]}
        BY KindOf
      <4> QED BY <4>1, <4>2, <4>3
    <3> QED BY <3>1, <3>2
  <2>3. d = [C \in K |-> SumIn(f, {i \in S : b[i] = C})]
    BY <1>4, <2>2
  <2> HIDE DEF S, f, K, d, b
  <2> QED BY <1>1, <1>2, <1>3, <2>1, <2>3, SumByClass
<1>7. d \in [K -> Int] /\ byGroup \in SUBSET K
  BY <1>4
<1>8. SumOver(d) = SumIn(d, byGroup) + SumIn(d, K \ byGroup)
  <2> HIDE DEF d, K, byGroup
  <2> QED BY <1>3, <1>7, SumSplit
<1>9. SumIn(d, byGroup) \in Int /\ SumIn(d, K \ byGroup) \in Int
  <2> HIDE DEF d, K, byGroup
  <2>1. IsFiniteSet(byGroup) /\ IsFiniteSet(K \ byGroup)
    BY <1>3, <1>7, FS_Subset
  <2>2. (\A C \in byGroup : d[C] \in Int) /\ (\A C \in K \ byGroup : d[C] \in Int)
    BY <1>7
  <2> QED BY <2>1, <2>2, SumInInt
<1>10. SumIn(d, K \ byGroup) <= 0
  <2> DEFINE R == K \ byGroup
             g == [C \in R |-> d[C]]
             z == [C \in R |-> 0]
  <2>1. IsFiniteSet(R)
    BY <1>3, FS_Subset
  <2>2. g \in [R -> Int] /\ z \in [R -> Int] /\ \A C \in R : g[C] <= z[C]
    <3>1. ASSUME NEW C \in R PROVE Dollars(C) \in Int /\ Dollars(C) <= 0
      <4>1. C \in K /\ ~(Dollars(C) > 0)
        OBVIOUS
      <4>2. Dollars(C) \in Int
        BY <1>4, <4>1
      <4> QED BY <4>1, <4>2
    <3>2. \A C \in R : d[C] = Dollars(C)
      OBVIOUS
    <3> HIDE DEF R, d
    <3> QED BY <3>1, <3>2
  <2>3. (\A C \in R \ {} : z[C] = 0) /\ DOMAIN [C \in {} |-> z[C]] = {} /\ {} \in SUBSET R
    OBVIOUS
  <2>6. SumIn(d, R) = SumOver(g)
    BY DEF SumIn
  <2> HIDE DEF R, g, z, d, K
  <2>4. SumOver(g) <= SumOver(z)
    BY <2>1, <2>2, SumMonotone
  <2>5. SumOver(z) = SumIn(z, {}) /\ SumIn(z, {}) = 0
    <3>1. SumOver(z) = SumIn(z, {})
      BY <2>1, <2>2, <2>3, SumOfRest
    <3> DEFINE e == [C \in {} |-> z[C]]
    <3>2. SumIn(z, {}) = SumOver(e) /\ DOMAIN e = {}
      BY DEF SumIn
    <3> HIDE DEF e
    <3> QED BY <3>1, <3>2, SumEmpty
  <2> QED BY <2>4, <2>5, <2>6 DEF R
<1>11. Cost.total = SumIn(d, byGroup)
  <2>1. Classes(S, LAMBDA i : rows[i].group) = K
    <3>1. DOMAIN k = S /\ \A i \in S : k[i] = rows[i].group
      OBVIOUS
    <3>2. Classes(S, LAMBDA i : rows[i].group)
            = {{i \in S : rows[i].group = v} : v \in {rows[j].group : j \in S}}
      BY DEF Classes
    <3> HIDE DEF S, k
    <3>3. {rows[j].group : j \in S} = {k[j] : j \in DOMAIN k}
      BY <3>1
    <3>4. \A v : {i \in S : rows[i].group = v} = {i \in DOMAIN k : k[i] = v}
      BY <3>1
    <3>5. ASSUME NEW C PROVE C \in Classes(S, LAMBDA i : rows[i].group) <=> C \in Kinds(k)
      <4> DEFINE V == {rows[j].group : j \in S}
      <4>1. C \in Classes(S, LAMBDA i : rows[i].group) <=> \E v \in V : C = {i \in S : rows[i].group = v}
        BY <3>2
      <4>2. C \in Kinds(k) <=> \E v \in {k[j] : j \in DOMAIN k} : C = {i \in DOMAIN k : k[i] = v}
        BY DEF Kinds
      <4> HIDE DEF V
      <4>3. C \in Kinds(k) <=> \E v \in V : C = {i \in S : rows[i].group = v}
        BY <3>3, <3>4, <4>2 DEF V
      <4> QED BY <4>1, <4>3
    <3> QED BY <3>5
  <2>2. Cost.total = SumOver([C \in {D \in Classes(S, LAMBDA i : rows[i].group) : Dollars(D) > 0} |-> Dollars(C)])
    BY DEF Cost
  <2>3. Cost.total = SumOver([C \in byGroup |-> Dollars(C)])
    BY <2>1, <2>2
  <2>4. [C \in byGroup |-> Dollars(C)] = [C \in byGroup |-> d[C]]
    BY <1>7
  <2> QED BY <2>3, <2>4 DEF SumIn
<1> HIDE DEF S, f, k, K, d, byGroup
<1>12. Cost.total >= Dollars(S)
  BY <1>5, <1>6, <1>8, <1>9, <1>10, <1>11
<1> QED BY <1>12 DEF S

LEMMA PanelsOfClock == ClockInv => AxiomPanelsAgree
<1> SUFFICES ASSUME ClockInv PROVE AxiomPanelsAgree
  OBVIOUS
<1> DEFINE n == Cardinality(Window)
<1>1. Stats.total = n /\ Stats.errors = Cardinality(OfLevel(Window, "error"))
      /\ Stats.warns = Cardinality(OfLevel(Window, "warn"))
  BY DEF Stats
<1>2. /\ SumOver(Throughput) = n
      /\ SumOver(ErrorRate[1]) = Cardinality(OfLevel(Window, "error"))
      /\ SumOver(ErrorRate[2]) = Cardinality(OfLevel(Window, "warn"))
  BY SeriesWhole, IssuesInWindow DEF Throughput, ErrorRate
<1>3. /\ \A P \in TopErrors(n) : UNION P = Issues
      /\ \A P \in TopRoutes(n) : UNION P = {i \in Window : rows[i].message \in Routes}
      /\ \A P \in TopClientHealth(n) : UNION P = {i \in Issues : AsString(rows[i].group) # ""}
      /\ RecentIssues(n) = {Issues}
  BY TablesWhole, RecentWhole
<1>4. \A P \in TopErrors(TableSize) : \A C \in P, i \in Issues \ UNION P :
        Cardinality(C) >= Cardinality({j \in Issues : /\ rows[j].message = rows[i].message
                                                      /\ rows[j].level = rows[i].level})
  BY CutTableShowsMost
<1>5. /\ Cardinality(Nameless) <= 1 => ChartSums
      /\ Cost.total >= Dollars({i \in Window : rows[i].cost # Null})
  BY ChartWhole, CostWhole
<1> HIDE DEF n
<1> QED BY <1>1, <1>2, <1>3, <1>4, <1>5 DEF AxiomPanelsAgree

\* The panels of one moment agree, whatever rows there are and in whatever
\* order they came (axiom.go's queries and topSeriesFromBin).
THEOREM AxiomPanels == AxiomSpec => []AxiomPanelsAgree
<1>1. AxiomInv => AxiomPanelsAgree
  BY PanelsOfClock DEF AxiomInv
<1> QED BY <1>1, AxiomInvariant, PTL

==============================================================================
