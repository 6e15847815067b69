--------------------------- MODULE Sequential_proofs ---------------------------
(***************************************************************************)
(* The parts that run under one lock or on one goroutine.                  *)
(*                                                                         *)
(* SelectKth: it never leaves its array and leaves the right value at k,   *)
(* for every array, every rank and every budget, from any choice of pivots *)
(* the code makes.                                                         *)
(*                                                                         *)
(* LogBuffer: for every size, every lookback and batches of every length   *)
(* the array keeps its discipline, and the live window is the bounded log  *)
(* of BoundedLog.  Append is reasoned about as the code runs it, on a      *)
(* buffer as a value: compacting keeps the window, pushing adds to it, and *)
(* a batch is an induction over its events.                                *)
(*                                                                         *)
(* LineFraming: the framing of lines is exact, for every limit, every size *)
(* of the read buffer and every file, whatever writes, polls, read errors  *)
(* and the buffer's bounds cut its bytes into.  The facts about bytes are  *)
(* stated of any bytes b and offset o, and the invariant is one predicate  *)
(* of the values of the variables.                                         *)
(*                                                                         *)
(* Startup: the source that is opened is the one the command line asks     *)
(* for, as the configuration has it, for every command line and every set  *)
(* of files.  What the flag parser says of the reordered arguments is what *)
(* a reader of the mixed ones is told, by an induction over the arguments; *)
(* the rest is one invariant with a conjunct for each phase.               *)
(*                                                                         *)
(* Queries: the panels agree, for every store, every time they are asked   *)
(* at, every window and every size of their tables.  A query is a function *)
(* of the store, so the invariant only says what is stored.                *)
(***************************************************************************)
EXTENDS Queries, SelectKth, LogBuffer, LineFraming, Startup, SumTheorems, SequenceTheorems

------------------------------------------------------------------------------
(***************************************************************************)
(* SelectKth: selection.                                                   *)
(***************************************************************************)
\* The array a is the input reordered.
Reordered(a) == \E p \in Perms(Indices) : a = [m \in Indices |-> input[p[m]]]

\* Nothing before the range is greater than anything from the range on, and
\* nothing up to the end of the range is greater than anything after it.
Separated(a) ==
  \A m, n \in Indices : (m < lo /\ lo <= n) \/ (m <= hi /\ hi < n) => a[m] <= a[n]

Sound(a) ==
  /\ a \in [Indices -> Durations]
  /\ Reordered(a)
  /\ Separated(a)

\* The value wanted is in the range.
InRange ==
  /\ size \in Nat /\ lo \in Int /\ hi \in Int /\ k \in Int
  /\ 0 <= lo /\ lo <= k /\ k <= hi /\ hi < size

\* What the scans have passed is on its side of the pivot.
Scanned ==
  /\ i \in Int /\ j \in Int /\ pivot \in Int
  /\ lo <= i /\ j <= hi
  /\ \A m \in Indices : /\ lo <= m /\ m < i => vals[m] <= pivot
                        /\ j < m /\ m <= hi => pivot <= vals[m]

\* An element ahead stops each scan before it leaves the range.
StopsUp   == \E m \in Indices : i <= m /\ m <= hi /\ pivot <= vals[m]
StopsDown == \E m \in Indices : lo <= m /\ m <= j /\ vals[m] <= pivot

Placed ==
  \A m \in Indices : (m < k => vals[m] <= vals[k]) /\ (m > k => vals[k] <= vals[m])

SelectInv ==
  /\ pc \in {"idle", "loop", "up", "down", "narrow", "return"}
  /\ pc # "idle" => InRange /\ Sound(vals)
  /\ pc \in {"up", "down", "narrow"} => Scanned
  /\ pc = "up" => StopsUp /\ StopsDown
  /\ pc = "down" => i <= hi /\ pivot <= vals[i] /\ StopsDown
  /\ pc = "narrow" => j < i
  /\ pc = "return" => Placed

\* The rank of a percentile is a place in the array.
LEMMA RankInArray ==
  ASSUME NEW n \in Nat, n >= 1, NEW p \in 0..100
  PROVE  Rank(n, p) \in 1..n
<1> DEFINE r == (p * n + 99) \div 100
<1>1. p * n \in Int
  OBVIOUS
<1>2. r \in Int
  BY <1>1
<1> HIDE DEF r
<1>3. Rank(n, p) = CASE r < 1 -> 1 [] r > n -> n [] OTHER -> r
  BY DEF Rank, r
<1> QED
  BY <1>2, <1>3

\* Exchanging two elements of the range loses none and moves none across
\* the range's ends.
LEMMA SwapSound ==
  ASSUME InRange, NEW a, Sound(a), NEW x \in lo..hi, NEW y \in lo..hi
  PROVE  Sound(Swap(a, x, y))
<1> DEFINE b == Swap(a, x, y)
<1>1. x \in Indices /\ y \in Indices /\ a \in [Indices -> Durations]
  BY DEF InRange, Indices, Sound
<1>2. /\ b \in [Indices -> Durations]
      /\ \A m \in Indices : b[m] = IF m = y THEN a[x] ELSE IF m = x THEN a[y] ELSE a[m]
  BY <1>1 DEF Swap
<1> HIDE DEF b
<1>3. Reordered(b)
  <2>1. PICK p \in Perms(Indices) : a = [m \in Indices |-> input[p[m]]]
    BY DEF Sound, Reordered
  <2> DEFINE q == [m \in Indices |-> IF m = y THEN p[x] ELSE IF m = x THEN p[y] ELSE p[m]]
  <2>2. q \in Perms(Indices)
    BY <1>1 DEF Perms
  <2>3. b = [m \in Indices |-> input[q[m]]]
    BY <1>1, <1>2, <2>1
  <2> QED
    BY <2>2, <2>3 DEF Reordered
<1>4. Separated(b)
  <2> SUFFICES ASSUME NEW m \in Indices, NEW n \in Indices,
                      (m < lo /\ lo <= n) \/ (m <= hi /\ hi < n)
               PROVE  b[m] <= b[n]
    BY DEF Separated
  <2>1. PICK m2 \in Indices : b[m] = a[m2] /\ (m2 = m \/ (m \in lo..hi /\ m2 \in lo..hi))
    BY <1>1, <1>2
  <2>2. PICK n2 \in Indices : b[n] = a[n2] /\ (n2 = n \/ (n \in lo..hi /\ n2 \in lo..hi))
    BY <1>1, <1>2
  <2>3. (m2 < lo /\ lo <= n2) \/ (m2 <= hi /\ hi < n2)
    BY <2>1, <2>2 DEF InRange, Indices
  <2> QED
    BY <2>1, <2>2, <2>3 DEF Sound, Separated
<1> QED
  BY <1>2, <1>3, <1>4 DEF Sound, b

LEMMA OrderSound ==
  ASSUME InRange, NEW a, Sound(a), NEW x \in lo..hi, NEW y \in lo..hi
  PROVE  Sound(Order(a, x, y))
BY SwapSound DEF Order

\* A range put in order keeps the array sound and puts index k in place.
LEMMA SortSound ==
  ASSUME InRange, NEW a, Sound(a), NEW p \in Perms(lo..hi), NEW b,
         b = [m \in Indices |-> IF m \in lo..hi THEN a[p[m]] ELSE a[m]],
         \A x, y \in lo..hi : x < y => b[x] <= b[y]
  PROVE  /\ Sound(b)
         /\ \A m \in Indices : (m < k => b[m] <= b[k]) /\ (m > k => b[k] <= b[m])
<1>1. /\ a \in [Indices -> Durations]
      /\ p \in [lo..hi -> lo..hi]
      /\ lo..hi \subseteq Indices
      /\ k \in lo..hi
  BY DEF InRange, Indices, Sound, Perms
<1>2. b \in [Indices -> Durations]
  BY <1>1
<1>3. Reordered(b)
  <2>1. PICK q \in Perms(Indices) : a = [m \in Indices |-> input[q[m]]]
    BY DEF Sound, Reordered
  <2> DEFINE r == [m \in Indices |-> IF m \in lo..hi THEN q[p[m]] ELSE q[m]]
  <2>2. r \in Perms(Indices)
    <3>1. r \in [Indices -> Indices]
      BY <1>1 DEF Perms
    <3>2. ASSUME NEW x \in Indices, NEW y \in Indices, r[x] = r[y]
          PROVE  x = y
      BY <1>1, <3>2 DEF Perms
    <3> QED
      BY <3>1, <3>2 DEF Perms
  <2>3. b = [m \in Indices |-> input[r[m]]]
    BY <1>1, <2>1
  <2> QED
    BY <2>2, <2>3 DEF Reordered
<1>4. \A m, n \in Indices : (m < lo /\ lo <= n) \/ (m <= hi /\ hi < n) => b[m] <= b[n]
  <2> SUFFICES ASSUME NEW m \in Indices, NEW n \in Indices,
                      (m < lo /\ lo <= n) \/ (m <= hi /\ hi < n)
               PROVE  b[m] <= b[n]
    OBVIOUS
  <2>1. PICK m2 \in Indices : b[m] = a[m2] /\ (m2 = m \/ (m \in lo..hi /\ m2 \in lo..hi))
    BY <1>1
  <2>2. PICK n2 \in Indices : b[n] = a[n2] /\ (n2 = n \/ (n \in lo..hi /\ n2 \in lo..hi))
    BY <1>1
  <2>3. (m2 < lo /\ lo <= n2) \/ (m2 <= hi /\ hi < n2)
    BY <2>1, <2>2 DEF InRange, Indices
  <2> QED
    BY <2>1, <2>2, <2>3 DEF Sound, Separated
<1>5. ASSUME NEW m \in Indices
      PROVE  (m < k => b[m] <= b[k]) /\ (m > k => b[k] <= b[m])
  <2>1. CASE m \in lo..hi
    BY <1>1, <2>1
  <2>2. CASE m \notin lo..hi
    BY <1>1, <1>4, <2>2 DEF InRange, Indices
  <2> QED
    BY <2>1, <2>2
<1> QED
  BY <1>2, <1>3, <1>4, <1>5 DEF Sound, Separated

------------------------------------------------------------------------------
\* A call starts with the whole array as its range.
LEMMA CallKeeps ==
  ASSUME Call
  PROVE  SelectInv'
<1> USE SelectAssumption
<1>1. PICK n \in 1..MaxLen, p \in Percentiles :
        \E a \in [0..(n - 1) -> Durations] : size' = n /\ input' = a /\ vals' = a
          /\ k' = Rank(n, p) - 1 /\ lo' = 0 /\ hi' = n - 1 /\ pc' = "loop"
  BY DEF Call
<1>2. PICK a \in [0..(n - 1) -> Durations] :
        /\ size' = n /\ input' = a /\ vals' = a
        /\ k' = Rank(n, p) - 1 /\ lo' = 0 /\ hi' = n - 1 /\ pc' = "loop"
  BY <1>1
<1>3. Rank(n, p) \in 1..n
  <2>1. n \in Nat /\ n >= 1 /\ p \in 0..100
    OBVIOUS
  <2> QED
    BY <2>1, RankInArray
<1>4. InRange'
  BY <1>2, <1>3 DEF InRange
<1>5. Reordered(vals)'
  <2> DEFINE q == [m \in 0..(n - 1) |-> m]
  <2>1. q \in Perms(0..(n - 1))
    BY DEF Perms
  <2>2. a = [m \in 0..(n - 1) |-> a[q[m]]]
    OBVIOUS
  <2> QED
    BY <1>2, <2>1, <2>2 DEF Reordered, Indices
<1>6. Separated(vals)'
  BY <1>2 DEF Separated, Indices
<1>7. Sound(vals)'
  BY <1>2, <1>5, <1>6 DEF Sound, Indices
<1> QED
  BY <1>2, <1>4, <1>7 DEF SelectInv

\* The three comparisons leave a median of the three in the middle, which
\* stops both scans.
LEMMA ChoosePivotKeeps ==
  ASSUME SelectInv, ChoosePivot
  PROVE  SelectInv'
<1>1. /\ pc = "loop" /\ lo < hi /\ InRange /\ Sound(vals)
      /\ vals' = Order(Order(Order(vals, lo, Mid), lo, hi), Mid, hi)
      /\ pivot' = vals'[Mid] /\ i' = lo /\ j' = hi /\ pc' = "up"
      /\ UNCHANGED <<size, input, k, lo, hi>>
  BY DEF ChoosePivot, SelectInv
<1>2. lo \in lo..hi /\ Mid \in lo..hi /\ hi \in lo..hi
  BY <1>1 DEF InRange, Mid
<1>3. Sound(Order(vals, lo, Mid))
  BY <1>1, <1>2, OrderSound
<1>4. Sound(Order(Order(vals, lo, Mid), lo, hi))
  BY <1>1, <1>2, <1>3, OrderSound
<1>5. Sound(vals')
  BY <1>1, <1>2, <1>4, OrderSound
<1>6. InRange' /\ Sound(vals)'
  BY <1>1, <1>5 DEF InRange, Sound, Reordered, Separated, Indices
<1>7. Mid \in Indices /\ vals'[Mid] \in Int
  BY <1>1, <1>2, <1>5, SelectAssumption DEF InRange, Indices, Sound
<1>8. Scanned'
  BY <1>1, <1>7 DEF Scanned, InRange, Indices
<1>9. StopsUp' /\ StopsDown'
  BY <1>1, <1>2, <1>7 DEF StopsUp, StopsDown, Indices
<1> QED
  BY <1>1, <1>6, <1>8, <1>9 DEF SelectInv

LEMMA SortRestKeeps ==
  ASSUME SelectInv, SortRest
  PROVE  SelectInv'
<1>1. /\ InRange /\ Sound(vals) /\ pc' = "return"
      /\ UNCHANGED <<size, input, k, lo, hi>>
      /\ \A x, y \in lo..hi : x < y => vals'[x] <= vals'[y]
  BY DEF SortRest, SelectInv
<1>2. PICK p \in Perms(lo..hi) :
        vals' = [m \in Indices |-> IF m \in lo..hi THEN vals[p[m]] ELSE vals[m]]
  BY DEF SortRest
<1>3. /\ Sound(vals')
      /\ \A m \in Indices : (m < k => vals'[m] <= vals'[k]) /\ (m > k => vals'[k] <= vals'[m])
  BY <1>1, <1>2, SortSound
<1>4. InRange' /\ Sound(vals)' /\ Placed'
  BY <1>1, <1>3 DEF InRange, Sound, Reordered, Separated, Indices, Placed
<1> QED
  BY <1>1, <1>4 DEF SelectInv

\* The elements exchanged stop the scans that go on.
LEMMA ExchangeKeeps ==
  ASSUME SelectInv, Exchange
  PROVE  SelectInv'
<1> USE SelectAssumption
<1>1. /\ pc = "down" /\ InRange /\ Sound(vals) /\ Scanned /\ StopsDown
      /\ i <= hi /\ pivot <= vals[i] /\ vals[j] <= pivot
      /\ pc' = IF i' <= j' THEN "up" ELSE "narrow"
      /\ UNCHANGED <<size, input, k, lo, hi, pivot>>
  BY DEF Exchange, SelectInv
<1>2. CASE i > j
  <2>1. pc' = "narrow" /\ UNCHANGED <<vals, i, j>>
    BY <1>1, <1>2 DEF Exchange, Scanned
  <2>2. InRange' /\ Sound(vals)' /\ Scanned'
    BY <1>1, <2>1 DEF InRange, Sound, Reordered, Separated, Indices, Scanned
  <2> QED
    BY <1>1, <1>2, <2>1, <2>2 DEF SelectInv, Scanned
<1>3. CASE i <= j
  <2>1. vals' = Swap(vals, i, j) /\ i' = i + 1 /\ j' = j - 1
    BY <1>3 DEF Exchange
  <2>2. i \in lo..hi /\ j \in lo..hi
    BY <1>1, <1>3 DEF Scanned, InRange
  <2>3. Sound(vals')
    BY <1>1, <2>1, <2>2, SwapSound
  <2>4. InRange' /\ Sound(vals)'
    BY <1>1, <2>3 DEF InRange, Sound, Reordered, Separated, Indices
  <2>5. /\ i \in Indices /\ j \in Indices
        /\ vals \in [Indices -> Int]
        /\ \A m \in Indices :
             vals'[m] = IF m = j THEN vals[i] ELSE IF m = i THEN vals[j] ELSE vals[m]
    <3>1. i \in Indices /\ j \in Indices
      BY <1>1, <2>2 DEF InRange, Indices
    <3>2. vals \in [Indices -> Durations]
      BY <1>1 DEF Sound
    <3> QED
      BY <2>1, <3>1, <3>2 DEF Swap
  <2>6. Scanned'
    <3>1. i' \in Int /\ j' \in Int /\ pivot' \in Int /\ lo' <= i' /\ j' <= hi'
      BY <1>1, <2>1, <2>2 DEF Scanned, InRange
    <3>2. ASSUME NEW m \in Indices
          PROVE  /\ lo <= m /\ m < i + 1 => vals'[m] <= pivot
                 /\ j - 1 < m /\ m <= hi => pivot <= vals'[m]
      <4>1. /\ lo <= m /\ m < i => vals[m] <= pivot
            /\ j < m /\ m <= hi => pivot <= vals[m]
        BY <1>1 DEF Scanned
      <4>2. m \in Int /\ i \in Int /\ j \in Int
        BY <1>1 DEF Scanned, InRange, Indices
      <4>3. m # i /\ m # j => vals'[m] = vals[m]
        BY <2>5
      <4>4. vals'[j] = vals[i] /\ (i # j => vals'[i] = vals[j])
        BY <2>5
      <4>5. CASE m # i /\ m # j
        BY <4>1, <4>2, <4>3, <4>5
      <4>6. CASE m = j
        BY <1>1, <1>3, <2>2, <4>2, <4>4, <4>6
      <4>7. CASE m = i /\ m # j
        BY <1>1, <1>3, <2>2, <4>2, <4>4, <4>7
      <4> QED
        BY <4>5, <4>6, <4>7
    <3> QED
      BY <1>1, <2>1, <3>1, <3>2 DEF Scanned, Indices
  <2>7. i' <= j' => StopsUp' /\ StopsDown'
    <3> SUFFICES ASSUME i + 1 <= j - 1
                 PROVE  StopsUp' /\ StopsDown'
      BY <2>1
    <3>1. i + 1 <= j /\ j <= hi /\ pivot <= vals'[j]
      BY <1>1, <2>2, <2>5 DEF Scanned, InRange
    <3>2. lo <= i /\ i <= j - 1 /\ vals'[i] <= pivot
      BY <1>1, <2>2, <2>5 DEF Scanned, InRange
    <3> QED
      BY <1>1, <2>1, <2>5, <3>1, <3>2 DEF StopsUp, StopsDown, Indices
  <2>8. i' <= j' \/ j' < i'
    BY <2>6 DEF Scanned
  <2> QED
    BY <1>1, <2>4, <2>6, <2>7, <2>8 DEF SelectInv
<1> QED
  BY <1>1, <1>2, <1>3 DEF Scanned

\* Everything between the two parts equals the pivot.
LEMMA NarrowKeeps ==
  ASSUME SelectInv, Narrow
  PROVE  SelectInv'
<1> USE SelectAssumption
<1>1. /\ pc = "narrow" /\ InRange /\ Sound(vals) /\ Scanned /\ j < i
      /\ UNCHANGED <<size, input, vals, k, pivot, i, j>>
  BY DEF Narrow, SelectInv
<1>2. vals \in [Indices -> Int]
  BY <1>1 DEF Sound
<1>3. CASE k <= j /\ hi' = j /\ lo' = lo /\ pc' = "loop"
  <2>1. InRange'
    BY <1>1, <1>3 DEF InRange, Scanned
  <2>2. ASSUME NEW m \in Indices, NEW n \in Indices,
               (m < lo /\ lo <= n) \/ (m <= j /\ j < n)
        PROVE  vals[m] <= vals[n]
    BY <1>1, <1>2, <1>3, <2>2 DEF Sound, Separated, Scanned, InRange, Indices
  <2>3. Sound(vals)'
    BY <1>1, <1>3, <2>2 DEF Sound, Reordered, Separated, Indices
  <2> QED
    BY <1>3, <2>1, <2>3 DEF SelectInv
<1>4. CASE k >= i /\ lo' = i /\ hi' = hi /\ pc' = "loop"
  <2>1. InRange'
    BY <1>1, <1>4 DEF InRange, Scanned
  <2>2. ASSUME NEW m \in Indices, NEW n \in Indices,
               (m < i /\ i <= n) \/ (m <= hi /\ hi < n)
        PROVE  vals[m] <= vals[n]
    BY <1>1, <1>2, <1>4, <2>2 DEF Sound, Separated, Scanned, InRange, Indices
  <2>3. Sound(vals)'
    BY <1>1, <1>4, <2>2 DEF Sound, Reordered, Separated, Indices
  <2> QED
    BY <1>4, <2>1, <2>3 DEF SelectInv
<1>5. CASE j < k /\ k < i /\ pc' = "return" /\ UNCHANGED <<lo, hi>>
  <2>1. ASSUME NEW m \in Indices
        PROVE  (m < k => vals[m] <= vals[k]) /\ (m > k => vals[k] <= vals[m])
    BY <1>1, <1>2, <1>5 DEF Sound, Separated, Scanned, InRange, Indices
  <2>2. InRange' /\ Sound(vals)' /\ Placed'
    BY <1>1, <1>5, <2>1 DEF InRange, Sound, Reordered, Separated, Indices, Placed
  <2> QED
    BY <1>5, <2>2 DEF SelectInv
<1> QED
  BY <1>3, <1>4, <1>5 DEF Narrow

THEOREM SelectInvariant == SelectSpec => []SelectInv
<1> USE SelectAssumption
<1>1. SelectInit => SelectInv
  BY DEF SelectInit, SelectInv
<1>2. SelectInv /\ [SelectNext]_selectVars => SelectInv'
  <2> SUFFICES ASSUME SelectInv, [SelectNext]_selectVars
               PROVE  SelectInv'
    OBVIOUS
  <2>1. CASE Call
    BY <2>1, CallKeeps
  <2>2. CASE Found
    <3>1. /\ pc = "loop" /\ lo >= hi /\ InRange /\ Sound(vals) /\ pc' = "return"
          /\ UNCHANGED <<size, input, vals, k, lo, hi>>
      BY <2>2 DEF Found, SelectInv
    <3>2. InRange' /\ Sound(vals)'
      BY <3>1 DEF InRange, Sound, Reordered, Separated, Indices
    <3>3. lo = k /\ hi = k
      BY <3>1 DEF InRange
    <3>4. Placed'
      BY <3>1, <3>3 DEF Placed, Sound, Separated, InRange, Indices
    <3> QED
      BY <3>1, <3>2, <3>4 DEF SelectInv
  <2>3. CASE SortRest
    BY <2>3, SortRestKeeps
  <2>4. CASE ChoosePivot
    BY <2>4, ChoosePivotKeeps
  <2>5. CASE ScanUp
    <3>1. /\ pc = "up" /\ InRange /\ Sound(vals) /\ Scanned /\ StopsUp /\ StopsDown
          /\ IF vals[i] < pivot THEN i' = i + 1 /\ pc' = pc ELSE i' = i /\ pc' = "down"
          /\ UNCHANGED <<size, input, vals, k, lo, hi, pivot, j>>
      BY <2>5 DEF ScanUp, SelectInv
    <3>2. InRange' /\ Sound(vals)' /\ StopsDown'
      BY <3>1 DEF InRange, Sound, Reordered, Separated, Indices, StopsDown
    <3>3. i \in Indices /\ i <= hi /\ vals[i] \in Int
      <4>1. i \in Indices /\ i <= hi
        BY <3>1 DEF StopsUp, Scanned, InRange, Indices
      <4>2. vals[i] \in Durations
        BY <3>1, <4>1 DEF Sound
      <4> QED
        BY <4>1, <4>2
    <3>4. CASE vals[i] < pivot
      <4>1. Scanned'
        BY <3>1, <3>3, <3>4 DEF Scanned, Indices, InRange
      <4>2. StopsUp'
        BY <3>1, <3>3, <3>4 DEF StopsUp, Scanned, Indices
      <4> QED
        BY <3>1, <3>2, <3>4, <4>1, <4>2 DEF SelectInv
    <3>5. CASE ~(vals[i] < pivot)
      <4>1. Scanned' /\ pivot <= vals[i]
        BY <3>1, <3>3, <3>5 DEF Scanned, Indices
      <4> QED
        BY <3>1, <3>2, <3>3, <3>5, <4>1 DEF SelectInv
    <3> QED
      BY <3>4, <3>5
  <2>6. CASE ScanDown
    <3>1. /\ pc = "down" /\ InRange /\ Sound(vals) /\ Scanned /\ StopsDown
          /\ i <= hi /\ pivot <= vals[i] /\ vals[j] > pivot /\ j' = j - 1
          /\ UNCHANGED <<size, input, vals, k, lo, hi, pivot, i, pc>>
      BY <2>6 DEF ScanDown, SelectInv
    <3>2. InRange' /\ Sound(vals)'
      BY <3>1 DEF InRange, Sound, Reordered, Separated, Indices
    <3>3. j \in Indices /\ lo <= j /\ vals[j] \in Int
      <4>1. j \in Indices /\ lo <= j
        BY <3>1 DEF StopsDown, Scanned, InRange, Indices
      <4>2. vals[j] \in Durations
        BY <3>1, <4>1 DEF Sound
      <4> QED
        BY <4>1, <4>2
    <3>4. Scanned'
      BY <3>1, <3>3 DEF Scanned, Indices, InRange
    <3>5. StopsDown'
      BY <3>1, <3>3 DEF StopsDown, Scanned, Indices
    <3> QED
      BY <3>1, <3>2, <3>4, <3>5 DEF SelectInv
  <2>7. CASE Exchange
    BY <2>7, ExchangeKeeps
  <2>8. CASE Narrow
    BY <2>8, NarrowKeeps
  <2>9. CASE Return
    BY <2>9 DEF Return, SelectInv
  <2>10. CASE UNCHANGED selectVars
    BY <2>10 DEF selectVars, SelectInv, InRange, Sound, Reordered, Separated, Indices,
                 Scanned, StopsUp, StopsDown, Placed
  <2> QED
    BY <2>1, <2>2, <2>3, <2>4, <2>5, <2>6, <2>7, <2>8, <2>9, <2>10 DEF SelectNext, SelectStep
<1> QED
  BY <1>1, <1>2, PTL DEF SelectSpec

\* The inner loops of selectKth check no bounds: the elements on which they
\* stop keep every access inside the range, whatever the values.
THEOREM SelectInBounds == SelectSpec => []InBounds
<1>1. SelectInv => InBounds
  BY DEF SelectInv, InBounds, InRange, Scanned, StopsUp, StopsDown, Indices
<1> QED
  BY <1>1, SelectInvariant, PTL

\* selectKth reorders the array so that vals[k] is where a full sort would
\* put it, however the budget runs out.
THEOREM SelectCorrect == SelectSpec => []SelectedIsKth
<1>1. SelectInv => SelectedIsKth
  BY DEF SelectInv, SelectedIsKth, Sound, Reordered, Placed
<1> QED
  BY <1>1, SelectInvariant, PTL

------------------------------------------------------------------------------
(***************************************************************************)
(* The percentile.  The value at k has k + 1 values of the input at or     *)
(* below it, and a smaller one at most k: the rank is the least number of  *)
(* values that makes up the percentage.                                    *)
(***************************************************************************)
LEMMA RankIsNearest ==
  ASSUME NEW n \in Nat, n >= 1, NEW p \in 0..100
  PROVE  /\ 100 * Rank(n, p) >= p * n
         /\ Rank(n, p) = 1 \/ 100 * (Rank(n, p) - 1) < p * n
<1>1. PICK x \in Int : x = p * n /\ x <= 100 * n
  <2>1. p * n \in Int /\ (100 - p) * n >= 0
    OBVIOUS
  <2>2. (100 - p) * n = 100 * n - p * n
    OBVIOUS
  <2> QED BY <2>1, <2>2
<1>2. PICK r \in Int : r = (x + 99) \div 100
  OBVIOUS
<1>3. 100 * r >= x /\ 100 * (r - 1) < x
  BY <1>2
<1>4. Rank(n, p) = CASE r < 1 -> 1 [] r > n -> n [] OTHER -> r
  BY <1>1, <1>2 DEF Rank
<1> QED BY <1>1, <1>3, <1>4

\* A set that an interval maps into one to one has as many elements.
LEMMA AtLeastAsMany ==
  ASSUME NEW a \in Int, NEW b \in Int, a <= b, NEW T, IsFiniteSet(T), NEW f \in [a..b -> T],
         \A x, y \in a..b : f[x] = f[y] => x = y
  PROVE  Cardinality(T) >= (b - a) + 1
<1>1. IsFiniteSet(a..b) /\ Cardinality(a..b) = (b - a) + 1
  BY FS_Interval
<1>2. Cardinality(T) \in Nat
  BY FS_CardinalityType
<1>3. ~(Cardinality(T) < Cardinality(a..b))
  BY <1>1, FS_PigeonHole
<1> QED BY <1>1, <1>2, <1>3

AtOrBelow(v) == {m \in Indices : input[m] <= v}

LEMMA RanksOfInput ==
  ASSUME InRange, Sound(vals), Placed, input \in [Indices -> Durations]
  PROVE  /\ Cardinality(AtOrBelow(vals[k])) >= k + 1
         /\ \A m \in Indices : input[m] < vals[k] =>
              Cardinality(AtOrBelow(input[m])) \in 1..k
<1> USE SelectAssumption
<1>1. /\ size \in Nat /\ k \in Int /\ 0 <= k /\ k < size
      /\ Indices = 0..(size - 1)
      /\ \A m \in Indices : vals[m] \in Int /\ input[m] \in Int
  <2>1. \A m \in Indices : vals[m] \in Int /\ input[m] \in Int
    BY DEF Sound
  <2>2. size \in Nat /\ k \in Int /\ 0 <= k /\ k < size
    BY DEF InRange
  <2> QED BY <2>1, <2>2 DEF Indices
<1>2. IsFiniteSet(Indices) /\ Cardinality(Indices) = size
  BY <1>1, FS_Interval
<1>3. PICK p \in Perms(Indices) : vals = [m \in Indices |-> input[p[m]]]
  BY DEF Sound, Reordered
<1>4. /\ \A x \in Indices : p[x] \in Indices /\ vals[x] = input[p[x]]
      /\ \A x, y \in Indices : p[x] = p[y] => x = y
  BY <1>3 DEF Perms
<1>5. \A v : IsFiniteSet(AtOrBelow(v)) /\ AtOrBelow(v) \subseteq Indices
  <2> SUFFICES ASSUME NEW v PROVE IsFiniteSet(AtOrBelow(v)) /\ AtOrBelow(v) \subseteq Indices
    OBVIOUS
  <2>1. AtOrBelow(v) \subseteq Indices
    BY DEF AtOrBelow
  <2> QED BY <1>2, <2>1, FS_Subset
<1>6. Cardinality(AtOrBelow(vals[k])) >= k + 1
  <2> DEFINE f == [x \in 0..k |-> p[x]]
             T == AtOrBelow(vals[k])
  <2>1. \A x \in 0..k : x \in Indices /\ vals[x] <= vals[k]
    <3> SUFFICES ASSUME NEW x \in 0..k PROVE x \in Indices /\ vals[x] <= vals[k]
      OBVIOUS
    <3>1. x \in Indices /\ (x < k \/ x = k) /\ k \in Indices
      BY <1>1
    <3> QED BY <1>1, <3>1 DEF Placed
  <2>2. \A x \in 0..k : p[x] \in T
    BY <1>4, <2>1 DEF AtOrBelow
  <2>3. f \in [0..k -> T] /\ \A x, y \in 0..k : f[x] = f[y] => x = y
    BY <1>4, <2>1, <2>2
  <2>4. IsFiniteSet(T)
    BY <1>5
  <2> HIDE DEF f, T
  <2>5. Cardinality(T) >= (k - 0) + 1
    BY <1>1, <2>3, <2>4, AtLeastAsMany
  <2> QED BY <1>1, <2>5 DEF T
<1>7. ASSUME NEW m \in Indices, input[m] < vals[k]
      PROVE  Cardinality(AtOrBelow(input[m])) \in 1..k
  <2> DEFINE B == AtOrBelow(input[m])
             f == [x \in k..(size - 1) |-> p[x]]
  <2>1. \A x \in k..(size - 1) : x \in Indices /\ vals[k] <= vals[x]
    <3> SUFFICES ASSUME NEW x \in k..(size - 1) PROVE x \in Indices /\ vals[k] <= vals[x]
      OBVIOUS
    <3>1. x \in Indices /\ (x > k \/ x = k) /\ k \in Indices
      BY <1>1
    <3> QED BY <1>1, <3>1 DEF Placed
  <2>2. \A x \in k..(size - 1) : p[x] \in Indices \ B
    <3> SUFFICES ASSUME NEW x \in k..(size - 1), input[p[x]] <= input[m] PROVE FALSE
      BY <1>4, <2>1 DEF AtOrBelow
    <3>1. x \in Indices /\ p[x] \in Indices /\ k \in Indices
      BY <1>1, <1>4, <2>1
    <3>2. vals[x] = input[p[x]] /\ vals[k] <= vals[x] /\ vals[x] \in Int /\ vals[k] \in Int /\ input[m] \in Int
      BY <1>1, <1>4, <2>1, <3>1
    <3> QED BY <1>7, <3>2
  <2>3. f \in [k..(size - 1) -> Indices \ B] /\ \A x, y \in k..(size - 1) : f[x] = f[y] => x = y
    BY <1>4, <2>1, <2>2
  <2>4. IsFiniteSet(Indices \ B) /\ Cardinality(Indices \ B) = size - Cardinality(Indices \cap B)
    BY <1>2, FS_Difference
  <2>5. Indices \cap B = B /\ IsFiniteSet(B) /\ m \in B
    BY <1>1, <1>5 DEF AtOrBelow
  <2> HIDE DEF f, B
  <2>6. Cardinality(Indices \ B) >= ((size - 1) - k) + 1
    <3>1. size - 1 \in Int /\ k \in Int /\ k <= size - 1
      BY <1>1
    <3>2. PICK T, b : T = Indices \ B /\ b = size - 1
      OBVIOUS
    <3>3. IsFiniteSet(T) /\ f \in [k..b -> T] /\ \A x, y \in k..b : f[x] = f[y] => x = y
      BY <2>3, <2>4, <3>2
    <3>4. Cardinality(T) >= (b - k) + 1
      BY <3>1, <3>2, <3>3, AtLeastAsMany
    <3> QED BY <3>2, <3>4
  <2>7. Cardinality(B) \in Nat /\ Cardinality(B) # 0
    BY <2>5, FS_CardinalityType, FS_EmptySet
  <2>8. Cardinality(B) \in 1..k
    <3>1. PICK c : c = Cardinality(Indices \ B)
      OBVIOUS
    <3>2. PICK d : d = Cardinality(B)
      OBVIOUS
    <3>3. d \in Nat /\ d # 0 /\ c = size - d /\ c >= ((size - 1) - k) + 1
      BY <2>4, <2>5, <2>6, <2>7, <3>1, <3>2
    <3>4. d \in 1..k
      BY <1>1, <3>3
    <3> QED BY <3>2, <3>4
  <2> QED BY <2>8 DEF B
<1> QED BY <1>6, <1>7

\* A call keeps its array, its percentile and its rank.
RankInv ==
  pc # "idle" =>
    /\ size \in Nat /\ size >= 1 /\ percent \in 0..100
    /\ input \in [Indices -> Durations]
    /\ k = Rank(size, percent) - 1

LEMMA RankKept ==
  ASSUME RankInv, [SelectNext]_selectVars
  PROVE  RankInv'
<1> USE SelectAssumption
<1>1. CASE Call
  <2>1. PICK n \in 1..MaxLen, p \in Percentiles : \E a \in [0..(n - 1) -> Durations] :
          size' = n /\ input' = a /\ percent' = p /\ k' = Rank(n, p) - 1
    BY <1>1 DEF Call
  <2> QED BY <2>1 DEF RankInv, Indices
<1>2. CASE Return
  BY <1>2 DEF Return, RankInv
<1>3. ASSUME UNCHANGED <<size, input, percent, k>>, pc' # "idle" => pc # "idle"
      PROVE  RankInv'
  BY <1>3 DEF RankInv, Indices
<1>4. CASE Found \/ SortRest \/ ChoosePivot \/ ScanUp \/ ScanDown \/ Exchange \/ Narrow
  BY <1>3, <1>4 DEF Found, SortRest, ChoosePivot, ScanUp, ScanDown, Exchange, Narrow
<1>5. CASE UNCHANGED selectVars
  BY <1>3, <1>5 DEF selectVars
<1> QED BY <1>1, <1>2, <1>4, <1>5 DEF SelectNext, SelectStep

\* What percentileNearestRank returns is the nearest-rank percentile, for every
\* array, percentile and budget: its rank is the right one and selectKth finds
\* the value of that rank.
THEOREM SelectPercentile == SelectSpec => []PercentileIsNearestRank
<1>1. SelectInit => RankInv
  BY DEF SelectInit, RankInv
<1>2. RankInv /\ [SelectNext]_selectVars => RankInv'
  BY RankKept
<1>3. ASSUME SelectInv, RankInv PROVE PercentileIsNearestRank
  <2> SUFFICES ASSUME pc = "return"
               PROVE  /\ 100 * Cardinality(AtOrBelow(vals[k])) >= percent * size
                      /\ \A m \in Indices : input[m] < vals[k] =>
                           100 * Cardinality(AtOrBelow(input[m])) < percent * size
    BY DEF PercentileIsNearestRank, AtOrBelow
  <2>1. /\ InRange /\ Sound(vals) /\ Placed /\ input \in [Indices -> Durations]
        /\ size \in Nat /\ size >= 1 /\ percent \in 0..100 /\ k = Rank(size, percent) - 1
    BY <1>3 DEF SelectInv, RankInv
  <2>2. PICK r \in 1..size : r = Rank(size, percent)
    BY <2>1, RankInArray
  <2>3. PICK x \in Int : x = percent * size
    BY <2>1
  <2>4. 100 * r >= x /\ (r = 1 \/ 100 * (r - 1) < x)
    BY <2>1, <2>2, <2>3, RankIsNearest
  <2>5. k = r - 1 /\ size \in Nat
    BY <2>1, <2>2
  <2>6. Cardinality(AtOrBelow(vals[k])) \in Int
    <3>1. IsFiniteSet(Indices)
      BY <2>1, FS_Interval DEF Indices
    <3>2. AtOrBelow(vals[k]) \subseteq Indices
      BY DEF AtOrBelow
    <3> QED BY <3>1, <3>2, FS_Subset, FS_CardinalityType
  <2>7. 100 * Cardinality(AtOrBelow(vals[k])) >= x
    <3>1. Cardinality(AtOrBelow(vals[k])) >= k + 1
      BY <2>1, RanksOfInput
    <3> QED BY <2>3, <2>4, <2>5, <2>6, <3>1
  <2>8. ASSUME NEW m \in Indices, input[m] < vals[k]
        PROVE  100 * Cardinality(AtOrBelow(input[m])) < x
    <3>1. Cardinality(AtOrBelow(input[m])) \in 1..k
      BY <2>1, <2>8, RanksOfInput
    <3> QED BY <2>3, <2>4, <2>5, <3>1
  <2> QED BY <2>3, <2>7, <2>8
<1> QED BY <1>1, <1>2, <1>3, SelectInvariant, PTL DEF SelectSpec

------------------------------------------------------------------------------
(***************************************************************************)
(* LogBuffer: a buffer as a value.                                         *)
(***************************************************************************)
Cell == LogEvent \cup {Blank}

BufferOK(b) ==
  /\ b.items \in Seq(Cell)
  /\ b.head \in Nat
  /\ Len(b.items) <= 2 * Max
  /\ Len(b.items) - b.head <= Max
  /\ b.head <= Len(b.items)
  /\ \A p \in DOMAIN b.items : b.items[p] = Blank <=> p <= b.head

LEMMA MaxPositive == Max \in Nat /\ Max >= 1
BY BufferAssumption DEF Max

\* The live window is what lies behind the head, and no cell of it is blank.
LEMMA LiveFacts ==
  ASSUME NEW b, BufferOK(b)
  PROVE  /\ Live(b) \in Seq(LogEvent)
         /\ Len(Live(b)) = Len(b.items) - b.head
         /\ \A p \in 1..(Len(b.items) - b.head) : Live(b)[p] = b.items[b.head + p]
<1> DEFINE a == b.items
           h == b.head
           n == Len(b.items)
<1>1. n \in Nat /\ h \in Nat /\ h <= n /\ DOMAIN a = 1..n
  BY LenProperties DEF BufferOK
<1>2. \A p \in 1..n : a[p] \in Cell /\ (a[p] = Blank <=> p <= h)
  BY <1>1, ElementOfSeq DEF BufferOK
<1> HIDE DEF a, h, n
<1>3. \A p \in (h + 1)..n : a[p] \in LogEvent
  BY <1>1, <1>2 DEF Cell
<1>4. /\ SubSeq(a, h + 1, n) \in Seq(LogEvent)
      /\ Len(SubSeq(a, h + 1, n)) = IF h + 1 <= n THEN n - (h + 1) + 1 ELSE 0
      /\ \A p \in 1..(n - (h + 1) + 1) : SubSeq(a, h + 1, n)[p] = a[h + 1 + p - 1]
  BY <1>1, <1>3, SubSeqProperties
<1>5. Live(b) = SubSeq(a, h + 1, n)
  BY DEF Live, a, h, n
<1> DEFINE l == Live(b)
<1> HIDE DEF l
<1>6. l \in Seq(LogEvent) /\ Len(l) = n - h /\ \A p \in 1..(n - h) : l[p] = a[h + p]
  <2>1. Len(l) = IF h + 1 <= n THEN n - (h + 1) + 1 ELSE 0
    BY <1>4, <1>5 DEF l
  <2>2. ASSUME NEW p \in 1..(n - h) PROVE l[p] = a[h + p]
    <3>1. p \in 1..(n - (h + 1) + 1) /\ h + 1 + p - 1 = h + p
      BY <1>1
    <3>2. l[p] = a[h + 1 + p - 1]
      BY <1>4, <1>5, <3>1 DEF l
    <3> QED BY <3>1, <3>2
  <2> QED BY <1>1, <1>4, <1>5, <2>1, <2>2 DEF l
<1> QED BY <1>6 DEF l, a, h, n

\* A buffer with nothing dropped is its own window.
LEMMA LiveOfWhole ==
  ASSUME NEW s \in Seq(LogEvent), Len(s) <= Max
  PROVE  BufferOK(Buffer(s, 0)) /\ Live(Buffer(s, 0)) = s
<1>1. Len(s) \in Nat /\ DOMAIN s = 1..Len(s) /\ \A p \in 1..Len(s) : s[p] \in LogEvent
  BY LenProperties, ElementOfSeq
<1>2. s \in Seq(Cell)
  BY SeqMonotonic DEF Cell
<1>3. \A p \in DOMAIN s : s[p] = Blank <=> p <= 0
  BY <1>1, BufferAssumption DEF LogEvent
<1>4. BufferOK(Buffer(s, 0))
  BY <1>1, <1>2, <1>3, MaxPositive DEF BufferOK, Buffer
<1>5. Live(Buffer(s, 0)) = SubSeq(s, 1, Len(s))
  BY DEF Live, Buffer
<1> QED BY <1>4, <1>5, SubSeqFull

\* Copying the window to the front keeps it, and makes room.
LEMMA CompactKeeps ==
  ASSUME NEW b, BufferOK(b)
  PROVE  /\ BufferOK(Compact(b))
         /\ Live(Compact(b)) = Live(b)
         /\ Len(Compact(b).items) < 2 * Max
<1>1. Len(b.items) \in Nat /\ b.head \in Nat
  BY LenProperties DEF BufferOK
<1>2. CASE Len(b.items) = 2 * Max
  <2>1. Live(b) \in Seq(LogEvent) /\ Len(Live(b)) <= Max
    BY LiveFacts DEF BufferOK
  <2>2. Compact(b) = Buffer(Live(b), 0)
    BY <1>2 DEF Compact
  <2>3. BufferOK(Buffer(Live(b), 0)) /\ Live(Buffer(Live(b), 0)) = Live(b)
    BY <2>1, LiveOfWhole
  <2>4. Len(Live(b)) < 2 * Max
    BY <2>1, MaxPositive, LenProperties
  <2>5. Compact(b).items = Live(b)
    BY <2>2 DEF Buffer
  <2> QED BY <2>2, <2>3, <2>4, <2>5
<1>3. CASE Len(b.items) # 2 * Max
  <2>1. Compact(b) = b
    BY <1>3 DEF Compact
  <2>2. Len(b.items) < 2 * Max
    <3>1. Len(b.items) <= 2 * Max
      BY DEF BufferOK
    <3> QED BY <1>1, <1>3, <3>1, MaxPositive
  <2> QED BY <2>1, <2>2
<1> QED BY <1>2, <1>3

\* Blanking the oldest event and stepping over it is what taking the newest
\* Max events is in the bounded log.
LEMMA PushKeeps ==
  ASSUME NEW b, BufferOK(b), Len(b.items) < 2 * Max, NEW ev \in LogEvent
  PROVE  /\ BufferOK(Push(b, ev))
         /\ Live(Push(b, ev)) = Log!Latest(Append(Live(b), ev), Max)
<1> DEFINE a == b.items
           h == b.head
           n == Len(b.items)
           w == Live(b)
           c == Append(a, ev)
           v == Append(w, ev)
<1>1. /\ n \in Nat /\ h \in Nat /\ h <= n /\ n - h <= Max
      /\ n < 2 * Max /\ Max \in Nat /\ Max >= 1
  BY LenProperties, MaxPositive DEF BufferOK
<1>2. /\ a \in Seq(Cell) /\ DOMAIN a = 1..n
      /\ \A p \in 1..n : a[p] = Blank <=> p <= h
  BY LenProperties DEF BufferOK
<1>3. /\ w \in Seq(LogEvent) /\ Len(w) = n - h
      /\ \A p \in 1..(n - h) : w[p] = a[h + p]
  BY LiveFacts
<1>4. ev \in Cell /\ ev # Blank
  BY BufferAssumption DEF Cell, LogEvent
<1>5. /\ c \in Seq(Cell) /\ Len(c) = n + 1 /\ DOMAIN c = 1..(n + 1)
      /\ \A p \in 1..(n + 1) : c[p] = IF p = n + 1 THEN ev ELSE a[p]
  <2>1. c \in Seq(Cell) /\ Len(c) = n + 1 /\ \A p \in 1..n : c[p] = a[p]
    BY <1>2, <1>4, AppendProperties
  <2>2. c[n + 1] = ev
    BY <1>2, <1>4, AppendProperties
  <2>3. DOMAIN c = 1..(n + 1)
    BY <2>1, LenProperties
  <2> HIDE DEF c, n, a
  <2> QED BY <1>1, <2>1, <2>2, <2>3
<1>6. /\ v \in Seq(LogEvent) /\ Len(v) = n - h + 1
      /\ \A p \in 1..(n - h + 1) : v[p] = IF p = n - h + 1 THEN ev ELSE w[p]
  <2>1. v \in Seq(LogEvent) /\ Len(v) = Len(w) + 1 /\ \A p \in 1..Len(w) : v[p] = w[p]
    BY <1>3, AppendProperties
  <2>2. v[Len(w) + 1] = ev
    BY <1>3, AppendProperties
  <2> HIDE DEF v, w, n, h
  <2> QED BY <1>1, <1>3, <2>1, <2>2
<1>7. Push(b, ev) = IF (n + 1) - h > Max THEN Buffer([c EXCEPT ![h + 1] = Blank], h + 1)
                                       ELSE Buffer(c, h)
  <2>1. Push(b, ev) = IF Len(c) - h > Max THEN Buffer([c EXCEPT ![h + 1] = Blank], h + 1)
                                          ELSE Buffer(c, h)
    BY DEF Push
  <2>2. Len(c) = n + 1
    BY <1>5
  <2> HIDE DEF c, n, h
  <2> QED BY <2>1, <2>2, Zenon
<1>8. CASE (n + 1) - h > Max
  <2> DEFINE d == [c EXCEPT ![h + 1] = Blank]
  <2>1. n - h = Max /\ h + 1 \in 1..(n + 1)
    <3> HIDE DEF n, h
    <3> QED BY <1>1, <1>8
  <2>2. /\ d \in Seq(Cell) /\ Len(d) = n + 1
        /\ \A p \in 1..(n + 1) : d[p] = IF p = h + 1 THEN Blank ELSE c[p]
    <3>1. h + 1 \in 1..Len(c) /\ Blank \in Cell
      BY <1>5, <2>1 DEF Cell
    <3> HIDE DEF c, n, h
    <3> QED BY <1>5, <3>1, ExceptSeq
  <2>3. DOMAIN d = 1..(n + 1)
    <3> HIDE DEF d
    <3> QED BY <2>2, LenProperties
  <2> DEFINE e == Buffer(d, h + 1)
  <2>4. e.items = d /\ e.head = h + 1 /\ Push(b, ev) = e
    BY <1>7, <1>8 DEF Buffer
  <2> HIDE DEF e, d, c, n, h, a, w
  <2>5. \A p \in 1..(n + 1) : d[p] = Blank <=> p <= h + 1
    <3> SUFFICES ASSUME NEW p \in 1..(n + 1) PROVE d[p] = Blank <=> p <= h + 1
      OBVIOUS
    <3>1. CASE p = h + 1
      BY <1>1, <2>2, <3>1
    <3>2. CASE p # h + 1 /\ p = n + 1
      <4>1. d[p] = ev /\ ~(p <= h + 1)
        BY <1>1, <1>5, <2>1, <2>2, <3>2
      <4> QED BY <1>4, <4>1
    <3>3. CASE p # h + 1 /\ p # n + 1
      <4>1. d[p] = a[p] /\ p \in 1..n /\ (p <= h + 1 <=> p <= h)
        BY <1>1, <1>5, <2>2, <3>3
      <4> QED BY <1>2, <4>1
    <3> QED BY <3>1, <3>2, <3>3
  <2>6. BufferOK(e)
    <3>1. e.items \in Seq(Cell) /\ e.head \in Nat /\ Len(e.items) = n + 1
      BY <1>1, <2>2, <2>4
    <3>2. n + 1 <= 2 * Max /\ (n + 1) - (h + 1) <= Max /\ h + 1 <= n + 1
      BY <1>1
    <3>3. /\ Len(e.items) <= 2 * Max /\ Len(e.items) - e.head <= Max
          /\ e.head <= Len(e.items)
      BY <2>4, <3>1, <3>2, Zenon
    <3>4. \A p \in DOMAIN e.items : e.items[p] = Blank <=> p <= e.head
      BY <2>3, <2>4, <2>5, Zenon
    <3> QED BY <3>1, <3>3, <3>4 DEF BufferOK
  <2>7. /\ Live(e) \in Seq(LogEvent) /\ Len(Live(e)) = n - h
        /\ \A p \in 1..(n - h) : Live(e)[p] = d[h + 1 + p]
    <3>1. (n + 1) - (h + 1) = n - h
      BY <1>1
    <3>2. Len(e.items) - e.head = n - h
      BY <2>2, <2>4, <3>1, Zenon
    <3>3. /\ Live(e) \in Seq(LogEvent)
          /\ Len(Live(e)) = Len(e.items) - e.head
          /\ \A p \in 1..(Len(e.items) - e.head) : Live(e)[p] = e.items[e.head + p]
      BY <2>6, LiveFacts
    <3> QED BY <2>4, <3>2, <3>3, Zenon
  <2> DEFINE u == Log!Latest(v, Max)
  <2>8. /\ u \in Seq(LogEvent) /\ Len(u) = n - h
        /\ \A p \in 1..(n - h) : u[p] = v[p + 1]
    <3> DEFINE m == n - h
    <3>1. m \in Nat /\ m >= 1 /\ m = Max
      BY <1>1, <2>1
    <3>2. Len(v) = m + 1
      BY <1>6
    <3> HIDE DEF v, m
    <3>3. u = SubSeq(v, 2, m + 1)
      <4>1. Len(v) > Max /\ Len(v) - Max + 1 = 2
        BY <3>1, <3>2
      <4> QED BY <3>2, <4>1 DEF Log!Latest
    <3>4. \A p \in 2..(m + 1) : v[p] \in LogEvent
      BY <1>6, <3>1, <3>2, ElementOfSeq
    <3>5. /\ u \in Seq(LogEvent)
          /\ Len(u) = IF 2 <= m + 1 THEN (m + 1) - 2 + 1 ELSE 0
          /\ \A p \in 1..((m + 1) - 2 + 1) : u[p] = v[2 + p - 1]
      <4>1. 2 \in Int /\ m + 1 \in Int
        BY <3>1
      <4>2. /\ SubSeq(v, 2, m + 1) \in Seq(LogEvent)
            /\ Len(SubSeq(v, 2, m + 1)) = IF 2 <= m + 1 THEN (m + 1) - 2 + 1 ELSE 0
            /\ \A p \in 1..((m + 1) - 2 + 1) : SubSeq(v, 2, m + 1)[p] = v[2 + p - 1]
        BY <3>4, <4>1, SubSeqProperties
      <4> HIDE DEF u
      <4> QED BY <3>3, <4>2
    <3> HIDE DEF u
    <3>6. Len(u) = m /\ (m + 1) - 2 + 1 = m
      BY <3>1, <3>5
    <3>7. ASSUME NEW p \in 1..m PROVE u[p] = v[p + 1]
      <4>1. 2 + p - 1 = p + 1 /\ p \in 1..((m + 1) - 2 + 1)
        BY <3>1
      <4> QED BY <3>5, <4>1
    <3> QED BY <3>5, <3>6, <3>7 DEF m
  <2>9. ASSUME NEW p \in 1..(n - h) PROVE Live(e)[p] = u[p]
    <3>1. Live(e)[p] = d[h + 1 + p] /\ u[p] = v[p + 1]
      BY <2>7, <2>8
    <3>2. h + 1 + p \in 1..(n + 1) /\ h + 1 + p # h + 1 /\ p + 1 \in 1..(n - h + 1)
      BY <1>1
    <3>3. d[h + 1 + p] = c[h + 1 + p]
      BY <2>2, <3>2
    <3>4. CASE p = n - h
      <4>1. h + 1 + p = n + 1 /\ p + 1 = n - h + 1
        BY <1>1, <3>4
      <4>2. c[n + 1] = ev /\ v[n - h + 1] = ev
        BY <1>5, <1>6, <3>2, <4>1
      <4> QED BY <3>1, <3>3, <4>1, <4>2
    <3>5. CASE p # n - h
      <4>1. h + 1 + p # n + 1 /\ p + 1 # n - h + 1 /\ p + 1 \in 1..(n - h) /\ h + 1 + p = h + (p + 1)
        BY <1>1, <3>5
      <4>2. c[h + 1 + p] = a[h + 1 + p] /\ v[p + 1] = w[p + 1]
        BY <1>5, <1>6, <3>2, <4>1
      <4>3. w[p + 1] = a[h + (p + 1)]
        BY <1>3, <4>1
      <4> QED BY <3>1, <3>3, <4>1, <4>2, <4>3
    <3> QED BY <3>4, <3>5
  <2>10. Live(e) = u
    <3> HIDE DEF u
    <3> QED BY <2>7, <2>8, <2>9, SeqEqual
  <2> QED BY <2>4, <2>6, <2>10 DEF w
<1>9. CASE ~((n + 1) - h > Max)
  <2> DEFINE e == Buffer(c, h)
  <2>1. e.items = c /\ e.head = h /\ Push(b, ev) = e
    BY <1>7, <1>9 DEF Buffer
  <2> HIDE DEF e, c, n, h, a, w
  <2>2. \A p \in 1..(n + 1) : c[p] = Blank <=> p <= h
    <3> SUFFICES ASSUME NEW p \in 1..(n + 1) PROVE c[p] = Blank <=> p <= h
      OBVIOUS
    <3>1. CASE p = n + 1
      <4>1. c[p] = ev /\ ~(p <= h)
        BY <1>1, <1>5, <3>1
      <4> QED BY <1>4, <4>1
    <3>2. CASE p # n + 1
      <4>1. c[p] = a[p] /\ p \in 1..n
        BY <1>1, <1>5, <3>2
      <4> QED BY <1>2, <4>1
    <3> QED BY <3>1, <3>2
  <2>3. BufferOK(e)
    <3>1. e.items \in Seq(Cell) /\ e.head \in Nat /\ Len(e.items) = n + 1
      BY <1>1, <1>5, <2>1
    <3>2. n + 1 <= 2 * Max /\ (n + 1) - h <= Max /\ h <= n + 1
      BY <1>1, <1>9
    <3>3. /\ Len(e.items) <= 2 * Max /\ Len(e.items) - e.head <= Max
          /\ e.head <= Len(e.items)
      BY <2>1, <3>1, <3>2, Zenon
    <3>4. \A p \in DOMAIN e.items : e.items[p] = Blank <=> p <= e.head
      BY <1>5, <2>1, <2>2, Zenon
    <3> QED BY <3>1, <3>3, <3>4 DEF BufferOK
  <2>4. /\ Live(e) \in Seq(LogEvent) /\ Len(Live(e)) = (n + 1) - h
        /\ \A p \in 1..((n + 1) - h) : Live(e)[p] = c[h + p]
    <3>1. Len(e.items) - e.head = (n + 1) - h
      BY <1>5, <2>1, Zenon
    <3>2. /\ Live(e) \in Seq(LogEvent)
          /\ Len(Live(e)) = Len(e.items) - e.head
          /\ \A p \in 1..(Len(e.items) - e.head) : Live(e)[p] = e.items[e.head + p]
      BY <2>3, LiveFacts
    <3> QED BY <2>1, <3>1, <3>2, Zenon
  <2>5. (n + 1) - h = n - h + 1
    BY <1>1
  <2>6. ASSUME NEW p \in 1..(n - h + 1) PROVE Live(e)[p] = v[p]
    <3>1. Live(e)[p] = c[h + p] /\ h + p \in 1..(n + 1)
      BY <1>1, <2>4, <2>5
    <3>2. CASE p = n - h + 1
      <4>1. h + p = n + 1
        BY <1>1, <3>2
      <4> QED BY <1>5, <1>6, <3>1, <3>2, <4>1
    <3>3. CASE p # n - h + 1
      <4>1. h + p # n + 1 /\ p \in 1..(n - h)
        BY <1>1, <3>3
      <4>2. c[h + p] = a[h + p] /\ v[p] = w[p] /\ w[p] = a[h + p]
        BY <1>3, <1>5, <1>6, <3>1, <3>3, <4>1
      <4> QED BY <3>1, <4>2
    <3> QED BY <3>2, <3>3
  <2>7. Live(e) = v
    <3> HIDE DEF v
    <3> QED BY <1>6, <2>4, <2>5, <2>6, SeqEqual
  <2>8. Log!Latest(v, Max) = SubSeq(v, 1, Len(v))
    <3>1. ~(Len(v) > Max)
      <4> HIDE DEF v
      <4> QED BY <1>1, <1>6, <1>9
    <3> QED BY <3>1 DEF Log!Latest
  <2>9. Log!Latest(v, Max) = v
    <3> HIDE DEF v
    <3> QED BY <1>6, <2>8, SubSeqFull
  <2> QED BY <2>1, <2>3, <2>7, <2>9 DEF w
<1> QED BY <1>8, <1>9

------------------------------------------------------------------------------
(***************************************************************************)
(* One event.                                                              *)
(***************************************************************************)
\* Looking back Lookback cells from the end of the array, but not past the
\* head, is looking back Lookback events of the window.
LEMMA DupIsRepeat ==
  ASSUME NEW b, BufferOK(b), NEW ev
  PROVE  IsDup(b, ev) <=> Log!Repeats(Live(b), ev)
<1> DEFINE a == b.items
           h == b.head
           n == Len(b.items)
           w == Live(b)
<1>1. n \in Nat /\ h \in Nat /\ h <= n /\ DOMAIN a = 1..n /\ Lookback \in Nat
  BY LenProperties, BufferAssumption DEF BufferOK
<1>2. /\ w \in Seq(LogEvent) /\ Len(w) = n - h /\ DOMAIN w = 1..(n - h)
      /\ \A p \in 1..(n - h) : w[p] = a[h + p]
  <2>1. w \in Seq(LogEvent) /\ Len(w) = n - h /\ \A p \in 1..(n - h) : w[p] = a[h + p]
    BY LiveFacts
  <2> HIDE DEF w
  <2> QED BY <2>1, LenProperties
<1>3. IsDup(b, ev) <=> \E p \in 1..n : p > h /\ p > n - Lookback /\ SameEvent(a[p], ev)
  BY <1>1 DEF IsDup, SameEvent
<1>4. Log!Repeats(w, ev) <=> \E p \in 1..(n - h) : p > (n - h) - Lookback /\ SameEvent(w[p], ev)
  <2> HIDE DEF w
  <2>1. Log!Repeats(w, ev) <=> \E p \in DOMAIN w : p > Len(w) - Lookback /\ SameEvent(w[p], ev)
    BY DEF Log!Repeats
  <2> HIDE DEF n, h
  <2> QED BY <1>2, <2>1
<1> HIDE DEF a, h, n, w
<1>5. ASSUME NEW p \in 1..n, p > h, p > n - Lookback, SameEvent(a[p], ev)
      PROVE  \E q \in 1..(n - h) : q > (n - h) - Lookback /\ SameEvent(w[q], ev)
  <2>1. p - h \in 1..(n - h) /\ p - h > (n - h) - Lookback /\ h + (p - h) = p
    BY <1>1, <1>5
  <2>2. w[p - h] = a[p]
    BY <1>2, <2>1
  <2> QED BY <1>5, <2>1, <2>2
<1>6. ASSUME NEW q \in 1..(n - h), q > (n - h) - Lookback, SameEvent(w[q], ev)
      PROVE  \E p \in 1..n : p > h /\ p > n - Lookback /\ SameEvent(a[p], ev)
  <2>1. h + q \in 1..n /\ h + q > h /\ h + q > n - Lookback
    BY <1>1, <1>6
  <2>2. w[q] = a[h + q]
    BY <1>2
  <2> QED BY <1>6, <2>1, <2>2
<1> QED BY <1>3, <1>4, <1>5, <1>6 DEF w

\* Appending one event to the buffer adds it to the log.
LEMMA AppendOneAdds ==
  ASSUME NEW b, BufferOK(b), NEW ev \in LogEvent
  PROVE  BufferOK(AppendOne(b, ev)) /\ Live(AppendOne(b, ev)) = Log!Add(Live(b), ev)
<1>1. IsDup(b, ev) <=> Log!Repeats(Live(b), ev)
  BY DupIsRepeat
<1>2. CASE IsDup(b, ev)
  <2>1. AppendOne(b, ev) = b /\ Log!Add(Live(b), ev) = Live(b)
    BY <1>1, <1>2 DEF AppendOne, Log!Add
  <2> QED BY <2>1
<1>3. CASE ~IsDup(b, ev)
  <2> DEFINE c == Compact(b)
  <2>1. BufferOK(c) /\ Live(c) = Live(b) /\ Len(c.items) < 2 * Max
    BY CompactKeeps
  <2>2. AppendOne(b, ev) = Push(c, ev)
    BY <1>3 DEF AppendOne
  <2>3. Log!Add(Live(b), ev) = Log!Latest(Append(Live(b), ev), Max)
    BY <1>1, <1>3 DEF Log!Add
  <2> HIDE DEF c
  <2>4. BufferOK(Push(c, ev)) /\ Live(Push(c, ev)) = Log!Latest(Append(Live(c), ev), Max)
    BY <2>1, PushKeeps
  <2> QED BY <2>1, <2>2, <2>3, <2>4
<1> QED BY <1>2, <1>3

------------------------------------------------------------------------------
(***************************************************************************)
(* A batch.                                                                *)
(***************************************************************************)
\* f lists the buffers after 0, 1, ..., n events of a batch, from b on.
IsAfter(f, b, batch, n) ==
  f = [m \in 0..n |-> IF m = 0 THEN b ELSE AppendOne(f[m - 1], batch[m])]

\* f lists what the log holds after 0, 1, ..., n events of a batch.
IsAdded(f, s, batch, n) ==
  f = [m \in 0..n |-> IF m = 0 THEN s ELSE Log!Add(f[m - 1], batch[m])]

LEMMA AfterExists ==
  ASSUME NEW n \in Nat, NEW b, NEW batch
  PROVE  \E f : IsAfter(f, b, batch, n)
<1> DEFINE S == {m \in Nat : \E f : IsAfter(f, b, batch, m)}
<1>1. 0 \in S
  <2>1. IsAfter([m \in 0..0 |-> b], b, batch, 0)
    BY DEF IsAfter
  <2> QED BY <2>1
<1>2. ASSUME NEW m \in S PROVE m + 1 \in S
  <2>1. m \in Nat
    OBVIOUS
  <2>2. PICK f : f = [r \in 0..m |-> IF r = 0 THEN b ELSE AppendOne(f[r - 1], batch[r])]
    BY DEF IsAfter
  <2> DEFINE g == [r \in 0..(m + 1) |-> IF r = m + 1 THEN AppendOne(f[m], batch[m + 1])
                                                     ELSE f[r]]
  <2>3. ASSUME NEW r \in 0..(m + 1)
        PROVE  g[r] = IF r = 0 THEN b ELSE AppendOne(g[r - 1], batch[r])
    <3>1. CASE r = m + 1
      <4>1. g[r] = AppendOne(f[m], batch[r]) /\ g[m] = f[m] /\ r - 1 = m /\ r # 0
        BY <2>1, <3>1
      <4> QED BY <4>1
    <3>2. CASE r # m + 1 /\ r # 0
      <4>1. r - 1 \in 0..m /\ r - 1 \in 0..(m + 1) /\ r - 1 # m + 1 /\ r \in 0..m
        BY <2>1, <3>2
      <4>2. g[r] = f[r] /\ g[r - 1] = f[r - 1]
        BY <3>2, <4>1
      <4>3. f[r] = AppendOne(f[r - 1], batch[r])
        BY <2>2, <3>2, <4>1
      <4> QED BY <3>2, <4>2, <4>3
    <3>3. CASE r = 0
      <4>1. 0 \in 0..m /\ 0 # m + 1
        BY <2>1
      <4>2. g[0] = f[0] /\ f[0] = b
        BY <2>1, <2>2, <4>1
      <4> QED BY <3>3, <4>2
    <3> QED BY <3>1, <3>2, <3>3
  <2>4. g = [r \in 0..(m + 1) |-> g[r]]
    OBVIOUS
  <2> HIDE DEF g
  <2>5. IsAfter(g, b, batch, m + 1)
    BY <2>3, <2>4 DEF IsAfter
  <2> QED BY <2>1, <2>5
<1>3. n \in S
  <2> HIDE DEF S
  <2> QED BY <1>1, <1>2, SetInduction
<1> QED BY <1>3

\* The buffer after each event of the batch is a buffer, and its window is
\* what the log holds after that event.
LEMMA AppendBatchAdds ==
  ASSUME NEW b, BufferOK(b), NEW batch \in Seq(LogEvent),
         NEW after, IsAfter(after, b, batch, Len(batch))
  PROVE  /\ BufferOK(after[Len(batch)])
         /\ Live(after[Len(batch)]) = Log!AddAll(Live(b), batch)
<1> DEFINE n == Len(batch)
<1>1. n \in Nat /\ \A m \in 1..n : batch[m] \in LogEvent
  BY LenProperties, ElementOfSeq
<1>2. \A m \in 0..n : after[m] = IF m = 0 THEN b ELSE AppendOne(after[m - 1], batch[m])
  BY DEF IsAfter
<1> HIDE DEF n
<1>3. ASSUME NEW m \in Nat, m + 1 <= n
      PROVE  after[m + 1] = AppendOne(after[m], batch[m + 1]) /\ batch[m + 1] \in LogEvent
  <2>1. m + 1 \in 0..n /\ m + 1 \in 1..n /\ m + 1 # 0 /\ (m + 1) - 1 = m
    BY <1>1, <1>3
  <2> QED BY <1>1, <1>2, <2>1
<1> DEFINE A == {m \in Nat : m <= n => BufferOK(after[m])}
<1>4. Nat \subseteq A
  <2>1. 0 \in A
    BY <1>1, <1>2
  <2>2. ASSUME NEW m \in A \cap Nat PROVE m + 1 \in A
    <3> SUFFICES ASSUME m + 1 <= n PROVE BufferOK(after[m + 1])
      OBVIOUS
    <3>1. BufferOK(after[m])
      BY <1>1
    <3> QED BY <1>3, <3>1, AppendOneAdds
  <2> HIDE DEF A
  <2> QED BY <2>1, <2>2, SetInduction
<1>5. ASSUME NEW m \in Nat, m <= n PROVE BufferOK(after[m])
  BY <1>4, <1>5
<1> HIDE DEF A
<1> DEFINE g == [m \in 0..n |-> Live(after[m])]
<1>6. IsAdded(g, Live(b), batch, n)
  <2>1. ASSUME NEW m \in 0..n
        PROVE  g[m] = IF m = 0 THEN Live(b) ELSE Log!Add(g[m - 1], batch[m])
    <3>1. CASE m = 0
      BY <1>2, <3>1
    <3>2. CASE m # 0
      <4> DEFINE r == m - 1
      <4>1. r \in Nat /\ r + 1 = m /\ r + 1 <= n /\ r <= n /\ r \in 0..n
        BY <1>1, <3>2
      <4> HIDE DEF r
      <4>2. after[m] = AppendOne(after[r], batch[m]) /\ batch[m] \in LogEvent
        BY <1>3, <4>1
      <4>3. Live(after[m]) = Log!Add(Live(after[r]), batch[m])
        BY <1>5, <4>1, <4>2, AppendOneAdds
      <4>4. g[m] = Live(after[m]) /\ g[r] = Live(after[r])
        BY <4>1
      <4> QED BY <3>2, <4>3, <4>4 DEF r
    <3> QED BY <3>1, <3>2
  <2>2. g = [m \in 0..n |-> g[m]]
    OBVIOUS
  <2> HIDE DEF g
  <2> QED BY <2>1, <2>2 DEF IsAdded
<1> DEFINE added == CHOOSE f : IsAdded(f, Live(b), batch, n)
<1>7. IsAdded(added, Live(b), batch, n)
  <2> HIDE DEF g
  <2> QED BY <1>6
<1>8. Log!AddAll(Live(b), batch) = added[n]
  BY DEF Log!AddAll, IsAdded, n
<1> HIDE DEF added, g
<1>9. \A m \in 0..n : added[m] = IF m = 0 THEN Live(b) ELSE Log!Add(added[m - 1], batch[m])
  BY <1>7 DEF IsAdded
<1> DEFINE E == {m \in Nat : m <= n => added[m] = Live(after[m])}
<1>10. Nat \subseteq E
  <2>1. 0 \in E
    BY <1>1, <1>2, <1>9
  <2>2. ASSUME NEW m \in E \cap Nat PROVE m + 1 \in E
    <3> SUFFICES ASSUME m + 1 <= n PROVE added[m + 1] = Live(after[m + 1])
      OBVIOUS
    <3>1. added[m] = Live(after[m]) /\ m <= n
      BY <1>1
    <3>2. m + 1 \in 0..n /\ m + 1 # 0 /\ (m + 1) - 1 = m
      BY <1>1
    <3>3. added[m + 1] = Log!Add(added[m], batch[m + 1])
      BY <1>9, <3>2
    <3>4. Live(AppendOne(after[m], batch[m + 1])) = Log!Add(Live(after[m]), batch[m + 1])
      BY <1>3, <1>5, <3>1, AppendOneAdds
    <3> QED BY <1>3, <3>1, <3>3, <3>4
  <2> HIDE DEF E
  <2> QED BY <2>1, <2>2, SetInduction
<1>11. added[n] = Live(after[n]) /\ BufferOK(after[n])
  BY <1>1, <1>5, <1>10
<1> QED BY <1>8, <1>11 DEF n

------------------------------------------------------------------------------
(***************************************************************************)
(* The buffer as it runs.                                                  *)
(***************************************************************************)
LEMMA DisciplineIsOK == ArrayDiscipline <=> BufferOK(Buffer(items, head))
BY DEF ArrayDiscipline, BufferOK, Buffer, Cell

\* One call of Append, on the array and on the log.
LEMMA AppendBatchStep ==
  ASSUME ArrayDiscipline, NEW batch \in Batches, AppendBatch(batch)
  PROVE  ArrayDiscipline' /\ live' = Log!AddAll(live, batch)
<1>1. batch \in Seq(LogEvent) /\ Len(batch) \in Nat
  <2>1. PICK n \in 1..MaxBatch : batch \in [1..n -> LogEvent]
    BY DEF Batches
  <2> QED BY <2>1, LenProperties
<1> DEFINE b     == Buffer(items, head)
           n     == Len(batch)
           after == CHOOSE f : IsAfter(f, b, batch, n)
<1>2. IsAfter(after, b, batch, n)
  BY <1>1, AfterExists
<1>3. items' = after[n].items /\ head' = after[n].head
  BY DEF AppendBatch, IsAfter
<1> HIDE DEF after
<1>4. BufferOK(after[n]) /\ Live(after[n]) = Log!AddAll(Live(b), batch)
  BY <1>1, <1>2, DisciplineIsOK, AppendBatchAdds
<1>5. ArrayDiscipline'
  BY <1>3, <1>4 DEF ArrayDiscipline, BufferOK, Cell
<1>6. live' = Live(after[n])
  BY <1>3 DEF live, Live, Buffer
<1> QED BY <1>4, <1>5, <1>6 DEF live

\* A new buffer is an empty array.
LEMMA EmptyBuffer == BufferOK(Buffer(<<>>, 0)) /\ Live(Buffer(<<>>, 0)) = <<>>
<1>1. <<>> \in Seq(LogEvent) /\ Len(<<>>) = 0
  BY EmptySeq
<1>2. Len(<<>>) <= Max
  BY <1>1, MaxPositive
<1> QED BY <1>1, <1>2, LiveOfWhole

\* The array never outgrows what NewLogBuffer allocated, and the dropped
\* events, and no others, are blank: for every size, lookback and batch
\* (Append, NewLogBuffer).
THEOREM BufferArrayDiscipline == BufferSpec => []ArrayDiscipline
<1>1. BufferInit => ArrayDiscipline
  BY EmptyBuffer, DisciplineIsOK DEF BufferInit
<1>2. ArrayDiscipline /\ [BufferNext]_bufferVars => ArrayDiscipline'
  <2> SUFFICES ASSUME ArrayDiscipline, [BufferNext]_bufferVars PROVE ArrayDiscipline'
    OBVIOUS
  <2>1. ASSUME NEW batch \in Batches, AppendBatch(batch) PROVE ArrayDiscipline'
    BY <2>1, AppendBatchStep
  <2>2. CASE NewLogBuffer
    <3> DEFINE b == Buffer(<<>>, 0)
    <3>1. items' = b.items /\ head' = b.head
      BY <2>2 DEF NewLogBuffer, Buffer
    <3> HIDE DEF b
    <3>2. BufferOK(b)
      BY EmptyBuffer DEF b
    <3> QED BY <3>1, <3>2 DEF ArrayDiscipline, BufferOK, Cell
  <2>3. CASE UNCHANGED bufferVars
    BY <2>3 DEF bufferVars, ArrayDiscipline
  <2> QED BY <2>1, <2>2, <2>3 DEF BufferNext
<1> QED BY <1>1, <1>2, PTL DEF BufferSpec

\* Heads, blanks and copies never show: whatever Append does to the array,
\* the live window goes through the states of a plain bounded list
\* (Append, isDup, live).
THEOREM BufferImplementsLog == BufferSpec => ImplementsLog
<1>1. BufferInit => Log!LogInit
  BY EmptyBuffer DEF BufferInit, Log!LogInit, live
<1>2. ArrayDiscipline /\ [BufferNext]_bufferVars => [Log!LogNext]_live
  <2> SUFFICES ASSUME ArrayDiscipline, [BufferNext]_bufferVars
               PROVE  Log!LogNext \/ live' = live
    BY Zenon
  <2>1. ASSUME NEW batch \in Batches, AppendBatch(batch) PROVE Log!LogNext
    BY <2>1, AppendBatchStep DEF Log!LogNext
  <2>2. CASE NewLogBuffer
    <3>1. live' = Live(Buffer(<<>>, 0))
      BY <2>2 DEF NewLogBuffer, live
    <3> QED BY <3>1, EmptyBuffer DEF Log!LogNext
  <2>3. CASE UNCHANGED bufferVars
    BY <2>3 DEF bufferVars, live
  <2> QED BY <2>1, <2>2, <2>3 DEF BufferNext
<1> QED BY <1>1, <1>2, BufferArrayDiscipline, PTL DEF BufferSpec, ImplementsLog, Log!LogSpec

------------------------------------------------------------------------------
(***************************************************************************)
(* LineFraming: what the invariant says.                                   *)
(***************************************************************************)
\* A line may begin behind byte s.
BeginsAt(b, s) == s = 0 \/ b[s] = "n"

\* No newline among the bytes from s + 1 to e.
NoEnd(b, s, e) == \A m \in (s + 1)..e : b[m] # "n"

IsLine(b, s, n) ==
  BeginsAt(b, s) /\ b[s + n] = "n" /\ \A m \in 1..(n - 1) : b[s + m] # "n"

Consumed(b, o) == {l \in (0..o) \X (1..o) : l[1] + l[2] <= o /\ IsLine(b, l[1], l[2])}

\* t is the length of the line of n bytes behind s, carriage returns left out.
IsTrim(b, s, n, t) ==
  /\ \A m \in (t + 1)..(n - 1) : b[s + m] = "r"
  /\ t = 0 \/ b[s + t] # "r"

Trim(b, s, n) == CHOOSE t \in 0..(n - 1) : IsTrim(b, s, n, t)

Size(b, l) == Trim(b, l[1], l[2])

Long(b, o)   == {l \in Consumed(b, o) : Size(b, l) > MaxLine}
Fit(b, o)    == {l \in Consumed(b, o) : Size(b, l) \in 1..MaxLine}
Unsure(b, o) == {l \in Consumed(b, o) : Size(b, l) <= MaxLine /\ l[2] - 1 > MaxLine + 1}

As(b, l) == [at |-> l[1], length |-> Size(b, l)]

Got(h) == {h[q] : q \in DOMAIN h}

\* Lines that may have been counted although they fit.
Doubtful(b, o, h) == {l \in Unsure(b, o) : As(b, l) \notin Got(h)}

Handed == [at : Nat, length : Nat]

\* What was handed on of the bytes up to o.
HandedOK(b, o, h) ==
  /\ h \in Seq(Handed)
  /\ \A q, z \in DOMAIN h : q < z => h[q].at < h[z].at
  /\ Got(h) \subseteq {As(b, l) : l \in Fit(b, o)}
  /\ \A l \in Fit(b, o) \ Unsure(b, o) : As(b, l) \in Got(h)

\* What was counted, when u of the lines are long or being skipped.
CountOK(b, o, h, u, c) ==
  c \in Nat /\ u <= c /\ c <= u + Cardinality(Doubtful(b, o, h))

\* So much of the line behind s shows that it is over the limit, or that it
\* ends in carriage returns that hide that it is not.
Over(b, s, e) == e - s > MaxLine + 1 \/ (e - s = MaxLine + 1 /\ b[e] # "r")

\* Where the reader is in the line that it has not consumed.
CutOK(b, o, sk, h) ==
  /\ b \in Seq(Byte) /\ o \in Nat /\ h \in Nat /\ o + h <= Len(b) /\ sk \in BOOLEAN
  /\ h <= MaxLine + 1
  /\ ~sk => BeginsAt(b, o) /\ NoEnd(b, o, o + h)
  /\ sk => h = 0 /\ \E s \in Nat : s < o /\ BeginsAt(b, s) /\ NoEnd(b, s, o) /\ Over(b, s, o)

Certain(b, o, sk) == Cardinality(Long(b, o)) + (IF sk THEN 1 ELSE 0)

FramingInv ==
  /\ CutOK(bytes, offset, skipping, held)
  /\ ~reading => held = 0
  /\ HandedOK(bytes, offset, handled)
  /\ CountOK(bytes, offset, handled, Certain(bytes, offset, skipping), skipped)

------------------------------------------------------------------------------
(***************************************************************************)
(* The length of a line.                                                   *)
(***************************************************************************)
\* A line has a length.
LEMMA TrimIs ==
  ASSUME NEW b, NEW s \in Nat, NEW n \in Nat, n >= 1
  PROVE  Trim(b, s, n) \in 0..(n - 1) /\ IsTrim(b, s, n, Trim(b, s, n))
<1> DEFINE S == {t \in 0..(n - 1) : \A m \in (t + 1)..(n - 1) : b[s + m] = "r"}
<1>1. n - 1 \in S
  OBVIOUS
<1>2. S \in SUBSET Nat /\ S # {}
  <2>1. \A t \in S : t \in Nat
    OBVIOUS
  <2> HIDE DEF S
  <2> QED BY <1>1, <2>1
<1> HIDE DEF S
<1>3. PICK t \in S : \A u \in S : t <= u
  BY <1>2, LeastElement
<1>4. t \in 0..(n - 1) /\ \A m \in (t + 1)..(n - 1) : b[s + m] = "r"
  BY <1>3 DEF S
<1>5. ASSUME t # 0, b[s + t] = "r" PROVE FALSE
  <2>1. PICK u : u = t - 1
    OBVIOUS
  <2>2. u \in 0..(n - 1) /\ u < t
    BY <1>4, <1>5, <2>1
  <2>3. ASSUME NEW m \in (u + 1)..(n - 1) PROVE b[s + m] = "r"
    <3>1. m = t \/ m \in (t + 1)..(n - 1)
      BY <1>4, <2>1
    <3> QED BY <1>4, <1>5, <3>1
  <2>4. u \in S
    BY <2>2, <2>3 DEF S
  <2> QED BY <1>3, <1>4, <2>2, <2>4
<1>6. IsTrim(b, s, n, t)
  BY <1>4, <1>5 DEF IsTrim
<1> QED BY <1>4, <1>6 DEF Trim

\* There is but one.
LEMMA TrimUnique ==
  ASSUME NEW b, NEW s \in Nat, NEW n \in Nat, NEW t \in 0..(n - 1), NEW u \in 0..(n - 1),
         IsTrim(b, s, n, t), IsTrim(b, s, n, u)
  PROVE  t = u
<1>1. ASSUME NEW v \in 0..(n - 1), NEW w \in 0..(n - 1), v < w,
             IsTrim(b, s, n, v), IsTrim(b, s, n, w)
      PROVE  FALSE
  <2>1. w \in (v + 1)..(n - 1) /\ w # 0
    BY <1>1
  <2> QED BY <1>1, <2>1 DEF IsTrim
<1>2. t \in Int /\ u \in Int /\ ~(t < u) /\ ~(u < t)
  BY <1>1
<1> QED BY <1>2

\* It depends on the bytes of the line only.
LEMMA TrimOfPrefix ==
  ASSUME NEW b, NEW c, NEW s \in Nat, NEW n \in Nat, n >= 1,
         \A m \in 1..(s + n) : b[m] = c[m]
  PROVE  Trim(b, s, n) = Trim(c, s, n)
<1>1. PICK t \in 0..(n - 1) : t = Trim(b, s, n) /\ IsTrim(b, s, n, t)
  BY TrimIs
<1>2. PICK u \in 0..(n - 1) : u = Trim(c, s, n) /\ IsTrim(c, s, n, u)
  BY TrimIs
<1>3. IsTrim(b, s, n, u)
  <2>1. \A m \in 1..n : s + m \in 1..(s + n) /\ b[s + m] = c[s + m]
    OBVIOUS
  <2>2. ASSUME NEW m \in (u + 1)..(n - 1) PROVE b[s + m] = "r"
    <3>1. m \in 1..n
      OBVIOUS
    <3> QED BY <1>2, <2>1, <3>1 DEF IsTrim
  <2>3. u = 0 \/ b[s + u] # "r"
    <3>1. u # 0 => u \in 1..n
      OBVIOUS
    <3> QED BY <1>2, <2>1, <3>1 DEF IsTrim
  <2> QED BY <2>2, <2>3 DEF IsTrim
<1>4. t = u
  BY <1>1, <1>3, TrimUnique
<1> QED BY <1>1, <1>2, <1>4

\* A line that was given up is long, or seems to be.
LEMMA GivenUp ==
  ASSUME FramingAssumption, NEW b, NEW s \in Nat, NEW n \in Nat, n >= 1, NEW e \in Nat,
         s < e, e < s + n, Over(b, s, e), NoEnd(b, s, e)
  PROVE  Trim(b, s, n) > MaxLine \/ n - 1 > MaxLine + 1
<1>1. MaxLine \in Nat
  BY DEF FramingAssumption
<1>2. CASE n - 1 > MaxLine + 1
  BY <1>2
<1>3. CASE ~(n - 1 > MaxLine + 1)
  <2>1. e - s = MaxLine + 1 /\ b[e] # "r" /\ n - 1 = MaxLine + 1
    BY <1>1, <1>3 DEF Over
  <2>2. PICK t \in 0..(n - 1) : t = Trim(b, s, n) /\ IsTrim(b, s, n, t)
    BY TrimIs
  <2>3. s + (n - 1) = e
    BY <1>1, <2>1
  <2>4. ~(n - 1 \in (t + 1)..(n - 1))
    BY <2>1, <2>2, <2>3 DEF IsTrim
  <2>5. t = n - 1
    BY <2>4
  <2> QED BY <1>1, <2>1, <2>2, <2>5
<1> QED BY <1>2, <1>3

------------------------------------------------------------------------------
(***************************************************************************)
(* The lines up to an offset.                                              *)
(***************************************************************************)
LEMMA ConsumedFinite ==
  ASSUME NEW b, NEW o \in Nat
  PROVE  IsFiniteSet(Consumed(b, o))
<1>1. IsFiniteSet(0..o) /\ IsFiniteSet(1..o)
  BY FS_Interval
<1>2. IsFiniteSet((0..o) \X (1..o))
  BY <1>1, FS_Product
<1>3. Consumed(b, o) \subseteq (0..o) \X (1..o)
  BY DEF Consumed
<1> QED BY <1>2, <1>3, FS_Subset

LEMMA ConsumedIs ==
  ASSUME NEW b, NEW o \in Nat, NEW s, NEW n
  PROVE  <<s, n>> \in Consumed(b, o) <=>
           s \in Nat /\ n \in Nat /\ n >= 1 /\ s + n <= o /\ IsLine(b, s, n)
<1>1. <<s, n>> \in Consumed(b, o) <=>
        s \in 0..o /\ n \in 1..o /\ s + n <= o /\ IsLine(b, s, n)
  BY DEF Consumed
<1>2. s \in Nat /\ n \in Nat /\ n >= 1 /\ s + n <= o => s \in 0..o /\ n \in 1..o
  OBVIOUS
<1>3. s \in 0..o /\ n \in 1..o => s \in Nat /\ n \in Nat /\ n >= 1
  OBVIOUS
<1> QED BY <1>1, <1>2, <1>3

LEMMA ConsumedPairs ==
  ASSUME NEW b, NEW o \in Nat, NEW l \in Consumed(b, o)
  PROVE  /\ l = <<l[1], l[2]>> /\ l[1] \in Nat /\ l[2] \in Nat /\ l[2] >= 1
         /\ l[1] + l[2] <= o /\ IsLine(b, l[1], l[2])
<1>1. l \in (0..o) \X (1..o) /\ l[1] + l[2] <= o /\ IsLine(b, l[1], l[2])
  BY DEF Consumed
<1>2. l = <<l[1], l[2]>> /\ l[1] \in 0..o /\ l[2] \in 1..o
  BY <1>1
<1> QED BY <1>1, <1>2

\* Two sets of lines are the same if they have the same lines.
LEMMA ConsumedSame ==
  ASSUME NEW b, NEW o \in Nat, NEW c, NEW p \in Nat,
         \A s, n \in Nat : n >= 1 =>
           (s + n <= o /\ IsLine(b, s, n) <=> s + n <= p /\ IsLine(c, s, n))
  PROVE  Consumed(b, o) = Consumed(c, p)
<1>1. ASSUME NEW l \in Consumed(b, o) PROVE l \in Consumed(c, p)
  <2>1. /\ l = <<l[1], l[2]>> /\ l[1] \in Nat /\ l[2] \in Nat /\ l[2] >= 1
        /\ l[1] + l[2] <= o /\ IsLine(b, l[1], l[2])
    BY ConsumedPairs
  <2>2. <<l[1], l[2]>> \in Consumed(c, p)
    BY <2>1, ConsumedIs
  <2> QED BY <2>1, <2>2
<1>2. ASSUME NEW l \in Consumed(c, p) PROVE l \in Consumed(b, o)
  <2>1. /\ l = <<l[1], l[2]>> /\ l[1] \in Nat /\ l[2] \in Nat /\ l[2] >= 1
        /\ l[1] + l[2] <= p /\ IsLine(c, l[1], l[2])
    BY ConsumedPairs
  <2>2. <<l[1], l[2]>> \in Consumed(b, o)
    BY <2>1, ConsumedIs
  <2> QED BY <2>1, <2>2
<1> QED BY <1>1, <1>2

\* What is written behind the offset changes none of the lines before it.
LEMMA LinesOfPrefix ==
  ASSUME NEW b, NEW c, NEW o \in Nat, \A m \in 1..o : b[m] = c[m]
  PROVE  /\ Consumed(b, o) = Consumed(c, o)
         /\ \A l \in Consumed(b, o) : Size(b, l) = Size(c, l)
<1>1. ASSUME NEW s \in Nat, NEW n \in Nat, n >= 1, s + n <= o
      PROVE  IsLine(b, s, n) <=> IsLine(c, s, n)
  <2>1. s # 0 => s \in 1..o
    BY <1>1
  <2>2. s + n \in 1..o
    BY <1>1
  <2>3. \A m \in 1..(n - 1) : s + m \in 1..o
    BY <1>1
  <2> QED BY <2>1, <2>2, <2>3 DEF IsLine, BeginsAt
<1>2. Consumed(b, o) = Consumed(c, o)
  BY <1>1, ConsumedSame
<1>3. ASSUME NEW l \in Consumed(b, o) PROVE Size(b, l) = Size(c, l)
  <2>1. l[1] \in Nat /\ l[2] \in Nat /\ l[2] >= 1 /\ l[1] + l[2] <= o
    BY ConsumedPairs
  <2>2. \A m \in 1..(l[1] + l[2]) : m \in 1..o
    BY <2>1
  <2>3. \A m \in 1..(l[1] + l[2]) : b[m] = c[m]
    BY <2>2
  <2> QED BY <2>1, <2>3, TrimOfPrefix DEF Size
<1> QED BY <1>2, <1>3

\* Where a line ends after o, it is the one that o is inside of.
LEMMA EndsBehind ==
  ASSUME NEW b, NEW s \in Nat, NEW o \in Nat, NEW p \in Nat, s <= o, o < p,
         BeginsAt(b, s), NoEnd(b, s, p - 1),
         NEW t \in Nat, NEW n \in Nat, n >= 1, o < t + n, t + n <= p, IsLine(b, t, n)
  PROVE  t = s /\ t + n = p
<1>1. t + n = p
  <2>1. ~(t + n \in (s + 1)..(p - 1))
    BY DEF IsLine, NoEnd
  <2> QED BY <2>1
<1>2. ~(s > t)
  <2> SUFFICES ASSUME s > t PROVE FALSE
    OBVIOUS
  <2>1. b[s] = "n"
    BY DEF BeginsAt
  <2>2. s - t \in 1..(n - 1) /\ t + (s - t) = s
    BY <1>1
  <2> QED BY <2>1, <2>2 DEF IsLine
<1>3. ~(t > s)
  <2> SUFFICES ASSUME t > s PROVE FALSE
    OBVIOUS
  <2>1. b[t] = "n"
    BY DEF IsLine, BeginsAt
  <2>2. t \in (s + 1)..(p - 1)
    BY <1>1
  <2> QED BY <2>1, <2>2 DEF NoEnd
<1> QED BY <1>1, <1>2, <1>3

\* Bytes without a newline add no line.
LEMMA NoLineAdded ==
  ASSUME NEW b, NEW s \in Nat, NEW o \in Nat, NEW p \in Nat, s <= o, o <= p,
         BeginsAt(b, s), NoEnd(b, s, p)
  PROVE  Consumed(b, p) = Consumed(b, o)
<1>1. ASSUME NEW t \in Nat, NEW n \in Nat, n >= 1, t + n <= p, IsLine(b, t, n), ~(t + n <= o)
      PROVE  FALSE
  <2>1. b[t + n] = "n"
    BY <1>1 DEF IsLine
  <2>2. t + n \in (s + 1)..p
    BY <1>1
  <2> QED BY <2>1, <2>2 DEF NoEnd
<1>2. \A t, n \in Nat : t + n <= o => t + n <= p
  OBVIOUS
<1>3. \A t, n \in Nat : n >= 1 =>
        (t + n <= p /\ IsLine(b, t, n) <=> t + n <= o /\ IsLine(b, t, n))
  BY <1>1, <1>2
<1> QED BY <1>3, ConsumedSame

\* A newline adds the line that it ends.
LEMMA LineAdded ==
  ASSUME NEW b, NEW s \in Nat, NEW o \in Nat, NEW p \in Nat, s <= o, o < p,
         BeginsAt(b, s), NoEnd(b, s, p - 1), b[p] = "n"
  PROVE  /\ Consumed(b, p) = Consumed(b, o) \cup {<<s, p - s>>}
         /\ <<s, p - s>> \notin Consumed(b, o)
<1>1. p - s \in Nat /\ p - s >= 1 /\ s + (p - s) = p /\ ~(s + (p - s) <= o)
  OBVIOUS
<1>2. IsLine(b, s, p - s)
  <2>1. \A m \in 1..((p - s) - 1) : s + m \in (s + 1)..(p - 1)
    OBVIOUS
  <2> QED BY <1>1, <2>1 DEF IsLine, NoEnd
<1>3. ASSUME NEW l \in Consumed(b, p) PROVE l \in Consumed(b, o) \cup {<<s, p - s>>}
  <2>1. /\ l = <<l[1], l[2]>> /\ l[1] \in Nat /\ l[2] \in Nat /\ l[2] >= 1
        /\ l[1] + l[2] <= p /\ IsLine(b, l[1], l[2])
    BY ConsumedPairs
  <2>2. CASE l[1] + l[2] <= o
    BY <2>1, <2>2, ConsumedIs
  <2>3. CASE ~(l[1] + l[2] <= o)
    <3>1. o < l[1] + l[2]
      BY <2>1, <2>3
    <3>2. l[1] = s /\ l[1] + l[2] = p
      BY <2>1, <3>1, EndsBehind
    <3>3. l[2] = p - s
      BY <2>1, <3>2
    <3> QED BY <2>1, <3>2, <3>3
  <2> QED BY <2>2, <2>3
<1>4. ASSUME NEW l \in Consumed(b, o) PROVE l \in Consumed(b, p)
  <2>1. /\ l = <<l[1], l[2]>> /\ l[1] \in Nat /\ l[2] \in Nat /\ l[2] >= 1
        /\ l[1] + l[2] <= o /\ IsLine(b, l[1], l[2])
    BY ConsumedPairs
  <2>2. l[1] + l[2] <= p
    BY <2>1
  <2> QED BY <2>1, <2>2, ConsumedIs
<1>5. <<s, p - s>> \in Consumed(b, p) /\ <<s, p - s>> \notin Consumed(b, o)
  BY <1>1, <1>2, ConsumedIs
<1> QED BY <1>3, <1>4, <1>5

------------------------------------------------------------------------------
(***************************************************************************)
(* What was handed on and what was counted.                                *)
(***************************************************************************)
LEMMA KindsFinite ==
  ASSUME NEW b, NEW o \in Nat, NEW h
  PROVE  /\ IsFiniteSet(Long(b, o)) /\ IsFiniteSet(Doubtful(b, o, h))
         /\ Cardinality(Long(b, o)) \in Nat /\ Cardinality(Doubtful(b, o, h)) \in Nat
<1>1. Long(b, o) \subseteq Consumed(b, o) /\ Doubtful(b, o, h) \subseteq Consumed(b, o)
  BY DEF Long, Doubtful, Unsure
<1>2. IsFiniteSet(Long(b, o)) /\ IsFiniteSet(Doubtful(b, o, h))
  BY <1>1, ConsumedFinite, FS_Subset
<1> QED BY <1>2, FS_CardinalityType

LEMMA CertainIs ==
  ASSUME NEW b, NEW o \in Nat
  PROVE  Certain(b, o, FALSE) = Cardinality(Long(b, o))
<1>1. PICK d \in Nat : d = Cardinality(Long(b, o))
  BY KindsFinite
<1>2. d + (IF FALSE THEN 1 ELSE 0) = d
  OBVIOUS
<1> QED BY <1>1, <1>2 DEF Certain

\* The same lines were handed on and counted in the same way.
LEMMA SameLines ==
  ASSUME NEW b, NEW o, NEW c, NEW p, Consumed(b, o) = Consumed(c, p),
         \A l \in Consumed(b, o) : Size(b, l) = Size(c, l), NEW h
  PROVE  /\ HandedOK(b, o, h) => HandedOK(c, p, h)
         /\ Long(b, o) = Long(c, p)
         /\ Doubtful(b, o, h) = Doubtful(c, p, h)
<1>1. \A l \in Consumed(b, o) : As(b, l) = As(c, l)
  BY DEF As
<1>2. Long(b, o) = Long(c, p) /\ Fit(b, o) = Fit(c, p) /\ Unsure(b, o) = Unsure(c, p)
  BY DEF Long, Fit, Unsure
<1>3. Fit(b, o) \subseteq Consumed(b, o) /\ Unsure(b, o) \subseteq Consumed(b, o)
  BY DEF Fit, Unsure
<1>4. Doubtful(b, o, h) = Doubtful(c, p, h)
  BY <1>1, <1>2, <1>3 DEF Doubtful
<1>5. {As(b, l) : l \in Fit(b, o)} = {As(c, l) : l \in Fit(c, p)}
  BY <1>1, <1>2, <1>3
<1>6. ASSUME HandedOK(b, o, h) PROVE HandedOK(c, p, h)
  BY <1>1, <1>2, <1>3, <1>5, <1>6 DEF HandedOK
<1> QED BY <1>2, <1>4, <1>6

\* Everything handed on lies before the line that the reader is in.
LEMMA HandedBefore ==
  ASSUME NEW b, NEW o \in Nat, NEW h, HandedOK(b, o, h), NEW s \in Nat, s <= o, NoEnd(b, s, o),
         NEW x \in Got(h)
  PROVE  x.at < s
<1>1. PICK l \in Fit(b, o) : x = As(b, l)
  BY DEF HandedOK
<1>2. l[1] \in Nat /\ l[2] \in Nat /\ l[2] >= 1 /\ l[1] + l[2] <= o /\ b[l[1] + l[2]] = "n"
  BY ConsumedPairs DEF Fit, IsLine
<1>3. ~(l[1] + l[2] \in (s + 1)..o)
  BY <1>2 DEF NoEnd
<1>4. l[1] < s
  BY <1>2, <1>3
<1> QED BY <1>1, <1>4 DEF As

\* The line l is the one more that was consumed.
OneMore(b, o, p, l) ==
  Consumed(b, p) = Consumed(b, o) \cup {l} /\ l \notin Consumed(b, o)

LEMMA KindsOfOneMore ==
  ASSUME NEW b, NEW o \in Nat, NEW p \in Nat, NEW l, OneMore(b, o, p, l)
  PROVE  /\ Size(b, l) > MaxLine => Long(b, p) = Long(b, o) \cup {l}
         /\ ~(Size(b, l) > MaxLine) => Long(b, p) = Long(b, o)
         /\ l \notin Long(b, o)
         /\ Fit(b, o) \subseteq Fit(b, p) /\ Fit(b, p) \subseteq Fit(b, o) \cup {l}
         /\ l \in Fit(b, p) <=> Size(b, l) \in 1..MaxLine
         /\ Unsure(b, p) = Unsure(b, o) \cup (Unsure(b, p) \cap {l})
         /\ l \in Unsure(b, p) <=> Size(b, l) <= MaxLine /\ l[2] - 1 > MaxLine + 1
BY DEF OneMore, Long, Fit, Unsure

\* It is left out: it does not fit, or only seems not to.
LEMMA LineLeftOut ==
  ASSUME NEW b, NEW o \in Nat, NEW p \in Nat, NEW l, OneMore(b, o, p, l),
         NEW h, HandedOK(b, o, h), \A x \in Got(h) : x.at < l[1],
         l \notin Fit(b, p) \/ l \in Unsure(b, p)
  PROVE  /\ HandedOK(b, p, h)
         /\ Doubtful(b, o, h) \subseteq Doubtful(b, p, h)
         /\ l \in Unsure(b, p) => l \in Doubtful(b, p, h) \ Doubtful(b, o, h)
<1>1. As(b, l).at = l[1]
  BY DEF As
<1>2. ASSUME As(b, l) \in Got(h) PROVE FALSE
  <2>1. PICK x \in Got(h) : x = As(b, l)
    BY <1>2
  <2>2. PICK q \in DOMAIN h : x = h[q]
    BY <2>1 DEF Got
  <2>3. x \in Handed
    BY <2>2, LenProperties DEF HandedOK
  <2>4. x.at < l[1] /\ x.at = l[1] /\ x.at \in Nat
    BY <1>1, <2>1, <2>3 DEF Handed
  <2> QED BY <2>4
<1>3. HandedOK(b, p, h)
  BY KindsOfOneMore DEF HandedOK
<1>4. Doubtful(b, o, h) \subseteq Doubtful(b, p, h)
  BY KindsOfOneMore DEF Doubtful
<1>5. l \notin Doubtful(b, o, h)
  BY DEF OneMore, Doubtful, Unsure
<1>6. l \in Unsure(b, p) => l \in Doubtful(b, p, h)
  BY <1>2 DEF Doubtful
<1> QED BY <1>3, <1>4, <1>5, <1>6

\* It is handed on.
LEMMA LineHandedOn ==
  ASSUME NEW b, NEW o \in Nat, NEW p \in Nat, NEW l, OneMore(b, o, p, l),
         NEW h, HandedOK(b, o, h), \A x \in Got(h) : x.at < l[1],
         \A m \in Consumed(b, o) : m[1] # l[1],
         l[1] \in Nat, Size(b, l) \in Nat, Size(b, l) \in 1..MaxLine,
         NEW g, g = Append(h, As(b, l))
  PROVE  HandedOK(b, p, g) /\ Doubtful(b, o, h) \subseteq Doubtful(b, p, g)
<1>1. As(b, l) \in Handed /\ As(b, l).at = l[1]
  BY DEF As, Handed
<1>2. h \in Seq(Handed)
  BY DEF HandedOK
<1>3. /\ g \in Seq(Handed) /\ Len(g) = Len(h) + 1 /\ Len(h) \in Nat
      /\ DOMAIN g = 1..Len(g) /\ DOMAIN h = 1..Len(h)
      /\ \A n \in 1..Len(h) : g[n] = h[n]
      /\ g[Len(h) + 1] = As(b, l)
  BY <1>1, <1>2, AppendProperties, LenProperties
<1>4. Got(g) = Got(h) \cup {As(b, l)}
  <2>1. ASSUME NEW n \in DOMAIN g PROVE g[n] \in Got(h) \cup {As(b, l)}
    <3>1. n \in DOMAIN h \/ n = Len(h) + 1
      BY <1>3
    <3> QED BY <1>3, <3>1 DEF Got
  <2>2. ASSUME NEW n \in DOMAIN h PROVE n \in DOMAIN g /\ g[n] = h[n]
    BY <1>3
  <2>3. Len(h) + 1 \in DOMAIN g
    BY <1>3
  <2> QED BY <1>3, <2>1, <2>2, <2>3 DEF Got
<1>5. ASSUME NEW q \in DOMAIN g, NEW z \in DOMAIN g, q < z PROVE g[q].at < g[z].at
  <2>1. q \in DOMAIN h
    BY <1>3, <1>5
  <2>2. CASE z \in DOMAIN h
    BY <1>3, <1>5, <2>1, <2>2 DEF HandedOK
  <2>3. CASE z \notin DOMAIN h
    <3>1. z = Len(h) + 1
      BY <1>3, <2>3
    <3>2. h[q] \in Got(h) /\ g[q] = h[q]
      BY <1>3, <2>1 DEF Got
    <3> QED BY <1>1, <1>3, <3>1, <3>2
  <2> QED BY <2>2, <2>3
<1>6. l \in Fit(b, p)
  BY KindsOfOneMore
<1>7. HandedOK(b, p, g)
  <2>1. Got(g) \subseteq {As(b, m) : m \in Fit(b, p)}
    BY <1>4, <1>6, KindsOfOneMore DEF HandedOK
  <2>2. ASSUME NEW m \in Fit(b, p) \ Unsure(b, p) PROVE As(b, m) \in Got(g)
    BY <1>4, KindsOfOneMore DEF HandedOK
  <2> QED BY <1>3, <1>5, <2>1, <2>2 DEF HandedOK
<1>8. ASSUME NEW m \in Doubtful(b, o, h) PROVE m \in Doubtful(b, p, g)
  <2>1. m \in Unsure(b, p) /\ m \in Consumed(b, o) /\ As(b, m) \notin Got(h)
    BY KindsOfOneMore DEF Doubtful, Unsure
  <2>2. As(b, m).at # As(b, l).at
    BY <2>1 DEF As
  <2> QED BY <1>4, <2>1, <2>2 DEF Doubtful
<1> QED BY <1>7, <1>8

\* The count stays between its bounds when doubtful lines are added, ...
LEMMA CountStays ==
  ASSUME NEW b, NEW o \in Nat, NEW h, NEW p \in Nat, NEW g, NEW u \in Nat, NEW c,
         CountOK(b, o, h, u, c), Doubtful(b, o, h) \subseteq Doubtful(b, p, g)
  PROVE  CountOK(b, p, g, u, c) /\ CountOK(b, p, g, u + 1, c + 1)
<1>1. PICK d \in Nat : d = Cardinality(Doubtful(b, o, h))
  BY KindsFinite
<1>2. PICK e \in Nat : e = Cardinality(Doubtful(b, p, g))
  BY KindsFinite
<1>3. d <= e
  BY <1>1, <1>2, KindsFinite, FS_Subset
<1>4. c \in Nat /\ u <= c /\ c <= u + d
  BY <1>1 DEF CountOK
<1>5. c \in Nat /\ u <= c /\ c <= u + e /\ c + 1 \in Nat /\ u + 1 <= c + 1 /\ c + 1 <= (u + 1) + e
  BY <1>3, <1>4
<1> QED BY <1>2, <1>5 DEF CountOK

\* ... and when a line that was counted turns out to be doubtful.
LEMMA CountDoubtful ==
  ASSUME NEW b, NEW o \in Nat, NEW h, NEW p \in Nat, NEW g, NEW u \in Nat, NEW c,
         CountOK(b, o, h, u + 1, c), Doubtful(b, o, h) \subseteq Doubtful(b, p, g),
         NEW l \in Doubtful(b, p, g) \ Doubtful(b, o, h)
  PROVE  CountOK(b, p, g, u, c)
<1>1. PICK d \in Nat : d = Cardinality(Doubtful(b, o, h))
  BY KindsFinite
<1>2. PICK e \in Nat : e = Cardinality(Doubtful(b, p, g))
  BY KindsFinite
<1>3. Doubtful(b, o, h) \cup {l} \subseteq Doubtful(b, p, g)
  OBVIOUS
<1>4. Cardinality(Doubtful(b, o, h) \cup {l}) = d + 1
  BY <1>1, KindsFinite, FS_AddElement
<1>5. d + 1 <= e
  BY <1>2, <1>3, <1>4, KindsFinite, FS_Subset
<1>6. c \in Nat /\ u + 1 <= c /\ c <= (u + 1) + d
  BY <1>1 DEF CountOK
<1>7. c \in Nat /\ u <= c /\ c <= u + e
  BY <1>5, <1>6
<1> QED BY <1>2, <1>7 DEF CountOK

------------------------------------------------------------------------------
(***************************************************************************)
(* The steps.                                                              *)
(***************************************************************************)
LEMMA NothingRead ==
  ASSUME FramingAssumption
  PROVE  /\ CutOK(<<>>, 0, FALSE, 0)
         /\ HandedOK(<<>>, 0, <<>>)
         /\ CountOK(<<>>, 0, <<>>, Certain(<<>>, 0, FALSE), 0)
<1>1. Consumed(<<>>, 0) = {}
  BY DEF Consumed
<1>2. Long(<<>>, 0) = {} /\ Fit(<<>>, 0) = {}
  BY <1>1 DEF Long, Fit
<1>3. <<>> \in Seq(Byte) /\ <<>> \in Seq(Handed) /\ Len(<<>>) = 0
  OBVIOUS
<1>4. CutOK(<<>>, 0, FALSE, 0)
  BY <1>3 DEF CutOK, BeginsAt, NoEnd, FramingAssumption
<1>5. HandedOK(<<>>, 0, <<>>)
  BY <1>2, <1>3 DEF HandedOK, Got
<1>6. Certain(<<>>, 0, FALSE) = 0
  BY <1>2, FS_EmptySet DEF Certain
<1>7. CountOK(<<>>, 0, <<>>, 0, 0)
  <2>1. PICK d \in Nat : d = Cardinality(Doubtful(<<>>, 0, <<>>))
    BY KindsFinite
  <2> QED BY <2>1 DEF CountOK
<1> QED BY <1>4, <1>5, <1>6, <1>7

\* What was known of the reader's place holds of a file with more bytes.
LEMMA CutOfPrefix ==
  ASSUME FramingAssumption, NEW b, NEW o, NEW sk, NEW h, CutOK(b, o, sk, h),
         NEW c \in Seq(Byte), Len(b) <= Len(c), \A m \in 1..Len(b) : c[m] = b[m]
  PROVE  CutOK(c, o, sk, h)
<1>1. /\ b \in Seq(Byte) /\ o \in Nat /\ h \in Nat /\ o + h <= Len(b) /\ sk \in BOOLEAN
      /\ h <= MaxLine + 1 /\ Len(b) \in Nat /\ Len(c) \in Nat
  BY LenProperties DEF CutOK
<1>2. \A m \in Nat : m = 0 \/ m > o + h \/ c[m] = b[m]
  <2> SUFFICES ASSUME NEW m \in Nat, m # 0, ~(m > o + h) PROVE c[m] = b[m]
    OBVIOUS
  <2>1. m \in 1..Len(b)
    BY <1>1
  <2> QED BY <2>1
<1>3. ASSUME ~sk PROVE BeginsAt(c, o) /\ NoEnd(c, o, o + h)
  <2>1. BeginsAt(b, o) /\ NoEnd(b, o, o + h)
    BY <1>3 DEF CutOK
  <2>2. o = 0 \/ c[o] = b[o]
    BY <1>1, <1>2
  <2>3. \A m \in (o + 1)..(o + h) : c[m] = b[m]
    BY <1>1, <1>2
  <2> QED BY <2>1, <2>2, <2>3 DEF BeginsAt, NoEnd
<1>4. ASSUME sk
      PROVE  h = 0 /\ \E s \in Nat : s < o /\ BeginsAt(c, s) /\ NoEnd(c, s, o) /\ Over(c, s, o)
  <2>1. h = 0
    BY <1>4 DEF CutOK
  <2>2. PICK s \in Nat : s < o /\ BeginsAt(b, s) /\ NoEnd(b, s, o) /\ Over(b, s, o)
    BY <1>4 DEF CutOK
  <2>3. (s = 0 \/ c[s] = b[s]) /\ c[o] = b[o]
    BY <1>1, <1>2, <2>2
  <2>4. ASSUME NEW m \in (s + 1)..o PROVE c[m] = b[m]
    <3>1. m \in Nat /\ m # 0 /\ ~(m > o + h)
      BY <1>1
    <3> QED BY <1>2, <3>1
  <2>5. BeginsAt(c, s) /\ NoEnd(c, s, o) /\ Over(c, s, o)
    BY <2>2, <2>3, <2>4 DEF BeginsAt, NoEnd, Over
  <2> QED BY <2>1, <2>2, <2>5
<1> QED BY <1>1, <1>3, <1>4 DEF CutOK

LEMMA WriteKeeps ==
  ASSUME FramingAssumption, FramingInv, Write
  PROVE  FramingInv'
<1>1. PICK x \in Byte : bytes' = Append(bytes, x)
  BY DEF Write
<1>2. bytes \in Seq(Byte) /\ offset \in Nat /\ held \in Nat /\ offset + held <= Len(bytes)
  BY DEF FramingInv, CutOK
<1>3. /\ bytes' \in Seq(Byte) /\ Len(bytes') = Len(bytes) + 1 /\ Len(bytes) \in Nat
      /\ \A m \in 1..Len(bytes) : bytes'[m] = bytes[m]
  BY <1>1, <1>2, AppendProperties, LenProperties
<1>4. PICK c : c = bytes'
  OBVIOUS
<1>5. UNCHANGED <<offset, skipping, reading, held, handled, skipped>>
  BY DEF Write
<1>6. CutOK(c, offset, skipping, held)
  BY <1>3, <1>4, CutOfPrefix DEF FramingInv
<1>7. \A m \in 1..offset : bytes[m] = c[m]
  BY <1>2, <1>3, <1>4
<1>8. /\ Consumed(bytes, offset) = Consumed(c, offset)
      /\ \A l \in Consumed(bytes, offset) : Size(bytes, l) = Size(c, l)
  BY <1>2, <1>7, LinesOfPrefix
<1>9. /\ HandedOK(c, offset, handled) /\ Long(bytes, offset) = Long(c, offset)
      /\ Doubtful(bytes, offset, handled) = Doubtful(c, offset, handled)
  BY <1>8, SameLines DEF FramingInv
<1>10. CountOK(c, offset, handled, Certain(c, offset, skipping), skipped)
  BY <1>9 DEF FramingInv, CountOK, Certain
<1> QED BY <1>4, <1>5, <1>6, <1>9, <1>10 DEF FramingInv

\* The fragments of n bytes that ReadSlice may return.
LEMMA Fragments ==
  ASSUME FramingInv, NEW n \in Nat, Complete(n) \/ BufferFull(n) \/ EndOfFile(n)
  PROVE  /\ (offset + held) + n <= Len(bytes)
         /\ Complete(n) => /\ n >= 1 /\ bytes[(offset + held) + n] = "n"
                           /\ NoEnd(bytes, offset + held, ((offset + held) + n) - 1)
         /\ ~Complete(n) => NoEnd(bytes, offset + held, (offset + held) + n)
<1>1. offset \in Nat /\ held \in Nat /\ offset + held <= Len(bytes) /\ Len(bytes) \in Nat
  BY LenProperties DEF FramingInv, CutOK
<1>2. PICK p \in Nat : p = offset + held
  BY <1>1
<1>3. Unread = Len(bytes) - p
  BY <1>1, <1>2 DEF Unread
<1>4. CASE Complete(n)
  <2>1. /\ n \in 1..Unread /\ bytes[p + n] = "n"
        /\ \A m \in 1..(n - 1) : bytes[p + m] # "n"
    BY <1>2, <1>4 DEF Complete, NewlineAt
  <2>2. ASSUME NEW m \in (p + 1)..((p + n) - 1) PROVE bytes[m] # "n"
    <3>1. m - p \in 1..(n - 1) /\ p + (m - p) = m
      OBVIOUS
    <3> QED BY <2>1, <3>1
  <2>3. n >= 1 /\ p + n <= Len(bytes)
    BY <1>1, <1>2, <1>3, <2>1
  <2> QED BY <1>2, <1>4, <2>1, <2>2, <2>3 DEF NoEnd
<1>5. CASE ~Complete(n)
  <2>1. n <= Unread /\ \A m \in 1..n : bytes[p + m] # "n"
    BY <1>2, <1>5 DEF BufferFull, EndOfFile, NoNewlineIn
  <2>2. ASSUME NEW m \in (p + 1)..(p + n) PROVE bytes[m] # "n"
    <3>1. m - p \in 1..n /\ p + (m - p) = m
      OBVIOUS
    <3> QED BY <2>1, <3>1
  <2>3. p + n <= Len(bytes)
    BY <1>1, <1>2, <1>3, <2>1
  <2> QED BY <1>2, <1>5, <2>2, <2>3 DEF NoEnd
<1> QED BY <1>4, <1>5

\* Two stretches without a newline are one.
LEMMA NoEndJoins ==
  ASSUME NEW b, NEW s \in Nat, NEW e \in Nat, NEW f \in Int, NoEnd(b, s, e), NoEnd(b, e, f)
  PROVE  NoEnd(b, s, f)
<1>1. ASSUME NEW m \in (s + 1)..f PROVE b[m] # "n"
  <2>1. m \in (s + 1)..e \/ m \in (e + 1)..f
    OBVIOUS
  <2> QED BY <2>1 DEF NoEnd
<1> QED BY <1>1 DEF NoEnd

\* Between two newlines nothing new is counted or handed on.
LEMMA NothingNew ==
  ASSUME NEW b, NEW s \in Nat, NEW o \in Nat, NEW p \in Nat, s <= o, o <= p,
         BeginsAt(b, s), NoEnd(b, s, p), NEW h, HandedOK(b, o, h)
  PROVE  HandedOK(b, p, h) /\ Long(b, p) = Long(b, o) /\ Doubtful(b, p, h) = Doubtful(b, o, h)
<1>1. Consumed(b, p) = Consumed(b, o)
  BY NoLineAdded
<1> QED BY <1>1, SameLines

LEMMA HoldKeeps ==
  ASSUME FramingAssumption, FramingInv, NEW n \in Nat, BufferFull(n) \/ EndOfFile(n),
         ~skipping, ~Complete(n), ~OverLimit(held + n), Hold(n), bytes' = bytes
  PROVE  FramingInv'
<1>1. /\ (offset + held) + n <= Len(bytes) /\ NoEnd(bytes, offset + held, (offset + held) + n)
  BY Fragments
<1>2. /\ bytes \in Seq(Byte) /\ offset \in Nat /\ held \in Nat /\ offset + held <= Len(bytes)
      /\ BeginsAt(bytes, offset) /\ NoEnd(bytes, offset, offset + held) /\ MaxLine \in Nat
  BY DEF FramingInv, CutOK, FramingAssumption
<1>3. held + n <= MaxLine + 1
  BY <1>2 DEF OverLimit
<1>4. (offset + held) + n = offset + (held + n)
  BY <1>2
<1>5. NoEnd(bytes, offset, offset + (held + n))
  BY <1>1, <1>2, <1>4, NoEndJoins
<1>6. /\ held' = IF BufferFull(n) THEN held + n ELSE 0
      /\ reading' = BufferFull(n)
      /\ UNCHANGED <<bytes, offset, skipping, handled, skipped>>
  BY DEF Hold
<1>7. PICK h \in Nat : h = IF BufferFull(n) THEN held + n ELSE 0
  BY <1>2
<1>8. h <= MaxLine + 1 /\ offset + h <= Len(bytes) /\ NoEnd(bytes, offset, offset + h)
  BY <1>1, <1>2, <1>3, <1>4, <1>5, <1>7 DEF NoEnd
<1>9. CutOK(bytes, offset, skipping, h)
  <2>1. skipping = FALSE
    BY DEF FramingInv, CutOK
  <2>2. CutOK(bytes, offset, FALSE, h)
    BY <1>2, <1>8 DEF CutOK
  <2> QED BY <2>1, <2>2
<1>10. ~reading' => h = 0
  BY <1>6, <1>7
<1> QED BY <1>6, <1>7, <1>9, <1>10 DEF FramingInv

LEMMA GiveUpKeeps ==
  ASSUME FramingAssumption, FramingInv, NEW n \in Nat, BufferFull(n) \/ EndOfFile(n),
         ~skipping, ~Complete(n), OverLimit(held + n), GiveUp(n), bytes' = bytes
  PROVE  FramingInv'
<1>1. /\ (offset + held) + n <= Len(bytes) /\ NoEnd(bytes, offset + held, (offset + held) + n)
  BY Fragments
<1>2. /\ bytes \in Seq(Byte) /\ offset \in Nat /\ held \in Nat /\ offset + held <= Len(bytes)
      /\ BeginsAt(bytes, offset) /\ NoEnd(bytes, offset, offset + held) /\ MaxLine \in Nat
  BY DEF FramingInv, CutOK, FramingAssumption
<1>3. PICK p \in Nat : p = (offset + held) + n
  BY <1>2
<1>4. NoEnd(bytes, offset, p) /\ p <= Len(bytes)
  BY <1>1, <1>2, <1>3, NoEndJoins
<1>5. offset < p /\ Over(bytes, offset, p)
  <2>1. p = offset + (held + n) /\ p - offset = held + n
    BY <1>2, <1>3
  <2>2. p - offset > MaxLine + 1 \/ (p - offset = MaxLine + 1 /\ bytes[p] # "r")
    BY <2>1 DEF OverLimit
  <2> QED BY <1>2, <1>3, <2>2 DEF Over
<1>6. /\ bytes' = bytes /\ offset' = p /\ skipping' = TRUE /\ held' = 0
      /\ handled' = handled /\ skipped' = skipped + 1
  BY <1>3 DEF GiveUp
<1>7. CutOK(bytes, p, TRUE, 0)
  BY <1>2, <1>4, <1>5 DEF CutOK
<1>8. /\ HandedOK(bytes, p, handled) /\ Long(bytes, p) = Long(bytes, offset)
      /\ Doubtful(bytes, p, handled) = Doubtful(bytes, offset, handled)
  <2>1. offset <= offset /\ offset <= p
    BY <1>2, <1>5
  <2> QED BY <1>2, <1>4, <2>1, NothingNew DEF FramingInv
<1>9. PICK u \in Nat : u = Cardinality(Long(bytes, offset))
  BY <1>2, KindsFinite
<1>10. CountOK(bytes, offset, handled, u, skipped)
  BY <1>9 DEF FramingInv, Certain, CountOK
<1>11. CountOK(bytes, p, handled, u + 1, skipped + 1)
  BY <1>2, <1>8, <1>10, CountStays
<1>12. Certain(bytes, p, TRUE) = u + 1
  BY <1>8, <1>9 DEF Certain
<1> QED BY <1>6, <1>7, <1>8, <1>11, <1>12 DEF FramingInv

\* The bytes of a line that is given up go, up to its newline.
LEMMA SkipKeeps ==
  ASSUME FramingAssumption, FramingInv, NEW n \in Nat,
         Complete(n) \/ BufferFull(n) \/ EndOfFile(n), skipping, Skip(n), bytes' = bytes
  PROVE  FramingInv'
<1>1. /\ bytes \in Seq(Byte) /\ offset \in Nat /\ held = 0 /\ MaxLine \in Nat /\ Len(bytes) \in Nat
      /\ skipping = TRUE
  BY LenProperties DEF FramingInv, CutOK, FramingAssumption
<1>2. PICK s \in Nat : /\ s < offset /\ BeginsAt(bytes, s) /\ NoEnd(bytes, s, offset)
                       /\ Over(bytes, s, offset)
  BY DEF FramingInv, CutOK
<1>3. PICK p \in Nat : p = offset + n
  BY <1>1
<1>4. /\ p <= Len(bytes)
      /\ Complete(n) => offset < p /\ bytes[p] = "n" /\ NoEnd(bytes, offset, p - 1)
      /\ ~Complete(n) => NoEnd(bytes, offset, p)
  <2>1. offset + held = offset /\ (offset + held) + n = p
    BY <1>1, <1>3
  <2>2. n >= 1 => offset < p
    BY <1>1, <1>3
  <2> QED BY <2>1, <2>2, Fragments
<1>5. /\ bytes' = bytes /\ offset' = p /\ skipping' = ~Complete(n) /\ held' = 0
      /\ handled' = handled /\ skipped' = skipped
  BY <1>1, <1>3 DEF Skip
<1>6. PICK u \in Nat : u = Cardinality(Long(bytes, offset))
  BY <1>1, KindsFinite
<1>7. HandedOK(bytes, offset, handled) /\ CountOK(bytes, offset, handled, u + 1, skipped)
  BY <1>1, <1>6 DEF FramingInv, Certain
<1>8. CASE ~Complete(n)
  <2>1. NoEnd(bytes, s, p)
    BY <1>1, <1>2, <1>4, <1>8, NoEndJoins
  <2>2. offset <= p
    BY <1>1, <1>3
  <2>3. /\ HandedOK(bytes, p, handled) /\ Long(bytes, p) = Long(bytes, offset)
        /\ Doubtful(bytes, p, handled) = Doubtful(bytes, offset, handled)
    <3>1. s <= offset
      BY <1>1, <1>2
    <3> QED BY <1>1, <1>2, <1>7, <2>1, <2>2, <3>1, NothingNew
  <2>4. Over(bytes, s, p) /\ s < p
    <3>1. p = offset \/ p > offset
      BY <1>1, <2>2
    <3> QED BY <1>1, <1>2, <3>1 DEF Over
  <2>5. CutOK(bytes, p, TRUE, 0)
    BY <1>1, <1>2, <1>4, <2>1, <2>4 DEF CutOK
  <2>6. CountOK(bytes, p, handled, u + 1, skipped)
    BY <1>7, <2>3 DEF CountOK
  <2>7. Certain(bytes, p, TRUE) = u + 1
    BY <1>6, <2>3 DEF Certain
  <2>8. skipping' = TRUE
    BY <1>5, <1>8
  <2> QED BY <1>5, <2>3, <2>5, <2>6, <2>7, <2>8 DEF FramingInv
<1>9. CASE Complete(n)
  <2>1. PICK l : l = <<s, p - s>>
    OBVIOUS
  <2>2. /\ l[1] = s /\ l[2] = p - s /\ s <= offset /\ offset < p
        /\ p - s \in Nat /\ p - s >= 1 /\ offset < s + (p - s) /\ offset \in Nat
    BY <1>1, <1>2, <1>4, <1>9, <2>1
  <2>3. OneMore(bytes, offset, p, l)
    <3>1. NoEnd(bytes, s, p - 1)
      BY <1>1, <1>2, <1>4, <1>9, NoEndJoins
    <3> QED BY <1>1, <1>2, <1>4, <1>9, <2>1, <2>2, <3>1, LineAdded DEF OneMore
  <2>4. \A x \in Got(handled) : x.at < l[1]
    BY <1>1, <1>2, <1>7, <2>2, HandedBefore
  <2>5. Size(bytes, l) \in Nat
    <3>1. Trim(bytes, s, p - s) \in 0..((p - s) - 1)
      BY <2>2, TrimIs
    <3> QED BY <2>2, <3>1 DEF Size
  <2>6. Size(bytes, l) > MaxLine \/ (Size(bytes, l) <= MaxLine /\ l[2] - 1 > MaxLine + 1)
    <3>1. Trim(bytes, s, p - s) > MaxLine \/ (p - s) - 1 > MaxLine + 1
      BY <1>2, <2>2, GivenUp
    <3>2. Size(bytes, l) > MaxLine \/ l[2] - 1 > MaxLine + 1
      BY <2>2, <3>1 DEF Size
    <3> QED BY <1>1, <2>5, <3>2
  <2>7. ~(Size(bytes, l) \in 1..MaxLine) \/ l \in Unsure(bytes, p)
    <3>1. CASE Size(bytes, l) > MaxLine
      BY <1>1, <2>5, <3>1
    <3>2. CASE Size(bytes, l) <= MaxLine /\ l[2] - 1 > MaxLine + 1
      BY <1>1, <2>3, <3>2, KindsOfOneMore
    <3> QED BY <2>6, <3>1, <3>2
  <2>8. /\ HandedOK(bytes, p, handled)
        /\ Doubtful(bytes, offset, handled) \subseteq Doubtful(bytes, p, handled)
        /\ l \in Unsure(bytes, p) => l \in Doubtful(bytes, p, handled) \ Doubtful(bytes, offset, handled)
    <3>1. l \notin Fit(bytes, p) \/ l \in Unsure(bytes, p)
      BY <1>1, <2>3, <2>7, KindsOfOneMore
    <3> QED BY <1>1, <1>7, <2>3, <2>4, <3>1, LineLeftOut
  <2>9. CountOK(bytes, p, handled, Cardinality(Long(bytes, p)), skipped)
    <3>1. CASE Size(bytes, l) > MaxLine
      <4>1. Long(bytes, p) = Long(bytes, offset) \cup {l} /\ l \notin Long(bytes, offset)
        BY <1>1, <2>3, <3>1, KindsOfOneMore
      <4>2. Cardinality(Long(bytes, p)) = u + 1
        BY <1>1, <1>6, <4>1, KindsFinite, FS_AddElement
      <4>3. PICK w \in Nat : w = u + 1
        OBVIOUS
      <4>4. CountOK(bytes, p, handled, w, skipped)
        BY <1>1, <1>7, <2>8, <4>3, CountStays
      <4> QED BY <4>2, <4>3, <4>4
    <3>2. CASE ~(Size(bytes, l) > MaxLine)
      <4>1. Long(bytes, p) = Long(bytes, offset) /\ l \in Unsure(bytes, p)
        BY <1>1, <2>3, <2>6, <3>2, KindsOfOneMore
      <4>2. CountOK(bytes, p, handled, u, skipped)
        BY <1>1, <1>7, <2>8, <4>1, CountDoubtful
      <4> QED BY <1>6, <4>1, <4>2
    <3> QED BY <3>1, <3>2
  <2>10. Certain(bytes, p, FALSE) = Cardinality(Long(bytes, p))
    BY CertainIs
  <2>11. CutOK(bytes, p, FALSE, 0)
    <3>1. BeginsAt(bytes, p) /\ NoEnd(bytes, p, p + 0)
      BY <1>4, <1>9 DEF BeginsAt, NoEnd
    <3> QED BY <1>1, <1>4, <3>1 DEF CutOK
  <2>12. skipping' = FALSE
    BY <1>5, <1>9
  <2> QED BY <1>5, <2>8, <2>9, <2>10, <2>11, <2>12 DEF FramingInv
<1> QED BY <1>8, <1>9

\* A complete line is handed on, counted, or blank.
LEMMA LineKeeps ==
  ASSUME FramingAssumption, FramingInv, NEW n \in Nat, Complete(n), ~skipping, Line(n),
         bytes' = bytes
  PROVE  FramingInv'
<1>1. /\ bytes \in Seq(Byte) /\ offset \in Nat /\ held \in Nat /\ MaxLine \in Nat
      /\ Len(bytes) \in Nat /\ skipping = FALSE
      /\ BeginsAt(bytes, offset) /\ NoEnd(bytes, offset, offset + held)
  BY LenProperties DEF FramingInv, CutOK, FramingAssumption
<1>2. PICK p \in Nat : p = (offset + held) + n
  BY <1>1
<1>3. /\ p <= Len(bytes) /\ n >= 1 /\ bytes[p] = "n"
      /\ NoEnd(bytes, offset + held, p - 1)
  BY <1>2, Fragments
<1>4. NoEnd(bytes, offset, p - 1) /\ offset < p /\ p - offset = held + n
      /\ NoEnd(bytes, offset, offset)
  <2>1. offset + held \in Nat /\ p - 1 \in Int
    BY <1>1
  <2>2. NoEnd(bytes, offset, p - 1)
    BY <1>1, <1>3, <2>1, NoEndJoins
  <2>3. NoEnd(bytes, offset, offset)
    BY <1>1 DEF NoEnd
  <2> QED BY <1>1, <1>2, <1>3, <2>2, <2>3
<1>5. PICK l : l = <<offset, p - offset>>
  OBVIOUS
<1>6. /\ l[1] = offset /\ l[2] = p - offset
      /\ Size(bytes, l) = Trimmed(offset, held + n)
  BY <1>4, <1>5 DEF Size, Trim, IsTrim, Trimmed
<1>7. Size(bytes, l) \in Nat
  <2>1. Trim(bytes, offset, held + n) \in 0..((held + n) - 1)
    BY <1>1, <1>3, TrimIs
  <2> QED BY <1>1, <1>4, <1>6, <2>1 DEF Size
<1>8. OneMore(bytes, offset, p, l)
  <2>1. offset <= offset
    BY <1>1
  <2> QED BY <1>1, <1>3, <1>4, <1>5, <2>1, LineAdded DEF OneMore
<1>9. PICK u \in Nat : u = Cardinality(Long(bytes, offset))
  BY <1>1, KindsFinite
<1>10. HandedOK(bytes, offset, handled) /\ CountOK(bytes, offset, handled, u, skipped)
  <2>1. Certain(bytes, offset, FALSE) = u
    BY <1>9 DEF Certain
  <2> QED BY <1>1, <2>1 DEF FramingInv
<1>11. \A x \in Got(handled) : x.at < l[1]
  <2>1. offset <= offset
    BY <1>1
  <2> QED BY <1>1, <1>4, <1>6, <1>10, <2>1, HandedBefore
<1>12. CutOK(bytes, p, FALSE, 0)
  <2>1. BeginsAt(bytes, p) /\ NoEnd(bytes, p, p + 0)
    BY <1>3 DEF BeginsAt, NoEnd
  <2> QED BY <1>1, <1>3, <2>1 DEF CutOK
<1>13. Certain(bytes, p, FALSE) = Cardinality(Long(bytes, p))
  BY CertainIs
<1>14. /\ bytes' = bytes /\ offset' = p /\ skipping' = FALSE /\ held' = 0
       /\ handled' = IF Size(bytes, l) \in 1..MaxLine THEN Append(handled, As(bytes, l)) ELSE handled
       /\ skipped' = IF Size(bytes, l) > MaxLine THEN skipped + 1 ELSE skipped
  BY <1>1, <1>2, <1>6 DEF Line, As
<1>15. CASE Size(bytes, l) > MaxLine
  <2>1. ~(Size(bytes, l) \in 1..MaxLine)
    BY <1>1, <1>7, <1>15
  <2>2. l \notin Fit(bytes, p)
    BY <1>1, <1>8, <2>1, KindsOfOneMore
  <2>3. /\ HandedOK(bytes, p, handled)
        /\ Doubtful(bytes, offset, handled) \subseteq Doubtful(bytes, p, handled)
    BY <1>1, <1>8, <1>10, <1>11, <2>2, LineLeftOut
  <2>4. Long(bytes, p) = Long(bytes, offset) \cup {l} /\ l \notin Long(bytes, offset)
    BY <1>1, <1>8, <1>15, KindsOfOneMore
  <2>5. Cardinality(Long(bytes, p)) = u + 1
    BY <1>1, <1>9, <2>4, KindsFinite, FS_AddElement
  <2>6. CountOK(bytes, p, handled, u + 1, skipped + 1)
    BY <1>1, <1>10, <2>3, CountStays
  <2>7. handled' = handled /\ skipped' = skipped + 1
    BY <1>14, <1>15, <2>1
  <2> QED BY <1>12, <1>13, <1>14, <2>3, <2>5, <2>6, <2>7 DEF FramingInv
<1>16. CASE Size(bytes, l) \in 1..MaxLine
  <2>1. ~(Size(bytes, l) > MaxLine)
    BY <1>1, <1>7, <1>16
  <2>2. PICK g : g = Append(handled, As(bytes, l))
    OBVIOUS
  <2>3. \A m \in Consumed(bytes, offset) : m[1] # l[1]
    <3> SUFFICES ASSUME NEW m \in Consumed(bytes, offset) PROVE m[1] # offset
      BY <1>6
    <3>1. m[1] \in Nat /\ m[2] \in Nat /\ m[2] >= 1 /\ m[1] + m[2] <= offset
      BY <1>1, ConsumedPairs
    <3> QED BY <1>1, <3>1
  <2>4. HandedOK(bytes, p, g) /\ Doubtful(bytes, offset, handled) \subseteq Doubtful(bytes, p, g)
    BY <1>1, <1>6, <1>7, <1>8, <1>10, <1>11, <1>16, <2>2, <2>3, LineHandedOn
  <2>5. Long(bytes, p) = Long(bytes, offset)
    BY <1>1, <1>8, <2>1, KindsOfOneMore
  <2>6. CountOK(bytes, p, g, u, skipped)
    BY <1>1, <1>10, <2>4, CountStays
  <2>7. handled' = g /\ skipped' = skipped
    BY <1>14, <1>16, <2>1, <2>2
  <2> QED BY <1>9, <1>12, <1>13, <1>14, <2>4, <2>5, <2>6, <2>7 DEF FramingInv
<1>17. CASE ~(Size(bytes, l) > MaxLine) /\ ~(Size(bytes, l) \in 1..MaxLine)
  <2>1. l \notin Fit(bytes, p)
    BY <1>1, <1>8, <1>17, KindsOfOneMore
  <2>2. /\ HandedOK(bytes, p, handled)
        /\ Doubtful(bytes, offset, handled) \subseteq Doubtful(bytes, p, handled)
    BY <1>1, <1>8, <1>10, <1>11, <2>1, LineLeftOut
  <2>3. Long(bytes, p) = Long(bytes, offset)
    BY <1>1, <1>8, <1>17, KindsOfOneMore
  <2>4. CountOK(bytes, p, handled, u, skipped)
    BY <1>1, <1>10, <2>2, CountStays
  <2>5. handled' = handled /\ skipped' = skipped
    BY <1>14, <1>17
  <2> QED BY <1>9, <1>12, <1>13, <1>14, <2>2, <2>3, <2>4, <2>5 DEF FramingInv
<1> QED BY <1>15, <1>16, <1>17

\* The place of the reader, what was handed on and what was counted belong
\* together in every state: the invariant behind FramesExact.
THEOREM FramingInvariant == FramingSpec => []FramingInv
<1>1. FramingInit => FramingInv
  BY NothingRead, FramingAssumption DEF FramingInit, FramingInv
<1>2. FramingInv /\ [FramingNext]_framingVars => FramingInv'
  <2> SUFFICES ASSUME FramingInv, [FramingNext]_framingVars
               PROVE  FramingInv'
    OBVIOUS
  <2> USE FramingAssumption
  <2>1. CASE Write
    BY <2>1, WriteKeeps
  <2>2. CASE StartOver
    <3>1. held' = 0
      BY <2>2 DEF StartOver, FramingInv
    <3> QED BY <2>2, <3>1, NothingRead DEF StartOver, FramingInv
  <2>3. CASE Poll
    BY <2>3 DEF Poll, FramingInv
  <2>4. CASE Turn
    <3>1. PICK n \in 0..BufSize :
            /\ Complete(n) \/ BufferFull(n) \/ EndOfFile(n)
            /\ \/ skipping /\ Skip(n)
               \/ ~skipping /\ ~Complete(n) /\ OverLimit(held + n) /\ GiveUp(n)
               \/ ~skipping /\ ~Complete(n) /\ ~OverLimit(held + n) /\ Hold(n)
               \/ ~skipping /\ Complete(n) /\ Line(n)
      BY <2>4 DEF Turn
    <3>2. bytes' = bytes /\ n \in Nat
      BY <2>4 DEF Turn
    <3> QED BY <3>1, <3>2, SkipKeeps, GiveUpKeeps, HoldKeeps, LineKeeps
  <2>5. CASE UNCHANGED framingVars
    BY <2>5 DEF framingVars, FramingInv
  <2> QED BY <2>1, <2>2, <2>3, <2>4, <2>5 DEF FramingNext
<1> QED BY <1>1, <1>2, PTL DEF FramingSpec

\* The lines handed on and the count of those left out are those of the bytes
\* alone, and no more than a line of the limit is ever held, for every limit
\* and every size of the buffer (readFrom, overLimit, processLine).
THEOREM FramingExact == FramingSpec => []FramesExact
<1>1. ASSUME FramingInv PROVE FramesExact
  <2>1. /\ LinesConsumed = Consumed(bytes, offset)
        /\ \A l : LengthOf(l) = Size(bytes, l) /\ HandledAs(l) = As(bytes, l)
    BY DEF LinesConsumed, Consumed, IsLine, BeginsAt, LengthOf, Trimmed, Size, Trim, IsTrim,
           HandledAs, As
  <2>2. /\ TooLong = Long(bytes, offset) /\ Wanted = Fit(bytes, offset)
        /\ Unclear = Unsure(bytes, offset)
    BY <2>1 DEF TooLong, Wanted, Unclear, Long, Fit, Unsure
  <2>3. offset \in Nat /\ held \in Nat /\ held <= MaxLine + 1
        /\ (skipping => held = 0) /\ (~reading => held = 0)
    BY <1>1 DEF FramingInv, CutOK
  <2>4. Frugal
    BY <2>3 DEF Frugal
  <2>5. PICK d \in Nat : d = Cardinality(Doubtful(bytes, offset, handled))
    BY <2>3, KindsFinite
  <2>6. PICK u \in Nat : u = Cardinality(TooLong) + (IF skipping THEN 1 ELSE 0)
    BY <2>2, <2>3, KindsFinite
  <2>7. skipped \in u..(u + d)
    <3>1. CountOK(bytes, offset, handled, u, skipped)
      BY <1>1, <2>2, <2>6 DEF FramingInv, Certain
    <3>2. skipped \in Nat /\ u <= skipped /\ skipped <= u + d
      BY <2>5, <3>1 DEF CountOK
    <3> QED BY <3>2
  <2>8. d = Cardinality({l \in Unclear : HandledAs(l) \notin Got(handled)})
    BY <2>1, <2>2, <2>5 DEF Doubtful
  <2>9. HandedOK(bytes, offset, handled)
    BY <1>1 DEF FramingInv
  <2>10. /\ Got(handled) \subseteq {HandledAs(l) : l \in Wanted}
         /\ \A l \in Wanted \ Unclear : HandledAs(l) \in Got(handled)
         /\ \A q, z \in DOMAIN handled : q < z => handled[q].at < handled[z].at
    BY <2>1, <2>2, <2>9 DEF HandedOK
  <2> QED BY <2>4, <2>6, <2>7, <2>8, <2>10 DEF FramesExact, Got
<1> QED BY <1>1, FramingInvariant, PTL

------------------------------------------------------------------------------
(***************************************************************************)
(* Recursions that look at the two places after.                           *)
(***************************************************************************)
IsCountdown(out, n, last, step) ==
  \A g \in 1..(n + 2) : out[g] = IF g > n THEN last ELSE step[<<g, <<out[g + 1], out[g + 2]>>>>]

\* It exists, when the steps stay in V.
LEMMA CountdownExists ==
  ASSUME NEW n \in Nat, NEW V, NEW last \in V, NEW step \in [(1..n) \X (V \X V) -> V]
  PROVE  \E out \in [1..(n + 2) -> V] : IsCountdown(out, n, last, step)
<1> DEFINE next == [p \in (1..n) \X (V \X V) |-> <<step[<<n + 1 - p[1], p[2]>>], p[2][1]>>]
           first == <<last, last>>
<1>1. next \in [(1..n) \X (V \X V) -> V \X V]
  <2>1. ASSUME NEW p \in (1..n) \X (V \X V)
        PROVE  <<step[<<n + 1 - p[1], p[2]>>], p[2][1]>> \in V \X V
    <3>1. p[1] \in 1..n /\ p[2] \in V \X V
      OBVIOUS
    <3>2. n + 1 - p[1] \in 1..n
      BY <3>1
    <3>3. <<n + 1 - p[1], p[2]>> \in (1..n) \X (V \X V)
      BY <3>1, <3>2
    <3> QED BY <3>1, <3>3
  <2> QED BY <2>1
<1>2. first \in V \X V
  OBVIOUS
<1>3. PICK it \in [0..n -> V \X V] : IsRecursion(it, n, first, next)
  <2> HIDE DEF next, first
  <2> QED BY <1>1, <1>2, RecursionExists
<1>4. \A h \in 0..n : it[h] = IF h = 0 THEN first ELSE next[<<h, it[h - 1]>>]
  <2> HIDE DEF next, first
  <2> QED BY <1>3 DEF IsRecursion
<1> DEFINE out == [g \in 1..(n + 2) |-> IF g > n + 1 THEN last ELSE it[n + 1 - g][1]]
<1>5. \A h \in 0..n : it[h] \in V \X V
  OBVIOUS
<1>6. out \in [1..(n + 2) -> V]
  <2>1. ASSUME NEW g \in 1..(n + 2), ~(g > n + 1) PROVE it[n + 1 - g][1] \in V
    <3>1. n + 1 - g \in 0..n
      BY <2>1
    <3> QED BY <1>5, <3>1
  <2> QED BY <2>1
<1>7. ASSUME NEW g \in 1..(n + 2)
      PROVE  out[g] = IF g > n THEN last ELSE step[<<g, <<out[g + 1], out[g + 2]>>>>]
  <2>1. CASE g > n
    <3>1. CASE g = n + 1
      <4>1. n + 1 - g = 0 /\ ~(g > n + 1)
        BY <3>1
      <4>2. out[g] = it[0][1]
        BY <4>1
      <4>3. it[0] = first
        <5>1. 0 \in 0..n
          OBVIOUS
        <5> HIDE DEF next, first
        <5> QED BY <1>4, <5>1
      <4> QED BY <2>1, <4>2, <4>3
    <3>2. CASE g > n + 1
      BY <2>1, <3>2
    <3> QED BY <2>1, <3>1, <3>2
  <2>2. CASE ~(g > n)
    <3> DEFINE h == n + 1 - g
    <3>1. h \in 1..n /\ h - 1 \in 0..n /\ h \in 0..n /\ n + 1 - h = g /\ g \in 1..n
      BY <2>2
    <3>2. it[h] = next[<<h, it[h - 1]>>] /\ it[h - 1] \in V \X V
      <4>1. h # 0
        BY <3>1
      <4> HIDE DEF next, first, h
      <4> QED BY <1>4, <1>5, <3>1, <4>1
    <3>3. <<h, it[h - 1]>> \in (1..n) \X (V \X V)
      BY <3>1, <3>2
    <3>4. it[h] = <<step[<<g, it[h - 1]>>], it[h - 1][1]>>
      BY <3>1, <3>2, <3>3
    <3>5. out[g] = it[h][1]
      BY <3>1
    <3>6. out[g + 1] = it[h - 1][1]
      <4>1. g + 1 \in 1..(n + 2) /\ ~(g + 1 > n + 1) /\ n + 1 - (g + 1) = h - 1
        BY <3>1
      <4> QED BY <4>1
    <3>7. out[g + 2] = it[h - 1][2]
      <4>1. CASE g = n
        <5>1. g + 2 \in 1..(n + 2) /\ g + 2 > n + 1 /\ h - 1 = 0
          BY <4>1
        <5>2. it[0] = <<last, last>>
          <6>1. 0 \in 0..n
            OBVIOUS
          <6>2. it[0] = first
            <7> HIDE DEF next, first
            <7> QED BY <1>4, <6>1
          <6> QED BY <6>2
        <5> QED BY <5>1, <5>2
      <4>2. CASE g # n
        <5>1. g + 2 \in 1..(n + 2) /\ ~(g + 2 > n + 1) /\ n + 1 - (g + 2) = h - 2
          <6>1. g \in 1..n /\ g # n /\ n \in Nat
            BY <3>1, <4>2
          <6>2. h = n + 1 - g
            OBVIOUS
          <6> HIDE DEF h
          <6> QED BY <6>1, <6>2
        <5>2. h - 1 \in 1..n /\ h - 2 \in 0..n /\ (h - 1) - 1 = h - 2
          BY <3>1, <4>2
        <5>3. it[h - 1] = next[<<h - 1, it[h - 2]>>] /\ it[h - 2] \in V \X V
          <6>1. h - 1 # 0
            BY <5>2
          <6> HIDE DEF next, first, h
          <6> QED BY <1>4, <1>5, <5>2, <6>1
        <5>4. <<h - 1, it[h - 2]>> \in (1..n) \X (V \X V)
          BY <5>2, <5>3
        <5>5. it[h - 1][2] = it[h - 2][1]
          BY <5>3, <5>4
        <5>6. out[g + 2] = it[h - 2][1]
          BY <5>1
        <5> QED BY <5>5, <5>6
      <4> QED BY <4>1, <4>2
    <3>8. it[h - 1] = <<out[g + 1], out[g + 2]>>
      <4> HIDE DEF out, h
      <4> QED BY <3>2, <3>6, <3>7
    <3> HIDE DEF out, h
    <3>9. it[h][1] = step[<<g, it[h - 1]>>]
      BY <3>4
    <3> QED BY <2>2, <3>5, <3>8, <3>9
  <2> QED BY <2>1, <2>2
<1> HIDE DEF out
<1> QED BY <1>6, <1>7 DEF IsCountdown

\* Down from n + 2, by steps of one, with what holds at the two places after.
LEMMA CountdownInduction ==
  ASSUME NEW n \in Nat, NEW S,
         n + 1 \in S, n + 2 \in S,
         \A g \in 1..n : g + 1 \in S /\ g + 2 \in S => g \in S
  PROVE  \A g \in 1..(n + 2) : g \in S
<1> DEFINE N == {m \in Nat : \A g \in 1..(n + 2) : n + 2 - g <= m => g \in S}
<1>1. 0 \in N
  OBVIOUS
<1>2. ASSUME NEW m \in N \cap Nat PROVE m + 1 \in N
  <2>1. ASSUME NEW g \in 1..(n + 2), n + 2 - g = m + 1 PROVE g \in S
    <3>1. CASE g = n + 1
      BY <3>1
    <3>2. CASE g # n + 1
      <4>1. g \in 1..n /\ g + 1 \in 1..(n + 2) /\ g + 2 \in 1..(n + 2)
        BY <2>1, <3>2
      <4>2. n + 2 - (g + 1) <= m /\ n + 2 - (g + 2) <= m
        BY <2>1
      <4> QED BY <4>1, <4>2
    <3> QED BY <3>1, <3>2
  <2>2. ASSUME NEW g \in 1..(n + 2), n + 2 - g <= m + 1 PROVE g \in S
    <3>1. CASE n + 2 - g = m + 1
      BY <2>1, <3>1
    <3>2. CASE n + 2 - g # m + 1
      <4>1. n + 2 - g <= m
        BY <2>2, <3>2
      <4> QED BY <4>1
    <3> QED BY <3>1, <3>2
  <2> QED BY <2>2
<1>3. Nat \subseteq N
  <2> HIDE DEF N
  <2> QED BY <1>1, <1>2, SetInduction
<1>4. n + 2 \in N
  BY <1>3
<1>5. \A g \in 1..(n + 2) : n + 2 - g <= n + 2
  OBVIOUS
<1> QED BY <1>4, <1>5

------------------------------------------------------------------------------
(***************************************************************************)
(* Startup: reading the command line.                                      *)
(***************************************************************************)

From(s, g) == SubSeq(s, g, Len(s))
Led(a, t)  == <<a>> \o t

WithPaths(o, t) == [o EXCEPT !.paths = t]
WithCheck(o) == [o EXCEPT !.check = TRUE]

Said == Options \cup {Bad}

LEMMA LedIs ==
  ASSUME NEW a \in Arguments, NEW t \in Seq(Arguments)
  PROVE  /\ Led(a, t) \in Seq(Arguments) /\ Len(Led(a, t)) = Len(t) + 1 /\ Led(a, t)[1] = a
         /\ \A g \in 1..Len(t) : Led(a, t)[g + 1] = t[g]
BY DEF Led

LEMMA FromIs ==
  ASSUME NEW s \in Seq(Arguments), NEW g \in 1..(Len(s) + 1)
  PROVE  /\ From(s, g) \in Seq(Arguments) /\ Len(From(s, g)) = Len(s) - g + 1
         /\ \A m \in 1..(Len(s) - g + 1) : From(s, g)[m] = s[g + m - 1]
<1>1. g \in Int /\ Len(s) \in Int /\ \A m \in g..Len(s) : s[m] \in Arguments
  OBVIOUS
<1>2. /\ SubSeq(s, g, Len(s)) \in Seq(Arguments)
      /\ Len(SubSeq(s, g, Len(s))) = IF g <= Len(s) THEN Len(s) - g + 1 ELSE 0
      /\ \A m \in 1..(Len(s) - g + 1) : SubSeq(s, g, Len(s))[m] = s[g + m - 1]
  BY <1>1, SubSeqProperties
<1> QED BY <1>2 DEF From

LEMMA FromFirst ==
  ASSUME NEW s \in Seq(Arguments)
  PROVE  From(s, 1) = s
BY DEF From

LEMMA FromLed ==
  ASSUME NEW a \in Arguments, NEW t \in Seq(Arguments), NEW h \in 1..(Len(t) + 1)
  PROVE  From(Led(a, t), h + 1) = From(t, h)
<1> DEFINE s == Led(a, t)
<1>1. /\ s \in Seq(Arguments) /\ Len(s) = Len(t) + 1
      /\ \A g \in 1..Len(t) : s[g + 1] = t[g]
  BY LedIs
<1> HIDE DEF s
<1>2. h + 1 \in 1..(Len(s) + 1) /\ Len(s) - (h + 1) + 1 = Len(t) - h + 1
  BY <1>1
<1>3. /\ From(s, h + 1) \in Seq(Arguments) /\ Len(From(s, h + 1)) = Len(t) - h + 1
      /\ \A m \in 1..(Len(t) - h + 1) : From(s, h + 1)[m] = s[(h + 1) + m - 1]
  <2>1. /\ From(s, h + 1) \in Seq(Arguments) /\ Len(From(s, h + 1)) = Len(s) - (h + 1) + 1
        /\ \A m \in 1..(Len(s) - (h + 1) + 1) : From(s, h + 1)[m] = s[(h + 1) + m - 1]
    BY <1>1, <1>2, FromIs
  <2> QED BY <1>2, <2>1
<1>4. /\ From(t, h) \in Seq(Arguments) /\ Len(From(t, h)) = Len(t) - h + 1
      /\ \A m \in 1..(Len(t) - h + 1) : From(t, h)[m] = t[h + m - 1]
  BY FromIs
<1>5. ASSUME NEW m \in 1..Len(From(t, h)) PROVE From(s, h + 1)[m] = From(t, h)[m]
  <2>1. m \in 1..(Len(t) - h + 1)
    BY <1>4
  <2>2. h + m - 1 \in 1..Len(t) /\ (h + 1) + m - 1 = (h + m - 1) + 1
    BY <2>1
  <2>3. s[(h + 1) + m - 1] = t[h + m - 1]
    BY <1>1, <2>2
  <2> QED BY <1>3, <1>4, <2>1, <2>3
<1>6. From(s, h + 1) = From(t, h)
  BY <1>3, <1>4, <1>5, SeqEqual
<1> QED BY <1>6 DEF s

LEMMA OptionsKept ==
  /\ NoOpts \in Options
  /\ \A o \in Options, t \in Seq(Arguments) : WithPaths(o, t) \in Options
  /\ \A o \in Options : WithCheck(o) \in Options
  /\ \A o \in Said, f \in ValueFlags, v \in Arguments : Set(o, f, v) \in Said
<1>1. NoOpts \in Options
  BY DEF NoOpts, Options
<1>2. ASSUME NEW o \in Options, NEW t \in Seq(Arguments) PROVE WithPaths(o, t) \in Options
  BY DEF Options, WithPaths
<1>3. ASSUME NEW o \in Options PROVE WithCheck(o) \in Options
  BY DEF Options, WithCheck
<1>4. ASSUME NEW o \in Said, NEW f \in ValueFlags, NEW v \in Arguments PROVE Set(o, f, v) \in Said
  <2>1. CASE o = Bad
    BY <2>1 DEF Set, Said
  <2>2. CASE o # Bad
    <3>1. o \in Options
      BY <2>2 DEF Said
    <3>2. [o EXCEPT !.value[f] = IF @ = Unset THEN v ELSE @] \in Options
      BY <3>1 DEF Options
    <3> QED BY <2>2, <3>2 DEF Set, Said
  <2> QED BY <2>1, <2>2
<1> QED BY <1>1, <1>2, <1>3, <1>4

LEMMA ArgumentKinds ==
  /\ DOMAIN Joined = {"--source=d"} /\ Joined["--source=d"] = <<"--source", "d">>
  /\ \A a \in ValueFlags : a \notin {"--", "--check", "--bogus", "--source=d"}
  /\ "--source" \in ValueFlags
  /\ \A a : IsWord(a) <=> a \notin ValueFlags \cup {"--", "--check", "--bogus", "--source=d"}
<1>1. DOMAIN Joined = {"--source=d"} /\ Joined["--source=d"] = <<"--source", "d">>
  BY DEF Joined
<1>2. \A a \in ValueFlags : a \notin {"--", "--check", "--bogus", "--source=d"}
  BY DEF ValueFlags
<1>3. "--source" \in ValueFlags
  BY DEF ValueFlags
<1> QED BY <1>1, <1>2, <1>3 DEF IsWord, Flags

\* Reading, by the kind of the argument.
LEMMA ReadingEnd ==
  ASSUME NEW s \in Seq(Arguments), NEW mixed \in BOOLEAN, NEW g \in Nat, NEW rest, NEW after, s[g] = "--"
  PROVE  Reading(s, mixed, g, rest, after) = WithPaths(NoOpts, From(s, g + 1))
BY ArgumentKinds DEF Reading, WithPaths, WithCheck, From

LEMMA ReadingCheck ==
  ASSUME NEW s \in Seq(Arguments), NEW mixed \in BOOLEAN, NEW g \in Nat, NEW rest, NEW after, s[g] = "--check"
  PROVE  Reading(s, mixed, g, rest, after) = IF rest = Bad THEN Bad ELSE WithCheck(rest)
BY ArgumentKinds DEF Reading, WithPaths, WithCheck, From

LEMMA ReadingBogus ==
  ASSUME NEW s \in Seq(Arguments), NEW mixed \in BOOLEAN, NEW g \in Nat, NEW rest, NEW after, s[g] = "--bogus"
  PROVE  Reading(s, mixed, g, rest, after) = Bad
BY ArgumentKinds DEF Reading, WithPaths, WithCheck, From

LEMMA ReadingFlag ==
  ASSUME NEW s \in Seq(Arguments), NEW mixed \in BOOLEAN, NEW g \in Nat, NEW rest, NEW after, s[g] \in ValueFlags
  PROVE  Reading(s, mixed, g, rest, after) = IF g = Len(s) THEN Bad ELSE Set(after, s[g], s[g + 1])
BY ArgumentKinds DEF Reading, WithPaths, WithCheck, From

LEMMA ReadingJoined ==
  ASSUME NEW s \in Seq(Arguments), NEW mixed \in BOOLEAN, NEW g \in Nat, NEW rest, NEW after, s[g] = "--source=d"
  PROVE  Reading(s, mixed, g, rest, after) = Set(rest, "--source", "d")
BY ArgumentKinds DEF Reading, WithPaths, WithCheck, From

LEMMA ReadingWord ==
  ASSUME NEW s \in Seq(Arguments), NEW mixed \in BOOLEAN, NEW g \in Nat, NEW rest, NEW after, IsWord(s[g])
  PROVE  Reading(s, mixed, g, rest, after) =
           IF ~mixed THEN WithPaths(NoOpts, From(s, g))
           ELSE IF rest = Bad THEN Bad ELSE WithPaths(rest, Led(s[g], rest.paths))
<1>1. s[g] \notin ValueFlags \cup DOMAIN Joined \cup {"--", "--check", "--bogus"}
  BY ArgumentKinds
<1> QED BY <1>1 DEF Reading, WithPaths, From, Led

LEMMA ReadingSaid ==
  ASSUME NEW s \in Seq(Arguments), NEW mixed \in BOOLEAN, NEW g \in 1..Len(s),
         NEW rest \in Said, NEW after \in Said
  PROVE  Reading(s, mixed, g, rest, after) \in Said
<1> DEFINE a == s[g]
<1>0. a \in Arguments /\ NoOpts \in Options
  BY OptionsKept
<1>1. CASE a = "--"
  <2>1. From(s, g + 1) \in Seq(Arguments)
    BY FromIs
  <2>2. WithPaths(NoOpts, From(s, g + 1)) \in Options
    BY <1>0, <2>1, OptionsKept
  <2> QED BY <1>1, <2>2, ReadingEnd DEF Said
<1>2. CASE a = "--check"
  <2>1. rest # Bad => WithCheck(rest) \in Options
    BY OptionsKept DEF Said
  <2> QED BY <1>2, <2>1, ReadingCheck DEF Said
<1>3. CASE a = "--bogus"
  BY <1>3, ReadingBogus DEF Said
<1>4. CASE a \in ValueFlags
  <2>1. g # Len(s) => s[g + 1] \in Arguments
    OBVIOUS
  <2>2. g # Len(s) => Set(after, a, s[g + 1]) \in Said
    BY <1>4, <2>1, OptionsKept
  <2> QED BY <1>4, <2>2, ReadingFlag DEF Said
<1>5. CASE a = "--source=d"
  <2>0. "d" \in Arguments
    BY DEF Arguments
  <2>1. "--source" \in ValueFlags /\ "d" \in Arguments
    BY <2>0, ArgumentKinds
  <2>2. Set(rest, "--source", "d") \in Said
    BY <2>1, OptionsKept
  <2> QED BY <1>5, <2>2, ReadingJoined
<1>6. CASE IsWord(a)
  <2>1. From(s, g) \in Seq(Arguments)
    BY FromIs
  <2>2. WithPaths(NoOpts, From(s, g)) \in Said
    BY <1>0, <2>1, OptionsKept DEF Said
  <2>3. ASSUME rest # Bad PROVE WithPaths(rest, Led(a, rest.paths)) \in Said
    <3>1. rest \in Options
      BY <2>3 DEF Said
    <3>2. rest.paths \in Seq(Arguments)
      BY <3>1 DEF Options
    <3>3. Led(a, rest.paths) \in Seq(Arguments)
      BY <1>0, <3>2, LedIs
    <3> QED BY <3>1, <3>3, OptionsKept DEF Said
  <2>4. Reading(s, mixed, g, rest, after) =
          IF ~mixed THEN WithPaths(NoOpts, From(s, g))
          ELSE IF rest = Bad THEN Bad ELSE WithPaths(rest, Led(a, rest.paths))
    BY <1>6, ReadingWord
  <2> HIDE DEF a
  <2> QED BY <2>2, <2>3, <2>4 DEF Said
<1>7. a \in {"--", "--check", "--bogus", "--source=d"} \/ a \in ValueFlags \/ IsWord(a)
  BY ArgumentKinds
<1> QED BY <1>1, <1>2, <1>3, <1>4, <1>5, <1>6, <1>7

\* What is read of s from each place on.
IsRead(r, s, mixed) ==
  r = [g \in 1..(Len(s) + 2) |->
         IF g > Len(s) THEN NoOpts ELSE Reading(s, mixed, g, r[g + 1], r[g + 2])]

ReadFrom(s, mixed) == CHOOSE r : IsRead(r, s, mixed)

LEMMA ReadIs == \A s, mixed : Read(s, mixed) = ReadFrom(s, mixed)[1]
BY DEF Read, ReadFrom, IsRead

LEMMA ReadFromIs ==
  ASSUME NEW s \in Seq(Arguments), NEW mixed \in BOOLEAN
  PROVE  /\ ReadFrom(s, mixed) \in [1..(Len(s) + 2) -> Said]
         /\ IsRead(ReadFrom(s, mixed), s, mixed)
<1> DEFINE n == Len(s)
           step == [p \in (1..n) \X (Said \X Said) |-> Reading(s, mixed, p[1], p[2][1], p[2][2])]
<1>0. n \in Nat /\ NoOpts \in Said
  BY OptionsKept DEF Said
<1>1. step \in [(1..n) \X (Said \X Said) -> Said]
  <2>1. ASSUME NEW p \in (1..n) \X (Said \X Said)
        PROVE  Reading(s, mixed, p[1], p[2][1], p[2][2]) \in Said
    <3>1. p[1] \in 1..Len(s) /\ p[2][1] \in Said /\ p[2][2] \in Said
      OBVIOUS
    <3> QED BY <3>1, ReadingSaid
  <2> QED BY <2>1
<1>2. PICK out \in [1..(n + 2) -> Said] : IsCountdown(out, n, NoOpts, step)
  <2> HIDE DEF step, n
  <2> QED BY <1>0, <1>1, CountdownExists
<1>3. ASSUME NEW g \in 1..(n + 2), ~(g > n)
      PROVE  out[g] = Reading(s, mixed, g, out[g + 1], out[g + 2])
  <2>1. g \in 1..n /\ g + 1 \in 1..(n + 2) /\ g + 2 \in 1..(n + 2)
    BY <1>0, <1>3
  <2>2. <<g, <<out[g + 1], out[g + 2]>>>> \in (1..n) \X (Said \X Said)
    BY <2>1
  <2>3. out[g] = step[<<g, <<out[g + 1], out[g + 2]>>>>]
    BY <1>2, <1>3 DEF IsCountdown
  <2> QED BY <2>2, <2>3
<1>4. ASSUME NEW g \in 1..(n + 2), g > n PROVE out[g] = NoOpts
  BY <1>2, <1>4 DEF IsCountdown
<1>5. IsRead(out, s, mixed)
  <2>1. out = [g \in 1..(n + 2) |-> out[g]]
    OBVIOUS
  <2> QED BY <1>3, <1>4, <2>1 DEF IsRead
<1>6. ASSUME NEW r, IsRead(r, s, mixed) PROVE r = out
  <2> DEFINE S == {g \in Nat : r[g] = out[g]}
  <2>0. r = [g \in 1..(n + 2) |-> r[g]]
    BY <1>6 DEF IsRead
  <2>1. n + 1 \in S /\ n + 2 \in S
    BY <1>0, <1>4, <1>6 DEF IsRead
  <2>2. ASSUME NEW g \in 1..n, g + 1 \in S, g + 2 \in S PROVE g \in S
    <3>1. g \in 1..(n + 2) /\ ~(g > n)
      BY <1>0
    <3>2. out[g] = Reading(s, mixed, g, out[g + 1], out[g + 2])
      BY <1>3, <3>1
    <3>3. r[g] = Reading(s, mixed, g, r[g + 1], r[g + 2])
      BY <1>6, <3>1 DEF IsRead
    <3>4. r[g + 1] = out[g + 1] /\ r[g + 2] = out[g + 2]
      BY <2>2
    <3> QED BY <3>2, <3>3, <3>4
  <2>3. \A g \in 1..(n + 2) : g \in S
    <3> HIDE DEF S, n
    <3> QED BY <1>0, <2>1, <2>2, CountdownInduction
  <2>4. \A g \in 1..(n + 2) : r[g] = out[g]
    BY <2>3
  <2> HIDE DEF n
  <2> QED BY <2>0, <2>4
<1>7. IsRead(ReadFrom(s, mixed), s, mixed)
  BY <1>5 DEF ReadFrom
<1>8. ReadFrom(s, mixed) = out
  BY <1>6, <1>7
<1> QED BY <1>7, <1>8

\* What is read at a place rests on what stands there and after it.
LEMMA SameReading ==
  ASSUME NEW s \in Seq(Arguments), NEW g \in Nat, NEW t \in Seq(Arguments), NEW h \in Nat,
         NEW mixed \in BOOLEAN, NEW rest, NEW after,
         s[g] = t[h],
         h # Len(t) <=> g # Len(s),
         h # Len(t) => s[g + 1] = t[h + 1],
         From(s, g) = From(t, h),
         From(s, g + 1) = From(t, h + 1)
  PROVE  Reading(s, mixed, g, rest, after) = Reading(t, mixed, h, rest, after)
<1>1. CASE t[h] = "--"
  BY <1>1, ReadingEnd
<1>2. CASE t[h] = "--check"
  BY <1>2, ReadingCheck
<1>3. CASE t[h] = "--bogus"
  BY <1>3, ReadingBogus
<1>4. CASE t[h] \in ValueFlags
  BY <1>4, ReadingFlag
<1>5. CASE t[h] = "--source=d"
  BY <1>5, ReadingJoined
<1>6. CASE IsWord(t[h])
  <2>1. /\ Reading(t, mixed, h, rest, after) =
             IF ~mixed THEN WithPaths(NoOpts, From(t, h))
             ELSE IF rest = Bad THEN Bad ELSE WithPaths(rest, Led(t[h], rest.paths))
        /\ Reading(s, mixed, g, rest, after) =
             IF ~mixed THEN WithPaths(NoOpts, From(s, g))
             ELSE IF rest = Bad THEN Bad ELSE WithPaths(rest, Led(s[g], rest.paths))
    BY <1>6, ReadingWord
  <2> QED BY <2>1
<1> QED BY <1>1, <1>2, <1>3, <1>4, <1>5, <1>6, ArgumentKinds

\* The places of t are one further on when an argument comes before it.
LEMMA ReadingShifted ==
  ASSUME NEW a \in Arguments, NEW t \in Seq(Arguments), NEW mixed \in BOOLEAN,
         NEW g \in 1..Len(t), NEW rest, NEW after
  PROVE  Reading(Led(a, t), mixed, g + 1, rest, after) = Reading(t, mixed, g, rest, after)
<1> DEFINE s == Led(a, t)
<1>1. s \in Seq(Arguments) /\ Len(s) = Len(t) + 1 /\ s[g + 1] = t[g]
  BY LedIs
<1>2. g # Len(t) => s[g + 1 + 1] = t[g + 1]
  <2>1. g # Len(t) => g + 1 \in 1..Len(t)
    OBVIOUS
  <2>2. \A m \in 1..Len(t) : s[m + 1] = t[m]
    BY LedIs
  <2> HIDE DEF s
  <2> QED BY <2>1, <2>2
<1>3. \A m \in 1..(Len(t) + 1) : From(s, m + 1) = From(t, m)
  BY FromLed
<1> HIDE DEF s
<1>4. From(s, g + 1) = From(t, g) /\ From(s, (g + 1) + 1) = From(t, g + 1)
  BY <1>3
<1>6. g + 1 \in Nat /\ (g # Len(t) <=> g + 1 # Len(s))
  BY <1>1
<1>7. Reading(s, mixed, g + 1, rest, after) = Reading(t, mixed, g, rest, after)
  BY <1>1, <1>2, <1>4, <1>6, SameReading
<1> QED BY <1>7 DEF s

LEMMA ReadAt ==
  ASSUME NEW s \in Seq(Arguments), NEW mixed \in BOOLEAN
  PROVE  /\ \A g \in 1..(Len(s) + 2) : ReadFrom(s, mixed)[g] \in Said
         /\ ReadFrom(s, mixed)[Len(s) + 1] = NoOpts
         /\ ReadFrom(s, mixed)[Len(s) + 2] = NoOpts
         /\ \A g \in 1..Len(s) :
              ReadFrom(s, mixed)[g] =
                Reading(s, mixed, g, ReadFrom(s, mixed)[g + 1], ReadFrom(s, mixed)[g + 2])
<1> DEFINE r == ReadFrom(s, mixed)
<1>1. r \in [1..(Len(s) + 2) -> Said]
  BY ReadFromIs
<1>2. r = [g \in 1..(Len(s) + 2) |->
            IF g > Len(s) THEN NoOpts ELSE Reading(s, mixed, g, r[g + 1], r[g + 2])]
  BY ReadFromIs DEF IsRead
<1> HIDE DEF r
<1>3. \A g \in 1..(Len(s) + 2) :
        r[g] = IF g > Len(s) THEN NoOpts ELSE Reading(s, mixed, g, r[g + 1], r[g + 2])
  BY <1>2
<1>4. Len(s) + 1 \in 1..(Len(s) + 2) /\ Len(s) + 2 \in 1..(Len(s) + 2)
  OBVIOUS
<1>5. r[Len(s) + 1] = NoOpts /\ r[Len(s) + 2] = NoOpts
  BY <1>3, <1>4
<1>6. ASSUME NEW g \in 1..Len(s) PROVE r[g] = Reading(s, mixed, g, r[g + 1], r[g + 2])
  <2>1. g \in 1..(Len(s) + 2) /\ ~(g > Len(s))
    OBVIOUS
  <2> QED BY <1>3, <2>1
<1> QED BY <1>1, <1>5, <1>6 DEF r

LEMMA ReadShifted ==
  ASSUME NEW a \in Arguments, NEW t \in Seq(Arguments), NEW mixed \in BOOLEAN
  PROVE  \A g \in 1..(Len(t) + 2) : ReadFrom(Led(a, t), mixed)[g + 1] = ReadFrom(t, mixed)[g]
<1> DEFINE s == Led(a, t)
           r == ReadFrom(s, mixed)
           q == ReadFrom(t, mixed)
           n == Len(t)
           S == {g \in Nat : r[g + 1] = q[g]}
<1>1. s \in Seq(Arguments) /\ Len(s) = n + 1 /\ n \in Nat
  BY LedIs
<1>2. n + 1 \in S /\ n + 2 \in S
  <2>1. q[n + 1] = NoOpts /\ q[n + 2] = NoOpts
    BY ReadAt
  <2>2. r[Len(s) + 1] = NoOpts /\ r[Len(s) + 2] = NoOpts
    BY <1>1, ReadAt
  <2>3. Len(s) + 1 = n + 1 + 1 /\ Len(s) + 2 = n + 2 + 1
    BY <1>1
  <2> HIDE DEF r, q, s
  <2> QED BY <1>1, <2>1, <2>2, <2>3
<1>3. ASSUME NEW g \in 1..n, g + 1 \in S, g + 2 \in S PROVE g \in S
  <2>1. q[g] = Reading(t, mixed, g, q[g + 1], q[g + 2])
    BY ReadAt
  <2>2. g + 1 \in 1..Len(s)
    BY <1>1
  <2>3. r[g + 1] = Reading(s, mixed, g + 1, r[(g + 1) + 1], r[(g + 1) + 2])
    <3> HIDE DEF s
    <3> QED BY <1>1, <2>2, ReadAt
  <2>4. r[(g + 1) + 1] = q[g + 1] /\ r[(g + 1) + 2] = q[g + 2]
    <3>1. (g + 1) + 2 = (g + 2) + 1
      OBVIOUS
    <3> HIDE DEF r, q
    <3> QED BY <1>3, <3>1
  <2>5. r[g + 1] = Reading(t, mixed, g, q[g + 1], q[g + 2])
    <3>1. ASSUME NEW rest, NEW after
          PROVE  Reading(s, mixed, g + 1, rest, after) = Reading(t, mixed, g, rest, after)
      BY ReadingShifted
    <3> HIDE DEF r, q, s
    <3> QED BY <2>3, <2>4, <3>1
  <2>6. r[g + 1] = q[g]
    <3> HIDE DEF r, q, s
    <3> QED BY <2>1, <2>5
  <2> QED BY <2>6
<1>4. \A g \in 1..(n + 2) : g \in S
  <2> HIDE DEF S, n
  <2> QED BY <1>1, <1>2, <1>3, CountdownInduction
<1> HIDE DEF r, q
<1>5. \A g \in 1..(n + 2) : r[g + 1] = q[g]
  BY <1>4
<1> QED BY <1>5 DEF r, q


\* What flag.Parse reads, by the first argument.
LEMMA ParseOf ==
  ASSUME NEW t \in Seq(Arguments)
  PROVE  /\ Parse(t) \in Said
         /\ t = <<>> => Parse(t) = NoOpts
         /\ t # <<>> /\ IsWord(t[1]) => Parse(t) = WithPaths(NoOpts, t)
<1> PICK mixed \in BOOLEAN : ~mixed
  OBVIOUS
<1> DEFINE r == ReadFrom(t, mixed)
<1>1. Parse(t) = r[1]
  <2>1. mixed = FALSE
    OBVIOUS
  <2> QED BY <2>1, ReadIs DEF Parse
<1>2. r[1] \in Said /\ (Len(t) = 0 => r[1] = NoOpts)
  <2>1. 1 \in 1..(Len(t) + 2) /\ (Len(t) = 0 => Len(t) + 1 = 1)
    OBVIOUS
  <2>2. \A g \in 1..(Len(t) + 2) : r[g] \in Said
    BY ReadAt
  <2>3. r[Len(t) + 1] = NoOpts
    BY ReadAt
  <2> HIDE DEF r
  <2> QED BY <2>1, <2>2, <2>3
<1>3. ASSUME t # <<>>, IsWord(t[1]) PROVE r[1] = WithPaths(NoOpts, t)
  <2>1. 1 \in 1..Len(t)
    BY <1>3
  <2>2. r[1] = Reading(t, mixed, 1, r[1 + 1], r[1 + 2])
    BY <2>1, ReadAt
  <2>3. From(t, 1) = t
    BY FromFirst
  <2> HIDE DEF r
  <2>4. Reading(t, mixed, 1, r[1 + 1], r[1 + 2]) = WithPaths(NoOpts, From(t, 1))
    BY <1>3, ReadingWord
  <2> QED BY <2>2, <2>3, <2>4
<1>4. t = <<>> => Len(t) = 0
  OBVIOUS
<1> HIDE DEF r
<1> QED BY <1>1, <1>2, <1>3, <1>4

LEMMA ParseCons ==
  ASSUME NEW a \in Arguments, NEW t \in Seq(Arguments)
  PROVE  /\ a = "--" => Parse(Led(a, t)) = WithPaths(NoOpts, t)
         /\ a = "--check" => Parse(Led(a, t)) = IF Parse(t) = Bad THEN Bad ELSE WithCheck(Parse(t))
         /\ a = "--source=d" => Parse(Led(a, t)) = Set(Parse(t), "--source", "d")
<1> PICK mixed \in BOOLEAN : ~mixed
  OBVIOUS
<1>0. mixed = FALSE
  OBVIOUS
<1> DEFINE s == Led(a, t)
           r == ReadFrom(s, mixed)
           q == ReadFrom(t, mixed)
<1>1. Parse(s) = r[1] /\ Parse(t) = q[1]
  BY <1>0, ReadIs DEF Parse
<1>2. s \in Seq(Arguments) /\ Len(s) = Len(t) + 1 /\ s[1] = a
  BY LedIs
<1>3. r[2] = q[1]
  <2>1. \A g \in 1..(Len(t) + 2) : r[g + 1] = q[g]
    BY ReadShifted
  <2>2. 1 \in 1..(Len(t) + 2) /\ 1 + 1 = 2
    OBVIOUS
  <2> HIDE DEF r, q
  <2> QED BY <2>1, <2>2
<1>4. r[1] = Reading(s, mixed, 1, r[2], r[3])
  <2>1. 1 \in 1..Len(s) /\ 1 + 1 = 2 /\ 1 + 2 = 3
    BY <1>2
  <2>2. \A g \in 1..Len(s) : r[g] = Reading(s, mixed, g, r[g + 1], r[g + 2])
    <3> HIDE DEF s
    <3> QED BY <1>2, ReadAt
  <2> HIDE DEF r, s
  <2> QED BY <2>1, <2>2
<1>5. From(s, 2) = t
  <2>1. 1 \in 1..(Len(t) + 1) /\ 1 + 1 = 2
    OBVIOUS
  <2>2. \A m \in 1..(Len(t) + 1) : From(s, m + 1) = From(t, m)
    BY FromLed
  <2> HIDE DEF s
  <2>3. From(s, 2) = From(t, 1)
    BY <2>1, <2>2
  <2> QED BY <2>3, FromFirst
<1>6. ASSUME a = "--" PROVE Parse(s) = WithPaths(NoOpts, t)
  <2> HIDE DEF r, s, q
  <2> QED BY <1>1, <1>2, <1>4, <1>5, <1>6, ReadingEnd
<1>7. ASSUME a = "--check" PROVE Parse(s) = IF Parse(t) = Bad THEN Bad ELSE WithCheck(Parse(t))
  <2> HIDE DEF r, s, q
  <2> QED BY <1>1, <1>2, <1>3, <1>4, <1>7, ReadingCheck
<1>8. ASSUME a = "--source=d" PROVE Parse(s) = Set(Parse(t), "--source", "d")
  <2> HIDE DEF r, s, q
  <2> QED BY <1>1, <1>2, <1>3, <1>4, <1>8, ReadingJoined
<1> HIDE DEF r, s, q
<1> QED BY <1>6, <1>7, <1>8 DEF s

LEMMA ParseFlag ==
  ASSUME NEW a \in Arguments, NEW b \in Arguments, NEW t \in Seq(Arguments), a \in ValueFlags
  PROVE  Parse(Led(a, Led(b, t))) = Set(Parse(t), a, b)
<1> PICK mixed \in BOOLEAN : ~mixed
  OBVIOUS
<1>0. mixed = FALSE
  OBVIOUS
<1> DEFINE u == Led(b, t)
           s == Led(a, u)
           r == ReadFrom(s, mixed)
<1>2. u \in Seq(Arguments) /\ Len(u) = Len(t) + 1 /\ u[1] = b /\ 1 \in 1..Len(u)
  BY LedIs
<1>3. s \in Seq(Arguments) /\ Len(s) = Len(t) + 2 /\ s[1] = a /\ s[1 + 1] = b
  <2> HIDE DEF u
  <2>1. /\ s \in Seq(Arguments) /\ Len(s) = Len(u) + 1 /\ s[1] = a
        /\ \A m \in 1..Len(u) : s[m + 1] = u[m]
    BY <1>2, LedIs
  <2> HIDE DEF s
  <2> QED BY <1>2, <2>1
<1>4. Parse(s) = r[1] /\ Parse(t) = ReadFrom(t, mixed)[1]
  BY <1>0, ReadIs DEF Parse
<1>5. r[3] = ReadFrom(t, mixed)[1]
  <2>1. 1 \in 1..(Len(t) + 2) /\ 2 \in 1..(Len(u) + 2) /\ 1 + 1 = 2 /\ 2 + 1 = 3
    BY <1>2
  <2>2. \A g \in 1..(Len(t) + 2) : ReadFrom(u, mixed)[g + 1] = ReadFrom(t, mixed)[g]
    BY ReadShifted
  <2>3. \A g \in 1..(Len(u) + 2) : ReadFrom(s, mixed)[g + 1] = ReadFrom(u, mixed)[g]
    <3> HIDE DEF u
    <3> QED BY <1>2, ReadShifted
  <2> HIDE DEF u, s
  <2> QED BY <2>1, <2>2, <2>3
<1>6. r[1] = Reading(s, mixed, 1, r[2], r[3])
  <2>1. 1 \in 1..Len(s) /\ 1 + 1 = 2 /\ 1 + 2 = 3
    BY <1>3
  <2>2. \A g \in 1..Len(s) : r[g] = Reading(s, mixed, g, r[g + 1], r[g + 2])
    <3> HIDE DEF s
    <3> QED BY <1>3, ReadAt
  <2> HIDE DEF r, s
  <2> QED BY <2>1, <2>2
<1>7. Len(s) # 1
  BY <1>3
<1> HIDE DEF r, s, u
<1>8. Reading(s, mixed, 1, r[2], r[3]) = Set(r[3], a, b)
  BY <1>3, <1>7, ReadingFlag
<1>9. Parse(s) = Set(Parse(t), a, b)
  BY <1>4, <1>5, <1>6, <1>8
<1> QED BY <1>9 DEF s, u

\* What ReorderArgs makes of the places, by the argument.
Orders == [flags : Seq(Arguments), words : Seq(Arguments)]

WithFlags(o, f) == [o EXCEPT !.flags = f]
WithWords(o, w) == [o EXCEPT !.words = w]

NoOrder == [flags |-> <<>>, words |-> <<>>]

LEMMA OrdersKept ==
  /\ NoOrder \in Orders /\ NoOrder.flags = <<>> /\ NoOrder.words = <<>>
  /\ \A o \in Orders : o.flags \in Seq(Arguments) /\ o.words \in Seq(Arguments)
  /\ \A o \in Orders, f \in Seq(Arguments) :
       /\ WithFlags(o, f) \in Orders /\ WithFlags(o, f).flags = f /\ WithFlags(o, f).words = o.words
       /\ WithWords(o, f) \in Orders /\ WithWords(o, f).words = f /\ WithWords(o, f).flags = o.flags
BY DEF Orders, WithFlags, WithWords, NoOrder

LEMMA LedPair ==
  ASSUME NEW a \in Arguments, NEW b \in Arguments, NEW t \in Seq(Arguments)
  PROVE  <<a, b>> \o t = Led(a, Led(b, t))
<1>1. Led(b, t) \in Seq(Arguments) /\ Len(Led(b, t)) = Len(t) + 1 /\ Led(b, t)[1] = b
  BY LedIs
<1>2. \A g \in 1..Len(t) : Led(b, t)[g + 1] = t[g]
  BY LedIs
<1> DEFINE u == Led(b, t)
           s == Led(a, u)
           p == <<a, b>> \o t
<1>3. /\ s \in Seq(Arguments) /\ Len(s) = Len(u) + 1 /\ s[1] = a
      /\ \A g \in 1..Len(u) : s[g + 1] = u[g]
  <2> HIDE DEF u
  <2> QED BY <1>1, LedIs DEF u
<1>4. <<a, b>> \in Seq(Arguments) /\ Len(<<a, b>>) = 2
  OBVIOUS
<1>5. p \in Seq(Arguments) /\ Len(p) = Len(t) + 2
  BY <1>4
<1>6. \A g \in 1..(Len(t) + 2) : p[g] = IF g <= 2 THEN <<a, b>>[g] ELSE t[g - 2]
  BY <1>4, ConcatProperties
<1> HIDE DEF p, s, u
<1>7. ASSUME NEW g \in 1..Len(p) PROVE p[g] = s[g]
  <2>1. CASE g = 1
    BY <1>3, <1>5, <1>6, <2>1
  <2>2. CASE g = 2
    <3>1. s[1 + 1] = u[1] /\ 1 + 1 = 2
      BY <1>1, <1>3 DEF u
    <3>2. u[1] = b
      BY <1>1 DEF u
    <3> QED BY <1>5, <1>6, <2>2, <3>1, <3>2
  <2>3. CASE g > 2
    <3>1. g - 2 \in 1..Len(t) /\ g - 1 \in 1..Len(u) /\ (g - 2) + 1 = g - 1 /\ (g - 1) + 1 = g
      BY <1>1, <1>5, <2>3 DEF u
    <3>2. s[g] = u[g - 1]
      BY <1>3, <3>1
    <3>3. u[g - 1] = t[g - 2]
      BY <1>2, <3>1 DEF u
    <3> QED BY <1>5, <1>6, <2>3, <3>1, <3>2, <3>3
  <2> QED BY <1>5, <2>1, <2>2, <2>3
<1>8. p = s
  BY <1>1, <1>3, <1>5, <1>7, SeqEqual DEF u
<1> QED BY <1>8 DEF p, s, u

LEMMA OrderingEnd ==
  ASSUME NEW s \in Seq(Arguments), NEW g \in 1..Len(s), NEW rest \in Orders, NEW after \in Orders,
         s[g] = "--"
  PROVE  /\ Ordering(s, g, rest, after) \in Orders
         /\ Ordering(s, g, rest, after).flags = <<"--">>
         /\ Ordering(s, g, rest, after).words = From(s, g + 1)
<1>1. Ordering(s, g, rest, after) = [flags |-> <<s[g]>>, words |-> From(s, g + 1)]
  BY ArgumentKinds DEF Ordering, From
<1>2. From(s, g + 1) \in Seq(Arguments) /\ <<s[g]>> \in Seq(Arguments)
  BY FromIs
<1> QED BY <1>1, <1>2 DEF Orders

LEMMA OrderingWord ==
  ASSUME NEW s \in Seq(Arguments), NEW g \in 1..Len(s), NEW rest \in Orders, NEW after \in Orders,
         IsWord(s[g])
  PROVE  Ordering(s, g, rest, after) = WithWords(rest, Led(s[g], rest.words))
<1>1. s[g] # "--" /\ s[g] \notin ValueFlags
  BY ArgumentKinds
<1> QED BY <1>1 DEF Ordering, Led, WithWords

LEMMA OrderingFlag ==
  ASSUME NEW s \in Seq(Arguments), NEW g \in 1..Len(s), NEW rest \in Orders, NEW after \in Orders,
         s[g] \in ValueFlags, g # Len(s)
  PROVE  Ordering(s, g, rest, after) = WithFlags(after, Led(s[g], Led(s[g + 1], after.flags)))
<1>1. s[g] # "--" /\ ~IsWord(s[g]) /\ g < Len(s)
  BY ArgumentKinds
<1>2. s[g] \in Arguments /\ s[g + 1] \in Arguments /\ after.flags \in Seq(Arguments)
  <2>1. g \in 1..Len(s) /\ g + 1 \in 1..Len(s)
    OBVIOUS
  <2>2. after.flags \in Seq(Arguments)
    BY OrdersKept
  <2>3. s[g] \in Arguments /\ s[g + 1] \in Arguments
    BY <2>1
  <2> QED BY <2>2, <2>3
<1>3. <<s[g], s[g + 1]>> \o after.flags = Led(s[g], Led(s[g + 1], after.flags))
  BY <1>2, LedPair
<1>4. Ordering(s, g, rest, after) = WithFlags(after, <<s[g], s[g + 1]>> \o after.flags)
  BY <1>1 DEF Ordering, WithFlags
<1> QED BY <1>3, <1>4

LEMMA OrderingOther ==
  ASSUME NEW s \in Seq(Arguments), NEW g \in 1..Len(s), NEW rest \in Orders, NEW after \in Orders,
         s[g] \in {"--check", "--bogus", "--source=d"} \/ (s[g] \in ValueFlags /\ g = Len(s))
  PROVE  Ordering(s, g, rest, after) = WithFlags(rest, Led(s[g], rest.flags))
<1>1. s[g] # "--" /\ ~IsWord(s[g]) /\ ~(s[g] \in ValueFlags /\ g < Len(s))
  BY ArgumentKinds
<1> QED BY <1>1 DEF Ordering, Led, WithFlags

LEMMA OrderingKept ==
  ASSUME NEW s \in Seq(Arguments), NEW g \in 1..Len(s), NEW rest \in Orders, NEW after \in Orders
  PROVE  Ordering(s, g, rest, after) \in Orders
<1>0. s[g] \in Arguments /\ (g # Len(s) => s[g + 1] \in Arguments)
  OBVIOUS
<1>1. CASE s[g] = "--"
  BY <1>1, OrderingEnd
<1>2. CASE IsWord(s[g])
  <2>1. rest.words \in Seq(Arguments)
    BY OrdersKept
  <2>2. Led(s[g], rest.words) \in Seq(Arguments)
    BY <1>0, <2>1, LedIs
  <2>3. WithWords(rest, Led(s[g], rest.words)) \in Orders
    BY <2>2, OrdersKept
  <2> QED BY <1>2, <2>3, OrderingWord
<1>3. CASE s[g] \in ValueFlags /\ g # Len(s)
  <2>1. after.flags \in Seq(Arguments)
    BY OrdersKept
  <2>2. Led(s[g + 1], after.flags) \in Seq(Arguments)
    BY <1>0, <1>3, <2>1, LedIs
  <2>3. Led(s[g], Led(s[g + 1], after.flags)) \in Seq(Arguments)
    BY <1>0, <2>2, LedIs
  <2>4. WithFlags(after, Led(s[g], Led(s[g + 1], after.flags))) \in Orders
    BY <2>3, OrdersKept
  <2> QED BY <1>3, <2>4, OrderingFlag
<1>4. CASE s[g] \in {"--check", "--bogus", "--source=d"} \/ (s[g] \in ValueFlags /\ g = Len(s))
  <2>1. rest.flags \in Seq(Arguments)
    BY OrdersKept
  <2>2. Led(s[g], rest.flags) \in Seq(Arguments)
    BY <1>0, <2>1, LedIs
  <2>3. WithFlags(rest, Led(s[g], rest.flags)) \in Orders
    BY <2>2, OrdersKept
  <2> QED BY <1>4, <2>3, OrderingOther
<1> QED BY <1>1, <1>2, <1>3, <1>4, ArgumentKinds

IsOrder(o, s) ==
  o = [g \in 1..(Len(s) + 2) |->
         IF g > Len(s) THEN NoOrder ELSE Ordering(s, g, o[g + 1], o[g + 2])]

OrderFrom(s) == CHOOSE o : IsOrder(o, s)

LEMMA OrderAt ==
  ASSUME NEW s \in Seq(Arguments)
  PROVE  /\ \A g \in 1..(Len(s) + 2) : OrderFrom(s)[g] \in Orders
         /\ OrderFrom(s)[Len(s) + 1] = NoOrder
         /\ OrderFrom(s)[Len(s) + 2] = NoOrder
         /\ \A g \in 1..Len(s) :
              OrderFrom(s)[g] = Ordering(s, g, OrderFrom(s)[g + 1], OrderFrom(s)[g + 2])
         /\ Ordered(s) = OrderFrom(s)[1]
<1> DEFINE n == Len(s)
           step == [p \in (1..n) \X (Orders \X Orders) |-> Ordering(s, p[1], p[2][1], p[2][2])]
<1>0. n \in Nat /\ NoOrder \in Orders
  BY OrdersKept
<1>1. step \in [(1..n) \X (Orders \X Orders) -> Orders]
  <2>1. ASSUME NEW p \in (1..n) \X (Orders \X Orders)
        PROVE  Ordering(s, p[1], p[2][1], p[2][2]) \in Orders
    <3>1. p[1] \in 1..Len(s) /\ p[2][1] \in Orders /\ p[2][2] \in Orders
      OBVIOUS
    <3> QED BY <3>1, OrderingKept
  <2> QED BY <2>1
<1>2. PICK out \in [1..(n + 2) -> Orders] : IsCountdown(out, n, NoOrder, step)
  <2> HIDE DEF step, n
  <2> QED BY <1>0, <1>1, CountdownExists
<1>3. ASSUME NEW g \in 1..(n + 2), ~(g > n)
      PROVE  out[g] = Ordering(s, g, out[g + 1], out[g + 2])
  <2>1. g \in 1..n /\ g + 1 \in 1..(n + 2) /\ g + 2 \in 1..(n + 2)
    BY <1>0, <1>3
  <2>2. <<g, <<out[g + 1], out[g + 2]>>>> \in (1..n) \X (Orders \X Orders)
    BY <2>1
  <2>3. out[g] = step[<<g, <<out[g + 1], out[g + 2]>>>>]
    BY <1>2, <1>3 DEF IsCountdown
  <2> QED BY <2>2, <2>3
<1>4. ASSUME NEW g \in 1..(n + 2), g > n PROVE out[g] = NoOrder
  BY <1>2, <1>4 DEF IsCountdown
<1>5. IsOrder(out, s)
  <2>1. out = [g \in 1..(n + 2) |-> out[g]]
    OBVIOUS
  <2> QED BY <1>3, <1>4, <2>1 DEF IsOrder
<1>6. IsOrder(OrderFrom(s), s)
  BY <1>5 DEF OrderFrom
<1> DEFINE o == OrderFrom(s)
<1> HIDE DEF o
<1>7. \A g \in 1..(n + 2) : o[g] = IF g > n THEN NoOrder ELSE Ordering(s, g, o[g + 1], o[g + 2])
  BY <1>6 DEF IsOrder, o
<1>8. n + 1 \in 1..(n + 2) /\ n + 2 \in 1..(n + 2) /\ n + 1 > n /\ n + 2 > n
  BY <1>0
<1>9. o[n + 1] = NoOrder /\ o[n + 2] = NoOrder
  <2> HIDE DEF n
  <2> QED BY <1>7, <1>8
<1>10. \A g \in 1..n : o[g] = Ordering(s, g, o[g + 1], o[g + 2])
  BY <1>7
<1>11. \A g \in 1..(n + 2) : o[g] \in Orders
  <2> DEFINE S == {g \in Nat : o[g] \in Orders}
  <2>1. n + 1 \in S /\ n + 2 \in S
    BY <1>0, <1>9
  <2>2. ASSUME NEW g \in 1..n, g + 1 \in S, g + 2 \in S PROVE g \in S
    <3>1. o[g] = Ordering(s, g, o[g + 1], o[g + 2])
      BY <1>10
    <3> QED BY <2>2, <3>1, OrderingKept
  <2>3. \A g \in 1..(n + 2) : g \in S
    <3> HIDE DEF S, n
    <3> QED BY <1>0, <2>1, <2>2, CountdownInduction
  <2> QED BY <2>3
<1>12. Ordered(s) = o[1]
  BY DEF Ordered, OrderFrom, IsOrder, NoOrder, o
<1> QED BY <1>9, <1>10, <1>11, <1>12 DEF o


\* What is read of words after these flags: a command line that begins with
\* words, or any when the flags end in "--".
Plain == {t \in Seq(Arguments) : t = <<>> \/ IsWord(t[1])}

Carried(f, said, w) ==
  \E G \in {Plain, Seq(Arguments)} :
    w \in G /\ \A t \in G : Parse(f \o t) = WithPaths(said, t)

LEMMA LedConcat ==
  ASSUME NEW a \in Arguments, NEW f \in Seq(Arguments), NEW t \in Seq(Arguments)
  PROVE  Led(a, f) \o t = Led(a, f \o t) /\ f \o t \in Seq(Arguments)
<1>1. <<a>> \in Seq(Arguments)
  OBVIOUS
<1>2. (<<a>> \o f) \o t = <<a>> \o (f \o t)
  BY <1>1, ConcatAssociative
<1>3. f \o t \in Seq(Arguments)
  OBVIOUS
<1> QED BY <1>2, <1>3 DEF Led

LEMMA PlainIs == Plain \subseteq Seq(Arguments) /\ <<>> \in Plain
BY DEF Plain

LEMMA CarriedNothing == Carried(<<>>, NoOpts, <<>>)
<1>1. ASSUME NEW t \in Plain PROVE Parse(<<>> \o t) = WithPaths(NoOpts, t)
  <2>1. t \in Seq(Arguments) /\ (t = <<>> \/ IsWord(t[1]))
    BY DEF Plain
  <2>2. <<>> \o t = t
    BY <2>1
  <2>3. WithPaths(NoOpts, <<>>) = NoOpts
    <3>1. \A o \in Options : WithPaths(o, o.paths) = o
      BY DEF WithPaths, Options
    <3>2. NoOpts \in Options /\ NoOpts.paths = <<>>
      BY OptionsKept DEF NoOpts
    <3> QED BY <3>1, <3>2
  <2>4. CASE t = <<>>
    BY <2>1, <2>2, <2>3, <2>4, ParseOf
  <2>5. CASE t # <<>>
    BY <2>1, <2>2, <2>5, ParseOf
  <2> QED BY <2>4, <2>5
<1> QED BY <1>1, PlainIs DEF Carried

LEMMA CarriedEnd ==
  ASSUME NEW w \in Seq(Arguments), "--" \in Arguments
  PROVE  Carried(<<"--">>, WithPaths(NoOpts, w), w)
<1>1. ASSUME NEW t \in Seq(Arguments)
      PROVE  Parse(<<"--">> \o t) = WithPaths(WithPaths(NoOpts, w), t)
  <2>1. <<"--">> \o t = Led("--", t)
    BY DEF Led
  <2>2. Parse(Led("--", t)) = WithPaths(NoOpts, t)
    BY ParseCons
  <2>3. WithPaths(WithPaths(NoOpts, w), t) = WithPaths(NoOpts, t)
    BY DEF WithPaths, NoOpts
  <2> QED BY <2>1, <2>2, <2>3
<1> QED BY <1>1 DEF Carried

LEMMA WithBoth ==
  ASSUME NEW o \in Options, NEW t \in Seq(Arguments)
  PROVE  /\ WithCheck(WithPaths(o, t)) = WithPaths(WithCheck(o), t)
         /\ \A f \in ValueFlags, v \in Arguments :
              Set(WithPaths(o, t), f, v) = WithPaths(Set(o, f, v), t)
         /\ \A w \in Seq(Arguments) : WithPaths(WithPaths(o, w), t) = WithPaths(o, t)
         /\ WithPaths(o, t) # Bad
<1>1. WithCheck(WithPaths(o, t)) = WithPaths(WithCheck(o), t)
  BY DEF WithCheck, WithPaths, Options
<1>2. WithPaths(o, t) \in Options /\ o # Bad /\ WithPaths(o, t) # Bad
  BY OptionsKept, StartupAssumption
<1>3. ASSUME NEW f \in ValueFlags, NEW v \in Arguments
      PROVE  Set(WithPaths(o, t), f, v) = WithPaths(Set(o, f, v), t)
  <2>1. Set(o, f, v) = [o EXCEPT !.value[f] = IF @ = Unset THEN v ELSE @]
    BY <1>2 DEF Set
  <2>2. Set(WithPaths(o, t), f, v) = [WithPaths(o, t) EXCEPT !.value[f] = IF @ = Unset THEN v ELSE @]
    BY <1>2 DEF Set
  <2> QED BY <2>1, <2>2 DEF WithPaths, Options
<1>4. \A w \in Seq(Arguments) : WithPaths(WithPaths(o, w), t) = WithPaths(o, t)
  BY DEF WithPaths, Options
<1> QED BY <1>1, <1>2, <1>3, <1>4

LEMMA CarriedFlags ==
  ASSUME NEW f \in Seq(Arguments), NEW o \in Options, NEW w \in Seq(Arguments), Carried(f, o, w),
         NEW a \in Arguments
  PROVE  /\ a = "--check" => Carried(Led(a, f), WithCheck(o), w)
         /\ a = "--source=d" => Carried(Led(a, f), Set(o, "--source", "d"), w)
         /\ \A b \in Arguments : b \in ValueFlags => Carried(Led(b, Led(a, f)), Set(o, b, a), w)
<1>1. PICK G \in {Plain, Seq(Arguments)} :
        w \in G /\ \A t \in G : Parse(f \o t) = WithPaths(o, t)
  BY DEF Carried
<1>2. ASSUME NEW t \in G
      PROVE  t \in Seq(Arguments) /\ f \o t \in Seq(Arguments) /\ Led(a, f) \o t = Led(a, f \o t)
  <2>1. t \in Seq(Arguments)
    BY <1>1, PlainIs
  <2> QED BY <2>1, LedConcat
<1>3. ASSUME a = "--check" PROVE Carried(Led(a, f), WithCheck(o), w)
  <2>1. ASSUME NEW t \in G PROVE Parse(Led(a, f) \o t) = WithPaths(WithCheck(o), t)
    <3>1. Parse(f \o t) = WithPaths(o, t) /\ WithPaths(o, t) # Bad
      BY <1>1, <1>2, WithBoth
    <3>2. Parse(Led(a, f \o t)) = IF Parse(f \o t) = Bad THEN Bad ELSE WithCheck(Parse(f \o t))
      BY <1>2, <1>3, ParseCons
    <3>3. WithCheck(WithPaths(o, t)) = WithPaths(WithCheck(o), t)
      BY <1>2, WithBoth
    <3> QED BY <1>2, <3>1, <3>2, <3>3
  <2> QED BY <1>1, <2>1 DEF Carried
<1>4. ASSUME a = "--source=d" PROVE Carried(Led(a, f), Set(o, "--source", "d"), w)
  <2>1. ASSUME NEW t \in G PROVE Parse(Led(a, f) \o t) = WithPaths(Set(o, "--source", "d"), t)
    <3>1. Parse(Led(a, f \o t)) = Set(Parse(f \o t), "--source", "d")
      BY <1>2, <1>4, ParseCons
    <3>2. "--source" \in ValueFlags /\ "d" \in Arguments
      BY ArgumentKinds DEF Arguments
    <3>3. Set(WithPaths(o, t), "--source", "d") = WithPaths(Set(o, "--source", "d"), t)
      BY <1>2, <3>2, WithBoth
    <3> QED BY <1>1, <1>2, <3>1, <3>3
  <2> QED BY <1>1, <2>1 DEF Carried
<1>5. ASSUME NEW b \in Arguments, b \in ValueFlags PROVE Carried(Led(b, Led(a, f)), Set(o, b, a), w)
  <2>1. ASSUME NEW t \in G PROVE Parse(Led(b, Led(a, f)) \o t) = WithPaths(Set(o, b, a), t)
    <3>1. Led(a, f) \in Seq(Arguments)
      BY LedIs
    <3>2. Led(b, Led(a, f)) \o t = Led(b, Led(a, f) \o t)
      BY <1>2, <3>1, LedConcat
    <3>3. Led(b, Led(a, f)) \o t = Led(b, Led(a, f \o t))
      BY <1>2, <3>2
    <3>4. Parse(Led(b, Led(a, f \o t))) = Set(Parse(f \o t), b, a)
      BY <1>2, <1>5, ParseFlag
    <3>5. Set(WithPaths(o, t), b, a) = WithPaths(Set(o, b, a), t)
      BY <1>2, <1>5, WithBoth
    <3> QED BY <1>1, <3>3, <3>4, <3>5
  <2> QED BY <1>1, <2>1 DEF Carried
<1> QED BY <1>3, <1>4, <1>5

LEMMA CarriedWord ==
  ASSUME NEW f \in Seq(Arguments), NEW o \in Options, NEW w \in Seq(Arguments), Carried(f, o, w),
         NEW a \in Arguments, IsWord(a), NEW u \in Seq(Arguments)
  PROVE  Carried(f, WithPaths(o, u), Led(a, w))
<1>1. PICK G \in {Plain, Seq(Arguments)} :
        w \in G /\ \A t \in G : Parse(f \o t) = WithPaths(o, t)
  BY DEF Carried
<1>2. Led(a, w) \in Seq(Arguments) /\ Led(a, w)[1] = a
  BY LedIs
<1>3. Led(a, w) \in Plain
  BY <1>2 DEF Plain
<1>4. Led(a, w) \in G
  BY <1>1, <1>2, <1>3
<1>5. ASSUME NEW t \in G PROVE Parse(f \o t) = WithPaths(WithPaths(o, u), t)
  <2>1. t \in Seq(Arguments)
    BY <1>1, PlainIs
  <2>2. WithPaths(WithPaths(o, u), t) = WithPaths(o, t)
    BY <2>1, WithBoth
  <2> QED BY <1>1, <2>2
<1> QED BY <1>1, <1>4, <1>5 DEF Carried


Says(b) == b

Tells(said, order) ==
  said.paths = order.words /\ Carried(order.flags, said, order.words)

LEMMA OneMoreWord ==
  ASSUME NEW s \in Seq(Arguments), NEW mixed \in BOOLEAN, Says(mixed), NEW g \in 1..Len(s),
         NEW A \in Said, NEW B \in Said, NEW O \in Orders, NEW P \in Orders,
         A # Bad => Tells(A, O), B # Bad => Tells(B, P),
         NEW R, NEW Q,
         R = Reading(s, mixed, g, A, B), Q = Ordering(s, g, O, P), R # Bad
  PROVE  Tells(R, Q)
<1> DEFINE a == s[g]
           b == s[g + 1]
<1>2. /\ g \in Nat /\ g + 1 \in 1..(Len(s) + 1)
      /\ a \in Arguments /\ (g # Len(s) => b \in Arguments)
      /\ s[g] = a /\ s[g + 1] = b
  OBVIOUS
<1>4. /\ O.flags \in Seq(Arguments) /\ O.words \in Seq(Arguments)
      /\ P.flags \in Seq(Arguments) /\ P.words \in Seq(Arguments)
  BY OrdersKept
<1>5. A # Bad => /\ A \in Options /\ A.paths = O.words /\ Carried(O.flags, A, O.words)
  BY DEF Said, Tells
<1>6. B # Bad => /\ B \in Options /\ B.paths = P.words
                        /\ Carried(P.flags, B, P.words)
  BY DEF Said, Tells
<1> HIDE DEF a, b
<1>7. /\ \A q \in Options, w \in Seq(Arguments) : WithPaths(q, w).paths = w
      /\ \A q \in Options : WithCheck(q).paths = q.paths
      /\ \A q \in Options, f \in ValueFlags : \A v : q # Bad => Set(q, f, v).paths = q.paths
  <2>1. \A q \in Options, w \in Seq(Arguments) : WithPaths(q, w).paths = w
    BY DEF Options, WithPaths
  <2>2. \A q \in Options : WithCheck(q).paths = q.paths
    BY DEF Options, WithCheck
  <2>3. ASSUME NEW q \in Options, NEW f \in ValueFlags, NEW v, q # Bad
        PROVE  Set(q, f, v).paths = q.paths
    BY <2>3 DEF Options, Set
  <2> QED BY <2>1, <2>2, <2>3
<1>8. CASE a = "--"
  <2> DEFINE w == From(s, g + 1)
  <2>1. w \in Seq(Arguments) /\ NoOpts \in Options
    BY <1>2, FromIs, OptionsKept
  <2>2. R = WithPaths(NoOpts, w)
    BY <1>2, <1>8, ReadingEnd
  <2>3. Q.flags = <<"--">> /\ Q.words = w
    BY <1>2, <1>8, OrderingEnd
  <2> HIDE DEF w
  <2>4. Carried(<<"--">>, WithPaths(NoOpts, w), w)
    BY <1>2, <1>8, <2>1, CarriedEnd
  <2> QED BY <1>7, <2>1, <2>2, <2>3, <2>4 DEF Tells
<1>9. CASE a = "--check"
  <2>1. A # Bad /\ R = WithCheck(A)
    BY <1>2, <1>9, ReadingCheck
  <2>2. Q = WithFlags(O, Led(a, O.flags))
    BY <1>2, <1>9, OrderingOther
  <2>3. Led(a, O.flags) \in Seq(Arguments)
    BY <1>2, <1>4, LedIs
  <2>4. Q.flags = Led(a, O.flags) /\ Q.words = O.words
    <3>1. WithFlags(O, Led(a, O.flags)).flags = Led(a, O.flags) /\ WithFlags(O, Led(a, O.flags)).words = O.words
      BY <2>2, <2>3, OrdersKept
    <3> QED BY <2>2, <3>1
  <2>5. Carried(Led(a, O.flags), WithCheck(A), O.words)
    BY <1>2, <1>4, <1>5, <1>9, <2>1, CarriedFlags
  <2> QED BY <1>5, <1>7, <2>1, <2>4, <2>5 DEF Tells
<1>10. CASE a = "--bogus"
  BY <1>2, <1>10, ReadingBogus
<1>11. CASE a = "--source=d"
  <2>0. "--source" \in ValueFlags
    BY ArgumentKinds
  <2>1. A # Bad /\ R = Set(A, "--source", "d")
    <3>1. R = Set(A, "--source", "d")
      BY <1>2, <1>11, ReadingJoined
    <3> QED BY <3>1 DEF Set
  <2>2. Q = WithFlags(O, Led(a, O.flags))
    BY <1>2, <1>11, OrderingOther
  <2>3. Led(a, O.flags) \in Seq(Arguments)
    BY <1>2, <1>4, LedIs
  <2>4. Q.flags = Led(a, O.flags) /\ Q.words = O.words
    <3>1. WithFlags(O, Led(a, O.flags)).flags = Led(a, O.flags) /\ WithFlags(O, Led(a, O.flags)).words = O.words
      BY <2>2, <2>3, OrdersKept
    <3> QED BY <2>2, <3>1
  <2>5. Carried(Led(a, O.flags), Set(A, "--source", "d"), O.words)
    BY <1>2, <1>4, <1>5, <1>11, <2>1, CarriedFlags
  <2> QED BY <1>5, <1>7, <2>0, <2>1, <2>4, <2>5 DEF Tells
<1>12. CASE a \in ValueFlags
  <2>1. R = IF g = Len(s) THEN Bad ELSE Set(B, a, b)
    BY <1>2, <1>12, ReadingFlag
  <2>2. g # Len(s) /\ R = Set(B, a, b)
    BY <2>1
  <2>3. B # Bad
    BY <2>2 DEF Set
  <2>4. Q = WithFlags(P, Led(a, Led(b, P.flags)))
    BY <1>2, <1>12, <2>2, OrderingFlag
  <2>5. Led(a, Led(b, P.flags)) \in Seq(Arguments)
    <3>1. Led(b, P.flags) \in Seq(Arguments)
      BY <1>2, <1>4, <2>2, LedIs
    <3> QED BY <1>2, <3>1, LedIs
  <2>6. Q.flags = Led(a, Led(b, P.flags)) /\ Q.words = P.words
    <3>1. WithFlags(P, Led(a, Led(b, P.flags))).flags = Led(a, Led(b, P.flags)) /\ WithFlags(P, Led(a, Led(b, P.flags))).words = P.words
      BY <2>4, <2>5, OrdersKept
    <3> QED BY <2>4, <3>1
  <2>7. Carried(Led(a, Led(b, P.flags)), Set(B, a, b), P.words)
    <3>1. b \in Arguments /\ a \in Arguments
      BY <1>2, <2>2
    <3> QED BY <1>4, <1>6, <1>12, <2>3, <3>1, CarriedFlags
  <2> QED BY <1>6, <1>7, <1>12, <2>2, <2>3, <2>6, <2>7 DEF Tells
<1>13. CASE IsWord(a)
  <2>1. A # Bad /\ R = WithPaths(A, Led(a, A.paths))
    <3>1. R = IF ~mixed THEN WithPaths(NoOpts, From(s, g))
                 ELSE IF A = Bad THEN Bad ELSE WithPaths(A, Led(a, A.paths))
      BY <1>2, <1>13, ReadingWord
    <3> QED BY <3>1 DEF Says
  <2>2. Q = WithWords(O, Led(a, O.words))
    BY <1>2, <1>13, OrderingWord
  <2>3. Led(a, O.words) \in Seq(Arguments)
    BY <1>2, <1>4, LedIs
  <2>4. Q.flags = O.flags /\ Q.words = Led(a, O.words)
    <3>1. WithWords(O, Led(a, O.words)).flags = O.flags /\ WithWords(O, Led(a, O.words)).words = Led(a, O.words)
      BY <2>2, <2>3, OrdersKept
    <3> QED BY <2>2, <3>1
  <2>5. Carried(O.flags, WithPaths(A, Led(a, O.words)), Led(a, O.words))
    BY <1>2, <1>4, <1>5, <1>13, <2>1, <2>3, CarriedWord
  <2> QED BY <1>5, <1>7, <2>1, <2>3, <2>4, <2>5 DEF Tells
<1> QED BY <1>8, <1>9, <1>10, <1>11, <1>12, <1>13, ArgumentKinds

\* Once the flags stand first flag.Parse reads what the arguments say, with
\* words and flags mixed, if they say anything right.
LEMMA ReorderedReads ==
  ASSUME NEW s \in Seq(Arguments), NEW mixed \in BOOLEAN, Says(mixed), ReadFrom(s, mixed)[1] # Bad
  PROVE  /\ Parse(ReorderArgs(s)) = ReadFrom(s, mixed)[1]
         /\ ReadFrom(s, mixed)[1] \in Options
<1> DEFINE r == ReadFrom(s, mixed)
           o == OrderFrom(s)
           n == Len(s)
           Good(g) == Tells(r[g], o[g])
           S == {g \in Nat : r[g] # Bad => Good(g)}
<1>0. n \in Nat
  OBVIOUS
<1>1. /\ \A g \in 1..(n + 2) : r[g] \in Said
      /\ r[n + 1] = NoOpts /\ r[n + 2] = NoOpts
      /\ \A g \in 1..n : r[g] = Reading(s, mixed, g, r[g + 1], r[g + 2])
  BY ReadAt
<1>2. /\ \A g \in 1..(n + 2) : o[g] \in Orders
      /\ o[n + 1] = NoOrder /\ o[n + 2] = NoOrder
      /\ \A g \in 1..n : o[g] = Ordering(s, g, o[g + 1], o[g + 2])
      /\ Ordered(s) = o[1]
  BY OrderAt
<1> HIDE DEF r, o
<1>3. n + 1 \in S /\ n + 2 \in S
  <2>1. Tells(NoOpts, NoOrder)
    <3>1. NoOpts.paths = <<>>
      BY DEF NoOpts
    <3> QED BY <3>1, CarriedNothing, OrdersKept DEF Tells
  <2> HIDE DEF n
  <2> QED BY <1>0, <1>1, <1>2, <2>1
<1>4. ASSUME NEW g \in 1..n, g + 1 \in S, g + 2 \in S, r[g] # Bad PROVE Good(g)
  <2>1. /\ r[g] = Reading(s, mixed, g, r[g + 1], r[g + 2])
        /\ o[g] = Ordering(s, g, o[g + 1], o[g + 2])
    BY <1>1, <1>2
  <2>2. g \in 1..Len(s) /\ g + 1 \in 1..(n + 2) /\ g + 2 \in 1..(n + 2)
    OBVIOUS
  <2>3. o[g + 1] \in Orders /\ o[g + 2] \in Orders /\ r[g + 1] \in Said /\ r[g + 2] \in Said
    BY <1>1, <1>2, <2>2
  <2>4. (r[g + 1] # Bad => Good(g + 1)) /\ (r[g + 2] # Bad => Good(g + 2)) /\ r[g] # Bad
    BY <1>4
  <2> QED BY <2>1, <2>2, <2>3, <2>4, OneMoreWord
<1>5. \A g \in 1..(n + 2) : g \in S
  <2>1. ASSUME NEW g \in 1..n, g + 1 \in S, g + 2 \in S PROVE g \in S
    BY <1>4, <2>1
  <2> HIDE DEF S, n
  <2> QED BY <1>0, <1>3, <2>1, CountdownInduction
<1>6. r[1] # Bad
  BY DEF r
<1>7. 1 \in 1..(n + 2)
  OBVIOUS
<1>8. r[1] \in Options /\ Good(1)
  BY <1>1, <1>5, <1>6, <1>7 DEF Said
<1>9. o[1].words \in Seq(Arguments)
  BY <1>2, <1>7, OrdersKept
<1>10. Parse(o[1].flags \o o[1].words) = WithPaths(r[1], o[1].words)
  BY <1>8 DEF Carried, Tells
<1>11. WithPaths(r[1], r[1].paths) = r[1]
  BY <1>8 DEF WithPaths, Options
<1> QED BY <1>2, <1>8, <1>10, <1>11 DEF ReorderArgs, r, Tells

LEMMA ReorderReads ==
  ASSUME NEW s \in Seq(Arguments), Read(s, TRUE) # Bad
  PROVE  Parse(ReorderArgs(s)) = Read(s, TRUE) /\ Read(s, TRUE) \in Options
<1> PICK mixed \in BOOLEAN : mixed
  OBVIOUS
<1>1. Read(s, TRUE) = ReadFrom(s, mixed)[1] /\ Says(mixed)
  <2>1. mixed = TRUE
    OBVIOUS
  <2> QED BY <2>1, ReadIs DEF Says
<1> QED BY <1>1, ReorderedReads


LEMMA ParseSaid ==
  ASSUME NEW s \in Seq(Arguments), Parse(ReorderArgs(s)) # Bad
  PROVE  Parse(ReorderArgs(s)) \in Options
<1>1. Ordered(s) \in Orders
  <2>1. 1 \in 1..(Len(s) + 2)
    OBVIOUS
  <2> QED BY <2>1, OrderAt
<1>2. ReorderArgs(s) \in Seq(Arguments)
  <2>1. Ordered(s).flags \in Seq(Arguments) /\ Ordered(s).words \in Seq(Arguments)
    BY <1>1, OrdersKept
  <2> QED BY <2>1, LedConcat DEF ReorderArgs
<1>3. Parse(ReorderArgs(s)) \in Said
  BY <1>2, ParseOf
<1> QED BY <1>3 DEF Said

------------------------------------------------------------------------------
(***************************************************************************)
(* Startup: from the configuration to the source.                          *)
(***************************************************************************)

\* Defaults change no key that is set, and no type.
LEMMA DefaultsKeep ==
  ASSUME NEW n, NEW sc, DOMAIN sc = Keys
  PROVE  /\ DOMAIN ApplyTypeDefaults(n, sc) = Keys
         /\ ApplyTypeDefaults(n, sc).type = sc.type
         /\ \A key \in KeysSet(sc) : /\ ApplyTypeDefaults(n, sc)[key] = sc[key]
                                     /\ key \in KeysSet(ApplyTypeDefaults(n, sc))
<1> DEFINE ad == ApplyTypeDefaults(n, sc)
<1>1. DOMAIN ad = Keys /\ ad.type = sc.type
  <2>1. CASE sc.type = "axiom" /\ "axiom" \in Registered
    <3>1. ad = [sc EXCEPT !.dataset = Given(@, n), !.routes = GivenList(@, DefaultRoutes),
                          !.keys = GivenList(@, {"_time"})]
      BY <2>1 DEF ApplyTypeDefaults
    <3> HIDE DEF ad
    <3> QED BY <3>1 DEF Keys
  <2>2. CASE sc.type = "jsonl"
    <3>1. ad = [sc EXCEPT !.limits = Given(@, "default"), !.keys = GivenList(@, {"timestamp"}),
                          !.costGroup = Given(@, sc.group)]
      BY <2>2 DEF ApplyTypeDefaults
    <3> HIDE DEF ad
    <3> QED BY <3>1 DEF Keys
  <2>3. CASE sc.type = "pi"
    <3>1. ad = [sc EXCEPT !.limits = Given(@, "default"), !.hide = GivenList(@, {"debug"}),
                          !.paths = IF @ \in {Unset, {}} THEN {"sessions"} ELSE @]
      BY <2>3 DEF ApplyTypeDefaults
    <3> HIDE DEF ad
    <3> QED BY <3>1 DEF Keys
  <2>4. CASE ~(sc.type = "axiom" /\ "axiom" \in Registered) /\ sc.type # "jsonl" /\ sc.type # "pi"
    BY <2>4 DEF ApplyTypeDefaults
  <2> QED BY <2>1, <2>2, <2>3, <2>4
<1>2. ASSUME NEW key \in KeysSet(sc) PROVE ad[key] = sc[key]
  <2>0. /\ key \in Keys /\ sc[key] # Unset
        /\ ~(sc.type = "pi" /\ key = "paths" /\ sc[key] = {})
    BY DEF KeysSet
  <2>1. CASE sc.type = "axiom" /\ "axiom" \in Registered
    <3>1. ad = [sc EXCEPT !.dataset = Given(@, n), !.routes = GivenList(@, DefaultRoutes),
                          !.keys = GivenList(@, {"_time"})]
      BY <2>1 DEF ApplyTypeDefaults
    <3> HIDE DEF ad
    <3> QED BY <2>0, <3>1 DEF Given, GivenList
  <2>2. CASE sc.type = "jsonl"
    <3>1. ad = [sc EXCEPT !.limits = Given(@, "default"), !.keys = GivenList(@, {"timestamp"}),
                          !.costGroup = Given(@, sc.group)]
      BY <2>2 DEF ApplyTypeDefaults
    <3> HIDE DEF ad
    <3> QED BY <2>0, <3>1 DEF Given, GivenList
  <2>3. CASE sc.type = "pi"
    <3>1. ad = [sc EXCEPT !.limits = Given(@, "default"), !.hide = GivenList(@, {"debug"}),
                          !.paths = IF @ \in {Unset, {}} THEN {"sessions"} ELSE @]
      BY <2>3 DEF ApplyTypeDefaults
    <3> HIDE DEF ad
    <3> QED BY <2>0, <2>3, <3>1 DEF Given, GivenList
  <2>4. CASE ~(sc.type = "axiom" /\ "axiom" \in Registered) /\ sc.type # "jsonl" /\ sc.type # "pi"
    BY <2>4 DEF ApplyTypeDefaults
  <2> QED BY <2>1, <2>2, <2>3, <2>4
<1> HIDE DEF ad
<1>3. \A key \in KeysSet(sc) : key \in KeysSet(ad)
  BY <1>1, <1>2 DEF KeysSet
<1> QED BY <1>1, <1>2, <1>3 DEF ad

LEMMA NormaliseIs ==
  ASSUME NEW c, Normalise(c) # Bad, \A n \in DOMAIN c.sources : DOMAIN c.sources[n] = Keys
  PROVE  /\ DOMAIN c.sources \subseteq DOMAIN Normalise(c).sources
         /\ \A n \in DOMAIN c.sources :
              Normalise(c).sources[n] = ApplyTypeDefaults(n, c.sources[n])
         /\ \A n \in DOMAIN Normalise(c).sources :
              Valid(Normalise(c).sources[n]) /\ DOMAIN Normalise(c).sources[n] = Keys
         /\ Normalise(c).defaultDataset = c.defaultDataset
         /\ "pi" \in DOMAIN Normalise(c).sources
         /\ {"sources", "builtin", "defaultDataset"} \subseteq DOMAIN Normalise(c)
<1> DEFINE builtin == {"pi"} \ (DOMAIN c.sources \cup DOMAIN c.datasets)
           legacy  == [n \in DOMAIN c.datasets |-> LegacyToSource(n, c.datasets[n])]
           all     == Overlaid(Overlaid(c.sources, legacy), [n \in builtin |-> Unconfigured("pi")])
           sources == [n \in DOMAIN all |-> ApplyTypeDefaults(n, all[n])]
           wrong   == \/ c.negative
                      \/ DOMAIN c.sources \cap DOMAIN c.datasets # {}
                      \/ \E n \in DOMAIN sources : ~Valid(sources[n])
           result  == [defaultSource |-> c.defaultSource, defaultDataset |-> c.defaultDataset,
                       sources |-> sources, builtin |-> builtin]
<1>1. Normalise(c) = IF wrong THEN Bad ELSE result
  BY DEF Normalise
<1>2. /\ "pi" \in DOMAIN all /\ DOMAIN c.sources \subseteq DOMAIN all
      /\ \A n \in DOMAIN c.sources : all[n] = c.sources[n]
  BY DEF Overlaid
<1>3. /\ result.sources = sources /\ result.defaultDataset = c.defaultDataset
      /\ {"sources", "builtin", "defaultDataset"} \subseteq DOMAIN result
  OBVIOUS
<1>7. ASSUME NEW n \in DOMAIN all PROVE DOMAIN all[n] = Keys
  <2>1. CASE n \in DOMAIN c.sources
    BY <1>2, <2>1
  <2>2. CASE n \notin DOMAIN c.sources /\ n \in DOMAIN c.datasets
    <3>1. all[n] = LegacyToSource(n, c.datasets[n])
      BY <2>2 DEF Overlaid
    <3>2. DOMAIN LegacyToSource(n, c.datasets[n]) = Keys
      BY DEF LegacyToSource, LegacyAxiom, Unconfigured, Keys
    <3> QED BY <3>1, <3>2
  <2>3. CASE n \notin DOMAIN c.sources /\ n \notin DOMAIN c.datasets
    <3>1. all[n] = Unconfigured("pi")
      BY <2>3 DEF Overlaid
    <3>2. DOMAIN Unconfigured("pi") = Keys
      BY DEF Unconfigured, Keys
    <3> QED BY <3>1, <3>2
  <2> QED BY <2>1, <2>2, <2>3
<1> HIDE DEF all, builtin
<1>8. \A n \in DOMAIN all : DOMAIN ApplyTypeDefaults(n, all[n]) = Keys
  BY <1>7, DefaultsKeep
<1>4. /\ DOMAIN sources = DOMAIN all
      /\ \A n \in DOMAIN all : sources[n] = ApplyTypeDefaults(n, all[n])
  OBVIOUS
<1>5. ~wrong => \A n \in DOMAIN sources : Valid(sources[n])
  OBVIOUS
<1> HIDE DEF sources, wrong, result
<1>6. ~wrong /\ Normalise(c) = result
  BY <1>1
<1> QED BY <1>2, <1>3, <1>4, <1>5, <1>6, <1>8

------------------------------------------------------------------------------
AfterArgs == {"env", "config", "resolve", "open", "check", "running"}

\* The source n, as sc, is the one that the command line asks for.
AskedFor(n, sc) ==
  IF opts.value["--dataset"] # Unset THEN n = opts.value["--dataset"] /\ sc.type = "axiom"
  ELSE IF opts.value["--source"] # Unset THEN n = opts.value["--source"]
  ELSE opts.paths # <<>> => /\ sc.type = "jsonl"
                            /\ sc.paths = {opts.paths[g] : g \in DOMAIN opts.paths}

LaunchKnown == phase # "idle" => world \in Launches

Understood == phase \in AfterArgs => opts \in Options /\ (Asked # Bad => opts = Asked)

Loaded ==
  phase = "resolve" =>
    /\ ConfigText # Bad /\ Normalise(ConfigText) # Bad
    /\ cfg = Normalise(ConfigText)

ChosenAsAsked == phase = "open" => AskedFor(name, cfg.sources[name])

OthersValid ==
  /\ phase = "open" => \A n \in DOMAIN cfg.sources \ {name} : Valid(cfg.sources[n])
  /\ phase \in {"check", "running"} => \A n \in DOMAIN cfg.sources : Valid(cfg.sources[n])

SourcesKeyed == phase = "open" => \A n \in DOMAIN cfg.sources : DOMAIN cfg.sources[n] = Keys

OpenedAsAsked == phase \in {"check", "running"} => \E o \in opened : AskedFor(o[1], o[2])

ConfigKept ==
  phase \in {"open", "check", "running"} =>
    \A n \in DOMAIN Configured :
      DOMAIN Configured[n] = Keys /\ cfg.sources[n] = ApplyTypeDefaults(n, Configured[n])

OpenedOnce ==
  /\ opened # {} => phase \in {"check", "running", "done", "failed"}
  /\ \A o \in opened : o[2] = AsOpened(o[1])

StartupInv ==
  LaunchKnown /\ Understood /\ Loaded /\ ChosenAsAsked /\ OthersValid /\ SourcesKeyed
  /\ OpenedAsAsked /\ ConfigKept /\ OpenedOnce

LEMMA StartupBegins == StartupInit => StartupInv
BY DEF StartupInit, StartupInv, LaunchKnown, Understood, Loaded, ChosenAsAsked, OthersValid, SourcesKeyed,
       OpenedAsAsked, ConfigKept, OpenedOnce, AfterArgs

LEMMA FailKeeps == ASSUME StartupInv, Fail, phase # "idle" PROVE StartupInv'
<1>1. phase' = "failed" /\ world' = world /\ cfg' = cfg /\ opened' = opened
  BY DEF Fail
<1>2. OpenedOnce'
  BY <1>1 DEF StartupInv, OpenedOnce, AsOpened, ApplyTypeDefaults
<1>3. LaunchKnown'
  BY <1>1 DEF StartupInv, LaunchKnown
<1> QED BY <1>1, <1>2, <1>3 DEF StartupInv, Understood, Loaded, ChosenAsAsked, OthersValid, SourcesKeyed,
             OpenedAsAsked, ConfigKept, AfterArgs

LEMMA ConfigTextIs ==
  ASSUME world \in Launches, ConfigText # Bad
  PROVE  \A n \in DOMAIN ConfigText.sources : DOMAIN ConfigText.sources[n] = Keys
<1> DEFINE asked == opts.value["--config"]
           At(path) == IF path \in DOMAIN world.configs THEN world.configs[path] ELSE Missing
           found == IF asked # Unset THEN At(asked)
                    ELSE IF At("ours") # Missing THEN At("ours") ELSE At("old")
<1>1. ConfigText = IF found = Missing THEN NoConfig ELSE found
  BY DEF ConfigText
<1>2. \E path : found = At(path)
  OBVIOUS
<1>3. CASE found = Missing
  <2>1. ConfigText = NoConfig
    BY <1>1, <1>3
  <2> QED BY <2>1 DEF NoConfig, Nothing
<1>4. CASE found # Missing
  <2>1. PICK path : found = At(path)
    BY <1>2
  <2> HIDE DEF found
  <2>2. path \in DOMAIN world.configs /\ found = world.configs[path]
    BY <1>4, <2>1
  <2>3. found \notin {Missing, Bad} /\ ConfigText = found
    BY <1>1, <1>4
  <2> QED BY <2>2, <2>3, StartupAssumption
<1> QED BY <1>3, <1>4

LEMMA LaunchKeeps == ASSUME StartupInv, Launch PROVE StartupInv'
<1>1. phase = "idle" /\ phase' = "args" /\ world' \in Launches /\ opened' = opened
  BY DEF Launch
<1>2. opened' = {}
  BY <1>1 DEF StartupInv, OpenedOnce
<1>3. OpenedOnce'
  BY <1>2 DEF OpenedOnce
<1> QED BY <1>1, <1>3 DEF StartupInv, LaunchKnown, Understood, Loaded, ChosenAsAsked, OthersValid, SourcesKeyed,
             OpenedAsAsked, ConfigKept, AfterArgs

LEMMA ParseArgsKeeps == ASSUME StartupInv, ParseArgs PROVE StartupInv'
<1>1. phase = "args" /\ world \in Launches /\ opened = {}
  BY DEF ParseArgs, StartupInv, LaunchKnown, OpenedOnce
<1>2. world.args \in Seq(Arguments)
  BY <1>1, StartupAssumption
<1> DEFINE got == Parse(ReorderArgs(world.args))
<1>3. CASE got = Bad
  <2>1. Fail
    BY <1>3 DEF ParseArgs
  <2> QED BY <1>1, <2>1, FailKeeps
<1>4. CASE got # Bad
  <2>1. opts' = got /\ phase' = "env" /\ world' = world /\ opened' = opened
    BY <1>4 DEF ParseArgs
  <2>2. got \in Options
    BY <1>2, <1>4, ParseSaid
  <2>3. Asked # Bad => Asked = got
    BY <1>2, ReorderReads DEF Asked
  <2>4. Asked' = Asked
    BY <2>1 DEF Asked
  <2> HIDE DEF got
  <2>5. Understood'
    BY <2>1, <2>2, <2>3, <2>4 DEF Understood
  <2>6. OpenedOnce'
    BY <1>1, <2>1 DEF OpenedOnce
  <2> QED BY <1>1, <2>1, <2>5, <2>6
           DEF StartupInv, LaunchKnown, Loaded, ChosenAsAsked, OthersValid, SourcesKeyed, OpenedAsAsked, ConfigKept
<1> QED BY <1>3, <1>4

LEMMA LoadEnvFileKeeps == ASSUME StartupInv, LoadEnvFile PROVE StartupInv'
<1>1. phase = "env" /\ world \in Launches /\ opened = {}
  BY DEF LoadEnvFile, StartupInv, LaunchKnown, OpenedOnce
<1>2. /\ phase' \in {"config", "failed"}
      /\ world' = world /\ opts' = opts /\ cfg' = cfg /\ name' = name /\ opened' = opened
  BY DEF LoadEnvFile
<1>3. Asked' = Asked
  BY <1>2 DEF Asked
<1>4. Understood'
  BY <1>1, <1>2, <1>3 DEF StartupInv, Understood, AfterArgs
<1>5. OpenedOnce'
  BY <1>1, <1>2 DEF OpenedOnce
<1> QED BY <1>1, <1>2, <1>4, <1>5
         DEF StartupInv, LaunchKnown, Loaded, ChosenAsAsked, OthersValid, SourcesKeyed, OpenedAsAsked, ConfigKept

LEMMA LoadConfigKeeps == ASSUME StartupInv, LoadConfig PROVE StartupInv'
<1>1. phase = "config" /\ world \in Launches /\ opened = {}
  BY DEF LoadConfig, StartupInv, LaunchKnown, OpenedOnce
<1> DEFINE c == IF ConfigText = Bad THEN Bad ELSE Normalise(ConfigText)
<1>2. CASE c = Bad
  <2>1. Fail
    BY <1>2 DEF LoadConfig
  <2> QED BY <1>1, <2>1, FailKeeps
<1>3. CASE c # Bad
  <2>1. cfg' = c /\ phase' = "resolve" /\ world' = world /\ opts' = opts /\ opened' = opened
    BY <1>3 DEF LoadConfig
  <2>2. ConfigText # Bad /\ Normalise(ConfigText) # Bad /\ c = Normalise(ConfigText)
    BY <1>3
  <2>3. ConfigText' = ConfigText
    BY <2>1 DEF ConfigText
  <2>4. Normalise(ConfigText)' = Normalise(ConfigText)
    BY <2>3
  <2> HIDE DEF c
  <2>5. Loaded'
    BY <2>1, <2>2, <2>3, <2>4 DEF Loaded
  <2>6. Asked' = Asked
    BY <2>1 DEF Asked
  <2>7. Understood'
    BY <1>1, <2>1, <2>6 DEF StartupInv, Understood, AfterArgs
  <2>8. OpenedOnce'
    BY <1>1, <2>1 DEF OpenedOnce
  <2> QED BY <1>1, <2>1, <2>5, <2>7, <2>8
           DEF StartupInv, LaunchKnown, ChosenAsAsked, OthersValid, SourcesKeyed, OpenedAsAsked, ConfigKept
<1> QED BY <1>2, <1>3

------------------------------------------------------------------------------
\* What Put does to the sources.
LEMMA PutIs ==
  ASSUME NEW n, NEW sc, {"sources", "builtin", "defaultDataset"} \subseteq DOMAIN cfg
  PROVE  /\ DOMAIN Put(n, sc).sources = DOMAIN cfg.sources \cup {n}
         /\ Put(n, sc).sources[n] = ApplyTypeDefaults(n, sc)
         /\ \A m \in DOMAIN cfg.sources \ {n} : Put(n, sc).sources[m] = cfg.sources[m]
         /\ Put(n, sc).defaultDataset = cfg.defaultDataset
<1> DEFINE one == [m \in {n} |-> ApplyTypeDefaults(n, sc)]
           all == Overlaid(one, cfg.sources)
<1>1. /\ DOMAIN all = DOMAIN cfg.sources \cup {n}
      /\ all[n] = ApplyTypeDefaults(n, sc)
      /\ \A m \in DOMAIN cfg.sources \ {n} : all[m] = cfg.sources[m]
  BY DEF Overlaid
<1>2. Put(n, sc) = [cfg EXCEPT !.sources = all, !.builtin = @ \ {n}]
  BY DEF Put
<1> HIDE DEF all
<1>3. Put(n, sc).sources = all /\ Put(n, sc).defaultDataset = cfg.defaultDataset
  BY <1>2
<1> QED BY <1>1, <1>3

\* What stands in the configuration when a source is to be chosen.
LEMMA LoadedIs ==
  ASSUME StartupInv, phase = "resolve"
  PROVE  /\ {"sources", "builtin", "defaultDataset"} \subseteq DOMAIN cfg
         /\ "pi" \in DOMAIN cfg.sources
         /\ \A n \in DOMAIN cfg.sources : Valid(cfg.sources[n]) /\ DOMAIN cfg.sources[n] = Keys
         /\ DOMAIN ConfigText.sources \subseteq DOMAIN cfg.sources
         /\ \A n \in DOMAIN ConfigText.sources :
              /\ DOMAIN ConfigText.sources[n] = Keys
              /\ cfg.sources[n] = ApplyTypeDefaults(n, ConfigText.sources[n])
              /\ cfg.sources[n].type = ConfigText.sources[n].type
<1>1. world \in Launches /\ ConfigText # Bad /\ Normalise(ConfigText) # Bad
      /\ cfg = Normalise(ConfigText)
  BY DEF StartupInv, LaunchKnown, Loaded
<1>2. \A n \in DOMAIN ConfigText.sources : DOMAIN ConfigText.sources[n] = Keys
  BY <1>1, ConfigTextIs
<1>3. /\ "pi" \in DOMAIN cfg.sources
      /\ DOMAIN ConfigText.sources \subseteq DOMAIN cfg.sources
      /\ \A n \in DOMAIN ConfigText.sources :
           cfg.sources[n] = ApplyTypeDefaults(n, ConfigText.sources[n])
      /\ \A n \in DOMAIN cfg.sources : Valid(cfg.sources[n]) /\ DOMAIN cfg.sources[n] = Keys
      /\ {"sources", "builtin", "defaultDataset"} \subseteq DOMAIN cfg
  BY <1>1, <1>2, NormaliseIs
<1>4. ASSUME NEW n \in DOMAIN ConfigText.sources
      PROVE  ApplyTypeDefaults(n, ConfigText.sources[n]).type = ConfigText.sources[n].type
  BY <1>2, DefaultsKeep
<1> QED BY <1>2, <1>3, <1>4

\* A source of the file that is replaced, and the source that is chosen: what
\* Choose must be given.
Replaced ==
  {opts.paths[1] : g \in DOMAIN opts.paths}
  \cup {n \in ({opts.value["--dataset"], cfg.defaultDataset}
                 \cup (IF IsSet("AXIOM_DATASET") THEN {env["AXIOM_DATASET"]} ELSE {}))
                \cap DOMAIN ConfigText.sources : ConfigText.sources[n].type # "axiom"}

LEMMA ConfiguredIs ==
  /\ DOMAIN Configured = DOMAIN ConfigText.sources \ Replaced
  /\ \A n \in DOMAIN Configured : Configured[n] = ConfigText.sources[n]
BY DEF Configured, Replaced

LEMMA ChooseKeeps ==
  ASSUME StartupInv, phase = "resolve", NEW n, NEW c, Choose(n, c),
         c.defaultDataset = cfg.defaultDataset,
         \A m \in DOMAIN c.sources \ {n} : m \in DOMAIN cfg.sources /\ c.sources[m] = cfg.sources[m],
         \A m \in DOMAIN ConfigText.sources \ Replaced : c.sources[m] = cfg.sources[m],
         AskedFor(n, c.sources[n]), DOMAIN c.sources[n] = Keys
  PROVE  StartupInv'
<1>1. /\ name' = n /\ cfg' = c /\ phase' = "open"
      /\ world' = world /\ opts' = opts /\ env' = env /\ opened' = opened
  BY DEF Choose
<1>2. world \in Launches /\ opened = {} /\ opts \in Options /\ (Asked # Bad => opts = Asked)
  BY DEF StartupInv, LaunchKnown, OpenedOnce, Understood, AfterArgs
<1>3. ConfigText' = ConfigText /\ Asked' = Asked
  BY <1>1 DEF ConfigText, Asked
<1>4. Replaced' = Replaced
  BY <1>1, <1>3 DEF Replaced, IsSet
<1>5. ConfigKept'
  <2>1. /\ DOMAIN Configured' = DOMAIN ConfigText.sources \ Replaced
        /\ \A m \in DOMAIN Configured' : Configured'[m] = ConfigText.sources[m]
    <3>1. /\ DOMAIN Configured' = DOMAIN ConfigText'.sources \ Replaced'
          /\ \A m \in DOMAIN Configured' : Configured'[m] = ConfigText'.sources[m]
      BY DEF Configured, Replaced
    <3> QED BY <1>3, <1>4, <3>1
  <2>2. ASSUME NEW m \in DOMAIN Configured'
        PROVE  /\ DOMAIN Configured'[m] = Keys
               /\ cfg'.sources[m] = ApplyTypeDefaults(m, Configured'[m])
    <3>1. m \in DOMAIN ConfigText.sources \ Replaced /\ Configured'[m] = ConfigText.sources[m]
      BY <2>1
    <3>2. /\ DOMAIN ConfigText.sources[m] = Keys
          /\ cfg.sources[m] = ApplyTypeDefaults(m, ConfigText.sources[m])
      BY <3>1, LoadedIs
    <3> QED BY <1>1, <3>1, <3>2
  <2> QED BY <2>2 DEF ConfigKept
<1>6. ChosenAsAsked'
  BY <1>1 DEF ChosenAsAsked, AskedFor
<1>7. OthersValid'
  <2>1. ASSUME NEW m \in DOMAIN cfg'.sources \ {name'} PROVE Valid(cfg'.sources[m])
    <3>1. m \in DOMAIN cfg.sources /\ cfg'.sources[m] = cfg.sources[m]
      BY <1>1
    <3>2. Valid(cfg.sources[m])
      BY <3>1, LoadedIs
    <3> QED BY <3>1, <3>2
  <2> QED BY <1>1, <2>1 DEF OthersValid
<1>8. Understood'
  BY <1>1, <1>2, <1>3 DEF Understood
<1>9. OpenedOnce'
  BY <1>1, <1>2 DEF OpenedOnce
<1>10. SourcesKeyed'
  <2>1. ASSUME NEW m \in DOMAIN cfg'.sources PROVE DOMAIN cfg'.sources[m] = Keys
    <3>1. CASE m = n
      BY <1>1, <3>1
    <3>2. CASE m # n
      <4>1. m \in DOMAIN cfg.sources /\ cfg'.sources[m] = cfg.sources[m]
        BY <1>1, <3>2
      <4> QED BY <4>1, LoadedIs
    <3> QED BY <3>1, <3>2
  <2> QED BY <2>1 DEF SourcesKeyed
<1> QED BY <1>1, <1>2, <1>5, <1>6, <1>7, <1>8, <1>9, <1>10
         DEF StartupInv, LaunchKnown, Loaded, OpenedAsAsked

LEMMA AddAxiomSourceKeeps ==
  ASSUME StartupInv, phase = "resolve", NEW n, Choose(n, AddAxiomSource(n)),
         n \in {opts.value["--dataset"], cfg.defaultDataset}
                 \cup (IF IsSet("AXIOM_DATASET") THEN {env["AXIOM_DATASET"]} ELSE {}),
         opts.value["--dataset"] # Unset => n = opts.value["--dataset"],
         opts.value["--dataset"] = Unset => opts.value["--source"] = Unset /\ opts.paths = <<>>
  PROVE  StartupInv'
<1>1. CASE n \in DOMAIN cfg.sources /\ cfg.sources[n].type = "axiom"
  <2>1. AddAxiomSource(n) = cfg
    BY <1>1 DEF AddAxiomSource
  <2>2. AskedFor(n, cfg.sources[n])
    BY <1>1 DEF AskedFor
  <2>3. DOMAIN cfg.sources[n] = Keys
    BY <1>1, LoadedIs
  <2> QED BY <2>1, <2>2, <2>3, ChooseKeeps
<1>2. CASE ~(n \in DOMAIN cfg.sources /\ cfg.sources[n].type = "axiom")
  <2> DEFINE c == Put(n, LegacyAxiom(n))
  <2>1. AddAxiomSource(n) = c
    BY <1>2 DEF AddAxiomSource
  <2>2. /\ DOMAIN c.sources = DOMAIN cfg.sources \cup {n}
        /\ c.sources[n] = ApplyTypeDefaults(n, LegacyAxiom(n))
        /\ \A m \in DOMAIN cfg.sources \ {n} : c.sources[m] = cfg.sources[m]
        /\ c.defaultDataset = cfg.defaultDataset
    BY LoadedIs, PutIs
  <2> HIDE DEF c
  <2>3. c.sources[n].type = "axiom" /\ DOMAIN c.sources[n] = Keys
    <3>1. DOMAIN LegacyAxiom(n) = Keys /\ LegacyAxiom(n).type = "axiom"
      BY DEF LegacyAxiom, Unconfigured, Keys
    <3> QED BY <2>2, <3>1, DefaultsKeep
  <2>4. AskedFor(n, c.sources[n])
    BY <2>3 DEF AskedFor
  <2>5. ASSUME NEW m \in DOMAIN ConfigText.sources \ Replaced PROVE c.sources[m] = cfg.sources[m]
    <3>1. m \in DOMAIN cfg.sources /\ cfg.sources[m].type = ConfigText.sources[m].type
      BY LoadedIs
    <3>2. m # n
      BY <1>2, <3>1 DEF Replaced
    <3> QED BY <2>2, <3>1, <3>2
  <2> QED BY <2>1, <2>2, <2>3, <2>4, <2>5, ChooseKeeps
<1> QED BY <1>1, <1>2

LEMMA AddFileSourceKeeps ==
  ASSUME StartupInv, phase = "resolve", NEW n, NEW paths, Choose(n, AddFileSource(n, paths)),
         n \in Replaced \/ n \notin DOMAIN cfg.sources,
         opts.value["--dataset"] = Unset,
         opts.value["--source"] # Unset => n = opts.value["--source"],
         opts.value["--source"] = Unset => paths = {opts.paths[g] : g \in DOMAIN opts.paths}
  PROVE  StartupInv'
<1> DEFINE sc == [Unconfigured("jsonl") EXCEPT !.paths = paths]
           c  == Put(n, sc)
<1>1. AddFileSource(n, paths) = c
  BY DEF AddFileSource
<1>2. /\ DOMAIN c.sources = DOMAIN cfg.sources \cup {n}
      /\ c.sources[n] = ApplyTypeDefaults(n, sc)
      /\ \A m \in DOMAIN cfg.sources \ {n} : c.sources[m] = cfg.sources[m]
      /\ c.defaultDataset = cfg.defaultDataset
  <2> HIDE DEF sc
  <2> QED BY LoadedIs, PutIs
<1>3. sc.type = "jsonl" /\ sc.paths = paths /\ DOMAIN sc = Keys
  BY DEF Unconfigured, Keys
<1> HIDE DEF sc, c
<1>4. c.sources[n].type = "jsonl" /\ c.sources[n].paths = paths /\ DOMAIN c.sources[n] = Keys
  <2>1. ApplyTypeDefaults(n, sc) =
          [sc EXCEPT !.limits = Given(@, "default"), !.keys = GivenList(@, {"timestamp"}),
                     !.costGroup = Given(@, sc.group)]
    BY <1>3 DEF ApplyTypeDefaults
  <2> QED BY <1>2, <1>3, <2>1 DEF Keys
<1>5. AskedFor(n, c.sources[n])
  BY <1>4 DEF AskedFor
<1>6. ASSUME NEW m \in DOMAIN ConfigText.sources \ Replaced PROVE c.sources[m] = cfg.sources[m]
  <2>1. m \in DOMAIN cfg.sources
    BY LoadedIs
  <2> QED BY <1>2, <2>1
<1> QED BY <1>1, <1>2, <1>4, <1>5, <1>6, ChooseKeeps

LEMMA ChooseConfigured ==
  ASSUME StartupInv, phase = "resolve", NEW n, n \in DOMAIN cfg.sources, Choose(n, cfg),
         opts.value["--dataset"] = Unset,
         IF opts.value["--source"] # Unset THEN n = opts.value["--source"] ELSE opts.paths = <<>>
  PROVE  StartupInv'
<1>1. AskedFor(n, cfg.sources[n])
  BY DEF AskedFor
<1>2. DOMAIN cfg.sources[n] = Keys
  BY LoadedIs
<1> QED BY <1>1, <1>2, ChooseKeeps

LEMMA ResolveSourceKeeps == ASSUME StartupInv, ResolveSource PROVE StartupInv'
<1> DEFINE asked == opts.value["--source"]
           dataset == opts.value["--dataset"]
           sources == DOMAIN cfg.sources
<1>1. phase = "resolve" /\ opts \in Options
  BY DEF ResolveSource, StartupInv, Understood, AfterArgs
<1>2. CASE Fail
  BY <1>1, <1>2, FailKeeps
<1>3. CASE dataset # Unset /\ ~Fail
  <2>1. Choose(dataset, AddAxiomSource(dataset))
    BY <1>3 DEF ResolveSource
  <2> QED BY <1>1, <1>3, <2>1, AddAxiomSourceKeeps
<1>4. CASE dataset = Unset /\ asked # Unset /\ ~Fail
  <2>1. \/ asked \in sources /\ Choose(asked, cfg)
        \/ asked \notin sources /\ Choose(asked, AddFileSource(asked, {asked}))
    BY <1>4 DEF ResolveSource
  <2>2. CASE asked \in sources /\ Choose(asked, cfg)
    BY <1>1, <1>4, <2>2, ChooseConfigured
  <2>3. CASE asked \notin sources /\ Choose(asked, AddFileSource(asked, {asked}))
    BY <1>1, <1>4, <2>3, AddFileSourceKeeps
  <2> QED BY <2>1, <2>2, <2>3
<1>5. CASE dataset = Unset /\ asked = Unset /\ opts.paths # <<>> /\ ~Fail
  <2> DEFINE paths == {opts.paths[g] : g \in DOMAIN opts.paths}
  <2>1. Choose(opts.paths[1], AddFileSource(opts.paths[1], paths))
    BY <1>5 DEF ResolveSource
  <2>2. opts.paths[1] \in Replaced
    <3>1. opts.paths \in Seq(Arguments)
      BY <1>1 DEF Options
    <3>2. 1 \in DOMAIN opts.paths
      BY <1>5, <3>1
    <3> QED BY <3>2 DEF Replaced
  <2> QED BY <1>1, <1>5, <2>1, <2>2, AddFileSourceKeeps
<1>6. CASE dataset = Unset /\ asked = Unset /\ opts.paths = <<>> /\ ~Fail
  <2>1. \/ cfg.defaultSource \in sources /\ Choose(cfg.defaultSource, cfg)
        \/ cfg.defaultDataset # Unset /\ Choose(cfg.defaultDataset, AddAxiomSource(cfg.defaultDataset))
        \/ IsSet("AXIOM_DATASET") /\ Choose(env["AXIOM_DATASET"], AddAxiomSource(env["AXIOM_DATASET"]))
        \/ \E n \in UserSourceNames : Choose(n, cfg)
        \/ Choose("pi", cfg)
    BY <1>6 DEF ResolveSource
  <2>2. CASE cfg.defaultSource \in sources /\ Choose(cfg.defaultSource, cfg)
    BY <1>1, <1>6, <2>2, ChooseConfigured
  <2>3. CASE cfg.defaultDataset # Unset
             /\ Choose(cfg.defaultDataset, AddAxiomSource(cfg.defaultDataset))
    BY <1>1, <1>6, <2>3, AddAxiomSourceKeeps
  <2>4. CASE IsSet("AXIOM_DATASET")
             /\ Choose(env["AXIOM_DATASET"], AddAxiomSource(env["AXIOM_DATASET"]))
    BY <1>1, <1>6, <2>4, AddAxiomSourceKeeps
  <2>5. CASE \E n \in UserSourceNames : Choose(n, cfg)
    <3>1. PICK n \in UserSourceNames : Choose(n, cfg)
      BY <2>5
    <3>2. n \in DOMAIN cfg.sources
      BY DEF UserSourceNames
    <3> QED BY <1>1, <1>6, <3>1, <3>2, ChooseConfigured
  <2>6. CASE Choose("pi", cfg)
    <3>1. "pi" \in DOMAIN cfg.sources
      BY <1>1, LoadedIs
    <3> QED BY <1>1, <1>6, <2>6, <3>1, ChooseConfigured
  <2> QED BY <2>1, <2>2, <2>3, <2>4, <2>5, <2>6
<1> QED BY <1>2, <1>3, <1>4, <1>5, <1>6

LEMMA OpenKeeps == ASSUME StartupInv, Open PROVE StartupInv'
<1>1. phase = "open" /\ opened = {} /\ world \in Launches
  BY DEF Open, StartupInv, OpenedOnce, LaunchKnown
<1>2. CASE ~CanOpen(name)
  <2>1. Fail
    BY <1>2 DEF Open
  <2> QED BY <1>1, <2>1, FailKeeps
<1>3. CASE CanOpen(name)
  <2>1. /\ opened' = {<<name, AsOpened(name)>>} /\ phase' \in {"check", "running"}
        /\ world' = world /\ opts' = opts /\ env' = env /\ cfg' = cfg /\ name' = name
    BY <1>1, <1>3 DEF Open
  <2>2. name \in DOMAIN cfg.sources /\ Valid(cfg.sources[name])
    BY <1>3 DEF CanOpen
  <2>3. Asked' = Asked /\ Configured' = Configured /\ AsOpened(name)' = AsOpened(name)
    BY <2>1 DEF Asked, Configured, ConfigText, IsSet, AsOpened
  <2>4. AskedFor(name, AsOpened(name))
    <3> DEFINE sc == cfg.sources[name]
    <3>1. AskedFor(name, sc) /\ DOMAIN sc = Keys
      BY <1>1, <2>2 DEF StartupInv, ChosenAsAsked, SourcesKeyed
    <3>2. AsOpened(name).type = sc.type
      BY <3>1, DefaultsKeep DEF AsOpened
    <3>3. sc.type = "jsonl" => AsOpened(name).paths = sc.paths
      <4>1. sc.type = "jsonl" =>
              AsOpened(name) =
                [sc EXCEPT !.limits = Given(@, "default"), !.keys = GivenList(@, {"timestamp"}),
                           !.costGroup = Given(@, sc.group)]
        BY DEF AsOpened, ApplyTypeDefaults
      <4> HIDE DEF sc
      <4> QED BY <3>1, <4>1 DEF Keys
    <3> QED BY <3>1, <3>2, <3>3 DEF AskedFor
  <2>5. OpenedAsAsked'
    <3>1. AskedFor(name, AsOpened(name))'
      BY <2>1, <2>3, <2>4 DEF AskedFor
    <3> QED BY <2>1, <2>3, <2>4 DEF OpenedAsAsked, AskedFor
  <2>6. OthersValid'
    BY <1>1, <2>1, <2>2 DEF StartupInv, OthersValid
  <2>7. Understood'
    BY <1>1, <2>1, <2>3 DEF StartupInv, Understood, AfterArgs
  <2>8. ConfigKept'
    BY <1>1, <2>1, <2>3 DEF StartupInv, ConfigKept
  <2>9. OpenedOnce'
    <3>1. opened' = {<<name, AsOpened(name)>>} /\ AsOpened(name)' = AsOpened(name) /\ name' = name
      BY <2>1, <2>3
    <3>2. ASSUME NEW o \in opened' PROVE o[2] = AsOpened(o[1])'
      BY <2>1, <3>2 DEF AsOpened
    <3> QED BY <2>1, <3>2 DEF OpenedOnce, AsOpened
  <2> QED BY <1>1, <2>1, <2>5, <2>6, <2>7, <2>8, <2>9
           DEF StartupInv, LaunchKnown, Loaded, ChosenAsAsked, SourcesKeyed
<1> QED BY <1>2, <1>3

LEMMA RunCheckKeeps == ASSUME StartupInv, RunCheck PROVE StartupInv'
<1>1. /\ phase = "check" /\ phase' \in {"done", "failed"} /\ world \in Launches
      /\ world' = world /\ cfg' = cfg /\ opened' = opened
  BY DEF RunCheck, StartupInv, LaunchKnown
<1>2. OpenedOnce'
  BY <1>1 DEF StartupInv, OpenedOnce, AsOpened
<1> QED BY <1>1, <1>2 DEF StartupInv, LaunchKnown, Understood, Loaded, ChosenAsAsked, OthersValid,
         SourcesKeyed, OpenedAsAsked, ConfigKept, AfterArgs

LEMMA SwitchSourceKeeps == ASSUME StartupInv, SwitchSource PROVE StartupInv'
<1>1. PICK n \in DOMAIN cfg.sources \ {name} :
        CanOpen(n) /\ name' = n /\ opened' = opened \cup {<<n, AsOpened(n)>>}
  BY DEF SwitchSource
<1>2. /\ phase = "running" /\ phase' = "running" /\ world \in Launches
      /\ world' = world /\ opts' = opts /\ env' = env /\ cfg' = cfg
  BY DEF SwitchSource, StartupInv, LaunchKnown
<1>3. Asked' = Asked /\ Configured' = Configured
  BY <1>2 DEF Asked, Configured, ConfigText, IsSet
<1>4. OpenedAsAsked'
  <2>1. PICK o \in opened : AskedFor(o[1], o[2])
    BY <1>2 DEF StartupInv, OpenedAsAsked
  <2>2. o \in opened'
    BY <1>1
  <2> QED BY <1>2, <2>1, <2>2 DEF OpenedAsAsked, AskedFor
<1>5. OpenedOnce'
  <2>1. \A o \in opened : o[2] = AsOpened(o[1])
    BY DEF StartupInv, OpenedOnce
  <2>2. ASSUME NEW o \in opened' PROVE o[2] = AsOpened(o[1])
    BY <1>1, <2>1
  <2> QED BY <1>2, <2>2 DEF OpenedOnce, AsOpened
<1>6. OthersValid' /\ ConfigKept' /\ Understood'
  BY <1>2, <1>3 DEF StartupInv, OthersValid, ConfigKept, Understood, AfterArgs
<1> QED BY <1>2, <1>4, <1>5, <1>6 DEF StartupInv, LaunchKnown, Loaded, ChosenAsAsked, SourcesKeyed

LEMMA StutterKeeps == ASSUME StartupInv, UNCHANGED startupVars PROVE StartupInv'
<1>1. /\ phase' = phase /\ world' = world /\ opts' = opts /\ env' = env /\ cfg' = cfg
      /\ name' = name /\ opened' = opened
  BY DEF startupVars
<1>2. Asked' = Asked /\ Configured' = Configured /\ ConfigText' = ConfigText
  BY <1>1 DEF Asked, Configured, ConfigText, IsSet
<1> QED BY <1>1, <1>2 DEF StartupInv, LaunchKnown, Understood, Loaded, ChosenAsAsked, OthersValid,
         SourcesKeyed, OpenedAsAsked, ConfigKept, OpenedOnce, AsOpened, AskedFor

\* What the phases of a launch rest on: the command line has been understood as
\* it was meant, what is left of the file's sources is as the file has them,
\* and what has been opened was opened as it stands (main).
THEOREM StartupInvariant == StartupSpec => []StartupInv
<1>1. StartupInv /\ [StartupNext]_startupVars => StartupInv'
  BY LaunchKeeps, ParseArgsKeeps, LoadEnvFileKeeps, LoadConfigKeeps, ResolveSourceKeeps, OpenKeeps,
     RunCheckKeeps, SwitchSourceKeeps, StutterKeeps DEF StartupNext
<1> QED BY <1>1, StartupBegins, PTL DEF StartupSpec

LEMMA ObeyedFollows == StartupInv => CommandLineObeyed
<1> SUFFICES ASSUME StartupInv, phase \in {"check", "running"}, Asked # Bad
             PROVE  CommandLineObeyed
  BY DEF CommandLineObeyed
<1>1. opts = Asked
  BY DEF StartupInv, Understood, AfterArgs
<1>2. PICK o \in opened : AskedFor(o[1], o[2])
  BY DEF StartupInv, OpenedAsAsked
<1> QED BY <1>1, <1>2 DEF CommandLineObeyed, AskedFor

\* What the command line says is what is opened, wherever its words and flags
\* stand and whatever the files and the environment say (reorderArgs,
\* resolveSource).
THEOREM StartupCommandLine == StartupSpec => []CommandLineObeyed
BY StartupInvariant, ObeyedFollows, PTL

LEMMA ConfiguredFollows == StartupInv => OpenedAsConfigured
<1> SUFFICES ASSUME StartupInv PROVE OpenedAsConfigured
  OBVIOUS
<1>1. \A o \in opened : o[2] = AsOpened(o[1])
  BY DEF StartupInv, OpenedOnce
<1>2. \A o, p \in opened : o[1] = p[1] => o[2] = p[2]
  BY <1>1
<1>3. ASSUME phase = "running" PROVE \A n \in DOMAIN cfg.sources : Valid(cfg.sources[n])
  BY <1>3 DEF StartupInv, OthersValid
<1>4. ASSUME phase = "running", NEW o \in opened, o[1] \in DOMAIN Configured,
             NEW key \in KeysSet(Configured[o[1]])
      PROVE  o[2][key] = Configured[o[1]][key]
  <2> DEFINE n  == o[1]
             sc == Configured[n]
             ad == ApplyTypeDefaults(n, sc)
  <2>1. DOMAIN sc = Keys /\ cfg.sources[n] = ad
    BY <1>4 DEF StartupInv, ConfigKept
  <2>2. DOMAIN ad = Keys /\ ad[key] = sc[key] /\ key \in KeysSet(ad)
    BY <1>4, <2>1, DefaultsKeep
  <2>3. o[2] = ApplyTypeDefaults(n, ad)
    BY <1>1, <2>1 DEF AsOpened
  <2> HIDE DEF ad
  <2>4. ApplyTypeDefaults(n, ad)[key] = ad[key]
    BY <2>2, DefaultsKeep
  <2> QED BY <2>2, <2>3, <2>4
<1> QED BY <1>2, <1>3, <1>4 DEF OpenedAsConfigured

\* A source is opened as the file has it, with every key that is set there, the
\* same whenever it is opened again, and none of the file's sources is left that
\* would not open (ApplyTypeDefaults, Normalise, source.Open).
THEOREM StartupAsConfigured == StartupSpec => []OpenedAsConfigured
BY StartupInvariant, ConfiguredFollows, PTL

------------------------------------------------------------------------------
(***************************************************************************)
(* Queries: tables.                                                        *)
(***************************************************************************)
\* s is S in the order R.
Ranks(s, S, R) ==
  /\ s \in [1..Cardinality(S) -> S]
  /\ \A p, q \in 1..Cardinality(S) : p < q => <<s[p], s[q]>> \in R

\* R leaves no ties in S.
IsOrdered(S, R) ==
  /\ \A a \in S : <<a, a>> \notin R
  /\ \A a, b \in S : a # b => <<a, b>> \in R \/ <<b, a>> \in R
  /\ \A a, b, c \in S : <<a, b>> \in R /\ <<b, c>> \in R => <<a, c>> \in R

LEMMA LastExists ==
  ASSUME NEW S, IsFiniteSet(S), NEW R, IsOrdered(S, R)
  PROVE  \A T \in SUBSET S : T # {} => \E z \in T : \A a \in T \ {z} : <<a, z>> \in R
<1> DEFINE HasLast(T) == T # {} => \E z \in T : \A a \in T \ {z} : <<a, z>> \in R
           P == {T \in SUBSET S : HasLast(T)}
<1>1. ASSUME NEW n \in Nat, \A T \in SUBSET S : Cardinality(T) < n => T \in P,
             NEW T \in SUBSET S, Cardinality(T) = n
      PROVE  T \in P
  <2> SUFFICES ASSUME T # {} PROVE \E z \in T : \A a \in T \ {z} : <<a, z>> \in R
    OBVIOUS
  <2>1. PICK x \in T : TRUE
    OBVIOUS
  <2>2. T \ {x} \in SUBSET S /\ Cardinality(T \ {x}) < n
    BY <1>1, <2>1, FS_Subset, FS_RemoveElement, FS_CardinalityType
  <2>3. CASE T \ {x} = {}
    BY <2>1, <2>3
  <2>4. CASE T \ {x} # {}
    <3>1. T \ {x} \in P
      BY <1>1, <2>2
    <3>2. PICK z \in T \ {x} : \A a \in (T \ {x}) \ {z} : <<a, z>> \in R
      BY <2>4, <3>1
    <3>3. CASE <<x, z>> \in R
      BY <3>2, <3>3
    <3>4. CASE <<z, x>> \in R
      <4>1. ASSUME NEW a \in T \ {x} PROVE <<a, x>> \in R
        <5>1. a = z \/ <<a, z>> \in R
          BY <3>2
        <5>2. a \in S /\ z \in S /\ x \in S
          BY <2>1, <3>2
        <5> QED BY <3>4, <5>1, <5>2 DEF IsOrdered
      <4> QED BY <2>1, <4>1
    <3>5. x \in S /\ z \in S /\ x # z
      BY <2>1, <3>2
    <3> QED BY <3>3, <3>4, <3>5 DEF IsOrdered
  <2> QED BY <2>3, <2>4
<1>2. SUBSET S \subseteq P
  <2> HIDE DEF P
  <2> QED BY <1>1, SizeInduction
<1> QED BY <1>2

LEMMA RankingExists ==
  ASSUME NEW S, IsFiniteSet(S), NEW R, IsOrdered(S, R)
  PROVE  \E s : Ranks(s, S, R)
<1> DEFINE P == {T \in SUBSET S : \E s : Ranks(s, T, R)}
<1>1. ASSUME NEW n \in Nat, \A T \in SUBSET S : Cardinality(T) < n => T \in P,
             NEW T \in SUBSET S, Cardinality(T) = n
      PROVE  T \in P
  <2>1. CASE T = {}
    <3>1. Cardinality(T) = 0
      BY <2>1, FS_EmptySet
    <3>2. Ranks([p \in 1..0 |-> 0], T, R)
      BY <3>1, <2>1 DEF Ranks
    <3> QED BY <3>2
  <2>2. CASE T # {}
    <3>1. PICK z \in T : \A a \in T \ {z} : <<a, z>> \in R
      BY <2>2, LastExists
    <3> DEFINE U == T \ {z}
    <3>2. U \in SUBSET S /\ n \in Nat \ {0} /\ Cardinality(U) = n - 1
      <4>1. IsFiniteSet(T) /\ n \in Nat /\ U \in SUBSET S
        BY <1>1, FS_Subset
      <4>2. Cardinality(U) = n - 1
        BY <1>1, <3>1, <4>1, FS_RemoveElement
      <4>3. n # 0
        BY <1>1, <2>2, <4>1, FS_EmptySet
      <4> QED BY <4>1, <4>2, <4>3
    <3>3. PICK s : Ranks(s, U, R)
      BY <1>1, <3>2
    <3>4. /\ s \in [1..(n - 1) -> U]
          /\ \A p, q \in 1..(n - 1) : p < q => <<s[p], s[q]>> \in R
      BY <3>2, <3>3 DEF Ranks
    <3> DEFINE t == [p \in 1..n |-> IF p = n THEN z ELSE s[p]]
    <3>5. \A p \in 1..n : p = n \/ p \in 1..(n - 1)
      BY <3>2
    <3>6. t \in [1..n -> T]
      BY <3>1, <3>4, <3>5
    <3>7. ASSUME NEW p \in 1..n, NEW q \in 1..n, p < q PROVE <<t[p], t[q]>> \in R
      <4>1. p \in 1..(n - 1)
        BY <3>2, <3>7
      <4>2. CASE q = n
        BY <3>1, <3>2, <3>4, <4>1, <4>2
      <4>3. CASE q # n
        <5>1. q \in 1..(n - 1)
          BY <3>5, <4>3
        <5> QED BY <3>2, <3>4, <3>7, <4>1, <5>1
      <4> QED BY <4>2, <4>3
    <3> HIDE DEF t
    <3>8. Ranks(t, T, R)
      BY <1>1, <3>6, <3>7 DEF Ranks
    <3> QED BY <3>8
  <2> QED BY <2>1, <2>2
<1>2. SUBSET S \subseteq P
  <2> HIDE DEF P
  <2> QED BY <1>1, SizeInduction
<1> QED BY <1>2

LEMMA RankingIs ==
  ASSUME NEW S, IsFiniteSet(S), NEW R, IsOrdered(S, R), NEW s, Ranks(s, S, R)
  PROVE  /\ Cardinality(S) \in Nat /\ Len(s) = Cardinality(S) /\ s \in Seq(S)
         /\ DOMAIN s = 1..Cardinality(S)
         /\ s \in Bijection(1..Cardinality(S), S)
<1> DEFINE n == Cardinality(S)
<1>1. n \in Nat /\ s \in [1..n -> S]
  BY FS_CardinalityType DEF Ranks
<1>2. s \in Injection(1..n, S)
  <2>1. ASSUME NEW p \in 1..n, NEW q \in 1..n, p # q PROVE s[p] # s[q]
    <3>1. p < q \/ q < p
      BY <1>1, <2>1
    <3>2. <<s[p], s[q]>> \in R \/ <<s[q], s[p]>> \in R
      BY <3>1 DEF Ranks
    <3>3. s[p] \in S /\ s[q] \in S
      BY <1>1
    <3> QED BY <3>2, <3>3 DEF IsOrdered
  <2> QED BY <1>1, <2>1 DEF Injection, IsInjective
<1>3. Cardinality(1..n) = n
  BY <1>1, FS_Interval
<1>4. s \in Surjection(1..n, S)
  BY <1>2, <1>3, FS_Injection
<1>5. s \in Bijection(1..n, S)
  BY <1>2, <1>4 DEF Bijection
<1>6. s \in Seq(S) /\ Len(s) = n
  BY <1>1
<1> QED BY <1>1, <1>5, <1>6

\* A table of n rows: the first n in order, and nothing left out is before them.
LEMMA FirstShows ==
  ASSUME NEW S, IsFiniteSet(S), NEW R, IsOrdered(S, R), NEW s, Ranks(s, S, R), NEW n \in Nat,
         NEW t, t = First(s, n)
  PROVE  /\ t \in Seq(S) /\ DOMAIN t = 1..Len(t)
         /\ Len(t) = IF Cardinality(S) > n THEN n ELSE Cardinality(S)
         /\ \A p, q \in DOMAIN t : p < q => <<t[p], t[q]>> \in R
         /\ \A x \in S : \/ \E p \in DOMAIN t : t[p] = x
                         \/ Len(t) = n /\ \A p \in DOMAIN t : <<t[p], x>> \in R
         /\ Cardinality(S) <= n => t = s
<1> DEFINE c == Cardinality(S)
<1>1. /\ c \in Nat /\ Len(s) = c /\ s \in Seq(S) /\ DOMAIN s = 1..c
      /\ s \in Bijection(1..c, S) /\ s \in [1..c -> S]
      /\ \A p, q \in 1..c : p < q => <<s[p], s[q]>> \in R
  BY RankingIs DEF Ranks
<1> HIDE DEF c
<1>2. \A x \in S : \E p \in 1..c : s[p] = x
  BY <1>1 DEF Bijection, Surjection
<1>3. CASE c > n
  <2>1. t = SubSeq(s, 1, n)
    BY <1>1, <1>3 DEF First
  <2>2. t \in Seq(S) /\ Len(t) = n /\ DOMAIN t = 1..n /\ \A p \in 1..n : t[p] = s[p]
    BY <1>1, <1>3, <2>1
  <2>3. ASSUME NEW x \in S
        PROVE  (\E p \in 1..n : t[p] = x) \/ \A p \in 1..n : <<t[p], x>> \in R
    <3>1. PICK q \in 1..c : s[q] = x
      BY <1>2
    <3>2. CASE q \in 1..n
      BY <2>2, <3>1, <3>2
    <3>3. CASE q \notin 1..n
      <4>1. ASSUME NEW p \in 1..n PROVE <<t[p], x>> \in R
        <5>1. p \in 1..c /\ p < q
          BY <1>1, <1>3, <3>3
        <5> QED BY <1>1, <2>2, <3>1, <5>1
      <4> QED BY <4>1
    <3> QED BY <3>2, <3>3
  <2>4. \A p, q \in 1..n : p < q => <<t[p], t[q]>> \in R
    <3>1. \A p \in 1..n : p \in 1..c
      BY <1>1, <1>3
    <3> QED BY <1>1, <2>2, <3>1
  <2> QED BY <1>1, <1>3, <2>2, <2>3, <2>4 DEF c
<1>4. CASE ~(c > n)
  <2>1. t = s
    BY <1>1, <1>4 DEF First
  <2> QED BY <1>1, <1>2, <1>4, <2>1 DEF c
<1> QED BY <1>3, <1>4

Row == [message : Nat, level : Nat, count : Nat]

RowOrder(S) == {x \in S \X S : RowBefore(x[1], x[2])}

LEMMA RowsOrdered ==
  ASSUME NEW S \in SUBSET Row PROVE IsOrdered(S, RowOrder(S))
<1>1. \A a, b \in S : <<a, b>> \in RowOrder(S) <=> RowBefore(a, b)
  BY DEF RowOrder
<1>2. \A a \in S : /\ a.message \in Nat /\ a.level \in Nat /\ a.count \in Nat
                  /\ a = [message |-> a.message, level |-> a.level, count |-> a.count]
  BY DEF Row
<1>3. \A a \in S : ~RowBefore(a, a)
  BY <1>2 DEF RowBefore
<1>4. ASSUME NEW a \in S, NEW b \in S, a # b PROVE RowBefore(a, b) \/ RowBefore(b, a)
  <2>1. a.message # b.message \/ a.level # b.level \/ a.count # b.count
    BY <1>2, <1>4
  <2> QED BY <1>2, <2>1 DEF RowBefore
<1>5. ASSUME NEW a \in S, NEW b \in S, NEW c \in S, RowBefore(a, b), RowBefore(b, c)
      PROVE  RowBefore(a, c)
  BY <1>2, <1>5 DEF RowBefore
<1> HIDE DEF RowOrder
<1> QED BY <1>1, <1>3, <1>4, <1>5 DEF IsOrdered

LEMMA TopRowsShow ==
  ASSUME NEW S \in SUBSET Row, IsFiniteSet(S), NEW n \in Nat
  PROVE  \E s : Ranks(s, S, RowOrder(S)) /\ TopRows(S, n) = First(s, n)
<1> DEFINE D == 1..Cardinality(S)
           Good(s) == \A p, q \in DOMAIN s : p < q => RowBefore(s[p], s[q])
           r == CHOOSE s \in [D -> S] : Good(s)
<1>1. PICK s : Ranks(s, S, RowOrder(S))
  BY RowsOrdered, RankingExists
<1>2. s \in [D -> S] /\ Good(s)
  <2>1. s \in [D -> S] /\ DOMAIN s = D
    BY <1>1 DEF Ranks
  <2>2. ASSUME NEW p \in D, NEW q \in D, p < q PROVE RowBefore(s[p], s[q])
    BY <1>1, <2>2 DEF Ranks, RowOrder
  <2> QED BY <2>1, <2>2
<1>3. r \in [D -> S] /\ Good(r)
  <2> HIDE DEF Good, D
  <2> QED BY <1>2
<1>4. Ranks(r, S, RowOrder(S))
  <2>1. DOMAIN r = D
    BY <1>3
  <2>2. ASSUME NEW p \in D, NEW q \in D, p < q PROVE <<r[p], r[q]>> \in RowOrder(S)
    <3>1. RowBefore(r[p], r[q]) /\ r[p] \in S /\ r[q] \in S
      BY <1>3, <2>1, <2>2
    <3> HIDE DEF r
    <3> QED BY <3>1 DEF RowOrder
  <2> HIDE DEF r
  <2> QED BY <1>3, <2>2 DEF Ranks
<1>5. TopRows(S, n) = First(r, n)
  BY DEF TopRows, Ranked
<1> QED BY <1>4, <1>5

\* What a column of the whole table adds up to.
LEMMA ColumnSum ==
  ASSUME NEW S, IsFiniteSet(S), NEW R, IsOrdered(S, R), NEW s, Ranks(s, S, R),
         NEW f \in [S -> Int]
  PROVE  SumOver([r \in DOMAIN s |-> f[s[r]]]) = SumOver(f)
<1>1. /\ s \in Bijection(1..Cardinality(S), S) /\ DOMAIN s = 1..Cardinality(S)
      /\ Cardinality(S) \in Nat
  BY RankingIs
<1>2. IsFiniteSet(1..Cardinality(S))
  BY <1>1, FS_Interval
<1> QED BY <1>1, <1>2, SumBijection

\* A table of rows that count what they stand for.
LEMMA CountedRows ==
  ASSUME NEW S, IsFiniteSet(S), NEW g \in [S -> Row],
         \A m \in S : g[m].count = Cardinality({o \in S : g[o] = g[m]})
  PROVE  /\ IsFiniteSet({g[m] : m \in S}) /\ {g[m] : m \in S} \in SUBSET Row
         /\ Cardinality({g[m] : m \in S}) <= Cardinality(S)
         /\ SumOver([x \in {g[m] : m \in S} |-> x.count]) = Cardinality(S)
<1> DEFINE T == {g[m] : m \in S}
<1>1. DOMAIN g = S
  OBVIOUS
<1>2. IsFiniteSet(T) /\ Cardinality(T) <= Cardinality(S)
  BY <1>1, ImageSize
<1>3. T \in SUBSET Row /\ g \in [S -> T]
  OBVIOUS
<1>4. \A x \in T : x.count = Cardinality({o \in S : g[o] = x})
  OBVIOUS
<1>5. [x \in T |-> x.count] = [x \in T |-> Cardinality({o \in S : g[o] = x})]
  BY <1>4
<1> HIDE DEF T
<1>6. SumOver([x \in T |-> x.count]) = Cardinality(S)
  BY <1>2, <1>3, <1>5, CountByClass
<1> QED BY <1>2, <1>3, <1>6 DEF T

------------------------------------------------------------------------------
(***************************************************************************)
(* Queries: the events stored.                                             *)
(***************************************************************************)
StoreInv == events \in Seq(Records) /\ Len(events) <= MaxEvents

LEMMA EventsAre ==
  ASSUME StoreInv
  PROVE  /\ Len(events) \in Nat /\ DOMAIN events = 1..Len(events)
         /\ IsFiniteSet(DOMAIN events) /\ Cardinality(DOMAIN events) <= MaxEvents
         /\ \A m \in DOMAIN events :
              /\ events[m].ts \in Nat /\ events[m].level \in 0..4 /\ events[m].message \in Nat
              /\ events[m].client \in Nat /\ events[m].route \in Nat /\ events[m].costDim \in Nat
              /\ events[m].cost \in Int \cup {NaN}
<1>1. Len(events) \in Nat /\ DOMAIN events = 1..Len(events) /\ \A m \in 1..Len(events) : events[m] \in Records
  BY LenProperties, ElementOfSeq DEF StoreInv
<1>2. IsFiniteSet(1..Len(events)) /\ Cardinality(1..Len(events)) = Len(events)
  BY <1>1, FS_Interval
<1>3. ASSUME NEW m \in DOMAIN events
      PROVE  /\ events[m].ts \in Nat /\ events[m].level \in 0..4 /\ events[m].message \in Nat
             /\ events[m].client \in Nat /\ events[m].route \in Nat /\ events[m].costDim \in Nat
             /\ events[m].cost \in Int \cup {NaN}
  <2>1. events[m] \in Records
    BY <1>1
  <2> QED BY <2>1, QueriesAssumption
<1> QED BY <1>1, <1>2, <1>3 DEF StoreInv

LEMMA Windows ==
  ASSUME StoreInv, NEW now \in Nows, NEW lookback \in Lookbacks
  PROVE  /\ now \in Nat /\ lookback \in Nat \ {0}
         /\ Window(now, lookback) \in SUBSET DOMAIN events
         /\ \A m \in DOMAIN events : m \in Window(now, lookback) <=> events[m].ts > now - lookback
         /\ Issues(now, lookback) \in SUBSET Window(now, lookback)
         /\ \A m \in Window(now, lookback) :
              m \in Issues(now, lookback) <=> events[m].level \in {levelError, levelWarn}
BY QueriesAssumption DEF Window, InWindow, Issues, OfLevel

LEMMA Parts ==
  ASSUME StoreInv, NEW T \in SUBSET DOMAIN events
  PROVE  IsFiniteSet(T) /\ Cardinality(T) \in Nat /\ Cardinality(T) <= MaxEvents
<1>1. IsFiniteSet(T) /\ Cardinality(T) <= Cardinality(DOMAIN events)
  BY EventsAre, FS_Subset
<1>2. Cardinality(T) \in Nat /\ Cardinality(DOMAIN events) \in Nat
  BY <1>1, EventsAre, FS_CardinalityType
<1> QED BY <1>1, <1>2, EventsAre, QueriesAssumption

------------------------------------------------------------------------------
(***************************************************************************)
(* Queries: the tables of errors and routes.                               *)
(***************************************************************************)
\* The row of an event among those of I.
Kindred(I, m) ==
  {o \in I : events[o].message = events[m].message /\ events[o].level = events[m].level}

ErrorRow(I, m) ==
  [message |-> events[m].message, level |-> events[m].level, count |-> Cardinality(Kindred(I, m))]

LEMMA ErrorRowsAre ==
  ASSUME StoreInv, NEW I \in SUBSET DOMAIN events, NEW g, g = [m \in I |-> ErrorRow(I, m)]
  PROVE  /\ IsFiniteSet(I) /\ g \in [I -> Row]
         /\ \A m \in I : g[m].count = Cardinality({o \in I : g[o] = g[m]})
<1>1. IsFiniteSet(I)
  BY Parts
<1>2. ASSUME NEW m \in I PROVE ErrorRow(I, m) \in Row
  <2>1. Kindred(I, m) \in SUBSET DOMAIN events
    BY DEF Kindred
  <2>2. Cardinality(Kindred(I, m)) \in Nat
    BY <2>1, Parts
  <2>3. events[m].message \in Nat /\ events[m].level \in Nat
    BY EventsAre
  <2> QED BY <2>2, <2>3 DEF ErrorRow, Row
<1>3. ASSUME NEW m \in I, NEW o \in I
      PROVE  ErrorRow(I, o) = ErrorRow(I, m) <=> o \in Kindred(I, m)
  <2>1. ASSUME o \in Kindred(I, m) PROVE ErrorRow(I, o) = ErrorRow(I, m)
    <3>1. events[o].message = events[m].message /\ events[o].level = events[m].level
      BY <2>1 DEF Kindred
    <3>2. Kindred(I, o) = Kindred(I, m)
      BY <3>1 DEF Kindred
    <3> QED BY <3>1, <3>2 DEF ErrorRow
  <2>2. ASSUME ErrorRow(I, o) = ErrorRow(I, m) PROVE o \in Kindred(I, m)
    <3>1. ErrorRow(I, o).message = ErrorRow(I, m).message /\ ErrorRow(I, o).level = ErrorRow(I, m).level
      BY <2>2
    <3> QED BY <3>1 DEF ErrorRow, Kindred
  <2> QED BY <2>1, <2>2
<1>4. ASSUME NEW m \in I PROVE g[m].count = Cardinality({o \in I : g[o] = g[m]})
  <2>1. {o \in I : g[o] = g[m]} = Kindred(I, m)
    <3>1. \A o \in I : g[o] = ErrorRow(I, o)
      OBVIOUS
    <3>2. Kindred(I, m) \subseteq I
      BY DEF Kindred
    <3> QED BY <1>3, <3>1, <3>2
  <2>2. g[m].count = Cardinality(Kindred(I, m))
    BY DEF ErrorRow
  <2> QED BY <2>1, <2>2
<1> QED BY <1>1, <1>2, <1>4

LEMMA ErrorsShow ==
  ASSUME StoreInv, NEW now \in Nows, NEW lookback \in Lookbacks, NEW n \in Nat,
         NEW I, I = Issues(now, lookback), NEW t, t = TopErrors(now, n, lookback)
  PROVE  /\ t \in Seq(Row) /\ DOMAIN t = 1..Len(t)
         /\ \A p, q \in DOMAIN t : p < q => t[p].count >= t[q].count
         /\ \A m \in I : \/ \E p \in DOMAIN t : t[p] = ErrorRow(I, m)
                         \/ Len(t) = n /\ \A p \in DOMAIN t : t[p].count >= Cardinality(Kindred(I, m))
         /\ Cardinality(I) <= n => SumOver([r \in DOMAIN t |-> t[r].count]) = Cardinality(I)
<1> DEFINE g == [m \in I |-> ErrorRow(I, m)]
           S == {g[m] : m \in I}
           f == [x \in S |-> x.count]
<1>1. I \in SUBSET DOMAIN events /\ IsFiniteSet(I) /\ Cardinality(I) \in Nat
  BY Windows, Parts
<1>2. /\ g \in [I -> Row]
      /\ \A m \in I : g[m].count = Cardinality({o \in I : g[o] = g[m]})
  <2>1. g = [m \in I |-> ErrorRow(I, m)]
    OBVIOUS
  <2> HIDE DEF g
  <2> QED BY <1>1, <2>1, ErrorRowsAre
<1>3. /\ IsFiniteSet(S) /\ S \in SUBSET Row /\ Cardinality(S) <= Cardinality(I)
      /\ SumOver(f) = Cardinality(I)
  <2> HIDE DEF g
  <2> QED BY <1>1, <1>2, CountedRows
<1>4. t = TopRows(S, n)
  <2>1. S = {ErrorRow(I, m) : m \in I}
    OBVIOUS
  <2> HIDE DEF S
  <2> QED BY <2>1 DEF TopErrors, ErrorRow, Kindred
<1>5. \A m \in I : ErrorRow(I, m) \in S /\ ErrorRow(I, m).count = Cardinality(Kindred(I, m))
  BY DEF ErrorRow
<1> HIDE DEF S, g
<1>6. PICK s : Ranks(s, S, RowOrder(S)) /\ t = First(s, n)
  BY <1>3, <1>4, TopRowsShow
<1>7. IsOrdered(S, RowOrder(S))
  BY <1>3, RowsOrdered
<1>8. /\ t \in Seq(S) /\ DOMAIN t = 1..Len(t)
      /\ \A p, q \in DOMAIN t : p < q => <<t[p], t[q]>> \in RowOrder(S)
      /\ \A x \in S : \/ \E p \in DOMAIN t : t[p] = x
                      \/ Len(t) = n /\ \A p \in DOMAIN t : <<t[p], x>> \in RowOrder(S)
      /\ Cardinality(S) <= n => t = s
  BY <1>3, <1>6, <1>7, FirstShows
<1>9. \A x, y : <<x, y>> \in RowOrder(S) => x.count >= y.count
  <2> SUFFICES ASSUME NEW x, NEW y, <<x, y>> \in RowOrder(S) PROVE x.count >= y.count
    OBVIOUS
  <2>1. x \in S /\ y \in S /\ RowBefore(x, y)
    BY DEF RowOrder
  <2>2. x.count \in Nat /\ y.count \in Nat
    BY <1>3, <2>1 DEF Row
  <2> QED BY <2>1, <2>2 DEF RowBefore
<1>10. ASSUME Cardinality(I) <= n
       PROVE  SumOver([r \in DOMAIN t |-> t[r].count]) = Cardinality(I)
  <2>1. Cardinality(S) \in Nat
    BY <1>3, FS_CardinalityType
  <2>2. t = s
    BY <1>1, <1>3, <1>8, <1>10, <2>1
  <2>3. f \in [S -> Int]
    BY <1>3 DEF Row
  <2>4. SumOver([r \in DOMAIN t |-> f[t[r]]]) = Cardinality(I)
    <3> HIDE DEF f
    <3> QED BY <1>3, <1>6, <1>7, <2>2, <2>3, ColumnSum
  <2>5. \A r \in DOMAIN t : t[r] \in S
    BY <1>8
  <2>6. [r \in DOMAIN t |-> f[t[r]]] = [r \in DOMAIN t |-> t[r].count]
    BY <2>5
  <2> QED BY <2>4, <2>6
<1>11. t \in Seq(Row)
  BY <1>3, <1>8
<1>12. ASSUME NEW m \in I
       PROVE  \/ \E p \in DOMAIN t : t[p] = ErrorRow(I, m)
              \/ Len(t) = n /\ \A p \in DOMAIN t : t[p].count >= Cardinality(Kindred(I, m))
  <2> DEFINE x == ErrorRow(I, m)
  <2>1. x \in S /\ x.count = Cardinality(Kindred(I, m))
    BY <1>5
  <2> HIDE DEF x
  <2>2. \/ \E p \in DOMAIN t : t[p] = x
        \/ Len(t) = n /\ \A p \in DOMAIN t : t[p].count >= x.count
    BY <1>8, <1>9, <2>1
  <2> QED BY <2>1, <2>2 DEF x
<1> QED BY <1>8, <1>9, <1>10, <1>11, <1>12

OnRoute(S, r) == {o \in S : events[o].route = r}

RouteRow(S, m) ==
  [message |-> events[m].route, level |-> 0, count |-> Cardinality(OnRoute(S, events[m].route))]

LEMMA RoutesShow ==
  ASSUME StoreInv, NEW now \in Nows, NEW lookback \in Lookbacks, NEW n \in Nat,
         NEW W, W = Window(now, lookback), NEW t, t = TopRoutes(now, n, lookback)
  PROVE  /\ t \in Seq(Row) /\ DOMAIN t = 1..Len(t)
         /\ \A m \in W : \/ events[m].route = 0
                         \/ \E p \in DOMAIN t : t[p].message = events[m].route
                         \/ \A p \in DOMAIN t : Cardinality(OnRoute(W, events[m].route)) <= t[p].count
<1> DEFINE I == {m \in W : events[m].route # 0}
           g == [m \in I |-> RouteRow(I, m)]
           S == {g[m] : m \in I}
<1>1. W \in SUBSET DOMAIN events /\ I \in SUBSET DOMAIN events /\ IsFiniteSet(I)
  BY Windows, Parts
<1>2. \A m \in I : OnRoute(I, events[m].route) = OnRoute(W, events[m].route)
  BY DEF OnRoute
<1>3. ASSUME NEW m \in I PROVE RouteRow(I, m) \in Row
  <2>1. OnRoute(I, events[m].route) \in SUBSET DOMAIN events
    BY <1>1 DEF OnRoute
  <2>2. Cardinality(OnRoute(I, events[m].route)) \in Nat
    BY <2>1, Parts
  <2>3. events[m].route \in Nat
    BY <1>1, EventsAre
  <2> QED BY <2>2, <2>3 DEF RouteRow, Row
<1>4. IsFiniteSet(S) /\ S \in SUBSET Row
  <2>1. DOMAIN g = I
    OBVIOUS
  <2>2. \A m \in I : g[m] \in Row
    BY <1>3
  <2> HIDE DEF g
  <2>3. IsFiniteSet({g[m] : m \in DOMAIN g})
    BY <1>1, <2>1, ImageFinite
  <2> QED BY <2>1, <2>2, <2>3
<1>5. t = TopRows(S, n)
  <2>1. S = {RouteRow(I, m) : m \in I}
    OBVIOUS
  <2> HIDE DEF S
  <2> QED BY <2>1 DEF TopRoutes, RouteRow, OnRoute
<1>6. \A m \in I : /\ RouteRow(I, m) \in S /\ RouteRow(I, m).message = events[m].route
                   /\ RouteRow(I, m).count = Cardinality(OnRoute(I, events[m].route))
  BY DEF RouteRow
<1> HIDE DEF S, g
<1>7. PICK s : Ranks(s, S, RowOrder(S)) /\ t = First(s, n)
  BY <1>4, <1>5, TopRowsShow
<1>8. IsOrdered(S, RowOrder(S))
  BY <1>4, RowsOrdered
<1>9. /\ t \in Seq(S) /\ DOMAIN t = 1..Len(t)
      /\ \A x \in S : \/ \E p \in DOMAIN t : t[p] = x
                      \/ \A p \in DOMAIN t : <<t[p], x>> \in RowOrder(S)
  BY <1>4, <1>7, <1>8, FirstShows
<1>10. \A x, y : <<x, y>> \in RowOrder(S) => y.count <= x.count
  <2> SUFFICES ASSUME NEW x, NEW y, <<x, y>> \in RowOrder(S) PROVE y.count <= x.count
    OBVIOUS
  <2>1. x \in S /\ y \in S /\ RowBefore(x, y)
    BY DEF RowOrder
  <2>2. x.count \in Nat /\ y.count \in Nat
    BY <1>4, <2>1 DEF Row
  <2> QED BY <2>1, <2>2 DEF RowBefore
<1>11. ASSUME NEW m \in W
       PROVE  \/ events[m].route = 0
              \/ \E p \in DOMAIN t : t[p].message = events[m].route
              \/ \A p \in DOMAIN t : Cardinality(OnRoute(W, events[m].route)) <= t[p].count
  <2> SUFFICES ASSUME events[m].route # 0
               PROVE  \/ \E p \in DOMAIN t : t[p].message = events[m].route
                      \/ \A p \in DOMAIN t : Cardinality(OnRoute(W, events[m].route)) <= t[p].count
    OBVIOUS
  <2> DEFINE x == RouteRow(I, m)
  <2>1. m \in I
    OBVIOUS
  <2>2. x \in S /\ x.message = events[m].route /\ x.count = Cardinality(OnRoute(W, events[m].route))
    BY <1>2, <1>6, <2>1
  <2> HIDE DEF x
  <2> QED BY <1>9, <1>10, <2>2
<1>12. t \in Seq(Row)
  BY <1>4, <1>9
<1> QED BY <1>9, <1>11, <1>12

------------------------------------------------------------------------------
(***************************************************************************)
(* Queries: clients' health.                                               *)
(***************************************************************************)
OfClient(S, c) == {o \in S : events[o].client = c}

Health == [client : Nat, errors : Nat, warns : Nat]

HealthRow(S, m) ==
  [client |-> events[m].client,
   errors |-> Cardinality(OfLevel(OfClient(S, events[m].client), levelError)),
   warns  |-> Cardinality(OfLevel(OfClient(S, events[m].client), levelWarn))]

HealthBefore(a, b) ==
  \/ a.errors + a.warns > b.errors + b.warns
  \/ a.errors + a.warns = b.errors + b.warns /\ a.client < b.client

HealthOrder(S) == {x \in S \X S : HealthBefore(x[1], x[2])}

\* No client has two rows.
OneEach(S) == \A a, b \in S : a.client = b.client => a = b

LEMMA HealthOrdered ==
  ASSUME NEW S \in SUBSET Health, OneEach(S) PROVE IsOrdered(S, HealthOrder(S))
<1>1. \A a, b \in S : <<a, b>> \in HealthOrder(S) <=> HealthBefore(a, b)
  BY DEF HealthOrder
<1>2. \A a \in S : a.client \in Nat /\ a.errors \in Nat /\ a.warns \in Nat
  BY DEF Health
<1>3. \A a \in S : ~HealthBefore(a, a)
  BY <1>2 DEF HealthBefore
<1>4. ASSUME NEW a \in S, NEW b \in S, a # b PROVE HealthBefore(a, b) \/ HealthBefore(b, a)
  <2>1. a.client # b.client
    BY <1>4 DEF OneEach
  <2>2. a.client < b.client \/ b.client < a.client
    BY <1>2, <2>1
  <2>3. /\ a.errors + a.warns \in Nat /\ b.errors + b.warns \in Nat
    BY <1>2
  <2> QED BY <2>2, <2>3 DEF HealthBefore
<1>5. ASSUME NEW a \in S, NEW b \in S, NEW c \in S, HealthBefore(a, b), HealthBefore(b, c)
      PROVE  HealthBefore(a, c)
  BY <1>2, <1>5 DEF HealthBefore
<1> HIDE DEF HealthOrder
<1> QED BY <1>1, <1>3, <1>4, <1>5 DEF IsOrdered

LEMMA HealthRanked ==
  ASSUME NEW S \in SUBSET Health, OneEach(S), IsFiniteSet(S)
  PROVE  Ranks(Ranked(S, HealthBefore), S, HealthOrder(S))
<1> DEFINE D == 1..Cardinality(S)
           Good(s) == \A p, q \in DOMAIN s : p < q => HealthBefore(s[p], s[q])
           r == CHOOSE s \in [D -> S] : Good(s)
<1>1. PICK s : Ranks(s, S, HealthOrder(S))
  BY HealthOrdered, RankingExists
<1>2. s \in [D -> S] /\ Good(s)
  <2>1. s \in [D -> S] /\ DOMAIN s = D
    BY <1>1 DEF Ranks
  <2>2. ASSUME NEW p \in D, NEW q \in D, p < q PROVE HealthBefore(s[p], s[q])
    BY <1>1, <2>2 DEF Ranks, HealthOrder
  <2> QED BY <2>1, <2>2
<1>3. r \in [D -> S] /\ Good(r)
  <2> HIDE DEF Good, D
  <2> QED BY <1>2
<1>4. Ranks(r, S, HealthOrder(S))
  <2>1. DOMAIN r = D
    BY <1>3
  <2>2. ASSUME NEW p \in D, NEW q \in D, p < q PROVE <<r[p], r[q]>> \in HealthOrder(S)
    <3>1. HealthBefore(r[p], r[q]) /\ r[p] \in S /\ r[q] \in S
      BY <1>3, <2>1, <2>2
    <3> HIDE DEF r
    <3> QED BY <3>1 DEF HealthOrder
  <2> HIDE DEF r
  <2> QED BY <1>3, <2>2 DEF Ranks
<1>5. Ranked(S, HealthBefore) = r
  BY DEF Ranked
<1> QED BY <1>4, <1>5

LEMMA HealthShows ==
  ASSUME StoreInv, NEW now \in Nows, NEW lookback \in Lookbacks, NEW n \in Nat,
         NEW I, I = Issues(now, lookback), NEW t, t = TopClientHealth(now, n, lookback)
  PROVE  /\ t \in Seq(Health) /\ DOMAIN t = 1..Len(t)
         /\ \A m \in I : \/ events[m].client = 0
                         \/ \E p \in DOMAIN t : t[p].client = events[m].client
                         \/ /\ Len(t) = n
                            /\ \A p \in DOMAIN t :
                                 Cardinality(OfClient(I, events[m].client)) <= t[p].errors + t[p].warns
         /\ \A p \in DOMAIN t : t[p].errors + t[p].warns = Cardinality(OfClient(I, t[p].client))
<1> DEFINE J == {m \in I : events[m].client # 0}
           g == [m \in J |-> HealthRow(J, m)]
           S == {g[m] : m \in J}
<1>1. I \in SUBSET DOMAIN events /\ J \in SUBSET DOMAIN events /\ IsFiniteSet(J)
  BY Windows, Parts
<1>2. ASSUME NEW m \in J
      PROVE  /\ HealthRow(J, m) \in Health /\ HealthRow(J, m).client = events[m].client
             /\ HealthRow(J, m).errors + HealthRow(J, m).warns = Cardinality(OfClient(I, events[m].client))
  <2> DEFINE C == OfClient(I, events[m].client)
             E == OfLevel(C, levelError)
             V == OfLevel(C, levelWarn)
  <2>1. OfClient(J, events[m].client) = C
    BY DEF OfClient
  <2>2. /\ C \in SUBSET DOMAIN events /\ E \in SUBSET DOMAIN events /\ V \in SUBSET DOMAIN events
        /\ C \subseteq I
    BY <1>1 DEF OfClient, OfLevel
  <2>3. IsFiniteSet(E) /\ IsFiniteSet(V) /\ Cardinality(E) \in Nat /\ Cardinality(V) \in Nat
    BY <2>2, Parts
  <2>4. C = E \cup V /\ E \cap V = {}
    <3>1. \A o \in C : events[o].level \in {levelError, levelWarn}
      BY <2>2, Windows
    <3> HIDE DEF C
    <3> QED BY <3>1 DEF OfLevel, levelError, levelWarn
  <2>5. Cardinality(C) = Cardinality(E) + Cardinality(V)
    <3> HIDE DEF C, E, V
    <3>1. Cardinality(E \cup V) = Cardinality(E) + Cardinality(V) - Cardinality({})
      BY <2>3, <2>4, FS_Union
    <3> QED BY <2>3, <2>4, <3>1, FS_EmptySet
  <2>6. HealthRow(J, m) = [client |-> events[m].client, errors |-> Cardinality(E), warns |-> Cardinality(V)]
    BY <2>1 DEF HealthRow
  <2>7. events[m].client \in Nat
    BY <1>1, EventsAre
  <2> HIDE DEF C, E, V
  <2> QED BY <2>3, <2>5, <2>6, <2>7 DEF Health, C
<1>3. ASSUME NEW m \in J, NEW o \in J, events[m].client = events[o].client
      PROVE  HealthRow(J, m) = HealthRow(J, o)
  BY <1>3 DEF HealthRow
<1>4. \A m \in J : g[m] = HealthRow(J, m)
  OBVIOUS
<1>5. IsFiniteSet(S) /\ S \in SUBSET Health /\ OneEach(S)
  <2>1. DOMAIN g = J
    OBVIOUS
  <2> HIDE DEF g
  <2>2. IsFiniteSet({g[m] : m \in DOMAIN g})
    BY <1>1, <2>1, ImageFinite
  <2>3. \A m \in J : g[m] \in Health /\ g[m].client = events[m].client
    BY <1>2, <1>4
  <2>4. ASSUME NEW m \in J, NEW o \in J, g[m].client = g[o].client PROVE g[m] = g[o]
    <3>1. events[m].client = events[o].client
      BY <2>3, <2>4
    <3> QED BY <1>3, <1>4, <3>1
  <2> QED BY <2>1, <2>2, <2>3, <2>4 DEF OneEach
<1>6. t = First(Ranked(S, HealthBefore), n)
  <2>1. S = {HealthRow(J, m) : m \in J}
    OBVIOUS
  <2> HIDE DEF S
  <2> QED BY <2>1 DEF TopClientHealth, HealthRow, OfClient, Ranked, HealthBefore
<1>7. \A m \in J : HealthRow(J, m) \in S
  BY <1>4
<1>8. \A x \in S : \E m \in J : x = HealthRow(J, m)
  BY <1>4
<1> HIDE DEF S, g
<1>9. Ranks(Ranked(S, HealthBefore), S, HealthOrder(S)) /\ IsOrdered(S, HealthOrder(S))
  BY <1>5, HealthRanked, HealthOrdered
<1>10. /\ t \in Seq(S) /\ DOMAIN t = 1..Len(t)
       /\ \A x \in S : \/ \E p \in DOMAIN t : t[p] = x
                       \/ Len(t) = n /\ \A p \in DOMAIN t : <<t[p], x>> \in HealthOrder(S)
  <2> DEFINE s == Ranked(S, HealthBefore)
  <2>1. Ranks(s, S, HealthOrder(S)) /\ t = First(s, n)
    BY <1>6, <1>9
  <2> HIDE DEF s
  <2> QED BY <1>5, <1>9, <2>1, FirstShows
<1>11. \A x, y : <<x, y>> \in HealthOrder(S) => y.errors + y.warns <= x.errors + x.warns
  <2> SUFFICES ASSUME NEW x, NEW y, <<x, y>> \in HealthOrder(S)
               PROVE  y.errors + y.warns <= x.errors + x.warns
    OBVIOUS
  <2>1. x \in S /\ y \in S /\ HealthBefore(x, y)
    BY DEF HealthOrder
  <2>2. x.errors \in Nat /\ y.errors \in Nat /\ x.warns \in Nat /\ y.warns \in Nat
    BY <1>5, <2>1 DEF Health
  <2> QED BY <2>1, <2>2 DEF HealthBefore
<1>12. ASSUME NEW m \in I, events[m].client # 0
       PROVE  \/ \E p \in DOMAIN t : t[p].client = events[m].client
              \/ /\ Len(t) = n
                 /\ \A p \in DOMAIN t :
                      Cardinality(OfClient(I, events[m].client)) <= t[p].errors + t[p].warns
  <2> DEFINE x == HealthRow(J, m)
  <2>1. m \in J
    BY <1>12
  <2>2. /\ x \in S /\ x.client = events[m].client
        /\ x.errors + x.warns = Cardinality(OfClient(I, events[m].client))
    BY <1>2, <1>7, <2>1
  <2> HIDE DEF x, J
  <2> QED BY <1>10, <1>11, <2>2
<1>13. ASSUME NEW p \in DOMAIN t
       PROVE  t[p].errors + t[p].warns = Cardinality(OfClient(I, t[p].client))
  <2>1. t[p] \in S
    BY <1>10, ElementOfSeq
  <2>2. PICK m \in J : t[p] = HealthRow(J, m)
    BY <1>8, <2>1
  <2> QED BY <1>2, <2>2
<1>14. t \in Seq(Health)
  <2>1. t \in Seq(S) /\ S \subseteq Health
    BY <1>5, <1>10
  <2> HIDE DEF J
  <2> QED BY <2>1
<1> QED BY <1>10, <1>12, <1>13, <1>14

------------------------------------------------------------------------------
(***************************************************************************)
(* Queries: the newest issues.                                             *)
(***************************************************************************)
NewestOrder(S) == {x \in S \X S : Older(x[2], x[1])}

LEMMA NewestOrdered ==
  ASSUME StoreInv, NEW S \in SUBSET DOMAIN events
  PROVE  IsOrdered(S, NewestOrder(S))
<1>1. \A a, b \in S : <<a, b>> \in NewestOrder(S) <=> Older(b, a)
  BY DEF NewestOrder
<1>2. \A a \in S : a \in Nat /\ events[a].ts \in Nat
  BY EventsAre
<1>3. \A a \in S : ~Older(a, a)
  BY <1>2 DEF Older
<1>4. ASSUME NEW a \in S, NEW b \in S, a # b PROVE Older(a, b) \/ Older(b, a)
  BY <1>2, <1>4 DEF Older
<1>5. ASSUME NEW a \in S, NEW b \in S, NEW c \in S, Older(b, a), Older(c, b)
      PROVE  Older(c, a)
  BY <1>2, <1>5 DEF Older
<1> HIDE DEF NewestOrder
<1> QED BY <1>1, <1>3, <1>4, <1>5 DEF IsOrdered

\* h is the n newest of the issues A.
Holds(h, A, n) ==
  /\ h \subseteq A
  /\ Cardinality(h) = IF Cardinality(A) > n THEN n ELSE Cardinality(A)
  /\ \A a \in A \ h, b \in h : Older(a, b)

LEMMA Offered ==
  ASSUME StoreInv, NEW A \in SUBSET DOMAIN events, NEW m \in DOMAIN events, m \notin A,
         NEW n \in Nat \ {0}, NEW h, Holds(h, A, n)
  PROVE  Holds(Offer(h, m, n), A \cup {m}, n)
<1> DEFINE B == A \cup {m}
<1>1. /\ B \in SUBSET DOMAIN events /\ h \in SUBSET DOMAIN events
      /\ h \subseteq A /\ m \notin h
      /\ \A a \in A \ h, b \in h : Older(a, b)
  BY DEF Holds
<1>2. /\ IsFiniteSet(A) /\ IsFiniteSet(h) /\ Cardinality(A) \in Nat /\ Cardinality(h) \in Nat
      /\ Cardinality(h) = IF Cardinality(A) > n THEN n ELSE Cardinality(A)
      /\ Cardinality(B) = Cardinality(A) + 1
  <2>1. /\ IsFiniteSet(A) /\ IsFiniteSet(h) /\ Cardinality(A) \in Nat /\ Cardinality(h) \in Nat
    BY <1>1, Parts
  <2>2. Cardinality(B) = Cardinality(A) + 1
    BY <2>1, FS_AddElement
  <2> QED BY <2>1, <2>2 DEF Holds
<1>3. \A a, b, c \in B : Older(a, b) /\ Older(b, c) => Older(a, c)
  <2>1. \A a \in B : a \in Nat /\ events[a].ts \in Nat
    BY <1>1, EventsAre
  <2> QED BY <2>1 DEF Older
<1>4. \A a, b \in B : a # b => Older(a, b) \/ Older(b, a)
  <2>1. \A a \in B : a \in Nat /\ events[a].ts \in Nat
    BY <1>1, EventsAre
  <2> QED BY <2>1 DEF Older
<1>5. CASE Cardinality(h) < n
  <2>1. Cardinality(h) = Cardinality(A)
    BY <1>2, <1>5
  <2>2. h = A
    BY <1>1, <1>2, <2>1, FS_Subset
  <2>3. Offer(h, m, n) = B
    BY <1>5, <2>2 DEF Offer
  <2>4. Cardinality(B) = IF Cardinality(B) > n THEN n ELSE Cardinality(B)
    BY <1>2, <1>5, <2>1
  <2> HIDE DEF B
  <2> QED BY <2>3, <2>4 DEF Holds, B
<1>6. CASE ~(Cardinality(h) < n)
  <2> DEFINE Oldest(o) == \A x \in h \ {o} : Older(o, x)
             root == CHOOSE o \in h : Oldest(o)
  <2>1. Cardinality(h) = n /\ Cardinality(A) >= n
    BY <1>2, <1>6
  <2>2. h # {}
    BY <1>2, <2>1, FS_EmptySet
  <2>3. \E o \in h : Oldest(o)
    <3>1. IsOrdered(h, NewestOrder(h)) /\ h \in SUBSET h
      BY <1>1, NewestOrdered
    <3>2. PICK o \in h : \A x \in h \ {o} : <<x, o>> \in NewestOrder(h)
      BY <1>2, <2>2, <3>1, LastExists
    <3> QED BY <3>2 DEF NewestOrder
  <2>4. root \in h /\ Oldest(root)
    <3> HIDE DEF Oldest
    <3> QED BY <2>3
  <2>5. Offer(h, m, n) = IF Older(root, m) THEN (h \ {root}) \cup {m} ELSE h
    BY <1>6 DEF Offer
  <2> HIDE DEF root
  <2>6. CASE Older(root, m)
    <3> DEFINE kept == (h \ {root}) \cup {m}
    <3>1. Cardinality(kept) = n
      <4>1. IsFiniteSet(h \ {root}) /\ Cardinality(h \ {root}) = n - 1
        BY <1>2, <2>1, <2>4, FS_RemoveElement
      <4>2. m \notin h \ {root}
        BY <1>1
      <4>3. Cardinality(kept) = Cardinality(h \ {root}) + 1
        BY <4>1, <4>2, FS_AddElement
      <4> QED BY <4>1, <4>3
    <3>2. kept \subseteq B
      BY <1>1
    <3>3. ASSUME NEW a \in B \ kept, NEW b \in kept PROVE Older(a, b)
      <4>1. a = root \/ a \in A \ h
        OBVIOUS
      <4>2. b = m \/ b \in h \ {root}
        OBVIOUS
      <4>3. a = root \/ Older(a, root)
        BY <1>1, <2>4, <4>1
      <4>4. Older(root, b)
        BY <2>4, <2>6, <4>2
      <4>5. a \in B /\ b \in B /\ root \in B
        BY <1>1, <2>4, <3>2
      <4> QED BY <1>3, <4>3, <4>4, <4>5
    <3>4. Offer(h, m, n) = kept
      BY <2>5, <2>6
    <3>5. Cardinality(kept) = IF Cardinality(B) > n THEN n ELSE Cardinality(B)
      BY <1>2, <2>1, <3>1
    <3> HIDE DEF kept, B
    <3> QED BY <3>2, <3>3, <3>4, <3>5 DEF Holds, B
  <2>7. CASE ~Older(root, m)
    <3>1. Older(m, root)
      BY <1>1, <1>4, <2>4, <2>7
    <3>2. ASSUME NEW a \in B \ h, NEW b \in h PROVE Older(a, b)
      <4>1. CASE a = m
        <5>1. b = root \/ Older(root, b)
          BY <2>4
        <5>2. a \in B /\ b \in B /\ root \in B
          BY <1>1, <2>4
        <5> QED BY <1>3, <3>1, <4>1, <5>1, <5>2
      <4>2. CASE a # m
        BY <1>1, <4>2
      <4> QED BY <4>1, <4>2
    <3>3. Cardinality(h) = IF Cardinality(B) > n THEN n ELSE Cardinality(B)
      BY <1>2, <2>1
    <3>4. Offer(h, m, n) = h /\ h \subseteq B
      BY <1>1, <2>5, <2>7
    <3> HIDE DEF B
    <3> QED BY <3>2, <3>3, <3>4 DEF Holds, B
  <2> QED BY <2>6, <2>7
<1> QED BY <1>5, <1>6

\* What has been offered of the issues I, event by event.
Heaps(out, I, n) ==
  out = [m \in 0..Len(events) |->
           IF m = 0 THEN {}
           ELSE IF n > 0 /\ m \in I THEN Offer(out[m - 1], m, n) ELSE out[m - 1]]

LEMMA HeapsExist ==
  ASSUME StoreInv, NEW I \in SUBSET DOMAIN events, NEW n \in Nat
  PROVE  \E out : Heaps(out, I, n)
<1> DEFINE N == Len(events)
           V == SUBSET DOMAIN events
           none == {}
           step == [c \in (1..N) \X V |->
                      IF n > 0 /\ c[1] \in I THEN Offer(c[2], c[1], n) ELSE c[2]]
<1>1. N \in Nat /\ none \in V /\ DOMAIN events = 1..N
  BY EventsAre
<1>2. step \in [(1..N) \X V -> V]
  <2>1. ASSUME NEW c \in (1..N) \X V
        PROVE  (IF n > 0 /\ c[1] \in I THEN Offer(c[2], c[1], n) ELSE c[2]) \in V
    <3>1. c[1] \in DOMAIN events /\ c[2] \in V
      BY <1>1
    <3> DEFINE root == CHOOSE o \in c[2] : \A h \in c[2] \ {o} : Older(o, h)
    <3>2. Offer(c[2], c[1], n) \in {c[2] \cup {c[1]}, (c[2] \ {root}) \cup {c[1]}, c[2]}
      BY DEF Offer
    <3> HIDE DEF root
    <3>3. Offer(c[2], c[1], n) \in V
      BY <3>1, <3>2
    <3> QED BY <3>1, <3>3
  <2> QED BY <2>1
<1>3. PICK out \in [0..N -> V] : IsRecursion(out, N, none, step)
  <2> HIDE DEF step, N, V, none
  <2> QED BY <1>1, <1>2, RecursionExists
<1>4. ASSUME NEW m \in 0..N, m # 0
      PROVE  step[<<m, out[m - 1]>>] = IF n > 0 /\ m \in I THEN Offer(out[m - 1], m, n) ELSE out[m - 1]
  <2>1. m \in 1..N /\ m - 1 \in 0..N
    BY <1>1, <1>4
  <2>2. <<m, out[m - 1]>> \in (1..N) \X V
    <3> HIDE DEF V
    <3> QED BY <2>1
  <2> QED BY <2>2
<1> HIDE DEF step
<1>5. out = [m \in 0..N |-> IF m = 0 THEN {}
               ELSE IF n > 0 /\ m \in I THEN Offer(out[m - 1], m, n) ELSE out[m - 1]]
  BY <1>3, <1>4 DEF IsRecursion
<1> QED BY <1>5 DEF Heaps

Newest(I, n) == (CHOOSE out : Heaps(out, I, n))[Len(events)]

LEMMA NewestHeld ==
  ASSUME StoreInv, NEW I \in SUBSET DOMAIN events, NEW n \in Nat
  PROVE  Holds(Newest(I, n), I, n)
<1> DEFINE N == Len(events)
           Upto(m) == I \cap (1..m)
           out == CHOOSE o : Heaps(o, I, n)
           S == {m \in Nat : m <= N => Holds(out[m], Upto(m), n)}
<1>1. Heaps(out, I, n)
  BY HeapsExist
<1> HIDE DEF out
<1>2. N \in Nat /\ DOMAIN events = 1..N
  BY EventsAre
<1>3. \A m \in 0..N : out[m] = IF m = 0 THEN {}
        ELSE IF n > 0 /\ m \in I THEN Offer(out[m - 1], m, n) ELSE out[m - 1]
  BY <1>1 DEF Heaps
<1>4. 0 \in S
  <2>1. out[0] = {} /\ Upto(0) = {}
    BY <1>2, <1>3
  <2>2. Cardinality({}) = 0
    BY FS_EmptySet
  <2>3. Holds({}, {}, n)
    BY <2>2 DEF Holds
  <2> QED BY <2>1, <2>3
<1>5. ASSUME NEW m \in S \cap Nat PROVE m + 1 \in S
  <2> SUFFICES ASSUME m + 1 <= N PROVE Holds(out[m + 1], Upto(m + 1), n)
    OBVIOUS
  <2> DEFINE up == m + 1
  <2>1. up \in 1..N /\ up \in 0..N /\ up - 1 = m /\ up # 0 /\ m \in Nat
    BY <1>2
  <2>2. Holds(out[m], Upto(m), n)
    BY <1>2
  <2>3. out[up] = IF n > 0 /\ up \in I THEN Offer(out[m], up, n) ELSE out[m]
    BY <1>3, <2>1
  <2>4. Upto(up) = IF up \in I THEN Upto(m) \cup {up} ELSE Upto(m)
    <3>1. 1..up = (1..m) \cup {up}
      BY <2>1
    <3> HIDE DEF up
    <3> QED BY <3>1
  <2>5. Upto(m) \in SUBSET DOMAIN events /\ up \in DOMAIN events /\ up \notin Upto(m)
    BY <1>2, <2>1
  <2> HIDE DEF up, Upto
  <2>6. CASE n > 0 /\ up \in I
    <3>1. n \in Nat \ {0}
      BY <2>6
    <3>2. Holds(Offer(out[m], up, n), Upto(m) \cup {up}, n)
      BY <2>2, <2>5, <3>1, Offered
    <3> QED BY <2>3, <2>4, <2>6, <3>2 DEF up
  <2>7. CASE n > 0 /\ up \notin I
    BY <2>2, <2>3, <2>4, <2>7 DEF up
  <2>8. CASE n = 0
    <3>1. out[up] = out[m]
      BY <2>3, <2>8
    <3>2. IsFiniteSet(out[m]) /\ Cardinality(out[m]) = 0
      <4>1. out[m] \in SUBSET DOMAIN events /\ Cardinality(Upto(m)) \in Nat
        BY <2>2, <2>5, Parts DEF Holds
      <4> QED BY <2>2, <2>8, <4>1, Parts DEF Holds
    <3>3. out[m] = {}
      BY <3>2, FS_EmptySet
    <3>4. Upto(up) \in SUBSET DOMAIN events
      BY <2>4, <2>5
    <3>5. Cardinality(Upto(up)) \in Nat
      BY <3>4, Parts
    <3>6. Holds({}, Upto(up), n)
      BY <2>8, <3>2, <3>3, <3>5 DEF Holds
    <3> QED BY <3>1, <3>3, <3>6 DEF up
  <2> QED BY <2>6, <2>7, <2>8
<1>6. N \in S
  <2> HIDE DEF S, N
  <2> QED BY <1>2, <1>4, <1>5, SetInduction
<1>7. Upto(N) = I
  BY <1>2
<1>8. Newest(I, n) = out[N]
  BY DEF Newest, out
<1> HIDE DEF Upto
<1> QED BY <1>2, <1>6, <1>7, <1>8

LEMMA RecentShow ==
  ASSUME StoreInv, NEW now \in Nows, NEW lookback \in Lookbacks, NEW n \in Nat,
         NEW I, I = Issues(now, lookback), NEW t, t = RecentIssues(now, n, lookback)
  PROVE  /\ t \in Seq(I) /\ DOMAIN t = 1..Len(t)
         /\ Len(t) = IF Cardinality(I) > n THEN n ELSE Cardinality(I)
         /\ \A m \in I \ {t[r] : r \in DOMAIN t} : \A p \in DOMAIN t : Older(m, t[p])
         /\ \A p, q \in DOMAIN t : p < q => Older(t[q], t[p])
<1> DEFINE h == Newest(I, n)
           D == 1..Cardinality(h)
           Good(s) == \A p, q \in DOMAIN s : p < q => Older(s[q], s[p])
           r == CHOOSE s \in [D -> h] : Good(s)
<1>1. I \in SUBSET DOMAIN events
  BY Windows
<1>2. Holds(h, I, n)
  BY <1>1, NewestHeld
<1>3. t = r
  <2>1. h = (CHOOSE out : out = [m \in 0..Len(events) |->
             IF m = 0 THEN {}
             ELSE IF n > 0 /\ m \in I THEN Offer(out[m - 1], m, n) ELSE out[m - 1]])[Len(events)]
    BY DEF Newest, Heaps
  <2> HIDE DEF h
  <2> QED BY <2>1 DEF RecentIssues, Ranked
<1> HIDE DEF h
<1>4. h \in SUBSET DOMAIN events /\ h \subseteq I /\ IsFiniteSet(h)
  <2>1. h \subseteq I
    BY <1>2 DEF Holds
  <2> QED BY <1>1, <2>1, Parts
<1>5. IsOrdered(h, NewestOrder(h))
  BY <1>4, NewestOrdered
<1>6. PICK s : Ranks(s, h, NewestOrder(h))
  BY <1>4, <1>5, RankingExists
<1>7. s \in [D -> h] /\ Good(s)
  <2>1. s \in [D -> h] /\ DOMAIN s = D
    BY <1>6 DEF Ranks
  <2>2. ASSUME NEW p \in D, NEW q \in D, p < q PROVE Older(s[q], s[p])
    BY <1>6, <2>2 DEF Ranks, NewestOrder
  <2> QED BY <2>1, <2>2
<1>8. r \in [D -> h] /\ Good(r)
  <2> HIDE DEF Good, D
  <2> QED BY <1>7
<1> HIDE DEF r
<1>9. Ranks(r, h, NewestOrder(h))
  <2>1. DOMAIN r = D
    BY <1>8
  <2>2. ASSUME NEW p \in D, NEW q \in D, p < q PROVE <<r[p], r[q]>> \in NewestOrder(h)
    <3>1. Older(r[q], r[p]) /\ r[p] \in h /\ r[q] \in h
      BY <1>8, <2>1, <2>2
    <3> QED BY <3>1 DEF NewestOrder
  <2> QED BY <1>8, <2>2 DEF Ranks
<1>10. /\ Len(r) = Cardinality(h) /\ r \in Seq(h) /\ DOMAIN r = 1..Cardinality(h)
       /\ r \in Bijection(1..Cardinality(h), h)
  BY <1>4, <1>5, <1>9, RankingIs
<1>11. h = {r[p] : p \in DOMAIN r}
  BY <1>10 DEF Bijection, Surjection
<1>12. \A p, q \in DOMAIN r : p < q => Older(r[q], r[p])
  BY <1>8
<1>13. \A m \in I \ h : \A p \in DOMAIN r : Older(m, r[p])
  <2>1. \A p \in DOMAIN r : r[p] \in h
    BY <1>11
  <2> QED BY <1>2, <2>1 DEF Holds
<1>14. Len(r) = IF Cardinality(I) > n THEN n ELSE Cardinality(I)
  BY <1>2, <1>10 DEF Holds
<1>15. r \in Seq(I)
  BY <1>4, <1>10
<1> QED BY <1>3, <1>10, <1>11, <1>12, <1>13, <1>14, <1>15

LEMMA ProductMonotone ==
  ASSUME NEW x \in Int, NEW y \in Int, x <= y, NEW d \in Nat
  PROVE  x * d \in Int /\ y * d \in Int /\ x * d <= y * d
OBVIOUS

LEMMA Distributes ==
  ASSUME NEW x \in Int, NEW y \in Int, NEW d \in Int
  PROVE  /\ (x + y) * d = x * d + y * d
         /\ (x - y) * d = x * d - y * d
         /\ x * d \in Int
OBVIOUS

LEMMA Quotient ==
  ASSUME NEW a \in Int, NEW d \in Nat \ {0}
  PROVE  /\ a \div d \in Int
         /\ (a \div d) * d <= a /\ a < (a \div d) * d + d
OBVIOUS

LEMMA QuotientIs ==
  ASSUME NEW a \in Int, NEW d \in Nat \ {0}, NEW q \in Int, q * d <= a, a < q * d + d
  PROVE  a \div d = q
OBVIOUS

------------------------------------------------------------------------------
(***************************************************************************)
(* Queries: charts.                                                        *)
(***************************************************************************)
LEMMA BinsAre ==
  ASSUME NEW now \in Nat, NEW lookback \in Nat \ {0}, NEW b, b = Bins(now, lookback)
  PROVE  /\ b.bin \in Nat \ {0} /\ b.n \in Nat \ {0} /\ b.start \in Int
         /\ b.start <= now - lookback /\ now < b.start + b.n * b.bin
<1> DEFINE d == PickBinDuration(lookback)
           q == (now - lookback) \div d
           p == now \div d
<1>1. Minute \in Nat \ {0} /\ Hour \in Nat \ {0} /\ Minute \div 2 \in Nat \ {0}
  BY QueriesAssumption DEF Hour
<1>2. d \in Nat \ {0}
  BY <1>1 DEF PickBinDuration
<1>3. b.bin = d /\ b.start = q * d /\ b.n = (p * d - q * d) \div d + 1
  BY DEF Bins, Truncate
<1> HIDE DEF d
<1>4. q \in Int /\ q * d <= now - lookback /\ now - lookback < q * d + d
  BY <1>2, Quotient
<1>5. p \in Int /\ p * d <= now /\ now < p * d + d
  BY <1>2, Quotient
<1> HIDE DEF q, p
<1>6. /\ (p - q) * d = p * d - q * d /\ (p - q + 1) * d = (p - q) * d + 1 * d
      /\ p * d \in Int /\ q * d \in Int /\ p - q \in Int
  BY <1>2, <1>4, <1>5, Distributes
<1>7. (p * d - q * d) \div d = p - q
  BY <1>2, <1>6, QuotientIs
<1>8. p - q >= 0
  <2> SUFFICES ASSUME p + 1 <= q PROVE FALSE
    BY <1>4, <1>5
  <2>1. (p + 1) * d <= q * d /\ (p + 1) * d = p * d + 1 * d
    BY <1>2, <1>4, <1>5, ProductMonotone, Distributes
  <2> QED BY <1>2, <1>4, <1>5, <1>6, <2>1
<1>9. b.n = p - q + 1 /\ b.n * b.bin = p * d - q * d + d
  BY <1>2, <1>3, <1>6, <1>7
<1>10. b.n \in Nat \ {0}
  BY <1>6, <1>8, <1>9
<1>11. b.start + b.n * b.bin = p * d + d
  BY <1>2, <1>3, <1>6, <1>9
<1> QED BY <1>2, <1>3, <1>4, <1>5, <1>6, <1>10, <1>11

\* The bin of a time in the window.
LEMMA BinIndexIs ==
  ASSUME NEW now \in Nat, NEW lookback \in Nat \ {0}, NEW b, b = Bins(now, lookback),
         NEW ts \in Nat, ts > now - lookback, NEW c, c = BinIndex(ts, b)
  PROVE  /\ ts >= b.start + b.n * b.bin => c = -1
         /\ ts < b.start + b.n * b.bin =>
              /\ c \in 0..(b.n - 1)
              /\ b.start + c * b.bin <= ts /\ ts < b.start + (c + 1) * b.bin
<1> DEFINE d == b.bin
           n == b.n
           s == b.start
           q == (ts - s) \div d
<1>1. d \in Nat \ {0} /\ n \in Nat \ {0} /\ s \in Int /\ s <= now - lookback
  BY BinsAre
<1>2. c = IF q < 0 \/ q >= n THEN -1 ELSE q
  BY <1>1 DEF BinIndex
<1> HIDE DEF d, n, s
<1>3. q \in Int /\ q * d <= ts - s /\ ts - s < q * d + d
  BY <1>1, Quotient
<1> HIDE DEF q
<1>4. (q + 1) * d = q * d + 1 * d /\ q * d \in Int /\ n * d \in Int
  BY <1>1, <1>3, Distributes
<1>5. q >= 0
  <2> SUFFICES ASSUME q + 1 <= 0 PROVE FALSE
    BY <1>3
  <2>1. (q + 1) * d <= 0 * d
    BY <1>1, <1>3, ProductMonotone
  <2> QED BY <1>1, <1>3, <1>4, <2>1
<1>6. CASE q >= n
  <2>1. n * d <= q * d
    BY <1>1, <1>3, <1>6, ProductMonotone
  <2>2. ts >= s + n * d /\ c = -1
    BY <1>1, <1>2, <1>3, <1>4, <1>6, <2>1
  <2>3. ~(ts < s + n * d)
    BY <1>1, <1>4, <2>2
  <2> QED BY <2>2, <2>3 DEF s, n, d
<1>7. CASE q < n
  <2>1. (q + 1) * d <= n * d
    BY <1>1, <1>3, <1>7, ProductMonotone
  <2>2. c = q /\ c \in 0..(n - 1)
    BY <1>1, <1>2, <1>3, <1>5, <1>7
  <2>3. ts < s + n * d /\ s + c * d <= ts /\ ts < s + (c + 1) * d
    BY <1>1, <1>3, <1>4, <2>1, <2>2
  <2>4. ~(ts >= s + n * d)
    BY <1>1, <1>4, <2>3
  <2> QED BY <2>2, <2>3, <2>4 DEF s, n, d
<1> QED BY <1>1, <1>3, <1>6, <1>7

\* The events of S past the last bin.
Late(S, b) == {m \in S : events[m].ts >= b.start + b.n * b.bin}

LEMMA SeriesSum ==
  ASSUME StoreInv, NEW now \in Nows, NEW lookback \in Lookbacks, NEW b, b = Bins(now, lookback),
         NEW S \in SUBSET Window(now, lookback)
  PROVE  /\ BinSeries(S, b) \in [0..(b.n - 1) -> Nat]
         /\ SumOver(BinSeries(S, b)) + Cardinality(Late(S, b)) = Cardinality(S)
<1> DEFINE T == 0..(b.n - 1)
           A == S \ Late(S, b)
           g == [m \in A |-> BinIndex(events[m].ts, b)]
           L == Late(S, b)
<1>1. /\ now \in Nat /\ lookback \in Nat \ {0} /\ S \in SUBSET DOMAIN events
      /\ \A m \in S : events[m].ts > now - lookback
  BY Windows
<1>2. b.n \in Nat \ {0} /\ b.bin \in Nat \ {0} /\ b.start \in Int /\ b.start + b.n * b.bin \in Int
  <2>1. b.n \in Nat \ {0} /\ b.bin \in Nat \ {0} /\ b.start \in Int
    BY <1>1, BinsAre
  <2> QED BY <2>1
<1>3. ASSUME NEW m \in S
      PROVE  /\ m \in L => BinIndex(events[m].ts, b) = -1
             /\ m \notin L => BinIndex(events[m].ts, b) \in T
  <2>1. events[m].ts \in Nat /\ events[m].ts > now - lookback
    BY <1>1, EventsAre
  <2> DEFINE c == BinIndex(events[m].ts, b)
  <2>2. /\ events[m].ts >= b.start + b.n * b.bin => c = -1
        /\ events[m].ts < b.start + b.n * b.bin => c \in T
    <3> HIDE DEF c
    <3>1. c = BinIndex(events[m].ts, b)
      BY DEF c
    <3> QED BY <1>1, <2>1, <3>1, BinIndexIs
  <2>3. events[m].ts >= b.start + b.n * b.bin \/ events[m].ts < b.start + b.n * b.bin
    BY <1>2, <2>1
  <2>4. m \in L <=> events[m].ts >= b.start + b.n * b.bin
    BY DEF Late
  <2> HIDE DEF c
  <2> QED BY <2>2, <2>3, <2>4 DEF c
<1>4. g \in [A -> T]
  <2>1. \A m \in A : BinIndex(events[m].ts, b) \in T
    BY <1>3
  <2> HIDE DEF T
  <2> QED BY <2>1
<1>5. ASSUME NEW c \in T
      PROVE  /\ {m \in S : BinIndex(events[m].ts, b) = c} = {m \in A : g[m] = c}
             /\ Cardinality({m \in S : BinIndex(events[m].ts, b) = c}) \in Nat
  <2>1. c # -1
    BY <1>2
  <2>2. {m \in S : BinIndex(events[m].ts, b) = c} = {m \in A : g[m] = c}
    BY <1>3, <2>1
  <2>3. {m \in S : BinIndex(events[m].ts, b) = c} \in SUBSET DOMAIN events
    BY <1>1
  <2>4. Cardinality({m \in S : BinIndex(events[m].ts, b) = c}) \in Nat
    BY <2>3, Parts
  <2> QED BY <2>2, <2>4
<1>6. BinSeries(S, b) = [c \in T |-> Cardinality({m \in A : g[m] = c})]
  BY <1>5 DEF BinSeries
<1>7. IsFiniteSet(A) /\ IsFiniteSet(T) /\ IsFiniteSet(L) /\ IsFiniteSet(S)
  <2>1. A \in SUBSET DOMAIN events /\ L \in SUBSET DOMAIN events
    BY <1>1 DEF Late
  <2>2. IsFiniteSet(A) /\ IsFiniteSet(L) /\ IsFiniteSet(S)
    <3> HIDE DEF A, L
    <3> QED BY <1>1, <2>1, Parts
  <2>3. 0 \in Int /\ b.n - 1 \in Int
    BY <1>2
  <2>4. IsFiniteSet(T)
    BY <2>3, FS_Interval
  <2> QED BY <2>2, <2>4
<1>8. SumOver(BinSeries(S, b)) = Cardinality(A)
  <2> HIDE DEF A, T, g
  <2> QED BY <1>4, <1>6, <1>7, CountByClass
<1>9. Cardinality(A) + Cardinality(L) = Cardinality(S)
  <2>1. L \subseteq S
    BY DEF Late
  <2>2. L \cap S = L
    BY <2>1
  <2>3. Cardinality(A) = Cardinality(S) - Cardinality(S \cap L)
    BY <1>7, FS_Difference
  <2>4. S \cap L = L
    BY <2>1
  <2>5. Cardinality(L) \in Nat /\ Cardinality(S) \in Nat
    BY <1>7, FS_CardinalityType
  <2> HIDE DEF A, L
  <2> QED BY <2>3, <2>4, <2>5
<1>10. BinSeries(S, b) \in [T -> Nat]
  BY <1>5 DEF BinSeries
<1> QED BY <1>8, <1>9, <1>10

------------------------------------------------------------------------------
(***************************************************************************)
(* Queries: the segmented chart.                                           *)
(***************************************************************************)
\* Clients by their events in C.
GroupBefore(C, g, h) ==
  \/ Cardinality(OfClient(C, g)) > Cardinality(OfClient(C, h))
  \/ Cardinality(OfClient(C, g)) = Cardinality(OfClient(C, h)) /\ g < h

GroupOrder(C, S) == {x \in S \X S : GroupBefore(C, x[1], x[2])}

GroupRanking(C, S) == Ranked(S, LAMBDA g, h : GroupBefore(C, g, h))

LEMMA GroupsOrdered ==
  ASSUME StoreInv, NEW C \in SUBSET DOMAIN events, NEW S \in SUBSET Nat
  PROVE  IsOrdered(S, GroupOrder(C, S))
<1>1. \A a, b \in S : <<a, b>> \in GroupOrder(C, S) <=> GroupBefore(C, a, b)
  BY DEF GroupOrder
<1>2. \A a \in S : a \in Nat /\ Cardinality(OfClient(C, a)) \in Nat
  <2> SUFFICES ASSUME NEW a \in S PROVE Cardinality(OfClient(C, a)) \in Nat
    OBVIOUS
  <2>1. OfClient(C, a) \in SUBSET DOMAIN events
    BY DEF OfClient
  <2> QED BY <2>1, Parts
<1>3. \A a \in S : ~GroupBefore(C, a, a)
  BY <1>2 DEF GroupBefore
<1>4. ASSUME NEW a \in S, NEW b \in S, a # b PROVE GroupBefore(C, a, b) \/ GroupBefore(C, b, a)
  BY <1>2, <1>4 DEF GroupBefore
<1>5. ASSUME NEW a \in S, NEW b \in S, NEW c \in S, GroupBefore(C, a, b), GroupBefore(C, b, c)
      PROVE  GroupBefore(C, a, c)
  BY <1>2, <1>5 DEF GroupBefore
<1> HIDE DEF GroupOrder
<1> QED BY <1>1, <1>3, <1>4, <1>5 DEF IsOrdered

LEMMA GroupsRanked ==
  ASSUME StoreInv, NEW C \in SUBSET DOMAIN events, NEW S \in SUBSET Nat, IsFiniteSet(S)
  PROVE  Ranks(GroupRanking(C, S), S, GroupOrder(C, S))
<1> DEFINE D == 1..Cardinality(S)
           Good(s) == \A p, q \in DOMAIN s : p < q => GroupBefore(C, s[p], s[q])
           r == CHOOSE s \in [D -> S] : Good(s)
<1>1. PICK s : Ranks(s, S, GroupOrder(C, S))
  BY GroupsOrdered, RankingExists
<1>2. s \in [D -> S] /\ Good(s)
  <2>1. s \in [D -> S] /\ DOMAIN s = D
    BY <1>1 DEF Ranks
  <2>2. ASSUME NEW p \in D, NEW q \in D, p < q PROVE GroupBefore(C, s[p], s[q])
    BY <1>1, <2>2 DEF Ranks, GroupOrder
  <2> QED BY <2>1, <2>2
<1>3. r \in [D -> S] /\ Good(r)
  <2> HIDE DEF Good, D
  <2> QED BY <1>2
<1>4. GroupRanking(C, S) = r
  BY DEF GroupRanking, Ranked
<1> HIDE DEF r
<1>5. Ranks(r, S, GroupOrder(C, S))
  <2>1. DOMAIN r = D
    BY <1>3
  <2>2. ASSUME NEW p \in D, NEW q \in D, p < q PROVE <<r[p], r[q]>> \in GroupOrder(C, S)
    <3>1. GroupBefore(C, r[p], r[q]) /\ r[p] \in S /\ r[q] \in S
      BY <1>3, <2>1, <2>2
    <3> QED BY <3>1 DEF GroupOrder
  <2> QED BY <1>3, <2>2 DEF Ranks
<1> QED BY <1>4, <1>5

Charted(W, b) == {m \in W : BinIndex(events[m].ts, b) >= 0}

\* The series of the clients shown, and that of the others.
Segments(C, ranked, n, b) ==
  LET top  == [r \in DOMAIN First(ranked, n) |-> BinSeries(OfClient(C, ranked[r]), b)]
      rest == {ranked[r] : r \in (n + 1)..Len(ranked)}
  IN  IF rest = {} THEN top ELSE Append(top, BinSeries(UNION {OfClient(C, g) : g \in rest}, b))

LEMMA SegmentsAre ==
  ASSUME NEW now, NEW lookback, NEW n, NEW b, b = Bins(now, lookback),
         NEW C, C = Charted(Window(now, lookback), b)
  PROVE  ThroughputSegmented(now, n, lookback) =
           Segments(C, GroupRanking(C, {events[m].client : m \in C}), n, b)
BY DEF ThroughputSegmented, Segments, GroupRanking, Ranked, GroupBefore, OfClient, Charted

LEMMA SegmentsSum ==
  ASSUME StoreInv, NEW now \in Nows, NEW lookback \in Lookbacks, NEW n \in Nat,
         NEW b, b = Bins(now, lookback), NEW c \in 0..(b.n - 1),
         NEW parts, parts = ThroughputSegmented(now, n, lookback)
  PROVE  SumOver([r \in DOMAIN parts |-> parts[r][c]]) = BinSeries(Window(now, lookback), b)[c]
<1> DEFINE W == Window(now, lookback)
           C == Charted(W, b)
           K == {events[m].client : m \in C}
           s == GroupRanking(C, K)
           N == Cardinality(K)
           A == {m \in W : BinIndex(events[m].ts, b) = c}
           V == [0..(b.n - 1) -> Nat]
           Pos(m) == CHOOSE r \in 1..N : s[r] = events[m].client
<1>1. /\ W \in SUBSET DOMAIN events /\ C \in SUBSET DOMAIN events /\ A \in SUBSET C
      /\ C \in SUBSET W /\ b.n \in Nat \ {0}
  <2>1. W \in SUBSET DOMAIN events /\ now \in Nat /\ lookback \in Nat \ {0}
    BY Windows
  <2>2. b.n \in Nat \ {0}
    BY <2>1, BinsAre
  <2>3. c >= 0
    BY <2>2
  <2>4. A \in SUBSET C
    BY <2>3 DEF Charted
  <2> QED BY <2>1, <2>2, <2>4 DEF Charted
<1>2. K \in SUBSET Nat /\ IsFiniteSet(K) /\ N \in Nat
  <2> DEFINE g == [m \in C |-> events[m].client]
  <2>1. \A m \in C : events[m].client \in Nat
    BY <1>1, EventsAre
  <2>2. IsFiniteSet(C) /\ DOMAIN g = C
    BY <1>1, Parts
  <2>3. K = {g[m] : m \in DOMAIN g}
    OBVIOUS
  <2>4. K \in SUBSET Nat
    BY <2>1
  <2> HIDE DEF g, K, C
  <2>5. IsFiniteSet(K)
    BY <2>2, <2>3, ImageFinite
  <2> QED BY <2>4, <2>5, FS_CardinalityType
<1>3. parts = Segments(C, s, n, b)
  <2> HIDE DEF C
  <2> QED BY SegmentsAre DEF C
<1>4. \A m \in C : events[m].client \in K
  OBVIOUS
<1> HIDE DEF K, C, W
<1>5. Ranks(s, K, GroupOrder(C, K)) /\ IsOrdered(K, GroupOrder(C, K))
  BY <1>1, <1>2, GroupsRanked, GroupsOrdered
<1> HIDE DEF s
<1>6. /\ Len(s) = N /\ s \in Seq(K) /\ DOMAIN s = 1..N
      /\ s \in Bijection(1..N, K)
  BY <1>2, <1>5, RankingIs
<1>7. ASSUME NEW m \in C
      PROVE  Pos(m) \in 1..N /\ \A r \in 1..N : s[r] = events[m].client <=> Pos(m) = r
  <2>1. \E r \in 1..N : s[r] = events[m].client
    BY <1>4, <1>6 DEF Bijection, Surjection
  <2>2. Pos(m) \in 1..N /\ s[Pos(m)] = events[m].client
    BY <2>1
  <2> HIDE DEF Pos
  <2> QED BY <1>6, <2>2 DEF Bijection, Injection, IsInjective
<1> HIDE DEF Pos
<1>8. ASSUME NEW S \in SUBSET C
      PROVE  /\ BinSeries(S, b) \in V
             /\ BinSeries(S, b)[c] = Cardinality({m \in S : BinIndex(events[m].ts, b) = c})
  <2>1. S \in SUBSET W
    BY <1>1
  <2>2. BinSeries(S, b) \in V
    BY <2>1, SeriesSum DEF W
  <2> QED BY <2>2 DEF BinSeries
<1>9. BinSeries(W, b)[c] = Cardinality(A)
  BY DEF BinSeries
<1>10. IsFiniteSet(A)
  BY <1>1, Parts
<1>11. ASSUME NEW r \in 1..N
       PROVE  {m \in OfClient(C, s[r]) : BinIndex(events[m].ts, b) = c} = {m \in A : Pos(m) = r}
  <2>1. \A m \in C : m \in OfClient(C, s[r]) <=> Pos(m) = r
    BY <1>7 DEF OfClient
  <2>2. OfClient(C, s[r]) \subseteq C
    BY DEF OfClient
  <2>3. \A m \in C : m \in A <=> BinIndex(events[m].ts, b) = c
    BY <1>1
  <2> HIDE DEF A
  <2> QED BY <1>1, <2>1, <2>2, <2>3
<1>12. CASE N <= n
  <2> DEFINE rest == {s[r] : r \in (n + 1)..Len(s)}
             cl == [m \in A |-> Pos(m)]
  <2>1. First(s, n) = s
    BY <1>2, <1>6, <1>12 DEF First
  <2>2. rest = {}
    BY <1>2, <1>6, <1>12
  <2>3. parts = [r \in 1..N |-> BinSeries(OfClient(C, s[r]), b)]
    BY <1>3, <1>6, <2>1, <2>2 DEF Segments
  <2>4. ASSUME NEW r \in 1..N PROVE parts[r][c] = Cardinality({m \in A : cl[m] = r})
    <3>1. OfClient(C, s[r]) \in SUBSET C
      BY DEF OfClient
    <3>2. parts[r] = BinSeries(OfClient(C, s[r]), b)
      BY <2>3
    <3>3. parts[r][c] = Cardinality({m \in A : Pos(m) = r})
      BY <1>8, <1>11, <3>1, <3>2
    <3>4. {m \in A : Pos(m) = r} = {m \in A : cl[m] = r}
      OBVIOUS
    <3> QED BY <3>3, <3>4
  <2>5. DOMAIN parts = 1..N
    BY <2>3
  <2>6. [r \in DOMAIN parts |-> parts[r][c]] = [r \in 1..N |-> Cardinality({m \in A : cl[m] = r})]
    BY <2>4, <2>5
  <2>7. cl \in [A -> 1..N]
    BY <1>1, <1>7
  <2>8. IsFiniteSet(1..N)
    BY <1>2, FS_Interval
  <2>9. SumOver([r \in 1..N |-> Cardinality({m \in A : cl[m] = r})]) = Cardinality(A)
    <3> DEFINE T == 1..N
    <3>1. cl \in [A -> T] /\ IsFiniteSet(T)
      BY <2>7, <2>8
    <3> HIDE DEF cl, A, T
    <3>2. SumOver([r \in T |-> Cardinality({m \in A : cl[m] = r})]) = Cardinality(A)
      BY <1>10, <3>1, CountByClass
    <3> QED BY <3>2 DEF T
  <2> HIDE DEF cl, A
  <2> QED BY <1>9, <2>6, <2>9 DEF W
<1>13. CASE ~(N <= n)
  <2> DEFINE rest == {s[r] : r \in (n + 1)..Len(s)}
             U == UNION {OfClient(C, g) : g \in rest}
             top == [r \in 1..n |-> BinSeries(OfClient(C, s[r]), b)]
             cl == [m \in A |-> IF Pos(m) <= n THEN Pos(m) ELSE n + 1]
  <2>1. n < N /\ n + 1 \in 1..N /\ \A r \in 1..n : r \in 1..N
    BY <1>2, <1>13
  <2>2. DOMAIN First(s, n) = 1..n
    <3>1. First(s, n) = SubSeq(s, 1, n)
      BY <1>6, <2>1 DEF First
    <3> QED BY <1>2, <1>6, <2>1, <3>1
  <2>3. rest # {}
    <3>1. n + 1 \in (n + 1)..Len(s)
      BY <1>2, <1>6, <2>1
    <3>2. s[n + 1] \in rest
      BY <3>1
    <3> QED BY <3>2
  <2>4. parts = Append(top, BinSeries(U, b))
    BY <1>3, <2>2, <2>3 DEF Segments
  <2>5. U \in SUBSET C /\ \A m \in C : m \in U <=> Pos(m) > n
    <3>1. U \subseteq C
      BY DEF OfClient
    <3>2. ASSUME NEW m \in C, m \in U PROVE Pos(m) > n
      <4>1. PICK r \in (n + 1)..Len(s) : m \in OfClient(C, s[r])
        BY <3>2
      <4>2. r \in 1..N /\ r > n
        BY <1>2, <1>6
      <4>3. events[m].client = s[r]
        BY <4>1 DEF OfClient
      <4> QED BY <1>7, <4>2, <4>3
    <3>3. ASSUME NEW m \in C, Pos(m) > n PROVE m \in U
      <4>1. Pos(m) \in 1..N /\ s[Pos(m)] = events[m].client
        BY <1>7
      <4>2. Pos(m) \in (n + 1)..Len(s)
        BY <1>2, <1>6, <3>3, <4>1
      <4>3. m \in OfClient(C, s[Pos(m)])
        BY <4>1 DEF OfClient
      <4> QED BY <4>2, <4>3
    <3> QED BY <3>1, <3>2, <3>3
  <2>6. \A r \in 1..n : BinSeries(OfClient(C, s[r]), b) \in V
    <3> SUFFICES ASSUME NEW r \in 1..n PROVE BinSeries(OfClient(C, s[r]), b) \in V
      OBVIOUS
    <3>1. OfClient(C, s[r]) \in SUBSET C
      BY DEF OfClient
    <3> QED BY <1>8, <3>1
  <2>7. BinSeries(U, b) \in V
    BY <1>8, <2>5
  <2>8. top \in Seq(V) /\ Len(top) = n
    <3> HIDE DEF V
    <3> QED BY <2>6
  <2> DEFINE T == 1..(n + 1)
             last == BinSeries(U, b)
  <2>9. /\ DOMAIN parts = T /\ parts[n + 1] = last
        /\ \A r \in 1..n : parts[r] = top[r]
    <3> HIDE DEF top, last, V
    <3> QED BY <2>4, <2>7, <2>8 DEF last
  <2>10. ASSUME NEW r \in T PROVE parts[r][c] = Cardinality({m \in A : cl[m] = r})
    <3>1. CASE r \in 1..n
      <4>1. parts[r] = BinSeries(OfClient(C, s[r]), b)
        BY <2>9, <3>1
      <4>2. OfClient(C, s[r]) \in SUBSET C
        BY DEF OfClient
      <4>3. parts[r][c] = Cardinality({m \in A : Pos(m) = r})
        BY <1>8, <1>11, <2>1, <3>1, <4>1, <4>2
      <4>4. \A m \in A : cl[m] = r <=> Pos(m) = r
        <5> SUFFICES ASSUME NEW m \in A PROVE cl[m] = r <=> Pos(m) = r
          OBVIOUS
        <5>1. m \in C
          BY <1>1
        <5>2. Pos(m) \in 1..N
          BY <1>7, <5>1
        <5>3. cl[m] = IF Pos(m) <= n THEN Pos(m) ELSE n + 1
          OBVIOUS
        <5> HIDE DEF cl
        <5> QED BY <1>2, <3>1, <5>2, <5>3
      <4>5. {m \in A : Pos(m) = r} = {m \in A : cl[m] = r}
        BY <4>4
      <4> QED BY <4>3, <4>5
    <3>2. CASE r = n + 1
      <4>1. parts[r][c] = Cardinality({m \in U : BinIndex(events[m].ts, b) = c})
        <5> HIDE DEF U, A
        <5> QED BY <1>8, <2>5, <2>9, <3>2
      <4>2. \A m \in A : cl[m] = r <=> Pos(m) > n
        <5> SUFFICES ASSUME NEW m \in A PROVE cl[m] = r <=> Pos(m) > n
          OBVIOUS
        <5>1. m \in C
          BY <1>1
        <5>2. Pos(m) \in 1..N
          BY <1>7, <5>1
        <5>3. cl[m] = IF Pos(m) <= n THEN Pos(m) ELSE n + 1
          OBVIOUS
        <5> HIDE DEF cl
        <5> QED BY <1>2, <3>2, <5>2, <5>3
      <4>3. \A m \in C : m \in A <=> BinIndex(events[m].ts, b) = c
        BY <1>1
      <4>4. {m \in U : BinIndex(events[m].ts, b) = c} = {m \in A : cl[m] = r}
        <5> HIDE DEF U, A, cl
        <5> QED BY <1>1, <2>5, <4>2, <4>3
      <4> QED BY <4>1, <4>4
    <3> QED BY <3>1, <3>2
  <2>11. [r \in DOMAIN parts |-> parts[r][c]] = [r \in T |-> Cardinality({m \in A : cl[m] = r})]
    BY <2>9, <2>10
  <2>12. cl \in [A -> T]
    <3> SUFFICES ASSUME NEW m \in A PROVE (IF Pos(m) <= n THEN Pos(m) ELSE n + 1) \in T
      OBVIOUS
    <3>1. m \in C
      BY <1>1
    <3>2. Pos(m) \in 1..N
      BY <1>7, <3>1
    <3> QED BY <1>2, <3>2
  <2>13. IsFiniteSet(T)
    BY FS_Interval
  <2> HIDE DEF cl, A, T
  <2>14. SumOver([r \in T |-> Cardinality({m \in A : cl[m] = r})]) = Cardinality(A)
    BY <1>10, <2>12, <2>13, CountByClass
  <2> QED BY <1>9, <2>11, <2>14 DEF W
<1> QED BY <1>2, <1>12, <1>13

\* Errors and warnings are counted apart.
LEMMA IssueCount ==
  ASSUME StoreInv, NEW now \in Nows, NEW lookback \in Lookbacks,
         NEW W, W = Window(now, lookback)
  PROVE  /\ Cardinality(Issues(now, lookback)) =
              Cardinality(OfLevel(W, levelError)) + Cardinality(OfLevel(W, levelWarn))
         /\ Cardinality(Issues(now, lookback)) \in Nat
         /\ Cardinality(Issues(now, lookback)) <= MaxEvents
<1> DEFINE E == OfLevel(W, levelError)
           V == OfLevel(W, levelWarn)
           I == Issues(now, lookback)
<1>1. I = E \cup V
  BY DEF Issues
<1>2. E \cap V = {}
  BY DEF OfLevel, levelError, levelWarn
<1>3. W \in SUBSET DOMAIN events
  BY Windows
<1>4. E \in SUBSET DOMAIN events /\ V \in SUBSET DOMAIN events /\ I \in SUBSET DOMAIN events
  BY <1>1, <1>3 DEF OfLevel
<1> HIDE DEF E, V, I
<1>5. /\ IsFiniteSet(E) /\ IsFiniteSet(V) /\ Cardinality(E) \in Nat /\ Cardinality(V) \in Nat
      /\ Cardinality(I) \in Nat /\ Cardinality(I) <= MaxEvents
  BY <1>4, Parts
<1>6. Cardinality(E \cup V) = Cardinality(E) + Cardinality(V) - Cardinality({})
  BY <1>2, <1>5, FS_Union
<1>7. Cardinality(I) = Cardinality(E) + Cardinality(V)
  BY <1>1, <1>5, <1>6, FS_EmptySet
<1> QED BY <1>5, <1>7 DEF E, V, I

LEMMA ChartsHold == ASSUME StoreInv PROVE ChartsAddUp
<1> SUFFICES ASSUME NEW now \in Nows, NEW lookback \in Lookbacks
             PROVE  LET w     == Window(now, lookback)
                        st    == Stats(now, lookback)
                        b     == Bins(now, lookback)
                        past  == {m \in w : events[m].ts <= now}
                        late  == {m \in w : events[m].ts >= b.start + b.n * b.bin}
                        chart == Throughput(now, lookback)
                        rates == ErrorRate(now, lookback)
                        rows  == TopErrors(now, MaxEvents, lookback)
                    IN  /\ past \cap late = {}
                        /\ \A m \in w \ late : \E c \in DOMAIN chart :
                             /\ b.start + c * b.bin <= events[m].ts
                             /\ events[m].ts < b.start + (c + 1) * b.bin
                             /\ chart[c] > 0
                        /\ SumOver(chart) + Cardinality(late) = st.total
                        /\ SumOver(rates.errors) + Cardinality(OfLevel(late, levelError)) = st.error
                        /\ SumOver(rates.warns) + Cardinality(OfLevel(late, levelWarn)) = st.warn
                        /\ \A topN \in TableSizes :
                             LET parts == ThroughputSegmented(now, topN, lookback)
                             IN  \A c \in DOMAIN chart :
                                   SumOver([r \in DOMAIN parts |-> parts[r][c]]) = chart[c]
                        /\ SumOver([r \in DOMAIN rows |-> rows[r].count]) = st.error + st.warn
  BY DEF ChartsAddUp
<1> DEFINE W == Window(now, lookback)
           st == Stats(now, lookback)
           b == Bins(now, lookback)
           past == {m \in W : events[m].ts <= now}
           late == {m \in W : events[m].ts >= b.start + b.n * b.bin}
           chart == Throughput(now, lookback)
           rates == ErrorRate(now, lookback)
           rows == TopErrors(now, MaxEvents, lookback)
<1>1. /\ now \in Nat /\ lookback \in Nat \ {0} /\ W \in SUBSET DOMAIN events
      /\ \A m \in W : events[m].ts > now - lookback /\ events[m].ts \in Nat
  BY Windows, EventsAre
<1>2. st.total = Cardinality(W) /\ st.error = Cardinality(OfLevel(W, levelError))
      /\ st.warn = Cardinality(OfLevel(W, levelWarn))
  BY DEF Stats
<1>3. chart = BinSeries(W, b) /\ rates.errors = BinSeries(OfLevel(W, levelError), b)
      /\ rates.warns = BinSeries(OfLevel(W, levelWarn), b)
  BY DEF Throughput, ErrorRate
<1>4. late = Late(W, b)
  BY DEF Late
<1>5. \A e : /\ OfLevel(W, e) \in SUBSET W
             /\ Late(OfLevel(W, e), b) = OfLevel(late, e)
  BY DEF OfLevel, Late
<1> HIDE DEF st, chart, rates, W
<1>6. b.bin \in Nat \ {0} /\ b.n \in Nat \ {0} /\ b.start \in Int /\ now < b.start + b.n * b.bin
      /\ b.start + b.n * b.bin \in Int
  <2>1. b.bin \in Nat \ {0} /\ b.n \in Nat \ {0} /\ b.start \in Int /\ now < b.start + b.n * b.bin
    BY <1>1, BinsAre
  <2> QED BY <2>1
<1>7. past \cap late = {}
  BY <1>1, <1>6
<1>8. DOMAIN chart = 0..(b.n - 1)
  BY <1>3 DEF BinSeries
<1>9. ASSUME NEW m \in W \ late
      PROVE  \E c \in DOMAIN chart : /\ b.start + c * b.bin <= events[m].ts
                                     /\ events[m].ts < b.start + (c + 1) * b.bin
                                     /\ chart[c] > 0
  <2> DEFINE c == BinIndex(events[m].ts, b)
             A == {o \in W : BinIndex(events[o].ts, b) = c}
  <2>1. events[m].ts \in Nat /\ events[m].ts > now - lookback /\ events[m].ts < b.start + b.n * b.bin
    BY <1>1, <1>6
  <2>2. c \in 0..(b.n - 1) /\ b.start + c * b.bin <= events[m].ts /\ events[m].ts < b.start + (c + 1) * b.bin
    <3> HIDE DEF c
    <3>1. c = BinIndex(events[m].ts, b)
      BY DEF c
    <3> QED BY <1>1, <2>1, <3>1, BinIndexIs
  <2>3. m \in A /\ A \in SUBSET DOMAIN events
    BY <1>1
  <2>4. chart[c] = Cardinality(A)
    BY <1>3, <2>2 DEF BinSeries
  <2> HIDE DEF A
  <2>5. IsFiniteSet(A) /\ Cardinality(A) \in Nat /\ Cardinality(A) # 0
    BY <2>3, Parts, FS_EmptySet
  <2> QED BY <1>8, <2>2, <2>4, <2>5
<1>10. SumOver(chart) + Cardinality(late) = st.total
  <2> HIDE DEF late, b
  <2>1. W \in SUBSET Window(now, lookback) /\ b = Bins(now, lookback)
    BY DEF W, b
  <2>2. SumOver(BinSeries(W, b)) + Cardinality(Late(W, b)) = Cardinality(W)
    BY <2>1, SeriesSum
  <2> QED BY <1>2, <1>3, <1>4, <2>2
<1>11. ASSUME NEW e
       PROVE  SumOver(BinSeries(OfLevel(W, e), b)) + Cardinality(OfLevel(late, e))
                = Cardinality(OfLevel(W, e))
  <2> DEFINE S == OfLevel(W, e)
  <2>1. S \in SUBSET Window(now, lookback) /\ Late(S, b) = OfLevel(late, e)
    BY <1>5 DEF W
  <2> HIDE DEF S, late
  <2>2. SumOver(BinSeries(S, b)) + Cardinality(Late(S, b)) = Cardinality(S)
    BY <2>1, SeriesSum
  <2> QED BY <2>1, <2>2 DEF S
<1>12. SumOver(rates.errors) + Cardinality(OfLevel(late, levelError)) = st.error
  BY <1>2, <1>3, <1>11
<1>13. SumOver(rates.warns) + Cardinality(OfLevel(late, levelWarn)) = st.warn
  BY <1>2, <1>3, <1>11
<1>14. ASSUME NEW topN \in TableSizes, NEW parts, parts = ThroughputSegmented(now, topN, lookback),
              NEW c \in DOMAIN chart
       PROVE  SumOver([r \in DOMAIN parts |-> parts[r][c]]) = chart[c]
  <2>1. topN \in Nat /\ c \in 0..(b.n - 1)
    BY <1>8, QueriesAssumption
  <2> QED BY <1>3, <1>14, <2>1, SegmentsSum DEF W
<1>15. SumOver([r \in DOMAIN rows |-> rows[r].count]) = st.error + st.warn
  <2> DEFINE I == Issues(now, lookback)
  <2>1. Cardinality(I) = st.error + st.warn /\ Cardinality(I) <= MaxEvents
    BY <1>2, IssueCount DEF W
  <2>2. MaxEvents \in Nat
    BY QueriesAssumption
  <2> HIDE DEF I, rows
  <2>3. SumOver([r \in DOMAIN rows |-> rows[r].count]) = Cardinality(I)
    BY <2>1, <2>2, ErrorsShow DEF I, rows
  <2> QED BY <2>1, <2>3
<1> HIDE DEF past, late, b, rows
<1>16. \A topN \in TableSizes : LET parts == ThroughputSegmented(now, topN, lookback)
         IN  \A c \in DOMAIN chart : SumOver([r \in DOMAIN parts |-> parts[r][c]]) = chart[c]
  BY <1>14
<1> QED BY <1>7, <1>9, <1>10, <1>12, <1>13, <1>15, <1>16 DEF W, st, b, past, late, chart, rates, rows

LEMMA TablesHold == ASSUME StoreInv PROVE TopIsTop
<1> SUFFICES ASSUME NEW now \in Nows, NEW lookback \in Lookbacks, NEW n \in TableSizes
             PROVE  LET issues  == Issues(now, lookback)
                        errors  == TopErrors(now, n, lookback)
                        health  == TopClientHealth(now, n, lookback)
                        routes  == TopRoutes(now, n, lookback)
                        recent  == RecentIssues(now, n, lookback)
                        Alike(m)  == Cardinality({o \in issues : /\ events[o].message = events[m].message
                                                                 /\ events[o].level = events[m].level})
                        ByClient(c) == Cardinality({o \in issues : events[o].client = c})
                        ByRoute(r)  == Cardinality({o \in Window(now, lookback) : events[o].route = r})
                        Shown(s)    == {s[r] : r \in DOMAIN s}
                    IN  /\ \A m \in issues :
                             \/ \E row \in Shown(errors) :
                                  <<row.message, row.level, row.count>> =
                                    <<events[m].message, events[m].level, Alike(m)>>
                             \/ Len(errors) = n /\ \A row \in Shown(errors) : row.count >= Alike(m)
                        /\ \A m \in issues : events[m].client # 0 =>
                             \/ \E row \in Shown(health) : row.client = events[m].client
                             \/ Len(health) = n
                        /\ \A row \in Shown(health) : row.errors + row.warns = ByClient(row.client)
                        /\ \A m \in issues, row \in Shown(health) :
                             \/ events[m].client = 0
                             \/ events[m].client \in {shown.client : shown \in Shown(health)}
                             \/ ByClient(events[m].client) <= row.errors + row.warns
                        /\ \A m \in Window(now, lookback), row \in Shown(routes) :
                             \/ events[m].route \in {0} \cup {shown.message : shown \in Shown(routes)}
                             \/ ByRoute(events[m].route) <= row.count
                        /\ Len(recent) = IF Cardinality(issues) > n THEN n ELSE Cardinality(issues)
                        /\ \A m \in issues \ Shown(recent), o \in Shown(recent) : Older(m, o)
                        /\ \A p, q \in DOMAIN recent : p < q => Older(recent[q], recent[p])
                        /\ \A p, q \in DOMAIN errors : p < q => errors[p].count >= errors[q].count
  BY DEF TopIsTop
<1> DEFINE I == Issues(now, lookback)
           W == Window(now, lookback)
           errors == TopErrors(now, n, lookback)
           health == TopClientHealth(now, n, lookback)
           routes == TopRoutes(now, n, lookback)
           recent == RecentIssues(now, n, lookback)
<1>0. n \in Nat
  BY QueriesAssumption
<1>1. /\ \A p, q \in DOMAIN errors : p < q => errors[p].count >= errors[q].count
      /\ \A m \in I :
           \/ \E p \in DOMAIN errors : errors[p] = ErrorRow(I, m)
           \/ Len(errors) = n /\ \A p \in DOMAIN errors : errors[p].count >= Cardinality(Kindred(I, m))
  <2> HIDE DEF I, errors
  <2> QED BY <1>0, ErrorsShow DEF I, errors
<1>2. /\ \A m \in I :
           \/ events[m].client = 0
           \/ \E p \in DOMAIN health : health[p].client = events[m].client
           \/ /\ Len(health) = n
              /\ \A p \in DOMAIN health :
                   Cardinality(OfClient(I, events[m].client)) <= health[p].errors + health[p].warns
      /\ \A p \in DOMAIN health :
           health[p].errors + health[p].warns = Cardinality(OfClient(I, health[p].client))
  <2> HIDE DEF I, health
  <2> QED BY <1>0, HealthShows DEF I, health
<1>3. \A m \in W :
        \/ events[m].route = 0
        \/ \E p \in DOMAIN routes : routes[p].message = events[m].route
        \/ \A p \in DOMAIN routes : Cardinality(OnRoute(W, events[m].route)) <= routes[p].count
  <2> HIDE DEF W, routes
  <2> QED BY <1>0, RoutesShow DEF W, routes
<1>4. /\ Len(recent) = IF Cardinality(I) > n THEN n ELSE Cardinality(I)
      /\ \A m \in I \ {recent[r] : r \in DOMAIN recent} : \A p \in DOMAIN recent : Older(m, recent[p])
      /\ \A p, q \in DOMAIN recent : p < q => Older(recent[q], recent[p])
  <2> HIDE DEF I, recent
  <2> QED BY <1>0, RecentShow DEF I, recent
<1>5. \A m : /\ ErrorRow(I, m).message = events[m].message /\ ErrorRow(I, m).level = events[m].level
             /\ ErrorRow(I, m).count = Cardinality(Kindred(I, m))
  BY DEF ErrorRow
<1> DEFINE Alike(m) == Cardinality({o \in I : /\ events[o].message = events[m].message
                                              /\ events[o].level = events[m].level})
           ByClient(c) == Cardinality({o \in I : events[o].client = c})
           ByRoute(r)  == Cardinality({o \in W : events[o].route = r})
           Shown(s)    == {s[r] : r \in DOMAIN s}
<1>6. /\ \A m : Alike(m) = Cardinality(Kindred(I, m))
      /\ \A c : ByClient(c) = Cardinality(OfClient(I, c))
      /\ \A r : ByRoute(r) = Cardinality(OnRoute(W, r))
  BY DEF Kindred, OfClient, OnRoute
<1> HIDE DEF I, W, errors, health, routes, recent, Alike, ByClient, ByRoute
<1>11. \A m \in I :
         \/ \E row \in Shown(errors) :
              <<row.message, row.level, row.count>> = <<events[m].message, events[m].level, Alike(m)>>
         \/ Len(errors) = n /\ \A row \in Shown(errors) : row.count >= Alike(m)
  <2> SUFFICES ASSUME NEW m \in I
               PROVE \/ \E row \in Shown(errors) :
                          <<row.message, row.level, row.count>> =
                            <<events[m].message, events[m].level, Alike(m)>>
                     \/ Len(errors) = n /\ \A row \in Shown(errors) : row.count >= Alike(m)
    OBVIOUS
  <2>1. CASE \E p \in DOMAIN errors : errors[p] = ErrorRow(I, m)
    <3>1. PICK p \in DOMAIN errors : errors[p] = ErrorRow(I, m)
      BY <2>1
    <3>2. errors[p] \in Shown(errors)
      OBVIOUS
    <3>3. <<errors[p].message, errors[p].level, errors[p].count>> =
            <<events[m].message, events[m].level, Alike(m)>>
      BY <1>5, <1>6, <3>1
    <3> HIDE DEF Shown
    <3> QED BY <3>2, <3>3
  <2>2. CASE Len(errors) = n /\ \A p \in DOMAIN errors : errors[p].count >= Cardinality(Kindred(I, m))
    BY <1>6, <2>2
  <2> QED BY <1>1, <2>1, <2>2
<1>12. \A m \in I : events[m].client # 0 =>
         \/ \E row \in Shown(health) : row.client = events[m].client
         \/ Len(health) = n
  BY <1>2
<1>13. \A row \in Shown(health) : row.errors + row.warns = ByClient(row.client)
  BY <1>2, <1>6
<1>14. \A m \in I, row \in Shown(health) :
         \/ events[m].client = 0
         \/ events[m].client \in {shown.client : shown \in Shown(health)}
         \/ ByClient(events[m].client) <= row.errors + row.warns
  BY <1>2, <1>6
<1>15. \A m \in W, row \in Shown(routes) :
         \/ events[m].route \in {0} \cup {shown.message : shown \in Shown(routes)}
         \/ ByRoute(events[m].route) <= row.count
  BY <1>3, <1>6
<1>16. \A m \in I \ Shown(recent), o \in Shown(recent) : Older(m, o)
  BY <1>4
<1> QED BY <1>1, <1>4, <1>11, <1>12, <1>13, <1>14, <1>15, <1>16
        DEF I, W, errors, health, routes, recent, Alike, ByClient, ByRoute

------------------------------------------------------------------------------
(***************************************************************************)
(* Queries: costs.                                                         *)
(***************************************************************************)
LEMMA SumOfZeros ==
  ASSUME NEW S, IsFiniteSet(S), NEW f \in [S -> Int], \A x \in S : f[x] >= 0
  PROVE  SumOver(f) \in Int /\ SumOver(f) >= 0
<1> DEFINE z == [x \in S |-> 0]
<1>1. z \in [S -> Int] /\ {} \in SUBSET S /\ \A x \in S \ {} : z[x] = 0
  OBVIOUS
<1>2. SumOver(z) = SumIn(z, {})
  <2> HIDE DEF z
  <2> QED BY <1>1, SumOfRest
<1>3. SumIn(z, {}) = 0
  BY SumEmpty DEF SumIn
<1>4. \A x \in S : z[x] <= f[x]
  OBVIOUS
<1>5. SumOver(f) \in Int
  BY SumInt
<1> HIDE DEF z
<1>6. SumOver(z) <= SumOver(f)
  BY <1>1, <1>4, SumMonotone
<1> QED BY <1>2, <1>3, <1>5, <1>6

\* The values above zero, in a sum.
LEMMA SumOfPositive ==
  ASSUME NEW S, IsFiniteSet(S), NEW f \in [S -> Int], NEW P, P = {x \in S : f[x] > 0}
  PROVE  /\ SumIn(f, P) \in Int /\ SumOver(f) \in Int /\ SumIn(f, P) >= SumOver(f)
         /\ (\A x \in S : f[x] >= 0) => SumIn(f, P) = SumOver(f)
<1> DEFINE g == [x \in S |-> IF f[x] > 0 THEN f[x] ELSE 0]
<1>1. /\ g \in [S -> Int] /\ P \in SUBSET S /\ \A x \in S \ P : g[x] = 0
      /\ \A x \in S : f[x] <= g[x]
  OBVIOUS
<1>2. \A x \in P : g[x] = f[x]
  OBVIOUS
<1>3. (\A x \in S : f[x] >= 0) => \A x \in S : g[x] = f[x]
  OBVIOUS
<1> HIDE DEF g
<1>4. SumOver(g) = SumIn(g, P)
  BY <1>1, SumOfRest
<1>5. SumIn(g, P) = SumIn(f, P)
  <2>1. [x \in P |-> g[x]] = [x \in P |-> f[x]]
    BY <1>2
  <2> QED BY <2>1 DEF SumIn
<1>6. SumOver(f) <= SumOver(g) /\ SumOver(f) \in Int /\ SumOver(g) \in Int
  BY <1>1, SumMonotone, SumInt
<1>7. ASSUME \A x \in S : f[x] >= 0 PROVE f = g
  BY <1>1, <1>3, <1>7
<1> QED BY <1>4, <1>5, <1>6, <1>7

LEMMA SumOfPart ==
  ASSUME NEW S, IsFiniteSet(S), NEW f \in [S -> Int], \A x \in S : f[x] >= 0, NEW T \in SUBSET S
  PROVE  SumIn(f, T) <= SumOver(f)
<1>1. SumOver(f) = SumIn(f, T) + SumIn(f, S \ T)
  BY SumSplit
<1>2. SumIn(f, T) \in Int
  <2>1. IsFiniteSet(T) /\ \A x \in T : f[x] \in Int
    BY FS_Subset
  <2> QED BY <2>1, SumInInt
<1>3. SumIn(f, S \ T) \in Int /\ SumIn(f, S \ T) >= 0
  <2> DEFINE U == S \ T
             h == [x \in U |-> f[x]]
  <2>1. IsFiniteSet(U) /\ h \in [U -> Int] /\ \A x \in U : h[x] >= 0
    BY FS_Subset
  <2> HIDE DEF U, h
  <2>2. SumOver(h) \in Int /\ SumOver(h) >= 0
    BY <2>1, SumOfZeros
  <2> QED BY <2>2 DEF h, U, SumIn
<1> QED BY <1>1, <1>2, <1>3

CostOf(S) == [m \in S |-> events[m].cost]

\* Events with a cost.
Costed(S) == S \in SUBSET DOMAIN events /\ \A m \in S : events[m].cost # NaN

LEMMA CostsAre ==
  ASSUME StoreInv, NEW S, Costed(S)
  PROVE  /\ IsFiniteSet(S) /\ CostOf(S) \in [S -> Int] /\ Dollars(S) = SumOver(CostOf(S))
         /\ \A T \in SUBSET S : Costed(T) /\ Dollars(T) = SumIn(CostOf(S), T)
<1>1. S \in SUBSET DOMAIN events /\ IsFiniteSet(S)
  BY Parts DEF Costed
<1>2. \A m \in S : events[m].cost \in Int
  BY <1>1, EventsAre DEF Costed
<1>3. CostOf(S) \in [S -> Int]
  BY <1>2 DEF CostOf
<1>4. ASSUME NEW T \in SUBSET S PROVE Costed(T) /\ Dollars(T) = SumIn(CostOf(S), T)
  <2>1. [m \in T |-> events[m].cost] = [m \in T |-> CostOf(S)[m]]
    BY DEF CostOf
  <2> QED BY <1>1, <2>1 DEF Costed, Dollars, SumIn
<1> QED BY <1>1, <1>3, <1>4 DEF Dollars, CostOf

Bill == [client : Nat, dollars : Int]

CostBefore(a, b) == a.dollars > b.dollars \/ (a.dollars = b.dollars /\ a.client < b.client)

CostOrder(S) == {x \in S \X S : CostBefore(x[1], x[2])}

LEMMA CostsOrdered ==
  ASSUME NEW S \in SUBSET Bill, OneEach(S) PROVE IsOrdered(S, CostOrder(S))
<1>1. \A a, b \in S : <<a, b>> \in CostOrder(S) <=> CostBefore(a, b)
  BY DEF CostOrder
<1>2. \A a \in S : a.client \in Nat /\ a.dollars \in Int
  BY DEF Bill
<1>3. \A a \in S : ~CostBefore(a, a)
  BY <1>2 DEF CostBefore
<1>4. ASSUME NEW a \in S, NEW b \in S, a # b PROVE CostBefore(a, b) \/ CostBefore(b, a)
  <2>1. a.client # b.client
    BY <1>4 DEF OneEach
  <2> QED BY <1>2, <2>1 DEF CostBefore
<1>5. ASSUME NEW a \in S, NEW b \in S, NEW c \in S, CostBefore(a, b), CostBefore(b, c)
      PROVE  CostBefore(a, c)
  BY <1>2, <1>5 DEF CostBefore
<1> HIDE DEF CostOrder
<1> QED BY <1>1, <1>3, <1>4, <1>5 DEF IsOrdered

LEMMA CostsRanked ==
  ASSUME NEW S \in SUBSET Bill, OneEach(S), IsFiniteSet(S)
  PROVE  Ranks(Ranked(S, CostBefore), S, CostOrder(S))
<1> DEFINE D == 1..Cardinality(S)
           Good(s) == \A p, q \in DOMAIN s : p < q => CostBefore(s[p], s[q])
           r == CHOOSE s \in [D -> S] : Good(s)
<1>1. PICK s : Ranks(s, S, CostOrder(S))
  BY CostsOrdered, RankingExists
<1>2. s \in [D -> S] /\ Good(s)
  <2>1. s \in [D -> S] /\ DOMAIN s = D
    BY <1>1 DEF Ranks
  <2>2. ASSUME NEW p \in D, NEW q \in D, p < q PROVE CostBefore(s[p], s[q])
    BY <1>1, <2>2 DEF Ranks, CostOrder
  <2> QED BY <2>1, <2>2
<1>3. r \in [D -> S] /\ Good(r)
  <2> HIDE DEF Good, D
  <2> QED BY <1>2
<1>4. Ranked(S, CostBefore) = r
  BY DEF Ranked
<1> HIDE DEF r
<1>5. Ranks(r, S, CostOrder(S))
  <2>1. DOMAIN r = D
    BY <1>3
  <2>2. ASSUME NEW p \in D, NEW q \in D, p < q PROVE <<r[p], r[q]>> \in CostOrder(S)
    <3>1. CostBefore(r[p], r[q]) /\ r[p] \in S /\ r[q] \in S
      BY <1>3, <2>1, <2>2
    <3> QED BY <3>1 DEF CostOrder
  <2> QED BY <1>3, <2>2 DEF Ranks
<1> QED BY <1>4, <1>5

Named(S, field, v) == {o \in S : events[o][field] = v}

CostRow(S, field, v) == [client |-> v, dollars |-> Dollars(Named(S, field, v))]

LEMMA BillShows ==
  ASSUME StoreInv, NEW S, Costed(S), NEW field \in {"client", "costDim"},
         NEW t, t = SortedCosts(S, field)
  PROVE  /\ SumOver([r \in DOMAIN t |-> t[r].dollars]) >= Dollars(S)
         /\ (\A m \in S : events[m].cost >= 0) =>
              SumOver([r \in DOMAIN t |-> t[r].dollars]) = Dollars(S)
         /\ \A p, q \in DOMAIN t : p < q => t[p].dollars >= t[q].dollars
<1> DEFINE cl == [m \in S |-> events[m][field]]
           K == {cl[m] : m \in DOMAIN cl}
           D == [v \in K |-> Dollars(Named(S, field, v))]
           Paid == {v \in K : D[v] > 0}
           b == [v \in Paid |-> CostRow(S, field, v)]
           R == {b[v] : v \in DOMAIN b}
           f == [x \in R |-> x.dollars]
<1>1. /\ IsFiniteSet(S) /\ CostOf(S) \in [S -> Int] /\ Dollars(S) = SumOver(CostOf(S))
      /\ \A T \in SUBSET S : Costed(T) /\ Dollars(T) = SumIn(CostOf(S), T)
  BY CostsAre
<1>2. \A m \in S : events[m][field] \in Nat /\ events[m][field] \in K
  <2>1. \A m \in S : events[m].client \in Nat /\ events[m].costDim \in Nat
    BY EventsAre DEF Costed
  <2>2. \A m \in S : events[m][field] \in Nat
    BY <2>1
  <2> QED BY <2>2
<1>3. IsFiniteSet(K) /\ K \in SUBSET Nat /\ cl \in [S -> K] /\ DOMAIN cl = S
  <2>1. DOMAIN cl = S /\ K \in SUBSET Nat /\ cl \in [S -> K]
    BY <1>2
  <2> HIDE DEF cl
  <2>2. IsFiniteSet(K)
    BY <1>1, <2>1, ImageFinite
  <2> QED BY <2>1, <2>2
<1>4. \A v : Named(S, field, v) = {x \in S : cl[x] = v}
  BY DEF Named
<1>5. \A v : Named(S, field, v) \in SUBSET S
  BY DEF Named
<1> HIDE DEF cl, K
<1>6. SumOver(D) = Dollars(S)
  <2>1. D = [v \in K |-> SumIn(CostOf(S), {x \in S : cl[x] = v})]
    BY <1>1, <1>4, <1>5
  <2> HIDE DEF D
  <2>2. SumOver([v \in K |-> SumIn(CostOf(S), {x \in S : cl[x] = v})]) = SumOver(CostOf(S))
    <3> DEFINE F == CostOf(S)
    <3>1. IsFiniteSet(S) /\ IsFiniteSet(K) /\ cl \in [S -> K] /\ F \in [S -> Int]
      BY <1>1, <1>3
    <3> HIDE DEF F
    <3>2. SumOver([v \in K |-> SumIn(F, {x \in S : cl[x] = v})]) = SumOver(F)
      BY <3>1, SumByClass
    <3> QED BY <3>2 DEF F
  <2> QED BY <1>1, <2>1, <2>2
<1>7. D \in [K -> Int]
  <2>1. ASSUME NEW v \in K PROVE Dollars(Named(S, field, v)) \in Int
    <3>1. IsFiniteSet(Named(S, field, v)) /\ \A x \in Named(S, field, v) : CostOf(S)[x] \in Int
      BY <1>1, <1>5, FS_Subset
    <3>2. SumIn(CostOf(S), Named(S, field, v)) \in Int
      BY <3>1, SumInInt
    <3> QED BY <1>1, <1>5, <3>2
  <2> QED BY <2>1
<1>8. \A v \in K : D[v] = Dollars(Named(S, field, v))
  OBVIOUS
<1>9. ASSUME \A m \in S : events[m].cost >= 0 PROVE \A v \in K : D[v] >= 0
  <2> SUFFICES ASSUME NEW v \in K PROVE D[v] >= 0
    OBVIOUS
  <2> DEFINE T == Named(S, field, v)
  <2>1. Costed(T)
    BY <1>1, <1>5
  <2>2. T \in SUBSET S
    BY <1>5
  <2> HIDE DEF T
  <2>3. IsFiniteSet(T) /\ CostOf(T) \in [T -> Int] /\ Dollars(T) = SumOver(CostOf(T))
    BY <2>1, CostsAre
  <2>4. \A x \in T : CostOf(T)[x] >= 0
    BY <1>9, <2>2 DEF CostOf
  <2>5. Dollars(T) >= 0
    BY <2>3, <2>4, SumOfZeros
  <2> QED BY <1>8, <2>5 DEF T
<1> HIDE DEF D
<1>10. /\ SumIn(D, Paid) >= Dollars(S)
       /\ (\A m \in S : events[m].cost >= 0) => SumIn(D, Paid) = Dollars(S)
  <2> HIDE DEF Paid
  <2>1. Paid = {v \in K : D[v] > 0}
    BY DEF Paid
  <2>2. /\ SumIn(D, Paid) >= SumOver(D)
        /\ (\A v \in K : D[v] >= 0) => SumIn(D, Paid) = SumOver(D)
    BY <1>3, <1>7, <2>1, SumOfPositive
  <2> QED BY <1>6, <1>9, <2>2
<1>11. Paid \in SUBSET K /\ IsFiniteSet(Paid)
  <2>1. Paid \in SUBSET K
    OBVIOUS
  <2> QED BY <1>3, <2>1, FS_Subset
<1>12. \A v \in Paid : CostRow(S, field, v) \in Bill /\ CostRow(S, field, v).client = v
                       /\ CostRow(S, field, v).dollars = D[v] /\ D[v] > 0
  <2> SUFFICES ASSUME NEW v \in Paid
               PROVE  CostRow(S, field, v) \in Bill /\ CostRow(S, field, v).client = v
                      /\ CostRow(S, field, v).dollars = D[v] /\ D[v] > 0
    OBVIOUS
  <2>1. v \in K /\ D[v] > 0 /\ D[v] \in Int /\ v \in Nat
    BY <1>3, <1>7
  <2> QED BY <1>8, <2>1 DEF CostRow, Bill
<1>13. t = Ranked(R, CostBefore)
  <2> DEFINE Of(m) == {o \in S : events[o][field] = events[m][field]}
             rows == {[client |-> events[m][field], dollars |-> Dollars(Of(m))] : m \in S}
  <2>1. \A m \in S : [client |-> events[m][field], dollars |-> Dollars(Of(m))]
                       = CostRow(S, field, events[m][field])
    BY DEF CostRow, Named
  <2>2. ASSUME NEW x PROVE x \in rows <=> \E v \in K : x = CostRow(S, field, v)
    <3>1. x \in rows <=> \E m \in S : x = CostRow(S, field, events[m][field])
      BY <2>1
    <3>2. \A v : v \in K <=> \E m \in S : v = events[m][field]
      BY <1>3 DEF K, cl
    <3> HIDE DEF rows
    <3> QED BY <3>1, <3>2
  <2>3. \A v \in K : CostRow(S, field, v).dollars = D[v]
    BY <1>8 DEF CostRow
  <2>4. \A x : x \in R <=> \E v \in Paid : x = CostRow(S, field, v)
    OBVIOUS
  <2>5. \A v : v \in Paid <=> v \in K /\ D[v] > 0
    OBVIOUS
  <2>6. {row \in rows : row.dollars > 0} = R
    <3> HIDE DEF rows, R, Paid
    <3>1. ASSUME NEW x PROVE (x \in rows /\ x.dollars > 0) <=> x \in R
      BY <2>2, <2>3, <2>4, <2>5
    <3>2. R \subseteq rows
      BY <3>1
    <3> QED BY <3>1, <3>2
  <2> HIDE DEF R
  <2> QED BY <2>6 DEF SortedCosts, CostBefore, Ranked
<1>14. DOMAIN b = Paid /\ \A v \in Paid : b[v] = CostRow(S, field, v)
  OBVIOUS
<1> HIDE DEF b, Paid
<1>15. /\ IsFiniteSet(R) /\ R \in SUBSET Bill /\ OneEach(R) /\ b \in Bijection(Paid, R)
  <2>1. IsFiniteSet(R)
    BY <1>11, <1>14, ImageFinite
  <2>2. \A v \in Paid : b[v] \in Bill /\ b[v].client = v
    BY <1>12, <1>14
  <2>3. R \in SUBSET Bill
    BY <1>14, <2>2
  <2>4. OneEach(R)
    BY <1>14, <2>2 DEF OneEach
  <2>5. b \in [Paid -> R]
    <3>1. b = [v \in Paid |-> b[v]]
      BY <1>14 DEF b
    <3> QED BY <1>14, <3>1
  <2>6. b \in Surjection(Paid, R)
    BY <1>14, <2>5 DEF Surjection
  <2>7. b \in Injection(Paid, R)
    BY <2>2, <2>5 DEF Injection, IsInjective
  <2> QED BY <2>1, <2>3, <2>4, <2>6, <2>7 DEF Bijection
<1>16. f \in [R -> Int]
  BY <1>15 DEF Bill
<1>17. SumOver(f) = SumIn(D, Paid)
  <2>1. \A v \in Paid : f[b[v]] = D[v]
    <3> SUFFICES ASSUME NEW v \in Paid PROVE f[b[v]] = D[v]
      OBVIOUS
    <3>1. b[v] \in R
      BY <1>14
    <3> HIDE DEF R
    <3> QED BY <1>12, <1>14, <3>1
  <2>2. [v \in Paid |-> f[b[v]]] = [v \in Paid |-> D[v]]
    BY <2>1
  <2> HIDE DEF f, R
  <2>3. SumOver([v \in Paid |-> f[b[v]]]) = SumOver(f)
    BY <1>11, <1>15, <1>16, SumBijection
  <2> QED BY <2>2, <2>3 DEF SumIn
<1> HIDE DEF R
<1>18. Ranks(t, R, CostOrder(R)) /\ IsOrdered(R, CostOrder(R))
  BY <1>13, <1>15, CostsRanked, CostsOrdered
<1>19. DOMAIN t = 1..Cardinality(R) /\ \A r \in DOMAIN t : t[r] \in R
  BY <1>18 DEF Ranks
<1>20. SumOver([r \in DOMAIN t |-> t[r].dollars]) = SumIn(D, Paid)
  <2>1. [r \in DOMAIN t |-> f[t[r]]] = [r \in DOMAIN t |-> t[r].dollars]
    BY <1>19
  <2> HIDE DEF f
  <2>2. SumOver([r \in DOMAIN t |-> f[t[r]]]) = SumOver(f)
    BY <1>15, <1>16, <1>18, ColumnSum
  <2> QED BY <1>17, <2>1, <2>2
<1>21. ASSUME NEW p \in DOMAIN t, NEW q \in DOMAIN t, p < q PROVE t[p].dollars >= t[q].dollars
  <2>1. <<t[p], t[q]>> \in CostOrder(R)
    BY <1>18, <1>19, <1>21 DEF Ranks
  <2>2. CostBefore(t[p], t[q]) /\ t[p] \in Bill /\ t[q] \in Bill
    BY <1>15, <1>19, <2>1 DEF CostOrder
  <2> QED BY <2>2 DEF CostBefore, Bill
<1> QED BY <1>10, <1>20, <1>21

LEMMA CostsHold == ASSUME StoreInv PROVE CostAddsUp
<1> SUFFICES ASSUME NEW now \in Nows, NEW lookback \in Lookbacks,
                    NEW role \in {costDimNone, costDimGroup, costDimModel}
             PROVE  LET rep  == Cost(now, lookback, role)
                        w    == {m \in Window(now, lookback) : events[m].cost # NaN}
                        refunds == \E m \in DOMAIN events : events[m].cost # NaN /\ events[m].cost < 0
                        Rows(s) == SumOver([r \in DOMAIN s |-> s[r].dollars])
                    IN  /\ Rows(rep.byGroup) >= rep.total
                        /\ ~refunds =>
                             /\ Rows(rep.byGroup) = rep.total
                             /\ role = costDimModel =>
                                  Rows(rep.byModel) = Dollars({m \in w : events[m].costDim # 0})
                             /\ now - lookback < Truncate(now, Day) => rep.today <= rep.total
                             /\ lookback > Hour => rep.trailingHour <= rep.total
                        /\ \A p, q \in DOMAIN rep.byGroup : p < q =>
                             rep.byGroup[p].dollars >= rep.byGroup[q].dollars
  BY DEF CostAddsUp
<1> DEFINE rep == Cost(now, lookback, role)
           w == {m \in Window(now, lookback) : events[m].cost # NaN}
           refunds == \E m \in DOMAIN events : events[m].cost # NaN /\ events[m].cost < 0
           costed == {m \in DOMAIN events : events[m].cost # NaN}
           Since(t) == {m \in costed : t <= events[m].ts /\ events[m].ts <= now}
           Rows(s) == SumOver([r \in DOMAIN s |-> s[r].dollars])
           u == {m \in w : events[m].costDim # 0}
<1>1. /\ now \in Nat /\ lookback \in Nat \ {0}
      /\ \A m \in DOMAIN events : m \in Window(now, lookback) <=> events[m].ts > now - lookback
      /\ Window(now, lookback) \in SUBSET DOMAIN events
  BY Windows
<1>2. costed \cap Window(now, lookback) = w
  BY <1>1
<1>3. /\ rep.total = Dollars(w) /\ rep.today = Dollars(Since(Truncate(now, Day)))
      /\ rep.trailingHour = Dollars(Since(now - Hour))
      /\ rep.byGroup = GroupCosts(w, role)
      /\ role = costDimModel => rep.byModel = SortedCosts(u, "costDim")
  BY <1>2 DEF Cost
<1>4. Costed(w) /\ Costed(u) /\ \A t : Costed(Since(t))
  BY <1>1 DEF Costed
<1>5. ~refunds => /\ \A m \in w : events[m].cost >= 0
                  /\ \A m \in u : events[m].cost >= 0
  <2> SUFFICES ASSUME ~refunds, NEW m \in w PROVE events[m].cost >= 0
    OBVIOUS
  <2>1. m \in DOMAIN events /\ events[m].cost # NaN
    BY <1>1
  <2>2. events[m].cost \in Int /\ ~(events[m].cost < 0)
    BY <2>1, EventsAre
  <2> QED BY <2>2
<1>6. PICK field \in {"client", "costDim"} : rep.byGroup = SortedCosts(w, field)
  BY <1>3 DEF GroupCosts
<1>7. /\ Rows(rep.byGroup) >= rep.total
      /\ (\A m \in w : events[m].cost >= 0) => Rows(rep.byGroup) = rep.total
      /\ \A p, q \in DOMAIN rep.byGroup : p < q =>
           rep.byGroup[p].dollars >= rep.byGroup[q].dollars
  <2> DEFINE t == rep.byGroup
             x == w
  <2>1. t = SortedCosts(x, field) /\ Costed(x) /\ rep.total = Dollars(x)
    BY <1>3, <1>4, <1>6
  <2> HIDE DEF t, x, rep
  <2>2. /\ SumOver([r \in DOMAIN t |-> t[r].dollars]) >= Dollars(x)
        /\ (\A m \in x : events[m].cost >= 0) =>
             SumOver([r \in DOMAIN t |-> t[r].dollars]) = Dollars(x)
        /\ \A p, q \in DOMAIN t : p < q => t[p].dollars >= t[q].dollars
    BY <2>1, BillShows
  <2> QED BY <2>1, <2>2 DEF t, x
<1>8. ASSUME role = costDimModel, ~refunds
      PROVE  Rows(rep.byModel) = Dollars(u)
  <2> DEFINE t == rep.byModel
             x == u
  <2>1. t = SortedCosts(x, "costDim") /\ Costed(x) /\ \A m \in x : events[m].cost >= 0
    BY <1>3, <1>4, <1>5, <1>8
  <2> HIDE DEF t, x, rep
  <2>2. SumOver([r \in DOMAIN t |-> t[r].dollars]) = Dollars(x)
    BY <2>1, BillShows
  <2> QED BY <2>2 DEF t, x
<1>9. ASSUME ~refunds, NEW T \in SUBSET w
      PROVE  Dollars(T) <= Dollars(w)
  <2> DEFINE x == w
  <2>1. Costed(x) /\ T \in SUBSET x /\ \A m \in x : events[m].cost >= 0
    BY <1>4, <1>5, <1>9
  <2> HIDE DEF x
  <2>2. IsFiniteSet(x) /\ CostOf(x) \in [x -> Int] /\ Dollars(x) = SumOver(CostOf(x))
        /\ Dollars(T) = SumIn(CostOf(x), T)
    BY <2>1, CostsAre
  <2>3. \A m \in x : CostOf(x)[m] >= 0
    BY <2>1 DEF CostOf
  <2>4. SumIn(CostOf(x), T) <= SumOver(CostOf(x))
    BY <2>1, <2>2, <2>3, SumOfPart
  <2> QED BY <2>2, <2>4 DEF x
<1>10. ASSUME NEW t \in Int, now - lookback < t PROVE Since(t) \in SUBSET w
  <2> SUFFICES ASSUME NEW m \in costed, t <= events[m].ts PROVE m \in Window(now, lookback)
    OBVIOUS
  <2>1. events[m].ts \in Nat
    BY EventsAre
  <2> QED BY <1>1, <1>10, <2>1
<1>11. Hour \in Nat \ {0} /\ Truncate(now, Day) \in Int
  <2>1. Hour \in Nat \ {0} /\ Day \in Nat \ {0}
    BY QueriesAssumption DEF Hour, Day
  <2>2. now \div Day \in Int
    BY <1>1, <2>1, Quotient
  <2> QED BY <2>1, <2>2 DEF Truncate
<1> HIDE DEF Since, w, rep, refunds, u, Rows
<1>12. ASSUME ~refunds, now - lookback < Truncate(now, Day) PROVE rep.today <= rep.total
  BY <1>3, <1>9, <1>10, <1>11, <1>12
<1>13. ASSUME ~refunds, lookback > Hour PROVE rep.trailingHour <= rep.total
  <2>1. now - Hour \in Int /\ now - lookback < now - Hour
    BY <1>1, <1>11, <1>13
  <2> QED BY <1>3, <1>9, <1>10, <1>13, <2>1
<1> QED BY <1>5, <1>7, <1>8, <1>12, <1>13 DEF w, rep, refunds, u, Rows

------------------------------------------------------------------------------
(***************************************************************************)
(* Queries: the store is all the panels need to know.                      *)
(***************************************************************************)
LEMMA QueriesStored == QueriesSpec => []StoreInv
<1>1. Init => StoreInv
  BY QueriesAssumption DEF Init, StoreInv
<1>2. StoreInv /\ [Next]_events => StoreInv'
  <2> SUFFICES ASSUME StoreInv, [Next]_events PROVE StoreInv'
    OBVIOUS
  <2>1. CASE AppendEvent
    <3>1. PICK e \in Records : Len(events) < MaxEvents /\ events' = Append(events, e)
      BY <2>1 DEF AppendEvent
    <3>2. events \in Seq(Records) /\ Len(events) \in Nat /\ MaxEvents \in Nat
      BY QueriesAssumption DEF StoreInv
    <3>3. events' \in Seq(Records) /\ Len(events') = Len(events) + 1
      BY <3>1, <3>2
    <3> QED BY <3>1, <3>2, <3>3 DEF StoreInv
  <2>2. CASE UNCHANGED events
    BY <2>2 DEF StoreInv
  <2> QED BY <2>1, <2>2 DEF Next
<1> QED BY <1>1, <1>2, PTL DEF QueriesSpec

\* Panels drawn from one store at one time agree: bins, groups and tables make
\* up the counts of stats, a table that is cut off shows what ranks first, and
\* the rows of the cost panel make up its total (throughput, errorRate,
\* throughputSegmented, topErrors, topClientHealth, topRoutes, recentIssues,
\* cost).
THEOREM QueriesPanels == QueriesSpec => []PanelsAgree
<1>1. StoreInv => PanelsAgree
  BY ChartsHold, TablesHold, CostsHold DEF PanelsAgree
<1> QED BY <1>1, QueriesStored, PTL

================================================================================
