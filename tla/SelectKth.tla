----------------------------- MODULE SelectKth -----------------------------
(***************************************************************************)
(* percentileNearestRank and selectKth (internal/source/store.go): the     *)
(* quickselect behind the p95 of the stats panel.  It reorders its array   *)
(* in place, under the store's read lock, so that it must stay inside the  *)
(* array, end, and leave the right value at its place.                     *)
(*                                                                         *)
(* Arrays are functions on 0..(size - 1), as in Go.  Each iteration of a   *)
(* loop is a step.  Values are integers: the order of floating-point       *)
(* numbers that are no NaN is all the code looks at.                       *)
(***************************************************************************)
EXTENDS Integers, FiniteSets

CONSTANTS
  Durations,     \* values of a duration field
  Percentiles,   \* the p of percentileNearestRank; the program asks for 95
  Budgets,       \* partitions before selectKth sorts the rest of the range:
                 \* 3 * bits.Len(len(vals)) in the code, any number here
  MaxLen         \* bound: length of the array

ASSUME SelectAssumption ==
  /\ Durations \subseteq Int
  /\ Percentiles \subseteq 0..100
  /\ Budgets \subseteq Nat
  /\ MaxLen \in Nat

VARIABLES
  size,          \* len(vals)
  input,         \* history: vals at the call
  percent,       \* history: the percentile asked for
  vals, k,       \* the parameters of selectKth
  lo, hi,        \* the range that still holds the value wanted
  budget,        \* partitions left before the range is sorted
  pivot, i, j,   \* the partition under way
  pc             \* where the call is

selectVars == <<size, input, percent, vals, k, lo, hi, budget, pivot, i, j, pc>>

Indices == 0..(size - 1)

NoValues == [m \in {} |-> 0]

SelectInit ==
  /\ size = 0 /\ input = NoValues /\ vals = NoValues /\ percent = 0 /\ k = 0
  /\ lo = 0 /\ hi = 0 /\ budget = 0 /\ pivot = 0 /\ i = 0 /\ j = 0
  /\ pc = "idle"

\* Fault: the rank is rounded down.
RankDown(n, p) == LET rank == (p * n) \div 100 IN IF rank < 1 THEN 1 ELSE rank

\* The nearest rank, ceil(p/100 * n), at least 1 and at most n.  For 95 the
\* product of floats rounds to the integer whenever the exact one is one.
Rank(n, p) ==
  LET rank == (p * n + 99) \div 100
  IN  CASE rank < 1 -> 1
        [] rank > n -> n
        [] OTHER    -> rank

\* percentileNearestRank of a non-empty array calls selectKth.
Call ==
  /\ pc = "idle"
  /\ \E n \in 1..MaxLen, p \in Percentiles : \E a \in [0..(n - 1) -> Durations] :
       /\ size' = n
       /\ input' = a
       /\ vals' = a
       /\ percent' = p
       /\ k' = Rank(n, p) - 1
       /\ lo' = 0
       /\ hi' = n - 1
  /\ budget' \in Budgets
  /\ pc' = "loop"
  /\ UNCHANGED <<pivot, i, j>>

Swap(a, x, y) == [a EXCEPT ![x] = a[y], ![y] = a[x]]

\* Puts the values at x and y in order.
Order(a, x, y) == IF a[y] < a[x] THEN Swap(a, x, y) ELSE a

Mid == lo + (hi - lo) \div 2

\* The range is down to one element.
Found ==
  /\ pc = "loop"
  /\ lo >= hi
  /\ pc' = "return"
  /\ UNCHANGED <<size, input, percent, vals, k, lo, hi, budget, pivot, i, j>>

Perms(S) == {p \in [S -> S] : \A x, y \in S : p[x] = p[y] => x = y}

\* Fault: the sort leaves out the last element of the range.
SortShort ==
  /\ pc = "loop"
  /\ lo < hi
  /\ budget = 0
  /\ \E p \in Perms(lo..(hi - 1)) :
       vals' = [m \in Indices |-> IF m \in lo..(hi - 1) THEN vals[p[m]] ELSE vals[m]]
  /\ \A x, y \in lo..(hi - 1) : x < y => vals'[x] <= vals'[y]
  /\ pc' = "return"
  /\ UNCHANGED <<size, input, percent, k, lo, hi, budget, pivot, i, j>>

\* The budget is used up: slices.Sort of what is left of the range.
SortRest ==
  /\ pc = "loop"
  /\ lo < hi
  /\ budget = 0
  /\ \E p \in Perms(lo..hi) :
       vals' = [m \in Indices |-> IF m \in lo..hi THEN vals[p[m]] ELSE vals[m]]
  /\ \A x, y \in lo..hi : x < y => vals'[x] <= vals'[y]
  /\ pc' = "return"
  /\ UNCHANGED <<size, input, percent, k, lo, hi, budget, pivot, i, j>>

\* Median of three: its place is the middle, and a partition begins.
ChoosePivot ==
  /\ pc = "loop"
  /\ lo < hi
  /\ budget # 0
  /\ vals' = Order(Order(Order(vals, lo, Mid), lo, hi), Mid, hi)
  /\ pivot' = vals'[Mid]
  /\ i' = lo
  /\ j' = hi
  /\ pc' = "up"
  /\ UNCHANGED <<size, input, percent, k, lo, hi, budget>>

\* Fault: the scan passes over elements equal to the pivot.
ScanUpPast ==
  /\ pc = "up"
  /\ IF vals[i] <= pivot THEN i' = i + 1 /\ pc' = pc
                         ELSE i' = i /\ pc' = "down"
  /\ UNCHANGED <<size, input, percent, vals, k, lo, hi, budget, pivot, j>>

ScanUp ==
  /\ pc = "up"
  /\ IF vals[i] < pivot THEN i' = i + 1 /\ pc' = pc
                        ELSE i' = i /\ pc' = "down"
  /\ UNCHANGED <<size, input, percent, vals, k, lo, hi, budget, pivot, j>>

ScanDown ==
  /\ pc = "down"
  /\ vals[j] > pivot
  /\ j' = j - 1
  /\ UNCHANGED <<size, input, percent, vals, k, lo, hi, budget, pivot, i, pc>>

\* Fault: the scans are not moved past the elements exchanged.
ExchangeStay ==
  /\ pc = "down"
  /\ vals[j] <= pivot
  /\ IF i <= j THEN vals' = Swap(vals, i, j) ELSE UNCHANGED vals
  /\ pc' = IF i <= j THEN "up" ELSE "narrow"
  /\ UNCHANGED <<size, input, percent, k, lo, hi, budget, pivot, i, j>>

\* Both scans have stopped.
Exchange ==
  /\ pc = "down"
  /\ vals[j] <= pivot
  /\ IF i <= j THEN vals' = Swap(vals, i, j) /\ i' = i + 1 /\ j' = j - 1
               ELSE UNCHANGED <<vals, i, j>>
  /\ pc' = IF i' <= j' THEN "up" ELSE "narrow"
  /\ UNCHANGED <<size, input, percent, k, lo, hi, budget, pivot>>

\* On to the part that holds index k, or out when k lies between the parts.
Narrow ==
  /\ pc = "narrow"
  /\ \/ k <= j /\ hi' = j /\ lo' = lo /\ budget' = budget - 1 /\ pc' = "loop"
     \/ k >= i /\ lo' = i /\ hi' = hi /\ budget' = budget - 1 /\ pc' = "loop"
     \/ j < k /\ k < i /\ pc' = "return" /\ UNCHANGED <<lo, hi, budget>>
  /\ UNCHANGED <<size, input, percent, vals, k, pivot, i, j>>

\* The caller takes vals[k] and gives the buffer back.
Return ==
  /\ pc = "return"
  /\ size' = 0 /\ input' = NoValues /\ vals' = NoValues /\ percent' = 0 /\ k' = 0
  /\ lo' = 0 /\ hi' = 0 /\ budget' = 0 /\ pivot' = 0 /\ i' = 0 /\ j' = 0
  /\ pc' = "idle"

SelectStep ==
  \/ Found \/ SortRest \/ ChoosePivot \/ ScanUp \/ ScanDown \/ Exchange \/ Narrow \/ Return

SelectNext == Call \/ SelectStep

\* The call is a sequential piece of code: it goes on.
SelectSpec == SelectInit /\ [][SelectNext]_selectVars /\ WF_selectVars(SelectStep)

------------------------------------------------------------------------------
\* No access outside the array, and no empty range: the inner loops of
\* selectKth check no bounds and rely on elements that stop them.
InBounds ==
  /\ pc # "idle" => 0 <= lo /\ lo <= hi /\ hi < size
  /\ pc = "up" => i \in lo..hi
  /\ pc = "down" => i \in lo..hi /\ j \in lo..hi

\* "vals[k] holds the value a full sort would put there": the array is the
\* input reordered, with nothing greater before k and nothing smaller after.
SelectedIsKth ==
  pc = "return" =>
    /\ \E p \in Perms(Indices) : vals = [m \in Indices |-> input[p[m]]]
    /\ \A m \in Indices : (m < k => vals[m] <= vals[k]) /\ (m > k => vals[k] <= vals[m])

\* What percentileNearestRank returns is the nearest-rank percentile: the
\* least value of the input with p percent of the input at or below it.
PercentileIsNearestRank ==
  LET AtOrBelow(v) == 100 * Cardinality({m \in Indices : input[m] <= v})
  IN  pc = "return" =>
        /\ AtOrBelow(vals[k]) >= percent * size
        /\ \A m \in Indices : input[m] < vals[k] => AtOrBelow(input[m]) < percent * size

\* Each call returns: while it runs, stats holds the read lock, and the
\* tailer cannot append.
SelectEnds == pc = "loop" ~> pc = "idle"

==============================================================================
