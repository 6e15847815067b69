-------------------------- MODULE EventStore_proofs --------------------------
(***************************************************************************)
(* The array invariants of the event store, for every max_events, every    *)
(* batch size and every number of files.                                   *)
(***************************************************************************)
EXTENDS EventStore, SequenceTheorems, FiniteSetTheorems, WellFoundedInduction, TLAPS

\* What the writers preserve: the array is in sequence order and the side
\* table is parallel to it.  Readers touch neither.
StoreInv == StoreTypeOK /\ SequenceOrder /\ SideTableParallel

\* At least one element stays, unless there was none, and at most max_events.
LEMMA CutBounds ==
  ASSUME NEW n \in Nat
  PROVE  /\ Cut(n) \in 0..n
         /\ n - Cut(n) <= MaxEvents
         /\ n > 0 => Cut(n) < n
<1>1. Keep \in Nat \ {0} /\ Keep <= MaxEvents
  BY StoreAssumption DEF Keep
<1> QED BY <1>1, StoreAssumption DEF Cut

\* Trimming keeps a suffix: element i of it is element i + cut of the whole.
LEMMA NewestIsSuffix ==
  ASSUME NEW S, NEW s \in Seq(S)
  PROVE  /\ Newest(s) \in Seq(S)
         /\ Len(Newest(s)) = Len(s) - Cut(Len(s))
         /\ \A i \in 1..Len(Newest(s)) :
              /\ i + Cut(Len(s)) \in 1..Len(s)
              /\ Newest(s)[i] = s[i + Cut(Len(s))]
<1> DEFINE n == Len(s)
           m == Cut(n) + 1
<1>1. n \in Nat /\ \A i \in 1..n : s[i] \in S
  BY LenProperties, ElementOfSeq
<1>2. Cut(n) \in 0..n /\ m \in Int /\ m \in 1..(n + 1)
  <2>1. Cut(n) \in 0..n
    BY <1>1, CutBounds
  <2> QED BY <1>1, <2>1
<1>3. \A i \in m..n : s[i] \in S
  BY <1>1, <1>2
<1>4. /\ SubSeq(s, m, n) \in Seq(S)
      /\ Len(SubSeq(s, m, n)) = IF m <= n THEN n - m + 1 ELSE 0
      /\ \A i \in 1..(n - m + 1) : SubSeq(s, m, n)[i] = s[m + i - 1]
  <2> HIDE DEF m, n
  <2> QED BY <1>1, <1>2, <1>3, SubSeqProperties
<1>6. n - m + 1 = n - Cut(n)
  BY <1>1, <1>2
<1>7. Newest(s) = SubSeq(s, m, n)
  BY DEF Newest
<1> QED BY <1>1, <1>2, <1>4, <1>6, <1>7

\* Each element of a concatenation is an element of the first part, or of
\* the second at an index shifted by the length of the first.
LEMMA ConcatElements ==
  ASSUME NEW S, NEW s \in Seq(S), NEW t \in Seq(S), NEW u, u = s \o t
  PROVE  /\ u \in Seq(S)
         /\ Len(u) = Len(s) + Len(t)
         /\ \A i \in 1..Len(u) :
              \/ i \in 1..Len(s) /\ u[i] = s[i]
              \/ /\ i > Len(s)
                 /\ i - Len(s) \in 1..Len(t)
                 /\ u[i] = t[i - Len(s)]
<1>1. Len(s) \in Nat /\ Len(t) \in Nat
  BY LenProperties
<1>2. /\ s \o t \in Seq(S)
      /\ Len(s \o t) = Len(s) + Len(t)
      /\ \A i \in 1..(Len(s) + Len(t)) : (s \o t)[i] =
            IF i <= Len(s) THEN s[i] ELSE t[i - Len(s)]
  BY ConcatProperties
<1> QED BY <1>1, <1>2

\* A batch of one file, with its sequence numbers, is a sequence of events.
LEMMA NumberedBatch ==
  ASSUME NEW f \in Files, NEW batch \in Batches(f),
         nextSeq \in 1..(MaxSeq + 1), nextSeq + Len(batch) <= MaxSeq + 1
  PROVE  /\ Len(batch) \in Nat \ {0}
         /\ Numbered(batch) \in Seq(Event)
         /\ Len(Numbered(batch)) = Len(batch)
         /\ [i \in 1..Len(batch) |-> batch[i].entry] \in Seq(Id)
         /\ Len([i \in 1..Len(batch) |-> batch[i].entry]) = Len(batch)
         /\ \A i \in 1..Len(batch) : /\ Numbered(batch)[i].seq = nextSeq + i - 1
                                     /\ Numbered(batch)[i].entry = batch[i].entry
<1>1. PICK n \in 1..MaxBatch : batch \in [1..n -> [file : {f}, ts : Times, entry : Id]]
  BY DEF Batches
<1>2. n \in Nat \ {0}
  BY StoreAssumption
<1>3. Len(batch) = n
  BY <1>1, <1>2
<1>4. \A i \in 1..n : batch[i] \in [file : {f}, ts : Times, entry : Id]
  BY <1>1
<1>5. \A i \in 1..n : nextSeq + i - 1 \in 1..MaxSeq
  BY <1>2, <1>3, StoreAssumption
<1>6. \A i \in 1..n : Numbered(batch)[i] = [seq |-> nextSeq + i - 1, file |-> batch[i].file,
                                            ts |-> batch[i].ts, entry |-> batch[i].entry]
  BY <1>3 DEF Numbered
<1>7. \A i \in 1..n : Numbered(batch)[i] \in Event
  <2> SUFFICES ASSUME NEW i \in 1..n PROVE Numbered(batch)[i] \in Event
    OBVIOUS
  <2>1. batch[i].file \in Files /\ batch[i].ts \in Times /\ batch[i].entry \in Id
    BY <1>4
  <2>2. [seq |-> nextSeq + i - 1, file |-> batch[i].file,
         ts |-> batch[i].ts, entry |-> batch[i].entry] \in Event
    BY <1>5, <2>1 DEF Event
  <2> QED BY <1>6, <2>2
<1>8. Numbered(batch) \in [1..n -> Event]
  BY <1>3, <1>7 DEF Numbered
<1>9. [i \in 1..Len(batch) |-> batch[i].entry] \in [1..n -> Id]
  BY <1>3, <1>4
<1> QED BY <1>2, <1>3, <1>6, <1>8, <1>9, SeqDef

\* The array after the batch went in and the front was cut off is still in
\* sequence order, and every element is a stored event or one of the batch.
LEMMA AppendBatchPreserves ==
  ASSUME StoreInv, NEW f \in Files, NEW batch \in Batches(f), AppendBatch(batch)
  PROVE  StoreInv'
<1> DEFINE new    == Numbered(batch)
           all    == events \o new
           rows   == [i \in 1..Len(batch) |-> batch[i].entry]
           cut    == Cut(Len(all))
<1>1. /\ events \in Seq(Event)
      /\ Len(events) \in Nat
      /\ DOMAIN events = 1..Len(events)
      /\ ids \in Seq(Id)
      /\ hasIds \in BOOLEAN
      /\ nextSeq \in 1..(MaxSeq + 1)
  BY LenProperties DEF StoreInv, StoreTypeOK
<1>2. /\ Len(batch) \in Nat \ {0}
      /\ new \in Seq(Event)
      /\ Len(new) = Len(batch)
      /\ rows \in Seq(Id)
      /\ Len(rows) = Len(batch)
      /\ \A i \in 1..Len(batch) : /\ new[i].seq = nextSeq + i - 1
                                  /\ new[i].entry = batch[i].entry
                                  /\ rows[i] = batch[i].entry
  BY <1>1, NumberedBatch DEF AppendBatch
<1>a. /\ events' = Newest(all)
      /\ nextSeq' = nextSeq + Len(batch)
      /\ hasIds' = NeedsIds(batch)
      /\ ids' = IF NeedsIds(batch) THEN Newest(SideTable(batch) \o rows) ELSE ids
  BY DEF AppendBatch
<1> HIDE DEF new, rows
<1>3. /\ all \in Seq(Event)
      /\ Len(all) = Len(events) + Len(batch)
      /\ \A i \in 1..Len(all) :
           \/ i \in 1..Len(events) /\ all[i] = events[i]
           \/ /\ i > Len(events)
              /\ i - Len(events) \in 1..Len(batch)
              /\ all[i] = new[i - Len(events)]
  <2>0. Len(new) = Len(batch)
    BY <1>2
  <2>1. events \in Seq(Event) /\ new \in Seq(Event)
    BY <1>1, <1>2
  <2>2. all = events \o new
    OBVIOUS
  <2> HIDE DEF all
  <2>3. /\ all \in Seq(Event)
        /\ Len(all) = Len(events) + Len(new)
        /\ \A i \in 1..Len(all) :
             \/ i \in 1..Len(events) /\ all[i] = events[i]
             \/ /\ i > Len(events)
                /\ i - Len(events) \in 1..Len(new)
                /\ all[i] = new[i - Len(events)]
    BY <2>1, <2>2, ConcatElements
  <2> QED BY <2>0, <2>3
<1>b. /\ cut \in 0..Len(all)
      /\ Len(all) \in Nat
  <2>1. Len(all) \in Nat
    BY <1>3, LenProperties
  <2> QED BY <2>1, CutBounds
<1> HIDE DEF all
<1>c. \A i \in 1..Len(events) : events[i].seq \in Nat /\ events[i].seq < nextSeq
  <2>1. events \in [1..Len(events) -> Event]
    BY <1>1, LenProperties
  <2>2. \A i \in 1..Len(events) : events[i].seq < nextSeq
    BY <1>1 DEF StoreInv, SequenceOrder
  <2>3. \A e \in Event : e.seq \in Nat
    BY StoreAssumption DEF Event
  <2> QED BY <2>1, <2>2, <2>3
<1>4. \A i, j \in 1..Len(all) : i < j => all[i].seq < all[j].seq
  <2>1. \A i, j \in 1..Len(events) : i < j => events[i].seq < events[j].seq
    BY <1>1 DEF StoreInv, SequenceOrder
  <2> SUFFICES ASSUME NEW i \in 1..Len(all), NEW j \in 1..Len(all), i < j
               PROVE  all[i].seq < all[j].seq
    OBVIOUS
  <2>2. CASE j \in 1..Len(events)
    <3>1. i \in 1..Len(events) /\ all[i] = events[i] /\ all[j] = events[j]
      BY <2>2, <1>1, <1>3
    <3> QED BY <3>1, <2>1, <2>2
  <2>3. CASE j \notin 1..Len(events)
    <3>1. j - Len(events) \in 1..Len(batch) /\ all[j].seq = nextSeq + (j - Len(events)) - 1
      BY <2>3, <1>2, <1>3
    <3>2. \/ all[i].seq \in Nat /\ all[i].seq < nextSeq
          \/ all[i].seq = nextSeq + (i - Len(events)) - 1
      BY <1>2, <1>3, <1>c
    <3> QED BY <3>1, <3>2, <1>1, <1>2
  <2> QED BY <2>2, <2>3
<1>5. \A i \in 1..Len(all) : all[i].seq < nextSeq + Len(batch)
  <2> SUFFICES ASSUME NEW i \in 1..Len(all)
               PROVE  all[i].seq < nextSeq + Len(batch)
    OBVIOUS
  <2>1. CASE i \in 1..Len(events) /\ all[i] = events[i]
    BY <2>1, <1>1, <1>2, <1>c
  <2>2. CASE i - Len(events) \in 1..Len(batch) /\ all[i] = new[i - Len(events)]
    <3>1. all[i].seq = nextSeq + (i - Len(events)) - 1
      BY <2>2, <1>2
    <3> QED BY <2>2, <3>1, <1>1, <1>2
  <2> QED BY <2>1, <2>2, <1>3
<1>6. /\ events' \in Seq(Event)
      /\ Len(events') = Len(all) - cut
      /\ cut \in 0..Len(all)
      /\ \A i \in 1..Len(events') : i + cut \in 1..Len(all) /\ events'[i] = all[i + cut]
  BY <1>3, <1>a, <1>b, NewestIsSuffix
<1> HIDE DEF cut
<1>7. DOMAIN events' = 1..Len(events')
  BY <1>6, LenProperties
<1>8. SequenceOrder'
  <2>1. \A i, j \in 1..Len(events') : i < j => events'[i].seq < events'[j].seq
    <3> SUFFICES ASSUME NEW i \in 1..Len(events'), NEW j \in 1..Len(events'), i < j
                 PROVE  events'[i].seq < events'[j].seq
      OBVIOUS
    <3>1. /\ i + cut \in 1..Len(all) /\ j + cut \in 1..Len(all) /\ i + cut < j + cut
          /\ events'[i] = all[i + cut] /\ events'[j] = all[j + cut]
      BY <1>6, <1>b
    <3> QED BY <3>1, <1>4
  <2>2. \A i \in 1..Len(events') : events'[i].seq < nextSeq'
    BY <1>5, <1>6, <1>a
  <2> QED BY <1>7, <2>1, <2>2 DEF SequenceOrder
<1>9. ids' \in Seq(Id) /\ SideTableParallel'
  <2>1. CASE NeedsIds(batch)
    <3> DEFINE side == SideTable(batch)
               tab  == side \o rows
    <3>1. /\ side \in Seq(Id)
          /\ Len(side) = Len(events)
          /\ \A i \in 1..Len(events) : side[i] = events[i].entry
      <4>1. CASE hasIds
        BY <4>1, <1>1 DEF SideTable, StoreInv, SideTableParallel
      <4>2. CASE ~hasIds
        <5>1. side = [i \in 1..Len(events) |-> NoId]
          BY <4>2 DEF SideTable
        <5>2. side \in [1..Len(events) -> Id]
          BY <5>1 DEF Id
        <5> QED BY <4>2, <5>1, <5>2, <1>1, SeqDef, LenProperties DEF StoreInv, SideTableParallel
      <4> QED BY <4>1, <4>2
    <3>z. tab = side \o rows
      OBVIOUS
    <3> HIDE DEF side, tab
    <3>2. /\ tab \in Seq(Id)
          /\ Len(tab) = Len(all)
          /\ \A i \in 1..Len(all) :
               \/ i \in 1..Len(events) /\ tab[i] = side[i]
               \/ /\ i > Len(events)
                  /\ i - Len(events) \in 1..Len(batch)
                  /\ tab[i] = rows[i - Len(events)]
      <4>0. /\ Len(side) = Len(events)
            /\ Len(rows) = Len(batch)
            /\ Len(all) = Len(events) + Len(batch)
        BY <1>2, <1>3, <3>1
      <4>1. side \in Seq(Id) /\ rows \in Seq(Id)
        BY <1>2, <3>1
      <4>2. /\ tab \in Seq(Id)
            /\ Len(tab) = Len(side) + Len(rows)
            /\ \A i \in 1..Len(tab) :
                 \/ i \in 1..Len(side) /\ tab[i] = side[i]
                 \/ /\ i > Len(side)
                    /\ i - Len(side) \in 1..Len(rows)
                    /\ tab[i] = rows[i - Len(side)]
        BY <4>1, <3>z, ConcatElements
      <4> QED BY <4>0, <4>2
    <3>3. \A i \in 1..Len(all) : tab[i] = all[i].entry
      <4> SUFFICES ASSUME NEW i \in 1..Len(all) PROVE tab[i] = all[i].entry
        OBVIOUS
      <4>1. CASE i \in 1..Len(events)
        BY <4>1, <1>1, <1>3, <3>1, <3>2
      <4>2. CASE i \notin 1..Len(events)
        <5>1. /\ i - Len(events) \in 1..Len(batch)
              /\ tab[i] = rows[i - Len(events)]
              /\ all[i] = new[i - Len(events)]
          BY <4>2, <1>3, <3>2
        <5> QED BY <5>1, <1>2
      <4> QED BY <4>1, <4>2
    <3>4. ids' = Newest(tab) /\ hasIds' = TRUE
      BY <2>1, <1>a DEF side, tab
    <3>5. /\ ids' \in Seq(Id)
          /\ Len(ids') = Len(tab) - Cut(Len(tab))
          /\ \A i \in 1..Len(ids') : ids'[i] = tab[i + Cut(Len(tab))]
      BY <3>2, <3>4, NewestIsSuffix
    <3>6. Len(ids') = Len(events') /\ \A i \in 1..Len(events') : ids'[i] = events'[i].entry
      <4>1. Len(ids') = Len(events') /\ cut = Cut(Len(tab))
        BY <1>6, <3>2, <3>5 DEF cut
      <4>2. \A i \in 1..Len(events') : ids'[i] = tab[i + cut] /\ tab[i + cut] = all[i + cut].entry
        BY <4>1, <1>6, <3>3, <3>5
      <4> QED BY <4>1, <4>2, <1>6
    <3> QED BY <1>7, <3>4, <3>5, <3>6 DEF SideTableParallel
  <2>2. CASE ~NeedsIds(batch)
    <3>1. ids' = ids /\ hasIds' = FALSE /\ hasIds = FALSE
      BY <2>2, <1>1, <1>a DEF NeedsIds
    <3>2. ids = <<>> /\ \A i \in 1..Len(events) : events[i].entry = NoId
      BY <3>1, <1>1 DEF StoreInv, SideTableParallel
    <3>3. \A i \in 1..Len(batch) : new[i].entry = NoId
      BY <2>2, <1>2 DEF NeedsIds
    <3>4. \A i \in 1..Len(all) : all[i].entry = NoId
      <4> SUFFICES ASSUME NEW i \in 1..Len(all) PROVE all[i].entry = NoId
        OBVIOUS
      <4> QED BY <1>3, <3>2, <3>3
    <3>5. \A i \in 1..Len(events') : events'[i].entry = NoId
      BY <1>6, <3>4
    <3> QED BY <1>1, <1>7, <3>1, <3>2, <3>5 DEF SideTableParallel
  <2> QED BY <2>1, <2>2
<1>10. StoreTypeOK'
  <2>1. nextSeq' \in 1..(MaxSeq + 1)
    BY <1>1, <1>2, <1>a, StoreAssumption DEF AppendBatch
  <2>2. hasIds' \in BOOLEAN
    BY <1>1, <1>a DEF NeedsIds
  <2> QED BY <1>6, <1>9, <2>1, <2>2 DEF StoreTypeOK
<1> QED BY <1>8, <1>9, <1>10 DEF StoreInv

\* Compacting both arrays with one strictly increasing list of indices keeps
\* the order of the first and the second parallel to it.
LEMMA DropFilePreserves ==
  ASSUME StoreInv, NEW f \in Files, DropFile(f)
  PROVE  StoreInv'
<1> DEFINE K == {i \in DOMAIN events : events[i].file # f}
           n == Cardinality(K)
<1>1. /\ events \in [1..Len(events) -> Event]
      /\ Len(events) \in Nat
      /\ DOMAIN events = 1..Len(events)
      /\ ids \in Seq(Id)
  BY LenProperties DEF StoreInv, StoreTypeOK
<1>2. n \in Nat
  <2>1. IsFiniteSet(1..Len(events))
    BY <1>1, FS_Interval
  <2>2. K \subseteq 1..Len(events)
    BY <1>1
  <2>3. IsFiniteSet(K)
    BY <2>1, <2>2, FS_Subset
  <2> QED BY <2>3, FS_CardinalityType
<1>3. PICK kept \in [1..n -> K] :
         /\ \A i, j \in 1..n : i < j => kept[i] < kept[j]
         /\ events' = [j \in 1..n |-> events[kept[j]]]
         /\ ids' = IF hasIds THEN [j \in 1..n |-> ids[kept[j]]] ELSE ids
         /\ UNCHANGED <<hasIds, nextSeq>>
  BY DEF DropFile, Listings
<1>4. \A j \in 1..n : kept[j] \in 1..Len(events)
  BY <1>1, <1>3
<1> HIDE DEF n, K
<1>5. /\ events' \in [1..n -> Event]
      /\ \A j \in 1..n : events'[j] = events[kept[j]]
  BY <1>1, <1>3, <1>4
<1>6. /\ events' \in Seq(Event)
      /\ Len(events') = n
      /\ DOMAIN events' = 1..n
  BY <1>2, <1>5, SeqDef
<1>7. SequenceOrder'
  <2>1. /\ \A i, j \in 1..Len(events) : i < j => events[i].seq < events[j].seq
        /\ \A i \in 1..Len(events) : events[i].seq < nextSeq
    BY <1>1 DEF StoreInv, SequenceOrder
  <2>2. \A i, j \in 1..n : i < j => events'[i].seq < events'[j].seq
    BY <1>3, <1>4, <1>5, <2>1
  <2>3. \A i \in 1..n : events'[i].seq < nextSeq'
    BY <1>3, <1>4, <1>5, <2>1
  <2> QED BY <1>6, <2>2, <2>3 DEF SequenceOrder
<1>8. CASE hasIds
  <2>1. /\ Len(ids) = Len(events)
        /\ \A i \in 1..Len(events) : ids[i] = events[i].entry
    BY <1>1, <1>8 DEF StoreInv, SideTableParallel
  <2>2. \A i \in 1..Len(events) : ids[i] \in Id
    BY <1>1, <2>1, ElementOfSeq
  <2>3. /\ ids' \in [1..n -> Id]
        /\ \A j \in 1..n : ids'[j] = events'[j].entry
    BY <1>3, <1>4, <1>5, <1>8, <2>1, <2>2
  <2>4. ids' \in Seq(Id) /\ Len(ids') = n
    BY <1>2, <2>3, SeqDef
  <2> QED BY <1>3, <1>6, <1>7, <1>8, <2>3, <2>4
      DEF StoreInv, StoreTypeOK, SideTableParallel
<1>9. CASE ~hasIds
  <2>1. ids' = <<>> /\ hasIds' = hasIds /\ nextSeq' = nextSeq
    BY <1>3, <1>9 DEF StoreInv, SideTableParallel
  <2>2. \A j \in 1..n : events'[j].entry = NoId
    BY <1>1, <1>4, <1>5, <1>9 DEF StoreInv, SideTableParallel
  <2>3. SideTableParallel'
    BY <1>6, <1>9, <2>1, <2>2 DEF SideTableParallel
  <2>4. StoreTypeOK'
    BY <1>6, <2>1, <1>1, <1>3, <1>9 DEF StoreInv, StoreTypeOK, SideTableParallel
  <2> QED BY <1>7, <2>3, <2>4 DEF StoreInv
<1> QED BY <1>8, <1>9

\* Nothing but AppendBatch and DropFile writes the arrays.
LEMMA NextPreserves == StoreInv /\ [Next]_vars => StoreInv'
<1> SUFFICES ASSUME StoreInv, [Next]_vars
             PROVE  StoreInv'
  OBVIOUS
<1>1. ASSUME NEW f \in Files, NEW batch \in Batches(f), AppendBatch(batch)
      PROVE  StoreInv'
  BY <1>1, AppendBatchPreserves
<1>2. ASSUME NEW f \in Files, DropFile(f)
      PROVE  StoreInv'
  BY <1>2, DropFilePreserves
<1>3. ASSUME UNCHANGED storeVars
      PROVE  StoreInv'
  BY <1>3 DEF StoreInv, StoreTypeOK, SequenceOrder, SideTableParallel, storeVars
<1>4. CASE FinishBackfill
  BY <1>3, <1>4 DEF FinishBackfill
<1>5. ASSUME NEW r \in Readers, SampleReady(r) \/ Stream(r)
      PROVE  StoreInv'
  <2>1. UNCHANGED storeVars
    BY <1>5 DEF SampleReady, Stream, StreamEarly, StreamFirst, StreamNext, Return
  <2> QED BY <1>3, <2>1
<1>6. CASE UNCHANGED vars
  BY <1>3, <1>6 DEF vars
<1> QED BY <1>1, <1>2, <1>4, <1>5, <1>6 DEF Next, Writer

LEMMA InitStore == Init => StoreInv
<1> SUFFICES ASSUME Init PROVE StoreInv
  OBVIOUS
<1>1. events = <<>> /\ ids = <<>> /\ hasIds = FALSE /\ nextSeq = 1
  BY DEF Init
<1>2. <<>> \in Seq(Event) /\ <<>> \in Seq(Id) /\ DOMAIN <<>> = {}
  BY EmptySeq, LenProperties
<1>3. 1 \in 1..(MaxSeq + 1)
  BY StoreAssumption
<1> QED BY <1>1, <1>2, <1>3 DEF StoreInv, StoreTypeOK, SequenceOrder, SideTableParallel

\* In every reachable state the arrays are well formed.
THEOREM StoreInvariant == Spec => []StoreInv
<1>1. Init => StoreInv
  BY InitStore
<1>2. StoreInv /\ [Next]_vars => StoreInv'
  BY NextPreserves
<1> QED BY <1>1, <1>2, PTL DEF Spec

\* The array stays in strictly increasing sequence order whatever the tailer
\* appends, drops and trims, so the binary search in stream finds the cursor.
THEOREM StoreSequenceOrder == Spec => []SequenceOrder
<1>1. StoreInv => SequenceOrder
  BY DEF StoreInv
<1> QED BY <1>1, StoreInvariant, PTL

\* Every stored event is shown under the id its own line gave it.
THEOREM StoreIdentityKept == Spec => []IdentityKept
<1>1. StoreInv => IdentityKept
  <2> SUFFICES ASSUME StoreInv PROVE IdentityKept
    OBVIOUS
  <2>1. /\ DOMAIN events = 1..Len(events)
        /\ Len(events) \in Nat
        /\ hasIds \in BOOLEAN
    BY LenProperties DEF StoreInv, StoreTypeOK
  <2>2. SideTableParallel
    BY DEF StoreInv
  <2>3. ASSUME NEW i \in DOMAIN events
        PROVE  EventID(i) = <<events[i].file,
                  IF events[i].entry = NoId THEN events[i].seq ELSE events[i].entry>>
    <3>1. CASE hasIds
      BY <2>1, <2>2, <3>1 DEF SideTableParallel, EventID
    <3>2. CASE ~hasIds
      <4>1. Len(ids) = 0 /\ ~(i <= Len(ids)) /\ events[i].entry = NoId
        BY <2>1, <2>2, <3>2, EmptySeq DEF SideTableParallel
      <4> QED BY <4>1 DEF EventID
    <3> QED BY <3>1, <3>2
  <2> QED BY <2>2, <2>3 DEF IdentityKept
<1> QED BY <1>1, StoreInvariant, PTL

------------------------------------------------------------------------------
(***************************************************************************)
(* The order by time, and the heap that keeps the newest.                  *)
(***************************************************************************)

\* The readers of the arrays need these facts about them.
LEMMA ArrayFacts ==
  ASSUME StoreInv
  PROVE  /\ Len(events) \in Nat
         /\ DOMAIN events = 1..Len(events)
         /\ events \in [1..Len(events) -> Event]
         /\ \A i \in 1..Len(events) :
              /\ events[i].seq \in 1..MaxSeq /\ events[i].seq \in Nat
              /\ events[i].seq < nextSeq
              /\ events[i].ts \in Nat
         /\ \A i, j \in 1..Len(events) : i < j => events[i].seq < events[j].seq
         /\ \A i, j \in 1..Len(events) : events[i].seq = events[j].seq => i = j
<1>1. /\ Len(events) \in Nat
      /\ DOMAIN events = 1..Len(events)
      /\ events \in [1..Len(events) -> Event]
  BY LenProperties DEF StoreInv, StoreTypeOK
<1>2. \A e \in Event : e.seq \in 1..MaxSeq /\ e.seq \in Nat /\ e.ts \in Nat
  <2>1. \A e \in Event : e.seq \in 1..MaxSeq /\ e.ts \in Times
    BY DEF Event
  <2>2. 1..MaxSeq \subseteq Nat /\ Times \subseteq Nat
    BY StoreAssumption
  <2> QED BY <2>1, <2>2
<1>3. \A i, j \in 1..Len(events) : i < j => events[i].seq < events[j].seq
  BY <1>1 DEF StoreInv, SequenceOrder
<1>4. \A i \in 1..Len(events) : events[i].seq < nextSeq
  BY <1>1 DEF StoreInv, SequenceOrder
<1>5. ASSUME NEW i \in 1..Len(events), NEW j \in 1..Len(events), events[i].seq = events[j].seq
      PROVE  i = j
  <2>1. ~(i < j) /\ ~(j < i)
    BY <1>1, <1>2, <1>3, <1>5
  <2> QED BY <1>1, <2>1
<1> QED BY <1>1, <1>2, <1>3, <1>4, <1>5

\* Older is a strict total order of the indices.
LEMMA OlderIsOrder ==
  ASSUME StoreInv
  PROVE  /\ \A i \in 1..Len(events) : ~Older(i, i)
         /\ \A i, j \in 1..Len(events) : i # j => Older(i, j) \/ Older(j, i)
         /\ \A i, j, k \in 1..Len(events) : Older(i, j) /\ Older(j, k) => Older(i, k)
<1>1. \A i \in 1..Len(events) : events[i].ts \in Nat /\ events[i].seq \in Nat
  BY ArrayFacts
<1>2. \A i, j \in 1..Len(events) : events[i].seq = events[j].seq => i = j
  BY ArrayFacts
<1> QED BY <1>1, <1>2 DEF Older

LEMMA LeastElement ==
  ASSUME NEW S \in SUBSET Nat, S # {}
  PROVE  \E x \in S : \A y \in S : x <= y
<1>1. PICK x \in S : \A y \in S : ~(<<y, x>> \in OpToRel(<, Nat))
  BY NatLessThanWellFounded, WFMin
<1>2. \A y \in S : <<y, x>> \in Nat \X Nat /\ ~(y < x)
  BY <1>1 DEF OpToRel
<1>3. ASSUME NEW y \in S PROVE x <= y
  <2>1. x \in Nat /\ y \in Nat /\ ~(y < x)
    BY <1>2
  <2> QED BY <2>1
<1> QED BY <1>3

\* Induction, for the set of the numbers that have a property.
LEMMA SetInduction ==
  ASSUME NEW S, 0 \in S, \A n \in S \cap Nat : n + 1 \in S
  PROVE  Nat \subseteq S
<1> SUFFICES ASSUME Nat \ S # {} PROVE FALSE
  OBVIOUS
<1>1. PICK x \in Nat \ S : \A y \in Nat \ S : x <= y
  BY LeastElement
<1>2. x - 1 \in S /\ x - 1 \in Nat
  BY <1>1
<1> QED BY <1>1, <1>2

\* Each heap that is not empty has a root.
LEMMA HeapHasRoot ==
  ASSUME StoreInv, NEW heap \in SUBSET (1..Len(events)), heap # {}
  PROVE  \E k \in heap : \A h \in heap \ {k} : Older(k, h)
<1>1. \A i \in 1..Len(events) : events[i].ts \in Nat /\ events[i].seq \in Nat
  BY ArrayFacts
<1>2. \A i, j \in 1..Len(events) : events[i].seq = events[j].seq => i = j
  BY ArrayFacts
<1> DEFINE T == {events[i].ts : i \in heap}
<1>3. PICK t \in T : \A u \in T : t <= u
  <2>1. T \in SUBSET Nat /\ T # {}
    BY <1>1
  <2> QED BY <2>1, LeastElement
<1> DEFINE Q == {events[i].seq : i \in {j \in heap : events[j].ts = t}}
<1>4. PICK q \in Q : \A u \in Q : q <= u
  <2>1. Q \in SUBSET Nat /\ Q # {}
    BY <1>1, <1>3
  <2> QED BY <2>1, LeastElement
<1>5. PICK k \in heap : events[k].ts = t /\ events[k].seq = q
  BY <1>4
<1>6. ASSUME NEW h \in heap \ {k} PROVE Older(k, h)
  <2>1. events[h].ts \in T /\ t <= events[h].ts
    BY <1>3
  <2>2. CASE events[h].ts = t
    <3>1. q <= events[h].seq
      BY <1>4, <2>2
    <3>2. events[h].seq # q
      BY <1>2, <1>5, <1>6
    <3> QED BY <1>1, <1>5, <2>2, <3>1, <3>2 DEF Older
  <2>3. CASE events[h].ts # t
    BY <1>1, <1>5, <2>1, <2>3 DEF Older
  <2> QED BY <2>2, <2>3
<1> QED BY <1>6

\* heap holds the newest of the first n events, as many as the limit allows.
HoldsNewest(heap, n) ==
  /\ heap \in SUBSET (1..n)
  /\ IsFiniteSet(heap)
  /\ Cardinality(heap) = IF n < StreamLimit THEN n ELSE StreamLimit
  /\ \A i \in (1..n) \ heap : \A k \in heap : Older(i, k)

\* What offer does to the heap's root keeps the newest in it.
LEMMA OfferKeepsNewest ==
  ASSUME StoreInv, NEW n \in 1..Len(events), NEW heap, HoldsNewest(heap, n - 1)
  PROVE  HoldsNewest(Offer(heap, n), n)
<1>1. /\ Len(events) \in Nat /\ n \in Nat /\ n - 1 \in Nat
      /\ heap \in SUBSET (1..(n - 1)) /\ n \notin heap
      /\ IsFiniteSet(heap) /\ Cardinality(heap) \in Nat
      /\ Cardinality(heap) = IF n - 1 < StreamLimit THEN n - 1 ELSE StreamLimit
      /\ heap \in SUBSET (1..Len(events))
      /\ StreamLimit \in Nat \ {0}
  BY ArrayFacts, FS_CardinalityType, StoreAssumption DEF HoldsNewest
<1>2. \A i \in (1..(n - 1)) \ heap : \A k \in heap : Older(i, k)
  BY DEF HoldsNewest
<1>3. CASE Cardinality(heap) < StreamLimit
  <2>1. Offer(heap, n) = heap \cup {n}
    BY <1>3 DEF Offer
  <2>2. heap = 1..(n - 1)
    <3>1. IsFiniteSet(1..(n - 1)) /\ Cardinality(1..(n - 1)) = n - 1
      BY <1>1, FS_Interval
    <3>2. Cardinality(heap) = n - 1
      BY <1>1, <1>3
    <3> QED BY <1>1, <3>1, <3>2, FS_Subset
  <2>3. IsFiniteSet(heap \cup {n}) /\ Cardinality(heap \cup {n}) = n
    <3>1. Cardinality(heap) = n - 1
      BY <1>1, <1>3
    <3> QED BY <1>1, <3>1, FS_AddElement
  <2>4. heap \cup {n} = 1..n
    BY <1>1, <2>2
  <2>5. n <= StreamLimit
    BY <1>1, <1>3
  <2> QED BY <1>1, <2>1, <2>3, <2>4, <2>5 DEF HoldsNewest
<1>4. CASE ~(Cardinality(heap) < StreamLimit)
  <2>0. Cardinality(heap) = StreamLimit /\ ~(n < StreamLimit)
    BY <1>1, <1>4
  <2> DEFINE root == CHOOSE k \in heap : \A h \in heap \ {k} : Older(k, h)
  <2>1. root \in heap /\ \A h \in heap \ {root} : Older(root, h)
    <3>1. heap # {}
      BY <1>1, <2>0, FS_EmptySet
    <3> QED BY <1>1, <3>1, HeapHasRoot
  <2>2. Offer(heap, n) = IF Older(root, n) THEN (heap \ {root}) \cup {n} ELSE heap
    BY <1>4 DEF Offer
  <2> HIDE DEF root
  <2>3. /\ \A i, j \in 1..Len(events) : i # j => Older(i, j) \/ Older(j, i)
        /\ \A i, j, k \in 1..Len(events) : Older(i, j) /\ Older(j, k) => Older(i, k)
    BY OlderIsOrder
  <2>4. CASE Older(root, n)
    <3>1. /\ IsFiniteSet((heap \ {root}) \cup {n})
          /\ Cardinality((heap \ {root}) \cup {n}) = StreamLimit
      <4>1. IsFiniteSet(heap \ {root}) /\ Cardinality(heap \ {root}) = StreamLimit - 1
        BY <1>1, <2>0, <2>1, FS_RemoveElement
      <4>2. n \notin heap \ {root} /\ (StreamLimit - 1) + 1 = StreamLimit
        BY <1>1
      <4> DEFINE rest == heap \ {root}
      <4>3. IsFiniteSet(rest) /\ Cardinality(rest) = StreamLimit - 1 /\ n \notin rest
        BY <4>1, <4>2
      <4> HIDE DEF rest
      <4>4. IsFiniteSet(rest \cup {n}) /\ Cardinality(rest \cup {n}) = Cardinality(rest) + 1
        BY <4>3, FS_AddElement
      <4> QED BY <4>2, <4>3, <4>4 DEF rest
    <3>2. ASSUME NEW i \in (1..n) \ ((heap \ {root}) \cup {n}), NEW k \in (heap \ {root}) \cup {n}
          PROVE  Older(i, k)
      <4>1. i \in 1..(n - 1) /\ i \in 1..Len(events) /\ (i = root \/ i \notin heap)
        BY <1>1, <3>2
      <4>2. i = root \/ Older(i, root)
        BY <1>2, <2>1, <4>1
      <4>3. Older(root, k)
        BY <2>1, <2>4
      <4> QED BY <1>1, <2>1, <2>3, <4>1, <4>2, <4>3
    <3>3. (heap \ {root}) \cup {n} \in SUBSET (1..n)
      <4>1. n \in 1..n /\ 1..(n - 1) \subseteq 1..n
        BY <1>1
      <4> QED BY <1>1, <4>1
    <3> QED BY <2>0, <2>2, <2>4, <3>1, <3>2, <3>3 DEF HoldsNewest
  <2>5. CASE ~Older(root, n)
    <3>1. Older(n, root)
      BY <1>1, <2>1, <2>3, <2>5
    <3>2. ASSUME NEW i \in (1..n) \ heap, NEW k \in heap
          PROVE  Older(i, k)
      <4>1. CASE i = n
        <5>1. k = root \/ Older(root, k)
          BY <2>1
        <5> QED BY <1>1, <2>1, <2>3, <3>1, <4>1, <5>1
      <4>2. CASE i # n
        <5>1. i \in (1..(n - 1)) \ heap
          BY <1>1, <4>2
        <5> QED BY <1>2, <5>1
      <4> QED BY <4>1, <4>2
    <3>3. heap \in SUBSET (1..n)
      BY <1>1
    <3> QED BY <1>1, <2>0, <2>2, <2>5, <3>2, <3>3 DEF HoldsNewest
  <2> QED BY <2>4, <2>5
<1> QED BY <1>3, <1>4

\* f lists the heaps after 0, 1, ..., n offers.
IsOffered(f, n) == f = [m \in 0..n |-> IF m = 0 THEN {} ELSE Offer(f[m - 1], m)]

\* The recursion of NewestHeap defines a function: there is one for no
\* offers, and one for n offers can be extended by the next.
LEMMA OfferedExists ==
  ASSUME NEW n \in Nat
  PROVE  \E f : IsOffered(f, n)
<1> DEFINE S == {m \in Nat : \E f : IsOffered(f, m)}
<1>1. 0 \in S
  <2>1. IsOffered([m \in 0..0 |-> {}], 0)
    BY DEF IsOffered
  <2> QED BY <2>1
<1>2. ASSUME NEW m \in S PROVE m + 1 \in S
  <2>1. m \in Nat
    OBVIOUS
  <2>2. PICK f : f = [k \in 0..m |-> IF k = 0 THEN {} ELSE Offer(f[k - 1], k)]
    BY DEF IsOffered
  <2> DEFINE g == [k \in 0..(m + 1) |-> IF k = m + 1 THEN Offer(f[m], m + 1) ELSE f[k]]
  <2>3. ASSUME NEW k \in 0..(m + 1) PROVE g[k] = IF k = 0 THEN {} ELSE Offer(g[k - 1], k)
    <3>1. CASE k = m + 1
      <4>1. g[k] = Offer(f[m], k) /\ g[m] = f[m] /\ k - 1 = m /\ k # 0
        BY <2>1, <3>1
      <4> QED BY <4>1
    <3>2. CASE k # m + 1 /\ k # 0
      <4>1. k - 1 \in 0..m /\ k - 1 \in 0..(m + 1) /\ k - 1 # m + 1 /\ k \in 0..m
        BY <2>1, <3>2
      <4>2. g[k] = f[k] /\ g[k - 1] = f[k - 1]
        BY <3>2, <4>1
      <4>3. f[k] = Offer(f[k - 1], k)
        BY <2>2, <3>2, <4>1
      <4> QED BY <3>2, <4>2, <4>3
    <3>3. CASE k = 0
      <4>1. 0 \in 0..m /\ 0 # m + 1
        BY <2>1
      <4>2. g[0] = f[0] /\ f[0] = {}
        BY <2>1, <2>2, <4>1
      <4> QED BY <3>3, <4>2
    <3> QED BY <3>1, <3>2, <3>3
  <2>4. g = [k \in 0..(m + 1) |-> g[k]]
    OBVIOUS
  <2> HIDE DEF g
  <2>5. IsOffered(g, m + 1)
    BY <2>3, <2>4 DEF IsOffered
  <2> QED BY <2>1, <2>5
<1>3. n \in S
  <2> HIDE DEF S
  <2> QED BY <1>1, <1>2, SetInduction
<1> QED BY <1>3

\* The heap that stream reads holds the newest of all events.
LEMMA NewestHeapHoldsNewest ==
  ASSUME StoreInv
  PROVE  HoldsNewest(NewestHeap, Len(events))
<1>1. Len(events) \in Nat
  BY ArrayFacts
<1> DEFINE offered == CHOOSE f : IsOffered(f, Len(events))
<1>2. IsOffered(offered, Len(events))
  BY <1>1, OfferedExists
<1>3. NewestHeap = offered[Len(events)]
  BY DEF NewestHeap, IsOffered
<1> HIDE DEF offered
<1>4. /\ offered[0] = {}
      /\ \A m \in 1..Len(events) : offered[m] = Offer(offered[m - 1], m)
  <2>1. \A m \in 0..Len(events) : offered[m] = IF m = 0 THEN {} ELSE Offer(offered[m - 1], m)
    BY <1>2, Zenon DEF IsOffered
  <2>2. 0 \in 0..Len(events) /\ \A m \in 1..Len(events) : m \in 0..Len(events) /\ m # 0
    BY <1>1
  <2> QED BY <2>1, <2>2
<1> DEFINE S == {m \in Nat : m <= Len(events) => HoldsNewest(offered[m], m)}
<1>5. 0 \in S
  <2>1. 0 < StreamLimit /\ StreamLimit \in Nat
    BY StoreAssumption
  <2>2. IsFiniteSet({}) /\ Cardinality({}) = 0
    BY FS_EmptySet
  <2>3. HoldsNewest({}, 0)
    BY <2>1, <2>2 DEF HoldsNewest
  <2> QED BY <1>4, <2>3
<1>6. ASSUME NEW m \in S PROVE m + 1 \in S
  <2>1. CASE m + 1 <= Len(events)
    <3>1. m \in Nat /\ m + 1 \in 1..Len(events) /\ (m + 1) - 1 = m
      BY <1>1, <2>1
    <3>2. HoldsNewest(offered[m], (m + 1) - 1) /\ offered[m + 1] = Offer(offered[m], m + 1)
      BY <1>1, <1>4, <3>1
    <3> QED BY <3>1, <3>2, OfferKeepsNewest
  <2>2. CASE ~(m + 1 <= Len(events))
    BY <2>2
  <2> QED BY <2>1, <2>2
<1>7. Len(events) \in S
  <2> HIDE DEF S
  <2> QED BY <1>1, <1>5, <1>6, SetInduction
<1> QED BY <1>1, <1>3, <1>7

------------------------------------------------------------------------------
(***************************************************************************)
(* What the readers preserve.                                              *)
(***************************************************************************)

\* What stands between a reader and the store: the cursor is a bound between
\* what was handed over and what was not, and it is set only by a call that
\* saw the backfill over.
ReaderInv ==
  \A r \in Readers :
    /\ cursor[r] <= nextSeq
    /\ cursor[r] = 0 => delivered[r] = <<>>
    /\ \A n \in DOMAIN delivered[r] : delivered[r][n].seq < cursor[r]
    /\ \A m, n \in DOMAIN delivered[r] : delivered[r][m].seq = delivered[r][n].seq => m = n
    /\ ready[r] => ~loading

StreamInv == StoreInv /\ TypeOK /\ ReaderInv

LEMMA IndicesFinite ==
  ASSUME NEW n \in Nat
  PROVE  IsFiniteSet(1..n) /\ Cardinality(1..n) = n
<1>1. IsFiniteSet(1..n) /\ Cardinality(1..n) = IF 1 > n THEN 0 ELSE n - 1 + 1
  BY FS_Interval
<1> QED BY <1>1

\* A list without repetitions of as many elements as the set has leaves none out.
LEMMA ListingCovers ==
  ASSUME NEW S, IsFiniteSet(S), NEW p \in [1..Cardinality(S) -> S],
         \A i, j \in 1..Cardinality(S) : p[i] = p[j] => i = j
  PROVE  \A x \in S : \E i \in 1..Cardinality(S) : p[i] = x
<1> DEFINE c == Cardinality(S)
<1>1. c \in Nat
  BY FS_CardinalityType
<1>2. p \in Injection(1..c, S)
  BY Zenon DEF Injection, IsInjective
<1>3. Cardinality(1..c) = c
  BY <1>1, FS_Interval
<1> HIDE DEF c
<1>4. p \in Surjection(1..c, S)
  BY <1>2, <1>3, FS_Injection DEF c
<1> QED BY <1>4 DEF Surjection, c

\* What stream hands out is typed: an id comes from the side table or is the
\* position of the event.
LEMMA LogEventType ==
  ASSUME StoreInv, NEW i \in 1..Len(events)
  PROVE  ToLogEvent(i) \in LogEvent /\ ToLogEvent(i).seq = events[i].seq
<1>1. events[i].seq \in 1..MaxSeq /\ events[i].file \in Files
  <2>1. events[i] \in Event
    BY ArrayFacts
  <2> QED BY <2>1 DEF Event
<1>2. i <= Len(ids) => ids[i] \in Id
  <2>1. ids \in Seq(Id) /\ Len(events) \in Nat
    BY ArrayFacts DEF StoreInv, StoreTypeOK
  <2>2. i <= Len(ids) => i \in 1..Len(ids)
    BY <2>1, LenProperties
  <2> QED BY <2>1, <2>2, ElementOfSeq
<1>3. EventID(i) \in Files \X (Id \cup 1..MaxSeq)
  <2>1. (IF i <= Len(ids) /\ ids[i] # NoId THEN ids[i] ELSE events[i].seq) \in Id \cup 1..MaxSeq
    BY <1>1, <1>2
  <2> QED BY <1>1, <2>1 DEF EventID
<1> QED BY <1>1, <1>3 DEF ToLogEvent, LogEvent

\* A call returned the events at m indices to r, behind what r had.
Appended(r, m, indices) ==
  /\ delivered[r] \in Seq(LogEvent)
  /\ delivered'[r] \in Seq(LogEvent)
  /\ Len(delivered'[r]) = Len(delivered[r]) + m
  /\ \A n \in 1..Len(delivered'[r]) :
       \/ n \in 1..Len(delivered[r]) /\ delivered'[r][n] = delivered[r][n]
       \/ /\ n > Len(delivered[r])
          /\ n - Len(delivered[r]) \in 1..m
          /\ delivered'[r][n].seq = events[indices[n - Len(delivered[r])]].seq
  /\ \A q \in Readers \ {r} : delivered'[q] = delivered[q] /\ cursor'[q] = cursor[q]

\* What a call appends to a reader's history.
LEMMA ReturnAppends ==
  ASSUME StreamInv, NEW r \in Readers, NEW m \in Nat, NEW indices \in [1..m -> 1..Len(events)],
         NEW next, Return(r, indices, next)
  PROVE  Appended(r, m, indices) /\ cursor'[r] = next
<1> DEFINE new == [j \in 1..m |-> ToLogEvent(indices[j])]
<1>1. /\ delivered \in [Readers -> Seq(LogEvent)]
      /\ delivered[r] \in Seq(LogEvent)
      /\ cursor \in [Readers -> 0..(MaxSeq + 1)]
  BY DEF StreamInv, TypeOK
<1>2. \A j \in 1..m : ToLogEvent(indices[j]) \in LogEvent
                      /\ ToLogEvent(indices[j]).seq = events[indices[j]].seq
  BY LogEventType DEF StreamInv
<1>3. new \in Seq(LogEvent) /\ Len(new) = m
  <2>1. new \in [1..m -> LogEvent]
    BY <1>2
  <2> QED BY <2>1, SeqDef
<1>4. \A j \in 1..m : new[j].seq = events[indices[j]].seq
  BY <1>2
<1>5. delivered' = [delivered EXCEPT ![r] = @ \o new] /\ cursor' = [cursor EXCEPT ![r] = next]
  BY DEF Return
<1> HIDE DEF new
<1>6. delivered'[r] = delivered[r] \o new
  BY <1>1, <1>5
<1>7. /\ delivered'[r] \in Seq(LogEvent)
      /\ Len(delivered'[r]) = Len(delivered[r]) + Len(new)
      /\ \A n \in 1..Len(delivered'[r]) :
           \/ n \in 1..Len(delivered[r]) /\ delivered'[r][n] = delivered[r][n]
           \/ /\ n > Len(delivered[r])
              /\ n - Len(delivered[r]) \in 1..Len(new)
              /\ delivered'[r][n] = new[n - Len(delivered[r])]
  <2> DEFINE old == delivered[r]
             all == delivered'[r]
  <2>1. old \in Seq(LogEvent) /\ new \in Seq(LogEvent) /\ all = old \o new
    BY <1>1, <1>3, <1>6
  <2> HIDE DEF old, all
  <2>2. /\ all \in Seq(LogEvent)
        /\ Len(all) = Len(old) + Len(new)
        /\ \A n \in 1..Len(all) :
             \/ n \in 1..Len(old) /\ all[n] = old[n]
             \/ /\ n > Len(old)
                /\ n - Len(old) \in 1..Len(new)
                /\ all[n] = new[n - Len(old)]
    BY <2>1, ConcatElements
  <2> QED BY <2>2 DEF old, all
<1> QED BY <1>1, <1>3, <1>4, <1>5, <1>7 DEF Appended

\* A call that returns events from the cursor on, none twice, and moves the
\* cursor past all of them keeps the reader's part of the invariant.
LEMMA ReturnPreserves ==
  ASSUME StreamInv, NEW r \in Readers, NEW m \in Nat, NEW indices \in [1..m -> 1..Len(events)],
         NEW next \in Nat, Return(r, indices, next),
         cursor[r] <= next, next <= nextSeq,
         \A j \in 1..m : cursor[r] <= events[indices[j]].seq /\ events[indices[j]].seq < next,
         \A i, j \in 1..m : indices[i] = indices[j] => i = j
  PROVE  StreamInv'
<1>1. /\ delivered[r] \in Seq(LogEvent)
      /\ delivered'[r] \in Seq(LogEvent)
      /\ Len(delivered'[r]) = Len(delivered[r]) + m
      /\ \A n \in 1..Len(delivered'[r]) :
           \/ n \in 1..Len(delivered[r]) /\ delivered'[r][n] = delivered[r][n]
           \/ /\ n > Len(delivered[r])
              /\ n - Len(delivered[r]) \in 1..m
              /\ delivered'[r][n].seq = events[indices[n - Len(delivered[r])]].seq
      /\ \A q \in Readers \ {r} : delivered'[q] = delivered[q] /\ cursor'[q] = cursor[q]
      /\ cursor'[r] = next
  <2>1. Appended(r, m, indices) /\ cursor'[r] = next
    BY ReturnAppends
  <2> QED BY <2>1 DEF Appended
<1>2. UNCHANGED <<events, ids, hasIds, nextSeq, loading, ready>>
  BY DEF Return, storeVars
<1>3. StoreInv'
  BY <1>2 DEF StreamInv, StoreInv, StoreTypeOK, SequenceOrder, SideTableParallel
<1>4. TypeOK'
  <2>1. nextSeq \in 1..(MaxSeq + 1) /\ next \in 0..(MaxSeq + 1)
    BY StoreAssumption DEF StreamInv, StoreInv, StoreTypeOK
  <2>2. cursor' \in [Readers -> 0..(MaxSeq + 1)]
    BY <2>1 DEF Return, StreamInv, TypeOK
  <2>3. sampled' \in [Readers -> BOOLEAN]
    BY DEF Return, StreamInv, TypeOK
  <2>4. delivered' \in [Readers -> Seq(LogEvent)]
    BY <1>1 DEF Return, StreamInv, TypeOK
  <2>5. StoreTypeOK'
    BY <1>3 DEF StoreInv
  <2> QED BY <1>2, <2>2, <2>3, <2>4, <2>5 DEF StreamInv, TypeOK
<1>5. ReaderInv'
  <2> SUFFICES ASSUME NEW q \in Readers
               PROVE  /\ cursor'[q] <= nextSeq
                      /\ cursor'[q] = 0 => delivered'[q] = <<>>
                      /\ \A n \in DOMAIN delivered'[q] : delivered'[q][n].seq < cursor'[q]
                      /\ \A i, n \in DOMAIN delivered'[q] :
                           delivered'[q][i].seq = delivered'[q][n].seq => i = n
                      /\ ready[q] => ~loading
    BY <1>2 DEF ReaderInv
  <2>0. /\ cursor[q] <= nextSeq
        /\ cursor[q] = 0 => delivered[q] = <<>>
        /\ \A n \in DOMAIN delivered[q] : delivered[q][n].seq < cursor[q]
        /\ \A i, n \in DOMAIN delivered[q] : delivered[q][i].seq = delivered[q][n].seq => i = n
        /\ ready[q] => ~loading
    BY DEF StreamInv, ReaderInv
  <2>1. CASE q # r
    BY <1>1, <2>0, <2>1
  <2>2. CASE q = r
    <3> DEFINE d == Len(delivered[r])
    <3>1. /\ DOMAIN delivered[r] = 1..d /\ d \in Nat
          /\ DOMAIN delivered'[r] = 1..Len(delivered'[r])
      BY <1>1, LenProperties
    <3>2. \A n \in 1..d : delivered[r][n].seq \in Nat /\ delivered[r][n].seq < cursor[r]
      <4>1. \A n \in 1..d : delivered[r][n] \in LogEvent
        BY <1>1, ElementOfSeq
      <4>2. \A e \in LogEvent : e.seq \in 1..MaxSeq
        BY DEF LogEvent
      <4>3. 1..MaxSeq \subseteq Nat
        BY StoreAssumption
      <4> QED BY <2>0, <2>2, <3>1, <4>1, <4>2, <4>3
    <3>3. cursor[r] \in Nat
      BY StoreAssumption DEF StreamInv, TypeOK
    <3>4. \A j \in 1..m : events[indices[j]].seq \in Nat
      BY ArrayFacts DEF StreamInv
    <3> HIDE DEF d
    <3>5. ASSUME next = 0 PROVE delivered'[r] = <<>>
      <4>1. cursor[r] = 0 /\ delivered[r] = <<>>
        BY <2>0, <2>2, <3>3, <3>5
      <4>2. m = 0
        <5>1. 1 \in 1..m => FALSE
          BY <3>3, <3>4, <3>5
        <5> QED BY <5>1
      <4>3. Len(delivered'[r]) = 0
        BY <1>1, <4>1, <4>2, EmptySeq
      <4> QED BY <1>1, <4>3, EmptySeq
    <3>6. \A n \in 1..Len(delivered'[r]) : delivered'[r][n].seq < next
      <4> SUFFICES ASSUME NEW n \in 1..Len(delivered'[r]) PROVE delivered'[r][n].seq < next
        OBVIOUS
      <4>1. CASE n \in 1..d /\ delivered'[r][n] = delivered[r][n]
        BY <3>2, <3>3, <4>1
      <4>2. CASE /\ n - d \in 1..m
                 /\ delivered'[r][n].seq = events[indices[n - d]].seq
        BY <4>2
      <4> QED BY <1>1, <4>1, <4>2 DEF d
    <3>7. ASSUME NEW i \in 1..Len(delivered'[r]), NEW n \in 1..Len(delivered'[r]),
                 delivered'[r][i].seq = delivered'[r][n].seq
          PROVE  i = n
      <4>1. \A k \in 1..Len(delivered'[r]) :
               \/ k \in 1..d /\ delivered'[r][k] = delivered[r][k]
               \/ k > d /\ k - d \in 1..m /\ delivered'[r][k].seq = events[indices[k - d]].seq
        BY <1>1 DEF d
      <4>2. \A k \in 1..d : \A j \in 1..m : delivered[r][k].seq < events[indices[j]].seq
        BY <3>2, <3>3, <3>4
      <4>3. CASE i \in 1..d /\ n \in 1..d
        <5>1. ~(i > d) /\ ~(n > d)
          BY <3>1, <4>3
        <5>2. delivered'[r][i] = delivered[r][i] /\ delivered'[r][n] = delivered[r][n]
          BY <4>1, <5>1
        <5>3. delivered[r][i].seq = delivered[r][n].seq
          BY <3>7, <5>2
        <5> QED BY <2>0, <2>2, <3>1, <4>3, <5>3
      <4>4. CASE i \notin 1..d /\ n \notin 1..d
        <5>1. /\ i - d \in 1..m /\ n - d \in 1..m
              /\ events[indices[i - d]].seq = events[indices[n - d]].seq
          BY <3>7, <4>1, <4>4
        <5>2. indices[i - d] \in 1..Len(events) /\ indices[n - d] \in 1..Len(events)
          BY <5>1
        <5>3. indices[i - d] = indices[n - d]
          BY <5>1, <5>2, ArrayFacts DEF StreamInv
        <5>4. i - d = n - d
          BY <5>1, <5>3
        <5> QED BY <3>1, <5>4 DEF d
      <4>5. CASE i \in 1..d /\ n \notin 1..d
        <5>1. n - d \in 1..m /\ delivered'[r][i] = delivered[r][i]
              /\ delivered'[r][n].seq = events[indices[n - d]].seq
          <6>1. i \in 1..Len(delivered'[r]) /\ n \in 1..Len(delivered'[r]) /\ ~(i > d)
            BY <3>1, <4>5
          <6> QED BY <4>1, <4>5, <6>1
        <5> QED BY <3>2, <3>4, <3>7, <4>2, <4>5, <5>1
      <4>6. CASE i \notin 1..d /\ n \in 1..d
        <5>1. i - d \in 1..m /\ delivered'[r][n] = delivered[r][n]
              /\ delivered'[r][i].seq = events[indices[i - d]].seq
          <6>1. i \in 1..Len(delivered'[r]) /\ n \in 1..Len(delivered'[r]) /\ ~(n > d)
            BY <3>1, <4>6
          <6> QED BY <4>1, <4>6, <6>1
        <5> QED BY <3>2, <3>4, <3>7, <4>2, <4>6, <5>1
      <4> QED BY <4>3, <4>4, <4>5, <4>6
    <3> QED BY <1>1, <2>0, <2>2, <3>1, <3>5, <3>6, <3>7
  <2> QED BY <2>1, <2>2
<1> QED BY <1>3, <1>4, <1>5 DEF StreamInv

\* The batch of a later call, the indices it returns, and the next cursor.
BatchSize(start) ==
  IF start + StreamLimit - 1 <= Len(events) THEN StreamLimit ELSE Len(events) - start + 1

BatchIndices(start) == [j \in 1..BatchSize(start) |-> start + j - 1]

NextCursor(start) ==
  IF start + BatchSize(start) <= Len(events) THEN events[start + BatchSize(start)].seq ELSE nextSeq

\* A later call returns exactly the events between the cursor and the next one.
LEMMA NextBatch ==
  ASSUME StreamInv, NEW r \in Readers, NEW start \in SearchResults(cursor[r])
  PROVE  /\ start \in 1..(Len(events) + 1)
         /\ BatchSize(start) \in Nat /\ BatchSize(start) <= StreamLimit
         /\ start + BatchSize(start) <= Len(events) + 1
         /\ BatchSize(start) = StreamLimit \/ start + BatchSize(start) = Len(events) + 1
         /\ BatchIndices(start) \in [1..BatchSize(start) -> 1..Len(events)]
         /\ \A i, j \in 1..BatchSize(start) : BatchIndices(start)[i] = BatchIndices(start)[j] => i = j
         /\ \A j \in 1..BatchSize(start) :
              /\ cursor[r] <= events[BatchIndices(start)[j]].seq
              /\ events[BatchIndices(start)[j]].seq < NextCursor(start)
         /\ \A i \in start..Len(events) :
              i >= start + BatchSize(start) => NextCursor(start) <= events[i].seq
         /\ NextCursor(start) \in Nat /\ cursor[r] <= NextCursor(start) /\ NextCursor(start) <= nextSeq
<1> DEFINE size == BatchSize(start)
           next == NextCursor(start)
<1>1. /\ Len(events) \in Nat
      /\ \A i \in 1..Len(events) : events[i].seq \in Nat /\ events[i].seq < nextSeq
      /\ \A i, j \in 1..Len(events) : i < j => events[i].seq < events[j].seq
      /\ DOMAIN events = 1..Len(events)
  BY ArrayFacts DEF StreamInv
<1>2. /\ start \in 1..(Len(events) + 1)
      /\ \A i \in 1..Len(events) : (i >= start) <=> (events[i].seq >= cursor[r])
  BY <1>1 DEF SearchResults
<1>3. nextSeq \in Nat /\ cursor[r] \in Nat /\ cursor[r] <= nextSeq /\ StreamLimit \in Nat \ {0}
  BY StoreAssumption DEF StreamInv, StoreInv, StoreTypeOK, TypeOK, ReaderInv
<1>4. /\ size \in Nat /\ size <= StreamLimit /\ start + size <= Len(events) + 1
      /\ size = StreamLimit \/ start + size = Len(events) + 1
  BY <1>1, <1>2, <1>3 DEF BatchSize
<1>5. next = IF start + size <= Len(events) THEN events[start + size].seq ELSE nextSeq
  BY DEF NextCursor
<1>6. BatchIndices(start) = [j \in 1..size |-> start + j - 1]
  BY DEF BatchIndices
<1> HIDE DEF size, next
<1>7. \A j \in 1..size : start + j - 1 \in start..Len(events) /\ start + j - 1 < start + size
  BY <1>1, <1>2, <1>4
<1>8. start..Len(events) \subseteq 1..Len(events)
  BY <1>1, <1>2
<1>9. next \in Nat /\ cursor[r] <= next /\ next <= nextSeq
  <2>1. CASE start + size <= Len(events)
    <3>1. start + size \in 1..Len(events) /\ start + size >= start
      BY <1>1, <1>2, <1>4, <2>1
    <3>2. next = events[start + size].seq
      BY <1>5, <2>1
    <3> QED BY <1>1, <1>2, <1>3, <3>1, <3>2
  <2>2. CASE ~(start + size <= Len(events))
    BY <1>3, <1>5, <2>2
  <2> QED BY <2>1, <2>2
<1>10. ASSUME NEW i \in start..Len(events), i < start + size
       PROVE  cursor[r] <= events[i].seq /\ events[i].seq < next
  <2>1. i \in 1..Len(events) /\ i >= start
    BY <1>1, <1>2
  <2>2. cursor[r] <= events[i].seq
    BY <1>1, <1>2, <1>3, <2>1
  <2>3. CASE start + size <= Len(events)
    <3>1. start + size \in 1..Len(events) /\ i < start + size
      BY <1>1, <1>2, <1>4, <1>10, <2>3
    <3> QED BY <1>1, <1>5, <2>1, <2>2, <2>3, <3>1
  <2>4. CASE ~(start + size <= Len(events))
    BY <1>1, <1>5, <2>1, <2>2, <2>4
  <2> QED BY <2>3, <2>4
<1>11. ASSUME NEW i \in start..Len(events), i >= start + size
       PROVE  next <= events[i].seq
  <2>1. /\ i \in 1..Len(events) /\ start + size \in 1..Len(events)
        /\ i = start + size \/ start + size < i
    BY <1>1, <1>2, <1>4, <1>11
  <2>2. next = events[start + size].seq
    BY <1>5, <2>1
  <2> QED BY <1>1, <2>1, <2>2
<1>12. /\ BatchIndices(start) \in [1..size -> 1..Len(events)]
       /\ \A j \in 1..size : BatchIndices(start)[j] = start + j - 1
  BY <1>6, <1>7, <1>8
<1>13. \A i, j \in 1..size : BatchIndices(start)[i] = BatchIndices(start)[j] => i = j
  <2> SUFFICES ASSUME NEW i \in 1..size, NEW j \in 1..size,
                      BatchIndices(start)[i] = BatchIndices(start)[j]
               PROVE  i = j
    OBVIOUS
  <2>1. start + i - 1 = start + j - 1
    BY <1>12
  <2> QED BY <1>2, <1>4, <2>1
<1>14. \A j \in 1..size : /\ cursor[r] <= events[BatchIndices(start)[j]].seq
                          /\ events[BatchIndices(start)[j]].seq < next
  BY <1>7, <1>10, <1>12
<1> QED BY <1>2, <1>4, <1>9, <1>11, <1>12, <1>13, <1>14 DEF size, next

\* The first batch lists the heap, every element of it once.
LEMMA FirstBatch ==
  ASSUME StreamInv, NEW out \in Listings(NewestHeap, Older)
  PROVE  /\ out \in [1..Cardinality(NewestHeap) -> NewestHeap]
         /\ Cardinality(NewestHeap) \in Nat
         /\ Cardinality(NewestHeap) = IF Len(events) < StreamLimit THEN Len(events) ELSE StreamLimit
         /\ NewestHeap \in SUBSET (1..Len(events))
         /\ \A i, j \in 1..Cardinality(NewestHeap) : i < j => Older(out[i], out[j])
         /\ \A i, j \in 1..Cardinality(NewestHeap) : out[i] = out[j] => i = j
         /\ \A k \in NewestHeap : \E i \in 1..Cardinality(NewestHeap) : out[i] = k
         /\ \A i \in (1..Len(events)) \ NewestHeap : \A k \in NewestHeap : Older(i, k)
<1> DEFINE c == Cardinality(NewestHeap)
<1>1. HoldsNewest(NewestHeap, Len(events))
  BY NewestHeapHoldsNewest DEF StreamInv
<1>2. /\ NewestHeap \in SUBSET (1..Len(events))
      /\ IsFiniteSet(NewestHeap)
      /\ c = IF Len(events) < StreamLimit THEN Len(events) ELSE StreamLimit
      /\ \A i \in (1..Len(events)) \ NewestHeap : \A k \in NewestHeap : Older(i, k)
  BY <1>1 DEF HoldsNewest
<1>3. c \in Nat
  BY <1>2, FS_CardinalityType
<1>4. /\ out \in [1..c -> NewestHeap]
      /\ \A i, j \in 1..c : i < j => Older(out[i], out[j])
  BY DEF Listings
<1>5. \A i \in 1..Len(events) : ~Older(i, i)
  BY OlderIsOrder DEF StreamInv
<1>6. ASSUME NEW i \in 1..c, NEW j \in 1..c, out[i] = out[j]
      PROVE  i = j
  <2>1. out[i] \in 1..Len(events) /\ out[j] \in 1..Len(events)
    BY <1>2, <1>4
  <2>2. ~(i < j) /\ ~(j < i)
    BY <1>4, <1>5, <1>6, <2>1
  <2> QED BY <1>3, <2>2
<1>7. \A k \in NewestHeap : \E i \in 1..c : out[i] = k
  BY <1>2, <1>4, <1>6, ListingCovers
<1> QED BY <1>2, <1>3, <1>4, <1>6, <1>7

\* The three ways a call can end keep the invariant.
LEMMA StreamPreserves ==
  ASSUME StreamInv, NEW r \in Readers, Stream(r)
  PROVE  StreamInv'
<1>1. nextSeq \in Nat /\ cursor[r] \in Nat /\ cursor[r] <= nextSeq
  BY StoreAssumption DEF StreamInv, StoreInv, StoreTypeOK, TypeOK, ReaderInv
<1>2. CASE StreamEarly(r)
  <2>1. cursor[r] = 0 /\ Return(r, <<>>, 0)
    BY <1>2 DEF StreamEarly
  <2>2. <<>> \in [1..0 -> 1..Len(events)] /\ 1..0 = {}
    OBVIOUS
  <2> DEFINE none == <<>>
             m == 0
             next == 0
  <2>3. /\ m \in Nat /\ none \in [1..m -> 1..Len(events)] /\ Return(r, none, next) /\ 1..m = {}
        /\ next \in Nat /\ cursor[r] <= next /\ next <= nextSeq
    BY <1>1, <2>1, <2>2
  <2> HIDE DEF none, m, next
  <2>4. /\ \A j \in 1..m : cursor[r] <= events[none[j]].seq /\ events[none[j]].seq < next
        /\ \A i, j \in 1..m : none[i] = none[j] => i = j
    BY <2>3
  <2> QED BY <2>3, <2>4, ReturnPreserves
<1>3. CASE StreamFirst(r)
  <2>1. PICK out \in Listings(NewestHeap, Older) : Return(r, out, nextSeq)
    BY <1>3 DEF StreamFirst
  <2> DEFINE m == Cardinality(NewestHeap)
  <2>2. /\ m \in Nat
        /\ out \in [1..m -> NewestHeap] /\ NewestHeap \in SUBSET (1..Len(events))
        /\ \A i, j \in 1..m : out[i] = out[j] => i = j
    BY FirstBatch
  <2>3. cursor[r] = 0
    BY <1>3 DEF StreamFirst
  <2> HIDE DEF m
  <2>4. out \in [1..m -> 1..Len(events)]
    BY <2>2
  <2>5. \A j \in 1..m : cursor[r] <= events[out[j]].seq /\ events[out[j]].seq < nextSeq
    BY <2>3, <2>4, ArrayFacts DEF StreamInv
  <2>6. nextSeq <= nextSeq
    BY <1>1
  <2> QED BY <1>1, <2>1, <2>2, <2>4, <2>5, <2>6, ReturnPreserves
<1>4. CASE StreamNext(r)
  <2>1. PICK start \in SearchResults(cursor[r]) :
          Return(r, BatchIndices(start), NextCursor(start))
    BY <1>4 DEF StreamNext, BatchIndices, NextCursor, BatchSize
  <2> DEFINE m == BatchSize(start)
             indices == BatchIndices(start)
             next == NextCursor(start)
  <2>2. /\ m \in Nat /\ indices \in [1..m -> 1..Len(events)]
        /\ \A i, j \in 1..m : indices[i] = indices[j] => i = j
        /\ \A j \in 1..m : cursor[r] <= events[indices[j]].seq /\ events[indices[j]].seq < next
        /\ next \in Nat /\ cursor[r] <= next /\ next <= nextSeq
    BY NextBatch
  <2>3. Return(r, indices, next)
    BY <2>1
  <2> HIDE DEF m, indices, next
  <2> QED BY <2>2, <2>3, ReturnPreserves
<1> QED BY <1>2, <1>3, <1>4 DEF Stream

\* What a writer leaves of the array: a suffix of the old events and the new
\* ones, which are numbered from the counter on.
LEMMA AppendedSuffix ==
  ASSUME StoreInv, NEW f \in Files, NEW batch \in Batches(f), AppendBatch(batch)
  PROVE  \E all \in Seq(Event) :
           /\ Len(batch) \in Nat \ {0}
           /\ nextSeq' = nextSeq + Len(batch)
           /\ Len(all) = Len(events) + Len(batch)
           /\ \A i \in 1..Len(all) :
                \/ i \in 1..Len(events) /\ all[i] = events[i]
                \/ /\ i > Len(events)
                   /\ all[i].seq = nextSeq + (i - Len(events)) - 1
           /\ Len(events') = Len(all) - Cut(Len(all))
           /\ \A i \in 1..Len(events') :
                i + Cut(Len(all)) \in 1..Len(all) /\ events'[i] = all[i + Cut(Len(all))]
<1> DEFINE new == Numbered(batch)
           all == events \o new
<1>1. events \in Seq(Event) /\ nextSeq \in 1..(MaxSeq + 1)
  BY DEF StoreInv, StoreTypeOK
<1>2. /\ Len(batch) \in Nat \ {0}
      /\ new \in Seq(Event)
      /\ Len(new) = Len(batch)
      /\ \A i \in 1..Len(batch) : new[i].seq = nextSeq + i - 1
  BY <1>1, NumberedBatch DEF AppendBatch
<1>3. events' = Newest(all) /\ nextSeq' = nextSeq + Len(batch) /\ all = events \o new
  BY DEF AppendBatch
<1> HIDE DEF new, all
<1>4. /\ all \in Seq(Event)
      /\ Len(all) = Len(events) + Len(new)
      /\ \A i \in 1..Len(all) :
           \/ i \in 1..Len(events) /\ all[i] = events[i]
           \/ /\ i > Len(events)
              /\ i - Len(events) \in 1..Len(new)
              /\ all[i] = new[i - Len(events)]
  <2>1. events \in Seq(Event) /\ new \in Seq(Event) /\ all = events \o new
    BY <1>1, <1>2, <1>3
  <2> QED BY <2>1, ConcatElements
<1>5. /\ Len(events') = Len(all) - Cut(Len(all))
      /\ \A i \in 1..Len(events') :
           i + Cut(Len(all)) \in 1..Len(all) /\ events'[i] = all[i + Cut(Len(all))]
  BY <1>3, <1>4, NewestIsSuffix
<1>6. \A i \in 1..Len(all) :
        \/ i \in 1..Len(events) /\ all[i] = events[i]
        \/ i > Len(events) /\ all[i].seq = nextSeq + (i - Len(events)) - 1
  BY <1>2, <1>4
<1> QED BY <1>2, <1>3, <1>4, <1>5, <1>6

\* The events that survive their file being dropped, in their order.
LEMMA DroppedKeeps ==
  ASSUME StoreInv, NEW f \in Files, DropFile(f)
  PROVE  /\ Len(events') \in Nat /\ Len(events') <= Len(events)
         /\ \A i \in 1..Len(events') : \E k \in 1..Len(events) : events'[i] = events[k]
<1> DEFINE K == {i \in DOMAIN events : events[i].file # f}
           n == Cardinality(K)
<1>1. /\ events \in [1..Len(events) -> Event]
      /\ Len(events) \in Nat
      /\ DOMAIN events = 1..Len(events)
  BY ArrayFacts
<1>2. n \in Nat /\ n <= Len(events)
  <2>1. IsFiniteSet(1..Len(events)) /\ Cardinality(1..Len(events)) = Len(events)
    BY <1>1, IndicesFinite
  <2>2. K \subseteq 1..Len(events)
    BY <1>1
  <2>3. IsFiniteSet(K) /\ n <= Len(events)
    BY <2>1, <2>2, FS_Subset
  <2> QED BY <2>3, FS_CardinalityType
<1>3. PICK kept \in [1..n -> K] : events' = [j \in 1..n |-> events[kept[j]]]
  BY DEF DropFile, Listings
<1>4. \A j \in 1..n : kept[j] \in 1..Len(events)
  BY <1>1, <1>3
<1> HIDE DEF n, K
<1>5. events' \in [1..n -> Event] /\ Len(events') = n
  BY <1>1, <1>2, <1>3, <1>4, SeqDef
<1> QED BY <1>2, <1>3, <1>4, <1>5

\* A writer never touches a reader's variables, never lowers the counter and
\* never brings the backfill back.
LEMMA WriterPreserves ==
  ASSUME StreamInv, Writer
  PROVE  StreamInv'
<1>1. StoreInv /\ StoreInv' /\ UNCHANGED readerVars
  <2>1. [Next]_vars
    BY DEF Next
  <2>2. UNCHANGED readerVars
    BY DEF Writer, AppendBatch, DropFile, FinishBackfill
  <2> QED BY <2>1, <2>2, NextPreserves DEF StreamInv
<1>2. /\ nextSeq \in Nat /\ nextSeq' \in Nat
      /\ \A r \in Readers : cursor[r] \in Nat
  BY <1>1, StoreAssumption DEF StreamInv, StoreInv, StoreTypeOK, TypeOK
<1>3. /\ Len(events') <= MaxEvents
      /\ nextSeq <= nextSeq'
      /\ loading' = loading \/ loading' = FALSE
  <2>1. ASSUME NEW f \in Files, NEW batch \in Batches(f), AppendBatch(batch)
        PROVE  Len(events') <= MaxEvents /\ nextSeq <= nextSeq' /\ loading' = loading
    <3>1. PICK all \in Seq(Event) :
            /\ Len(batch) \in Nat \ {0}
            /\ nextSeq' = nextSeq + Len(batch)
            /\ Len(events') = Len(all) - Cut(Len(all))
      BY <1>1, <2>1, AppendedSuffix
    <3>2. Len(events') <= MaxEvents
      BY <3>1, CutBounds, LenProperties
    <3>3. loading' = loading
      BY <2>1 DEF AppendBatch
    <3> QED BY <1>2, <3>1, <3>2, <3>3
  <2>2. ASSUME NEW f \in Files, DropFile(f)
        PROVE  Len(events') <= MaxEvents /\ nextSeq' = nextSeq /\ loading' = loading
    <3>1. Len(events') \in Nat /\ Len(events) \in Nat /\ Len(events') <= Len(events)
      BY <1>1, <2>2, DroppedKeeps, ArrayFacts
    <3>2. Len(events) <= MaxEvents /\ MaxEvents \in Nat
      BY StoreAssumption DEF StreamInv, TypeOK
    <3>3. nextSeq' = nextSeq /\ loading' = loading
      BY <2>2 DEF DropFile
    <3> QED BY <3>1, <3>2, <3>3
  <2>3. ASSUME FinishBackfill
        PROVE  Len(events') <= MaxEvents /\ nextSeq' = nextSeq /\ loading' = FALSE
    BY <2>3 DEF FinishBackfill, storeVars, StreamInv, TypeOK
  <2>4. nextSeq <= nextSeq
    BY <1>2
  <2>5. \/ \E f \in Files : \E batch \in Batches(f) : AppendBatch(batch)
        \/ \E f \in Files : DropFile(f)
        \/ FinishBackfill
    BY DEF Writer
  <2> QED BY <2>1, <2>2, <2>3, <2>4, <2>5
<1>4. Len(ids') <= MaxEvents
  <2>1. Len(<<>>) = 0 /\ MaxEvents \in Nat /\ hasIds' \in BOOLEAN
    BY <1>1, EmptySeq, StoreAssumption DEF StoreInv, StoreTypeOK
  <2>2. Len(ids') = Len(events') \/ ids' = <<>>
    BY <1>1, <2>1 DEF StoreInv, SideTableParallel
  <2> QED BY <1>3, <2>1, <2>2
<1>5. TypeOK'
  BY <1>1, <1>3, <1>4 DEF StreamInv, StoreInv, TypeOK, readerVars
<1>6. ReaderInv'
  <2> SUFFICES ASSUME NEW r \in Readers
               PROVE  /\ cursor[r] <= nextSeq'
                      /\ ready[r] => ~loading'
    BY <1>1 DEF StreamInv, ReaderInv, readerVars
  <2> QED BY <1>2, <1>3 DEF StreamInv, ReaderInv
<1> QED BY <1>1, <1>5, <1>6 DEF StreamInv

LEMMA SampleReadyPreserves ==
  ASSUME StreamInv, NEW r \in Readers, SampleReady(r)
  PROVE  StreamInv'
<1>1. UNCHANGED <<events, ids, hasIds, nextSeq, loading, cursor, delivered>>
  BY DEF SampleReady, storeVars
<1>2. StoreInv'
  BY <1>1 DEF StreamInv, StoreInv, StoreTypeOK, SequenceOrder, SideTableParallel
<1>3. /\ loading \in BOOLEAN
      /\ sampled \in [Readers -> BOOLEAN] /\ sampled' = [sampled EXCEPT ![r] = TRUE]
      /\ ready \in [Readers -> BOOLEAN] /\ ready' = [ready EXCEPT ![r] = ~loading]
  BY DEF SampleReady, StreamInv, TypeOK
<1>4. /\ sampled' \in [Readers -> BOOLEAN]
      /\ ready' \in [Readers -> BOOLEAN]
      /\ \A q \in Readers : ready'[q] = IF q = r THEN ~loading ELSE ready[q]
  BY <1>3
<1>5. TypeOK'
  BY <1>1, <1>2, <1>4 DEF StreamInv, StoreInv, TypeOK
<1>6. ReaderInv'
  BY <1>1, <1>4 DEF StreamInv, ReaderInv
<1> QED BY <1>2, <1>5, <1>6 DEF StreamInv

\* The invariant of the store and its readers together.
THEOREM StreamInvariant == Spec => []StreamInv
<1>1. Init => StreamInv
  <2> SUFFICES ASSUME Init PROVE StreamInv
    OBVIOUS
  <2>1. StoreInv
    BY InitStore
  <2>2. Len(events) = 0 /\ Len(ids) = 0 /\ <<>> \in Seq(LogEvent) /\ DOMAIN <<>> = {}
    BY EmptySeq, LenProperties DEF Init
  <2>3. 0 <= MaxEvents /\ 0 \in 0..(MaxSeq + 1) /\ 0 <= 1
    BY StoreAssumption
  <2>4. TypeOK
    BY <2>1, <2>2, <2>3 DEF Init, TypeOK, StoreInv
  <2>5. ReaderInv
    BY <2>2, <2>3 DEF Init, ReaderInv
  <2> QED BY <2>1, <2>4, <2>5 DEF StreamInv
<1>2. StreamInv /\ [Next]_vars => StreamInv'
  <2> SUFFICES ASSUME StreamInv, [Next]_vars PROVE StreamInv'
    OBVIOUS
  <2>1. CASE Writer
    BY <2>1, WriterPreserves
  <2>2. ASSUME NEW r \in Readers, SampleReady(r) PROVE StreamInv'
    BY <2>2, SampleReadyPreserves
  <2>3. ASSUME NEW r \in Readers, Stream(r) PROVE StreamInv'
    BY <2>3, StreamPreserves
  <2>4. CASE UNCHANGED vars
    BY <2>4 DEF vars, storeVars, readerVars, StreamInv, StoreInv, StoreTypeOK, SequenceOrder,
                SideTableParallel, TypeOK, ReaderInv
  <2> QED BY <2>1, <2>2, <2>3, <2>4 DEF Next
<1> QED BY <1>1, <1>2, PTL DEF Spec

\* Every variable has its type and neither array outgrows max_events.
THEOREM StoreTypes == Spec => []TypeOK
<1>1. StreamInv => TypeOK
  BY DEF StreamInv
<1> QED BY <1>1, StreamInvariant, PTL

\* No reader is handed an event twice, by any of its calls, whatever is
\* appended, dropped and trimmed between them.
THEOREM StoreNoEventTwice == Spec => []NoEventTwice
<1>1. StreamInv => NoEventTwice
  <2> SUFFICES ASSUME StreamInv, NEW r \in Readers,
                      NEW m \in DOMAIN delivered[r], NEW n \in DOMAIN delivered[r],
                      delivered[r][m].seq = delivered[r][n].seq
               PROVE  m = n
    BY DEF NoEventTwice, Feed!NeverTwice
  <2> QED BY DEF StreamInv, ReaderInv
<1> QED BY <1>1, StreamInvariant, PTL

------------------------------------------------------------------------------
(***************************************************************************)
(* The first batch.                                                        *)
(***************************************************************************)

\* Only the call that reads the whole store sets a cursor that was zero.
LEMMA FirstCall ==
  ASSUME StreamInv, [Next]_vars, NEW r \in Readers, cursor[r] = 0, cursor'[r] # 0
  PROVE  StreamFirst(r)
<1>1. cursor \in [Readers -> 0..(MaxSeq + 1)]
  BY DEF StreamInv, TypeOK
<1>2. ASSUME Writer \/ UNCHANGED vars
      PROVE  cursor' = cursor
  BY <1>2 DEF Writer, AppendBatch, DropFile, FinishBackfill, vars, readerVars
<1>3. ASSUME NEW q \in Readers, SampleReady(q)
      PROVE  cursor' = cursor
  BY <1>3 DEF SampleReady
<1>4. ASSUME NEW q \in Readers, q # r, Stream(q)
      PROVE  cursor'[r] = cursor[r]
  <2>1. \E indices, next : Return(q, indices, next)
    BY <1>4 DEF Stream, StreamEarly, StreamFirst, StreamNext
  <2>2. \E next : cursor' = [cursor EXCEPT ![q] = next]
    BY <2>1 DEF Return
  <2> QED BY <1>1, <1>4, <2>2
<1>5. cursor' # cursor
  OBVIOUS
<1>6. Stream(r)
  <2>1. CASE Next
    <3>1. Writer \/ \E q \in Readers : SampleReady(q) \/ Stream(q)
      BY <2>1 DEF Next
    <3>2. ~Writer /\ \A q \in Readers : ~SampleReady(q)
      BY <1>2, <1>3, <1>5
    <3>3. PICK q \in Readers : Stream(q)
      BY <3>1, <3>2
    <3>4. q = r
      BY <1>4, <3>3
    <3> QED BY <3>3, <3>4
  <2> QED BY <1>2, <1>5, <2>1
<1>7. ~StreamEarly(r)
  <2>1. SUFFICES ASSUME Return(r, <<>>, 0) PROVE FALSE
    BY DEF StreamEarly
  <2> QED BY <1>1, <2>1 DEF Return
<1>8. ~StreamNext(r)
  BY DEF StreamNext
<1> QED BY <1>6, <1>7, <1>8 DEF Stream

\* The first batch is what sorting the whole store by time would give, for
\* every limit and every store: the heap held the newest after each offer.
THEOREM StoreFirstBatchIsNewest == Spec => FirstBatchIsNewest
<1>1. StreamInv /\ [Next]_vars => FirstBatchStep
  <2> SUFFICES ASSUME StreamInv, [Next]_vars,
                      NEW r \in Readers, cursor[r] = 0, cursor'[r] # 0
               PROVE  LET batch == delivered'[r]
                          At(n) == CHOOSE i \in DOMAIN events : events[i].seq = batch[n].seq
                          shown == {At(n) : n \in DOMAIN batch}
                      IN  /\ \A i \in DOMAIN events \ shown : \A k \in shown : Older(i, k)
                          /\ \A m, n \in DOMAIN batch : m < n => Older(At(m), At(n))
                          /\ Len(batch) = IF Len(events) < StreamLimit THEN Len(events)
                                                                       ELSE StreamLimit
    BY DEF FirstBatchStep
  <2> DEFINE batch == delivered'[r]
             At(n) == CHOOSE i \in DOMAIN events : events[i].seq = batch[n].seq
             shown == {At(n) : n \in DOMAIN batch}
             c == Cardinality(NewestHeap)
  <2>1. PICK out \in Listings(NewestHeap, Older) : Return(r, out, nextSeq)
    BY FirstCall DEF StreamFirst
  <2>2. /\ out \in [1..c -> NewestHeap] /\ c \in Nat
        /\ c = IF Len(events) < StreamLimit THEN Len(events) ELSE StreamLimit
        /\ NewestHeap \in SUBSET (1..Len(events))
        /\ \A i, j \in 1..c : i < j => Older(out[i], out[j])
        /\ \A k \in NewestHeap : \E i \in 1..c : out[i] = k
        /\ \A i \in (1..Len(events)) \ NewestHeap : \A k \in NewestHeap : Older(i, k)
    BY FirstBatch
  <2> HIDE DEF c
  <2>3. out \in [1..c -> 1..Len(events)]
    BY <2>2
  <2>4. Appended(r, c, out)
    BY <2>1, <2>2, <2>3, ReturnAppends
  <2>5. delivered[r] = <<>> /\ Len(delivered[r]) = 0
    BY EmptySeq DEF StreamInv, ReaderInv
  <2>6. /\ batch \in Seq(LogEvent) /\ Len(batch) = c
        /\ \A n \in 1..c : batch[n].seq = events[out[n]].seq
    <3>1. /\ batch \in Seq(LogEvent) /\ Len(batch) = 0 + c
          /\ \A n \in 1..Len(batch) :
               \/ n \in 1..0
               \/ n > 0 /\ n - 0 \in 1..c /\ batch[n].seq = events[out[n - 0]].seq
      BY <2>4, <2>5 DEF Appended
    <3> QED BY <2>2, <3>1
  <2>7. DOMAIN batch = 1..c
    BY <2>6, LenProperties
  <2>8. DOMAIN events = 1..Len(events)
        /\ \A i, j \in 1..Len(events) : events[i].seq = events[j].seq => i = j
    BY ArrayFacts DEF StreamInv
  <2> HIDE DEF batch
  <2>9. ASSUME NEW n \in 1..c PROVE At(n) = out[n]
    <3>1. out[n] \in DOMAIN events /\ events[out[n]].seq = batch[n].seq
      BY <2>3, <2>6, <2>8
    <3>2. At(n) \in DOMAIN events /\ events[At(n)].seq = batch[n].seq
      BY <3>1
    <3> HIDE DEF At
    <3> QED BY <2>8, <3>1, <3>2
  <2> HIDE DEF At
  <2>10. shown = NewestHeap
    <3>1. \A n \in 1..c : At(n) \in NewestHeap
      BY <2>2, <2>9
    <3>2. \A k \in NewestHeap : \E n \in 1..c : At(n) = k
      BY <2>2, <2>9
    <3> QED BY <2>7, <3>1, <3>2
  <2>11. \A i \in DOMAIN events \ shown : \A k \in shown : Older(i, k)
    BY <2>2, <2>8, <2>10
  <2>12. \A m, n \in DOMAIN batch : m < n => Older(At(m), At(n))
    BY <2>2, <2>7, <2>9
  <2> QED BY <2>2, <2>6, <2>11, <2>12 DEF At, batch
<1>2. StreamInv /\ [Next]_vars => [FirstBatchStep]_vars
  BY <1>1
<1>3. Spec => [][FirstBatchStep]_vars
  BY <1>2, StreamInvariant, PTL DEF Spec
<1> QED BY <1>3 DEF FirstBatchIsNewest

------------------------------------------------------------------------------
(***************************************************************************)
(* The store implements the feed.                                          *)
(***************************************************************************)

\* What the feed's consumers see of the readers.
Attached == [r \in Readers |-> cursor[r] # 0]

Owed == [r \in Readers |-> IF cursor[r] = 0 THEN {} ELSE {s \in LiveSeqs : s >= cursor[r]}]

Got == [r \in Readers |-> [n \in DOMAIN delivered[r] |-> delivered[r][n].seq]]

\* The feed counts as the store does.
LEMMA FeedCardinality ==
  ASSUME NEW S
  PROVE  Feed!Cardinality(S) = Cardinality(S)
BY DEF Feed!Cardinality, Cardinality

\* A set listed without repetitions by 1..n has n elements.
LEMMA ListedCardinality ==
  ASSUME NEW n \in Nat, NEW S, NEW p \in [1..n -> S],
         \A i, j \in 1..n : p[i] = p[j] => i = j,
         \A x \in S : \E i \in 1..n : p[i] = x
  PROVE  IsFiniteSet(S) /\ Cardinality(S) = n
<1>1. p \in Injection(1..n, S)
  BY Zenon DEF Injection, IsInjective
<1>2. p \in Surjection(1..n, S)
  BY Zenon DEF Surjection
<1>3. ExistsBijection(1..n, S)
  BY <1>1, <1>2 DEF ExistsBijection, Bijection
<1>4. IsFiniteSet(1..n) /\ Cardinality(1..n) = n
  BY IndicesFinite
<1> QED BY <1>3, <1>4, FS_Bijection

\* As many sequence numbers as indices, whichever indices they are taken at.
LEMMA SeqsAt ==
  ASSUME StoreInv, NEW n \in Nat, NEW p \in [1..n -> 1..Len(events)],
         \A i, j \in 1..n : p[i] = p[j] => i = j
  PROVE  /\ IsFiniteSet({events[p[i]].seq : i \in 1..n})
         /\ Cardinality({events[p[i]].seq : i \in 1..n}) = n
<1> DEFINE S == {events[p[i]].seq : i \in 1..n}
           q == [i \in 1..n |-> events[p[i]].seq]
<1>1. q \in [1..n -> S] /\ \A x \in S : \E i \in 1..n : q[i] = x
  OBVIOUS
<1>2. ASSUME NEW i \in 1..n, NEW j \in 1..n, q[i] = q[j]
      PROVE  i = j
  <2>1. events[p[i]].seq = events[p[j]].seq /\ p[i] \in 1..Len(events) /\ p[j] \in 1..Len(events)
    BY <1>2
  <2> QED BY <2>1, ArrayFacts
<1> HIDE DEF S, q
<1>3. IsFiniteSet(S) /\ Cardinality(S) = n
  BY <1>1, <1>2, ListedCardinality
<1> QED BY <1>3 DEF S

\* A batch that is appended is published: the array keeps a suffix, so the
\* oldest numbers go, and what a reader is owed grows by the new ones.
LEMMA AppendIsPublish ==
  ASSUME StreamInv, StreamInv', NEW f \in Files, NEW batch \in Batches(f), AppendBatch(batch)
  PROVE  \E to \in 1..MaxSeq : Feed!Publish(to)
<1>1. PICK all \in Seq(Event) :
        /\ Len(batch) \in Nat \ {0}
        /\ nextSeq' = nextSeq + Len(batch)
        /\ Len(all) = Len(events) + Len(batch)
        /\ \A i \in 1..Len(all) :
             \/ i \in 1..Len(events) /\ all[i] = events[i]
             \/ /\ i > Len(events)
                /\ all[i].seq = nextSeq + (i - Len(events)) - 1
        /\ Len(events') = Len(all) - Cut(Len(all))
        /\ \A i \in 1..Len(events') :
             i + Cut(Len(all)) \in 1..Len(all) /\ events'[i] = all[i + Cut(Len(all))]
  BY AppendedSuffix DEF StreamInv
<1>2. /\ Len(events) \in Nat /\ DOMAIN events = 1..Len(events)
      /\ \A i \in 1..Len(events) : events[i].seq \in Nat /\ events[i].seq < nextSeq
      /\ \A i, j \in 1..Len(events) : i < j => events[i].seq < events[j].seq
  BY ArrayFacts DEF StreamInv
<1>3. /\ Len(events') \in Nat /\ DOMAIN events' = 1..Len(events')
      /\ events' \in Seq(Event)
      /\ Len(events') <= MaxEvents
  BY LenProperties DEF StreamInv, StoreInv, StoreTypeOK, TypeOK
<1>4. nextSeq \in 1..(MaxSeq + 1) /\ nextSeq' \in 1..(MaxSeq + 1) /\ nextSeq \in Nat /\ MaxSeq \in Nat
  BY StoreAssumption DEF StreamInv, StoreInv, StoreTypeOK
<1> DEFINE n     == Len(all)
           m     == Len(events)
           cut   == Cut(n)
           seqs  == [i \in 1..n |-> all[i].seq]
<1>5. n \in Nat /\ m \in Nat /\ cut \in 0..n /\ n = m + Len(batch) /\ Len(events') = n - cut
      /\ cut < n /\ n - cut <= MaxEvents
  <2>1. n \in Nat /\ n > 0
    BY <1>1, <1>2
  <2> QED BY <1>1, <1>2, <2>1, CutBounds
<1>6. PICK to \in 1..MaxSeq : to = nextSeq + Len(batch) - 1
  <2>1. nextSeq + Len(batch) - 1 \in 1..MaxSeq
    BY <1>1, <1>4
  <2> QED BY <2>1
<1>b. to \in nextSeq..MaxSeq /\ nextSeq' = to + 1 /\ to \in Nat
  BY <1>1, <1>4, <1>6
<1> DEFINE fresh == nextSeq..to
<1>7. \A i \in 1..n : \/ i \in 1..m /\ seqs[i] = events[i].seq
                      \/ i > m /\ seqs[i] = nextSeq + (i - m) - 1
  BY <1>1
<1>8. \A i \in 1..Len(events') : i + cut \in 1..n /\ events'[i].seq = seqs[i + cut]
  BY <1>1
<1>a. cut = IF n > MaxEvents THEN n - Keep ELSE 0
  BY DEF Cut
<1> HIDE DEF n, m, cut, seqs
<1>9. \A i \in 1..n : seqs[i] \in Nat /\ seqs[i] <= to
  <2> SUFFICES ASSUME NEW i \in 1..n PROVE seqs[i] \in Nat /\ seqs[i] <= to
    OBVIOUS
  <2>1. CASE i \in 1..m /\ seqs[i] = events[i].seq
    BY <1>2, <1>4, <1>b, <2>1 DEF m
  <2>2. CASE i > m /\ seqs[i] = nextSeq + (i - m) - 1
    BY <1>1, <1>4, <1>5, <1>6, <2>2
  <2> QED BY <1>7, <2>1, <2>2
<1>10. ASSUME NEW i \in 1..n, NEW j \in 1..n, i < j
       PROVE  seqs[i] < seqs[j]
  <2>1. CASE j \in 1..m
    <3>1. i \in 1..m /\ ~(i > m) /\ ~(j > m)
      BY <1>5, <1>10, <2>1
    <3> QED BY <1>2, <1>7, <1>10, <2>1, <3>1 DEF m
  <2>2. CASE j \notin 1..m
    <3>1. seqs[j] = nextSeq + (j - m) - 1 /\ j > m
      BY <1>7, <2>2
    <3>2. CASE i \in 1..m /\ seqs[i] = events[i].seq
      BY <1>2, <1>4, <1>5, <3>1, <3>2 DEF m
    <3>3. CASE i > m /\ seqs[i] = nextSeq + (i - m) - 1
      BY <1>4, <1>5, <1>10, <3>1, <3>3
    <3> QED BY <1>7, <3>2, <3>3
  <2> QED BY <2>1, <2>2
<1>11. {seqs[i] : i \in 1..n} = LiveSeqs \cup fresh
  <2>1. ASSUME NEW i \in 1..n PROVE seqs[i] \in LiveSeqs \cup fresh
    <3>1. CASE i \in 1..m /\ seqs[i] = events[i].seq
      BY <1>2, <3>1 DEF LiveSeqs, m
    <3>2. CASE i > m /\ seqs[i] = nextSeq + (i - m) - 1
      BY <1>4, <1>5, <1>b, <1>9, <3>2
    <3> QED BY <1>7, <3>1, <3>2
  <2>2. ASSUME NEW s \in LiveSeqs PROVE \E i \in 1..n : seqs[i] = s
    <3>1. PICK i \in 1..m : s = events[i].seq
      BY <1>2 DEF LiveSeqs, m
    <3>2. i \in 1..n /\ ~(i > m)
      BY <1>5
    <3> QED BY <1>7, <3>1, <3>2
  <2>3. ASSUME NEW s \in fresh PROVE \E i \in 1..n : seqs[i] = s
    <3>1. m + (s - nextSeq) + 1 \in 1..n /\ m + (s - nextSeq) + 1 > m
      BY <1>1, <1>4, <1>5, <1>6
    <3>2. seqs[m + (s - nextSeq) + 1] = nextSeq + ((m + (s - nextSeq) + 1) - m) - 1
      BY <1>5, <1>7, <3>1
    <3>3. seqs[m + (s - nextSeq) + 1] = s
      BY <1>4, <1>5, <3>2
    <3> QED BY <3>1, <3>3
  <2> HIDE DEF fresh
  <2> QED BY <2>1, <2>2, <2>3
<1>12. LiveSeqs' = {seqs[i] : i \in (cut + 1)..n}
  <2>1. LiveSeqs' = {events'[i].seq : i \in 1..Len(events')}
    BY <1>3 DEF LiveSeqs
  <2>2. ASSUME NEW i \in 1..Len(events')
        PROVE  i + cut \in (cut + 1)..n /\ events'[i].seq = seqs[i + cut]
    <3>1. i + cut \in (cut + 1)..n
      BY <1>3, <1>5
    <3> QED BY <1>8, <3>1
  <2>3. ASSUME NEW i \in (cut + 1)..n
        PROVE  i - cut \in 1..Len(events') /\ events'[i - cut].seq = seqs[i]
    <3>1. i - cut \in 1..Len(events') /\ (i - cut) + cut = i
      BY <1>5
    <3>2. events'[i - cut].seq = seqs[(i - cut) + cut]
      BY <1>8, <3>1
    <3> QED BY <3>1, <3>2
  <2>4. ASSUME NEW x \in LiveSeqs' PROVE \E i \in (cut + 1)..n : x = seqs[i]
    <3>1. PICK i \in 1..Len(events') : x = events'[i].seq
      BY <2>1
    <3> QED BY <2>2, <3>1
  <2>5. ASSUME NEW i \in (cut + 1)..n PROVE seqs[i] \in LiveSeqs'
    BY <2>1, <2>3
  <2> QED BY <2>4, <2>5
<1> DEFINE kept == LiveSeqs'
           before == LiveSeqs \cup fresh
<1>13. kept \in SUBSET before
  <2>1. (cut + 1)..n \subseteq 1..n
    BY <1>5
  <2> QED BY <1>11, <1>12, <2>1
<1>14. \A s \in before \ kept, k \in kept : s < k
  <2> SUFFICES ASSUME NEW s \in before \ kept, NEW k \in kept PROVE s < k
    OBVIOUS
  <2>1. PICK i \in 1..n : s = seqs[i]
    BY <1>11
  <2>2. PICK j \in (cut + 1)..n : k = seqs[j]
    BY <1>12
  <2>3. i \notin (cut + 1)..n
    BY <1>12, <2>1
  <2>4. j \in 1..n /\ i < j
    BY <1>5, <2>3
  <2> QED BY <1>10, <2>1, <2>2, <2>4
<1>15. to \in kept
  <2>1. n \in (cut + 1)..n /\ n \in 1..n /\ n > m /\ n - m = Len(batch)
    BY <1>1, <1>5
  <2>2. seqs[n] = nextSeq + (n - m) - 1
    <3>1. n \notin 1..m
      BY <1>5, <2>1
    <3> QED BY <1>7, <2>1, <3>1
  <2>3. seqs[n] = to
    BY <1>6, <2>1, <2>2
  <2> QED BY <1>12, <2>1, <2>3
<1>16. Cardinality(kept) <= MaxEvents
  <2> DEFINE k == n - cut
             p == [i \in 1..k |-> seqs[i + cut]]
  <2>1. k \in Nat /\ \A i \in 1..k : i + cut \in 1..n /\ i + cut \in (cut + 1)..n
    BY <1>5
  <2>2. p \in [1..k -> kept]
    BY <1>12, <2>1
  <2>3. ASSUME NEW i \in 1..k, NEW j \in 1..k, p[i] = p[j]
        PROVE  i = j
    <3>1. i + cut \in 1..n /\ j + cut \in 1..n /\ seqs[i + cut] = seqs[j + cut]
      BY <2>1, <2>3
    <3>2. ~(i + cut < j + cut) /\ ~(j + cut < i + cut)
      BY <1>9, <1>10, <3>1
    <3> QED BY <1>5, <3>2
  <2>4. ASSUME NEW x \in kept PROVE \E i \in 1..k : p[i] = x
    <3>1. PICK i \in (cut + 1)..n : x = seqs[i]
      BY <1>12
    <3>2. i - cut \in 1..k /\ (i - cut) + cut = i
      BY <1>5
    <3>3. p[i - cut] = seqs[(i - cut) + cut]
      BY <3>2
    <3> QED BY <3>1, <3>2, <3>3
  <2> HIDE DEF kept, k, p
  <2>5. Cardinality(kept) = k
    BY <2>1, <2>2, <2>3, <2>4, ListedCardinality
  <2> QED BY <1>5, <2>5 DEF k
<1>17. Cardinality(before) <= MaxEvents => kept = before
  <2>1. seqs \in [1..n -> before] /\ \A x \in before : \E i \in 1..n : seqs[i] = x
    BY <1>11 DEF seqs
  <2>2. \A i, j \in 1..n : seqs[i] = seqs[j] => i = j
    BY <1>5, <1>9, <1>10
  <2> HIDE DEF before
  <2>3. Cardinality(before) = n
    BY <1>5, <2>1, <2>2, ListedCardinality
  <2>4. n <= MaxEvents => (cut + 1)..n = 1..n
    BY <1>5, <1>a, StoreAssumption
  <2> QED BY <1>11, <1>12, <2>3, <2>4 DEF before
<1>18. Owed' = [c \in Readers |-> IF Attached[c] THEN (Owed[c] \cup fresh) \cap kept ELSE {}]
  <2>1. cursor' = cursor
    BY DEF AppendBatch, readerVars
  <2>2. ASSUME NEW c \in Readers, cursor[c] # 0
        PROVE  {s \in LiveSeqs' : s >= cursor[c]} =
                 ({s \in LiveSeqs : s >= cursor[c]} \cup fresh) \cap kept
    <3>1. cursor[c] \in Nat /\ cursor[c] <= nextSeq
      BY StoreAssumption DEF StreamInv, TypeOK, ReaderInv
    <3>2. \A s \in fresh : s >= cursor[c]
      BY <1>4, <3>1
    <3> HIDE DEF fresh
    <3> QED BY <1>13, <3>2
  <2>3. \A c \in Readers : Attached[c] = (cursor[c] # 0)
    BY DEF Attached
  <2> HIDE DEF fresh, kept
  <2>4. Owed' = [c \in Readers |-> IF cursor[c] = 0 THEN {} ELSE {s \in LiveSeqs' : s >= cursor[c]}]
    BY <2>1 DEF Owed
  <2>5. ASSUME NEW c \in Readers
        PROVE  (IF cursor[c] = 0 THEN {} ELSE {s \in LiveSeqs' : s >= cursor[c]}) =
               (IF Attached[c] THEN (Owed[c] \cup fresh) \cap kept ELSE {})
    BY <2>2, <2>3 DEF Owed
  <2> QED BY <2>4, <2>5
<1>19. /\ loading' = loading
       /\ Attached' = Attached
       /\ Got' = Got
  BY DEF AppendBatch, readerVars, Attached, Got
<1>20. \E k \in SUBSET before :
         /\ \A s \in before \ k, l \in k : s < l
         /\ to \in k
         /\ Feed!Cardinality(k) <= MaxEvents
         /\ Feed!Cardinality(before) <= MaxEvents => k = before
         /\ LiveSeqs' = k
         /\ Owed' = [c \in Readers |-> IF Attached[c] THEN (Owed[c] \cup fresh) \cap k ELSE {}]
  <2> HIDE DEF before, fresh
  <2>1. kept = LiveSeqs'
    OBVIOUS
  <2> HIDE DEF kept
  <2>2. Feed!Cardinality(kept) <= MaxEvents
        /\ (Feed!Cardinality(before) <= MaxEvents => kept = before)
    BY <1>16, <1>17, FeedCardinality
  <2> QED BY <1>13, <1>14, <1>15, <1>18, <2>1, <2>2
<1>21. Feed!Publish(to)
  <2>1. UNCHANGED <<~loading, Attached, Got>>
    BY <1>19
  <2>2. to \in nextSeq..MaxSeq /\ nextSeq' = to + 1
    BY <1>b
  <2> QED BY <1>20, <2>1, <2>2, Zenon DEF Feed!Publish, Owed, Attached, Got
<1> QED BY <1>21

\* A dropped file's numbers are withdrawn, from the live ones and from what
\* every reader is owed.
LEMMA DropIsWithdraw ==
  ASSUME StreamInv, StreamInv', NEW f \in Files, DropFile(f)
  PROVE  \E gone \in SUBSET LiveSeqs : Feed!Withdraw(gone)
<1>1. \A i \in 1..Len(events') : \E k \in 1..Len(events) : events'[i] = events[k]
  BY DroppedKeeps DEF StreamInv
<1>2. DOMAIN events = 1..Len(events) /\ DOMAIN events' = 1..Len(events')
  BY LenProperties DEF StreamInv, StoreInv, StoreTypeOK
<1>3. LiveSeqs' \subseteq LiveSeqs
  BY <1>1, <1>2 DEF LiveSeqs
<1> DEFINE gone == LiveSeqs \ LiveSeqs'
<1>4. LiveSeqs' = LiveSeqs \ gone /\ gone \in SUBSET LiveSeqs
  BY <1>3
<1>5. UNCHANGED <<nextSeq, loading, cursor, delivered>>
  BY DEF DropFile, readerVars
<1>6. Owed' = [c \in Readers |-> Owed[c] \ gone]
  <2>1. Owed' = [r \in Readers |-> IF cursor[r] = 0 THEN {} ELSE {s \in LiveSeqs' : s >= cursor[r]}]
    BY <1>5 DEF Owed
  <2>2. ASSUME NEW r \in Readers
        PROVE  (IF cursor[r] = 0 THEN {} ELSE {s \in LiveSeqs' : s >= cursor[r]}) = Owed[r] \ gone
    BY <1>4 DEF Owed
  <2> HIDE DEF gone
  <2> QED BY <2>1, <2>2
<1>7. PICK g \in SUBSET LiveSeqs : LiveSeqs' = LiveSeqs \ g /\ Owed' = [c \in Readers |-> Owed[c] \ g]
  BY <1>4, <1>6
<1>8. UNCHANGED <<nextSeq, ~loading, Attached, Got>>
  BY <1>5 DEF Attached, Got
<1>9. Feed!Withdraw(g)
  BY <1>7, <1>8, Zenon DEF Feed!Withdraw, Owed, Attached, Got
<1> QED BY <1>9

LEMMA FinishIsOpen ==
  ASSUME FinishBackfill
  PROVE  Feed!Open
<1>1. (~loading)' = TRUE /\ UNCHANGED <<LiveSeqs, nextSeq, Attached, Owed, Got>>
  BY DEF FinishBackfill, storeVars, readerVars, LiveSeqs, Attached, Owed, Got
<1> QED BY <1>1, Zenon DEF Feed!Open, Attached, Owed, Got

\* What a reader got is extended by the events at m indices.
Gives(r, m, indices) ==
  /\ Got[r] \in Seq(Nat)
  /\ Got' = [Got EXCEPT ![r] = @ \o [j \in 1..m |-> events[indices[j]].seq]]

\* What a returned batch adds to what a reader got.
LEMMA ReturnGives ==
  ASSUME StreamInv, NEW r \in Readers, NEW m \in Nat, NEW indices \in [1..m -> 1..Len(events)],
         NEW next, Return(r, indices, next)
  PROVE  Gives(r, m, indices)
<1> DEFINE old == Got[r]
           new == [j \in 1..m |-> events[indices[j]].seq]
           got == [n \in DOMAIN delivered'[r] |-> delivered'[r][n].seq]
<1>1. /\ delivered[r] \in Seq(LogEvent)
      /\ delivered'[r] \in Seq(LogEvent)
      /\ Len(delivered'[r]) = Len(delivered[r]) + m
      /\ \A n \in 1..Len(delivered'[r]) :
           \/ n \in 1..Len(delivered[r]) /\ delivered'[r][n] = delivered[r][n]
           \/ /\ n > Len(delivered[r])
              /\ n - Len(delivered[r]) \in 1..m
              /\ delivered'[r][n].seq = events[indices[n - Len(delivered[r])]].seq
      /\ \A q \in Readers \ {r} : delivered'[q] = delivered[q] /\ cursor'[q] = cursor[q]
  <2>1. Appended(r, m, indices)
    BY ReturnAppends
  <2> QED BY <2>1 DEF Appended
<1>2. \A e \in LogEvent : e.seq \in Nat
  BY StoreAssumption DEF LogEvent
<1>3. /\ Len(delivered[r]) \in Nat /\ DOMAIN delivered[r] = 1..Len(delivered[r])
      /\ delivered[r] \in [1..Len(delivered[r]) -> LogEvent]
  BY <1>1, LenProperties
<1>4. /\ Len(delivered'[r]) \in Nat /\ DOMAIN delivered'[r] = 1..Len(delivered'[r])
      /\ delivered'[r] \in [1..Len(delivered'[r]) -> LogEvent]
  BY <1>1, LenProperties
<1>5. old = [n \in 1..Len(delivered[r]) |-> delivered[r][n].seq]
  BY <1>3 DEF Got
<1>6. old \in Seq(Nat) /\ Len(old) = Len(delivered[r])
  <2> DEFINE d == Len(delivered[r])
  <2>1. old \in [1..d -> Nat] /\ d \in Nat
    BY <1>2, <1>3, <1>5
  <2> HIDE DEF old, d
  <2>2. old \in Seq(Nat) /\ Len(old) = d
    BY <2>1, SeqDef
  <2> QED BY <2>2 DEF d
<1>7. got \in Seq(Nat) /\ Len(got) = Len(delivered'[r])
      /\ \A n \in 1..Len(delivered'[r]) : got[n] = delivered'[r][n].seq
  <2>1. got \in [1..Len(delivered'[r]) -> Nat]
        /\ \A n \in 1..Len(delivered'[r]) : got[n] = delivered'[r][n].seq
    BY <1>2, <1>4
  <2> QED BY <1>4, <2>1, SeqDef
<1>8. new \in Seq(Nat) /\ Len(new) = m /\ \A j \in 1..m : new[j] = events[indices[j]].seq
  <2>1. new \in [1..m -> Nat]
    BY ArrayFacts DEF StreamInv
  <2> QED BY <2>1, SeqDef
<1> HIDE DEF old, new, got
<1>9. \A n \in 1..Len(old) : old[n] = delivered[r][n].seq
  BY <1>5, <1>6
<1>10. got = old \o new
  <2>1. /\ old \o new \in Seq(Nat)
        /\ Len(old \o new) = Len(old) + Len(new)
        /\ \A n \in 1..(Len(old) + Len(new)) : (old \o new)[n] =
              IF n <= Len(old) THEN old[n] ELSE new[n - Len(old)]
    BY <1>6, <1>8, ConcatProperties
  <2>2. Len(got) = Len(old) + Len(new)
    BY <1>1, <1>6, <1>7, <1>8
  <2>3. ASSUME NEW n \in 1..Len(got) PROVE got[n] = (old \o new)[n]
    <3>1. /\ got[n] = delivered'[r][n].seq /\ Len(old) \in Nat /\ n \in Nat
          /\ n \in 1..Len(delivered'[r]) /\ n \in 1..(Len(old) + Len(new))
      BY <1>3, <1>6, <1>7, <2>2
    <3>2. CASE n \in 1..Len(delivered[r]) /\ delivered'[r][n] = delivered[r][n]
      <4>1. n <= Len(old) /\ n \in 1..Len(old)
        BY <1>6, <3>2
      <4>2. (old \o new)[n] = old[n]
        BY <2>1, <3>1, <4>1
      <4> QED BY <1>9, <3>1, <3>2, <4>1, <4>2
    <3>3. CASE /\ n > Len(delivered[r]) /\ n - Len(delivered[r]) \in 1..m
               /\ delivered'[r][n].seq = events[indices[n - Len(delivered[r])]].seq
      <4>1. ~(n <= Len(old)) /\ n - Len(old) \in 1..m
        BY <1>6, <3>1, <3>3
      <4>2. (old \o new)[n] = new[n - Len(old)]
        BY <2>1, <3>1, <4>1
      <4>3. new[n - Len(old)] = events[indices[n - Len(old)]].seq
        BY <1>8, <4>1
      <4> QED BY <1>6, <3>1, <3>3, <4>2, <4>3
    <3> QED BY <1>1, <3>1, <3>2, <3>3
  <2> QED BY <1>7, <2>1, <2>2, <2>3, SeqEqual
<1>11. Got' = [Got EXCEPT ![r] = got]
  <2>1. Got' = [q \in Readers |-> [n \in DOMAIN delivered'[q] |-> delivered'[q][n].seq]]
    BY DEF Got
  <2>2. ASSUME NEW q \in Readers, q # r
        PROVE  [n \in DOMAIN delivered'[q] |-> delivered'[q][n].seq] = Got[q]
    <3>1. delivered'[q] = delivered[q]
      BY <1>1, <2>2
    <3> QED BY <3>1 DEF Got
  <2>3. DOMAIN Got = Readers
    BY DEF Got
  <2>4. Got = [q \in Readers |-> Got[q]]
    BY DEF Got
  <2>5. [n \in DOMAIN delivered'[r] |-> delivered'[r][n].seq] = got
    BY DEF got
  <2>6. [Got EXCEPT ![r] = got] = [q \in Readers |-> IF q = r THEN got ELSE Got[q]]
    BY <2>3, <2>4
  <2> QED BY <2>1, <2>2, <2>5, <2>6
<1> QED BY <1>6, <1>10, <1>11 DEF old, new, Gives

\* The first batch attaches the reader: it receives as many live events as a
\* batch carries, each once, and nothing is owed to it yet.
LEMMA FirstIsAttach ==
  ASSUME StreamInv, NEW r \in Readers, StreamFirst(r)
  PROVE  Feed!Attach(r)
<1>1. /\ cursor \in [Readers -> 0..(MaxSeq + 1)] /\ delivered \in [Readers -> Seq(LogEvent)]
      /\ cursor[r] = 0 /\ ready[r] /\ ~loading
      /\ delivered[r] = <<>>
  BY DEF StreamFirst, StreamInv, TypeOK, ReaderInv
<1>2. PICK out \in Listings(NewestHeap, Older) : Return(r, out, nextSeq)
  BY DEF StreamFirst
<1> DEFINE c == Cardinality(NewestHeap)
           batch == [j \in 1..c |-> events[out[j]].seq]
           chosen == {events[out[j]].seq : j \in 1..c}
<1>3. /\ out \in [1..c -> NewestHeap] /\ c \in Nat
      /\ c = IF Len(events) < StreamLimit THEN Len(events) ELSE StreamLimit
      /\ NewestHeap \in SUBSET (1..Len(events))
      /\ \A i, j \in 1..c : out[i] = out[j] => i = j
      /\ \A k \in NewestHeap : \E i \in 1..c : out[i] = k
  BY <1>2, FirstBatch
<1>4. /\ Len(events) \in Nat /\ DOMAIN events = 1..Len(events) /\ StreamLimit \in Nat
      /\ \A i \in 1..Len(events) : events[i].seq \in Nat /\ events[i].seq < nextSeq
  BY ArrayFacts, StoreAssumption DEF StreamInv
<1>5. nextSeq \in Nat /\ nextSeq # 0
  BY StoreAssumption DEF StreamInv, StoreInv, StoreTypeOK
<1>6. c = Len(events) => NewestHeap = 1..Len(events)
  <2>1. IsFiniteSet(1..Len(events)) /\ Cardinality(1..Len(events)) = Len(events)
    BY <1>4, IndicesFinite
  <2> QED BY <1>3, <2>1, FS_Subset
<1> HIDE DEF c
<1>7. out \in [1..c -> 1..Len(events)]
  BY <1>3
<1>8. Cardinality(chosen) = c
  BY <1>3, <1>7, SeqsAt DEF StreamInv
<1>9. chosen \in SUBSET LiveSeqs
  BY <1>4, <1>7 DEF LiveSeqs
<1>10. \/ chosen = LiveSeqs /\ Cardinality(LiveSeqs) <= StreamLimit
       \/ Cardinality(chosen) = StreamLimit
  <2>1. CASE c = Len(events)
    <3>1. \A i \in 1..Len(events) : \E j \in 1..c : out[j] = i
      BY <1>3, <1>6, <2>1
    <3>2. LiveSeqs \subseteq chosen
      BY <1>4, <3>1 DEF LiveSeqs
    <3>3. LiveSeqs = chosen
      BY <1>9, <3>2
    <3>4. c <= StreamLimit
      <4>1. c \in Nat /\ c = IF Len(events) < StreamLimit THEN Len(events) ELSE StreamLimit
        BY <1>3
      <4>2. Len(events) \in Nat /\ StreamLimit \in Nat
        BY <1>4
      <4>3. CASE Len(events) < StreamLimit
        BY <4>1, <4>2, <4>3
      <4>4. CASE ~(Len(events) < StreamLimit)
        BY <4>1, <4>2, <4>4
      <4> QED BY <4>3, <4>4
    <3> QED BY <1>8, <3>3, <3>4
  <2>2. CASE c # Len(events)
    BY <1>3, <1>8, <2>2
  <2> QED BY <2>1, <2>2
<1>11. /\ batch \in [1..c -> chosen]
       /\ \A s \in chosen : \E i \in DOMAIN batch : batch[i] = s
  OBVIOUS
<1>12. Got' = [Got EXCEPT ![r] = batch]
  <2>1. Got[r] \in Seq(Nat) /\ Got' = [Got EXCEPT ![r] = @ \o batch]
    <3>1. Gives(r, c, out)
      BY <1>2, <1>3, <1>7, ReturnGives
    <3> QED BY <3>1 DEF Gives
  <2>2. Got[r] = <<>>
    <3>1. Got[r] = [n \in DOMAIN <<>> |-> delivered[r][n].seq]
      BY <1>1 DEF Got
    <3> QED BY <3>1
  <2>3. batch \in Seq(Nat)
    <3>1. batch \in [1..c -> Nat] /\ c \in Nat
      BY <1>3, <1>4, <1>7
    <3> HIDE DEF batch
    <3> QED BY <3>1, SeqDef
  <2> HIDE DEF batch
  <2>4. <<>> \o batch = batch
    BY <2>3, ConcatEmptySeq
  <2>5. Got' = [Got EXCEPT ![r] = Got[r] \o batch]
    BY <2>1
  <2> QED BY <2>2, <2>4, <2>5
<1>13. cursor' = [cursor EXCEPT ![r] = nextSeq] /\ UNCHANGED <<events, nextSeq, loading>>
  BY <1>2 DEF Return, storeVars
<1>14. Attached' = [Attached EXCEPT ![r] = TRUE] /\ ~Attached[r]
  BY <1>1, <1>5, <1>13 DEF Attached
<1>15. Owed' = Owed
  <2>1. LiveSeqs' = LiveSeqs
    BY <1>13 DEF LiveSeqs
  <2>2. {s \in LiveSeqs : s >= nextSeq} = {}
    BY <1>4, <1>5 DEF LiveSeqs
  <2>3. ASSUME NEW q \in Readers
        PROVE  (IF cursor'[q] = 0 THEN {} ELSE {s \in LiveSeqs : s >= cursor'[q]}) =
               (IF cursor[q] = 0 THEN {} ELSE {s \in LiveSeqs : s >= cursor[q]})
    BY <1>1, <1>5, <1>13, <2>2
  <2> QED BY <2>1, <2>3 DEF Owed
<1>16. UNCHANGED <<LiveSeqs, nextSeq, ~loading, Owed>>
  BY <1>13, <1>15 DEF LiveSeqs
<1> DEFINE size == Feed!Cardinality(chosen)
<1>17. size = c
  BY <1>8, FeedCardinality
<1>18. \E S \in SUBSET LiveSeqs :
         /\ \/ S = LiveSeqs /\ Feed!Cardinality(LiveSeqs) <= StreamLimit
            \/ Feed!Cardinality(S) = StreamLimit
         /\ \E b \in [1..Feed!Cardinality(S) -> S] :
              /\ \A s \in S : \E i \in DOMAIN b : b[i] = s
              /\ Got' = [Got EXCEPT ![r] = b]
  <2>1. \/ chosen = LiveSeqs /\ Feed!Cardinality(LiveSeqs) <= StreamLimit
        \/ Feed!Cardinality(chosen) = StreamLimit
    BY <1>10, FeedCardinality
  <2>2. \E b \in [1..Feed!Cardinality(chosen) -> chosen] :
          /\ \A s \in chosen : \E i \in DOMAIN b : b[i] = s
          /\ Got' = [Got EXCEPT ![r] = b]
    <3> HIDE DEF batch, chosen
    <3> QED BY <1>11, <1>12, <1>17 DEF size
  <2> HIDE DEF chosen
  <2> QED BY <1>9, <2>1, <2>2
<1>19. ~loading /\ ~Attached[r]
  BY <1>1, <1>14
<1> QED BY <1>14, <1>16, <1>18, <1>19, Zenon DEF Feed!Attach, Owed, Attached, Got

\* A later call that finds something delivers the oldest events the reader is
\* owed; one that finds nothing was owed nothing, and changes nothing.
LEMMA NextIsDeliver ==
  ASSUME StreamInv, NEW r \in Readers, StreamNext(r)
  PROVE  \/ Feed!Deliver(r)
         \/ UNCHANGED <<LiveSeqs, nextSeq, ~loading, Attached, Owed, Got>>
<1>1. /\ cursor \in [Readers -> 0..(MaxSeq + 1)] /\ delivered \in [Readers -> Seq(LogEvent)]
      /\ cursor[r] # 0 /\ cursor[r] \in Nat
  BY StoreAssumption DEF StreamNext, StreamInv, TypeOK
<1>2. PICK start \in SearchResults(cursor[r]) : Return(r, BatchIndices(start), NextCursor(start))
  BY DEF StreamNext, BatchIndices, NextCursor, BatchSize
<1> DEFINE size == BatchSize(start)
           next == NextCursor(start)
           n == Len(events)
           last == start + size - 1
           batch == [j \in 1..size |-> events[BatchIndices(start)[j]].seq]
           due == {events[BatchIndices(start)[j]].seq : j \in 1..size}
<1>3. /\ start \in 1..(n + 1)
      /\ size \in Nat /\ size <= StreamLimit
      /\ start + size <= n + 1
      /\ size = StreamLimit \/ start + size = n + 1
      /\ BatchIndices(start) \in [1..size -> 1..n]
      /\ \A i, j \in 1..size : BatchIndices(start)[i] = BatchIndices(start)[j] => i = j
      /\ \A j \in 1..size : /\ cursor[r] <= events[BatchIndices(start)[j]].seq
                            /\ events[BatchIndices(start)[j]].seq < next
      /\ \A i \in start..n : i >= start + size => next <= events[i].seq
      /\ next \in Nat /\ cursor[r] <= next /\ next <= nextSeq
  BY NextBatch
<1>4. /\ n \in Nat /\ DOMAIN events = 1..n /\ StreamLimit \in Nat
      /\ \A i \in 1..n : events[i].seq \in Nat /\ events[i].seq < nextSeq
      /\ \A i, j \in 1..n : i < j => events[i].seq < events[j].seq
  BY ArrayFacts, StoreAssumption DEF StreamInv
<1>5. \A i \in 1..n : (i >= start) <=> (events[i].seq >= cursor[r])
  BY <1>4 DEF SearchResults
<1>6. \A j \in 1..size : BatchIndices(start)[j] = start + j - 1
  BY DEF BatchIndices
<1>7. cursor' = [cursor EXCEPT ![r] = next] /\ UNCHANGED <<events, nextSeq, loading>>
  BY <1>2 DEF Return, storeVars
<1>8. Got[r] \in Seq(Nat) /\ Got' = [Got EXCEPT ![r] = @ \o batch]
  <2>1. Gives(r, size, BatchIndices(start))
    <3> HIDE DEF size
    <3> QED BY <1>2, <1>3, ReturnGives
  <2> QED BY <2>1 DEF Gives
<1> HIDE DEF size, next, n
<1>9. LiveSeqs = {events[i].seq : i \in 1..n}
  BY <1>4 DEF LiveSeqs
<1>10. Owed[r] = {s \in LiveSeqs : s >= cursor[r]} /\ next # 0
  BY <1>1, <1>3 DEF Owed
<1>11. due \in SUBSET Owed[r]
  BY <1>3, <1>9, <1>10
<1>12. Owed[r] \ due = {s \in LiveSeqs : s >= next}
  <2>1. ASSUME NEW s \in Owed[r] \ due PROVE s \in LiveSeqs /\ s >= next
    <3>1. PICK i \in 1..n : s = events[i].seq
      BY <1>9, <1>10
    <3>2. i >= start
      BY <1>5, <1>10, <3>1
    <3>3. CASE i < start + size
      <4>1. i - start + 1 \in 1..size /\ start + (i - start + 1) - 1 = i
        BY <1>3, <1>4, <3>2, <3>3
      <4>2. BatchIndices(start)[i - start + 1] = i
        BY <1>6, <4>1
      <4> QED BY <2>1, <3>1, <4>1, <4>2
    <3>4. CASE ~(i < start + size)
      <4>1. i \in start..n /\ i >= start + size
        BY <1>3, <1>4, <3>2, <3>4
      <4> QED BY <1>3, <1>4, <1>10, <3>1, <4>1
    <3> QED BY <3>3, <3>4
  <2>2. ASSUME NEW s \in LiveSeqs, s >= next PROVE s \in Owed[r] \ due
    <3>1. s \in Nat
      BY <1>4, <1>9
    <3>2. s \in Owed[r]
      BY <1>1, <1>3, <1>10, <2>2, <3>1
    <3>3. s \notin due
      BY <1>3, <1>4, <2>2, <3>1
    <3> QED BY <3>2, <3>3
  <2> HIDE DEF due
  <2> QED BY <2>1, <2>2
<1>13. \A s \in due, t \in Owed[r] \ due : s < t
  <2>1. ASSUME NEW s \in due, NEW t \in Owed[r] \ due PROVE s < t
    <3>1. s \in Nat /\ s < next
      BY <1>3, <1>4
    <3>2. t \in Nat /\ t >= next
      BY <1>4, <1>9, <1>12
    <3> QED BY <1>3, <3>1, <3>2
  <2> QED BY <2>1
<1>14. Cardinality(due) = size
  BY <1>3, SeqsAt DEF StreamInv, n
<1>15. \A i, j \in 1..size : i < j => batch[i] < batch[j]
  <2> SUFFICES ASSUME NEW i \in 1..size, NEW j \in 1..size, i < j PROVE batch[i] < batch[j]
    OBVIOUS
  <2>1. /\ start + i - 1 \in 1..n /\ start + j - 1 \in 1..n /\ start + i - 1 < start + j - 1
    BY <1>3, <1>4
  <2>2. batch[i] = events[start + i - 1].seq /\ batch[j] = events[start + j - 1].seq
    BY <1>6
  <2> QED BY <1>4, <2>1, <2>2
<1>16. UNCHANGED <<LiveSeqs, nextSeq, ~loading, Attached>>
  BY <1>1, <1>7, <1>10 DEF LiveSeqs, Attached
<1>17. Owed' = [Owed EXCEPT ![r] = @ \ due]
  <2>1. Owed' = [q \in Readers |-> IF cursor'[q] = 0 THEN {} ELSE {s \in LiveSeqs : s >= cursor'[q]}]
    BY <1>16 DEF Owed
  <2>2. \A q \in Readers : cursor'[q] = IF q = r THEN next ELSE cursor[q]
    BY <1>1, <1>7
  <2> HIDE DEF due
  <2>3. ASSUME NEW q \in Readers
        PROVE  (IF cursor'[q] = 0 THEN {} ELSE {s \in LiveSeqs : s >= cursor'[q]}) =
               (IF q = r THEN Owed[r] \ due ELSE Owed[q])
    BY <1>10, <1>12, <2>2 DEF Owed
  <2>4. Owed = [q \in Readers |-> Owed[q]]
    BY DEF Owed
  <2>5. [Owed EXCEPT ![r] = @ \ due] = [q \in Readers |-> IF q = r THEN Owed[r] \ due ELSE Owed[q]]
    BY <2>4
  <2> QED BY <2>1, <2>3, <2>5
<1>18. CASE size = 0
  <2>1. due = {}
    BY <1>18
  <2>2. Owed' = Owed
    <3>1. Owed = [q \in Readers |-> Owed[q]]
      BY DEF Owed
    <3> HIDE DEF due
    <3>2. [Owed EXCEPT ![r] = @ \ due] = Owed
      BY <2>1, <3>1
    <3> QED BY <1>17, <3>2
  <2>3. batch = <<>>
    BY <1>18
  <2>4. Got' = Got
    <3>1. Got[r] \o batch = Got[r]
      BY <1>8, <2>3, ConcatEmptySeq
    <3>2. Got = [q \in Readers |-> Got[q]]
      BY DEF Got
    <3> HIDE DEF batch
    <3> QED BY <1>8, <3>1, <3>2
  <2> QED BY <1>16, <2>2, <2>4
<1>19. CASE size # 0
  <2>1. due # {}
    <3>1. 1 \in 1..size
      BY <1>3, <1>19
    <3> QED BY <3>1
  <2>2. \/ due = Owed[r] /\ Cardinality(due) <= StreamLimit
        \/ Cardinality(due) = StreamLimit
    <3>1. CASE start + size = n + 1
      <4>1. \A s \in LiveSeqs : s >= next => FALSE
        <5> SUFFICES ASSUME NEW s \in LiveSeqs, s >= next PROVE FALSE
          OBVIOUS
        <5>1. next = nextSeq
          BY <1>4, <3>1 DEF NextCursor, next, size, n
        <5>2. s \in Nat /\ s < nextSeq
          BY <1>4, <1>9
        <5> QED BY <1>3, <5>1, <5>2
      <4>2. Owed[r] \ due = {}
        BY <1>12, <4>1
      <4>3. due = Owed[r]
        BY <1>11, <4>2
      <4> QED BY <1>3, <1>14, <4>3
    <3>2. CASE size = StreamLimit
      BY <1>14, <3>2
    <3> QED BY <1>3, <3>1, <3>2
  <2>3. batch \in [1..size -> due] /\ DOMAIN batch = 1..size
    OBVIOUS
  <2> HIDE DEF batch, due
  <2>4. Owed[r] # {}
    BY <1>11, <2>1
  <2>5. Feed!Cardinality(due) = Cardinality(due)
    BY FeedCardinality
  <2>6. \E d \in SUBSET Owed[r] :
          /\ d # {}
          /\ \A s \in d, t \in Owed[r] \ d : s < t
          /\ \/ d = Owed[r] /\ Feed!Cardinality(d) <= StreamLimit
             \/ Feed!Cardinality(d) = StreamLimit
          /\ Owed' = [Owed EXCEPT ![r] = @ \ d]
          /\ \E b \in [1..Feed!Cardinality(d) -> d] :
               /\ \A i, j \in DOMAIN b : i < j => b[i] < b[j]
               /\ Got' = [Got EXCEPT ![r] = @ \o b]
    <3>1. \E b \in [1..Feed!Cardinality(due) -> due] :
            /\ \A i, j \in DOMAIN b : i < j => b[i] < b[j]
            /\ Got' = [Got EXCEPT ![r] = @ \o b]
      BY <1>8, <1>14, <1>15, <2>3, <2>5
    <3>2. \/ due = Owed[r] /\ Feed!Cardinality(due) <= StreamLimit
          \/ Feed!Cardinality(due) = StreamLimit
      BY <2>2, <2>5
    <3> QED BY <1>11, <1>13, <1>17, <2>1, <3>1, <3>2
  <2>7. UNCHANGED <<LiveSeqs, nextSeq, ~loading, Attached>>
    BY <1>16
  <2>8. Feed!Deliver(r)
    BY <2>4, <2>6, <2>7, Zenon DEF Feed!Deliver, Owed, Attached, Got
  <2> QED BY <2>8
<1> QED BY <1>18, <1>19

LEMMA EarlyIsStutter ==
  ASSUME StreamInv, NEW r \in Readers, StreamEarly(r)
  PROVE  UNCHANGED <<LiveSeqs, nextSeq, ~loading, Attached, Owed, Got>>
<1>1. /\ cursor \in [Readers -> 0..(MaxSeq + 1)] /\ delivered \in [Readers -> Seq(LogEvent)]
      /\ cursor[r] = 0
  BY DEF StreamEarly, StreamInv, TypeOK
<1>2. /\ UNCHANGED <<events, nextSeq, loading>>
      /\ cursor' = [cursor EXCEPT ![r] = 0]
      /\ delivered' = [delivered EXCEPT ![r] = @ \o [j \in DOMAIN <<>> |-> ToLogEvent(<<>>[j])]]
  BY DEF StreamEarly, Return, storeVars
<1>3. cursor' = cursor
  BY <1>1, <1>2
<1>4. delivered' = delivered
  <2>1. [j \in DOMAIN <<>> |-> ToLogEvent(<<>>[j])] = <<>>
    OBVIOUS
  <2>2. delivered[r] \o <<>> = delivered[r]
    BY <1>1, ConcatEmptySeq
  <2> QED BY <1>1, <1>2, <2>1, <2>2
<1> QED BY <1>2, <1>3, <1>4 DEF LiveSeqs, Attached, Owed, Got

\* Every step of the store is a step of the feed, or invisible to it.
LEMMA FeedStep ==
  ASSUME StreamInv, StreamInv', [Next]_vars
  PROVE  [Feed!FeedNext]_<<LiveSeqs, nextSeq, ~loading, Attached, Owed, Got>>
<1> DEFINE seen == <<LiveSeqs, nextSeq, ~loading, Attached, Owed, Got>>
<1>1. ASSUME NEW f \in Files, NEW batch \in Batches(f), AppendBatch(batch)
      PROVE  \E to \in 1..MaxSeq : Feed!Publish(to)
  BY <1>1, AppendIsPublish
<1>2. ASSUME NEW f \in Files, DropFile(f)
      PROVE  \E gone \in SUBSET LiveSeqs : Feed!Withdraw(gone)
  BY <1>2, DropIsWithdraw
<1>3. ASSUME FinishBackfill
      PROVE  Feed!Open
  BY <1>3, FinishIsOpen
<1>4. ASSUME NEW r \in Readers, SampleReady(r)
      PROVE  UNCHANGED seen
  BY <1>4 DEF SampleReady, storeVars, LiveSeqs, Attached, Owed, Got
<1>5. ASSUME NEW r \in Readers, Stream(r)
      PROVE  Feed!Attach(r) \/ Feed!Deliver(r) \/ UNCHANGED seen
  BY <1>5, EarlyIsStutter, FirstIsAttach, NextIsDeliver DEF Stream
<1>6. ASSUME UNCHANGED vars
      PROVE  UNCHANGED seen
  BY <1>6 DEF vars, storeVars, readerVars, LiveSeqs, Attached, Owed, Got
<1> HIDE DEF seen
<1>7. \/ \E to \in 1..MaxSeq : Feed!Publish(to)
      \/ \E gone \in SUBSET LiveSeqs : Feed!Withdraw(gone)
      \/ Feed!Open
      \/ \E r \in Readers : Feed!Attach(r) \/ Feed!Deliver(r)
      \/ UNCHANGED seen
  BY <1>1, <1>2, <1>3, <1>4, <1>5, <1>6 DEF Next, Writer
<1>8. Feed!FeedNext \/ UNCHANGED seen
  BY <1>7, Zenon DEF Feed!FeedNext
<1> QED BY <1>8 DEF seen

\* What the store owes its readers, it owes as the feed says: nothing that is
\* owed is skipped, repeated or handed over out of order, whatever is appended,
\* trimmed and dropped between the calls.
THEOREM StoreImplementsFeed == Spec => Feed!FeedSafety
<1>1. Init => Feed!FeedInit
  <2> SUFFICES ASSUME Init PROVE Feed!FeedInit
    OBVIOUS
  <2>1. events = <<>> /\ nextSeq = 1 /\ loading = TRUE
        /\ cursor = [r \in Readers |-> 0] /\ delivered = [r \in Readers |-> <<>>]
    BY DEF Init
  <2>2. LiveSeqs = {} /\ (~loading) = FALSE
    BY <2>1 DEF LiveSeqs
  <2>3. Attached = [c \in Readers |-> FALSE]
    BY <2>1 DEF Attached
  <2>4. Owed = [c \in Readers |-> {}]
    BY <2>1 DEF Owed
  <2>5. Got = [c \in Readers |-> <<>>]
    <3>1. \A r \in Readers : [n \in DOMAIN delivered[r] |-> delivered[r][n].seq] = <<>>
      BY <2>1
    <3> QED BY <3>1 DEF Got
  <2> QED BY <2>1, <2>2, <2>3, <2>4, <2>5, Zenon DEF Feed!FeedInit, Attached, Owed, Got
<1>2. StreamInv /\ StreamInv' /\ [Next]_vars => [Feed!FeedNext]_Feed!feedVars
  BY FeedStep DEF Feed!feedVars, Attached, Owed, Got
<1> QED BY <1>1, <1>2, StreamInvariant, PTL DEF Spec, Feed!FeedSafety

==============================================================================
