----------------------------- MODULE EventStore -----------------------------
(***************************************************************************)
(* The in-memory event store of a file source (internal/source/store.go)   *)
(* and FileSource.Stream (internal/source/jsonl.go) on top of it.          *)
(*                                                                         *)
(* One goroutine, the tailer, appends batches, drops a file's events and   *)
(* ends the backfill.  Readers call Stream with the cursor the previous    *)
(* call returned.  Store operations hold the store's lock from start to    *)
(* end, so each is one action; Stream first reads the tailer's loading     *)
(* flag under another lock and only then takes the store's, so it is two.  *)
(***************************************************************************)
EXTENDS Naturals, Sequences, FiniteSets

CONSTANTS
  Files,         \* file indices of the tailer
  Times,         \* event timestamps
  EntryIds,      \* non-empty ids a line handler may give an event
  NoId,          \* the empty id: the event is known by its position
  MaxEvents,     \* max_events of the source
  StreamLimit,   \* limit of every Stream call
  Readers,       \* consumers of the stream
  MaxBatch,      \* bound: events in one appended batch
  MaxSeq         \* bound: sequence numbers in use are 1..MaxSeq

ASSUME StoreAssumption ==
  /\ Times \subseteq Nat
  /\ NoId \notin EntryIds
  /\ MaxEvents \in Nat \ {0}
  /\ StreamLimit \in Nat \ {0}
  /\ MaxBatch \in Nat \ {0}
  /\ MaxSeq \in Nat

VARIABLES
  events,    \* store.events, in array order
  ids,       \* store.ids, the side table parallel to events
  hasIds,    \* store.ids # nil
  nextSeq,   \* store.nextSeq
  loading,   \* tailer.loading
  sampled,   \* sampled[r]: r is inside Stream, past the read of loading
  ready,     \* ready[r]: the local variable of that call
  cursor,    \* cursor[r]: Cursor.Seq of r's next call, 0 at first
  delivered  \* history: what Stream returned to r so far, in order

readerVars == <<sampled, ready, cursor, delivered>>
storeVars  == <<events, ids, hasIds, nextSeq>>
vars       == <<storeVars, loading, readerVars>>

(***************************************************************************)
(* "entry" is the id the handler returned with the event.  The code keeps  *)
(* it only in the side table; the record carries it to say what the side   *)
(* table should hold.                                                      *)
(***************************************************************************)
Id    == EntryIds \cup {NoId}
Event == [seq : 1..MaxSeq, file : Files, ts : Times, entry : Id]

\* What Stream hands out: the event and the ID it is shown under.
LogEvent == [seq : 1..MaxSeq, id : Files \X (Id \cup 1..MaxSeq)]

StoreTypeOK ==
  /\ events \in Seq(Event)
  /\ ids \in Seq(Id)
  /\ hasIds \in BOOLEAN
  /\ nextSeq \in 1..(MaxSeq + 1)

\* The type invariant.  max_events holds too, after every operation, for the
\* events and for their side table (appendBatch).
TypeOK ==
  /\ StoreTypeOK
  /\ Len(events) <= MaxEvents /\ Len(ids) <= MaxEvents
  /\ loading \in BOOLEAN
  /\ sampled \in [Readers -> BOOLEAN]
  /\ ready \in [Readers -> BOOLEAN]
  /\ cursor \in [Readers -> 0..(MaxSeq + 1)]
  /\ delivered \in [Readers -> Seq(LogEvent)]

Init ==
  /\ events = <<>>
  /\ ids = <<>>
  /\ hasIds = FALSE
  /\ nextSeq = 1
  /\ loading = TRUE
  /\ sampled = [r \in Readers |-> FALSE]
  /\ ready = [r \in Readers |-> FALSE]
  /\ cursor = [r \in Readers |-> 0]
  /\ delivered = [r \in Readers |-> <<>>]

\* The ways to list the finite set S so that Before holds between each
\* element and all later ones: exactly one when Before is a strict total
\* order on S.
Listings(S, Before(_, _)) ==
  {p \in [1..Cardinality(S) -> S] : \A i, j \in DOMAIN p : i < j => Before(p[i], p[j])}

------------------------------------------------------------------------------
(***************************************************************************)
(* Writers.                                                                *)
(***************************************************************************)

\* 90% of max_events, but never nothing.
Keep == LET k == (MaxEvents * 9) \div 10 IN IF k < 1 THEN 1 ELSE k

\* Fault: the comparison with max_events is off by one.
CutLate(n) == IF n > MaxEvents + 1 THEN n - Keep ELSE 0

\* How many of n elements enforcing max_events cuts off the front.
Cut(n) == IF n > MaxEvents THEN n - Keep ELSE 0

Newest(s) == SubSeq(s, Cut(Len(s)) + 1, Len(s))

\* Fault: the counter moves once per batch instead of once per event.
NumberedAlike(batch) ==
  [i \in 1..Len(batch) |-> [seq   |-> nextSeq,      file |-> batch[i].file,
                            ts    |-> batch[i].ts,  entry |-> batch[i].entry]]

\* The batch with the sequence numbers it is appended under.
Numbered(batch) ==
  [i \in 1..Len(batch) |-> [seq   |-> nextSeq + i - 1, file |-> batch[i].file,
                            ts    |-> batch[i].ts,     entry |-> batch[i].entry]]

\* Fault: a side table that starts late is not padded for earlier events.
SideTableUnpadded(batch) == IF hasIds THEN ids ELSE <<>>

\* The side table as it must be to take the batch's ids: unchanged, or
\* started now with a "" for each event that is already stored.
SideTable(batch) ==
  IF hasIds THEN ids ELSE [i \in 1..Len(events) |-> NoId]

NeedsIds(batch) == hasIds \/ \E i \in 1..Len(batch) : batch[i].entry # NoId

AppendBatch(batch) ==
  /\ nextSeq + Len(batch) <= MaxSeq + 1
  /\ nextSeq' = nextSeq + Len(batch)
  /\ events' = Newest(events \o Numbered(batch))
  /\ hasIds' = NeedsIds(batch)
  /\ ids' = IF NeedsIds(batch)
              THEN Newest(SideTable(batch) \o [i \in 1..Len(batch) |-> batch[i].entry])
              ELSE ids
  /\ UNCHANGED <<loading, readerVars>>

\* Keeps the events of every other file in their order, and with them the
\* rows of the side table at the same indices.
DropFile(f) ==
  \E kept \in Listings({i \in DOMAIN events : events[i].file # f}, <) :
    /\ events' = [j \in DOMAIN kept |-> events[kept[j]]]
    /\ ids' = IF hasIds THEN [j \in DOMAIN kept |-> ids[kept[j]]] ELSE ids
    /\ UNCHANGED <<hasIds, nextSeq, loading, readerVars>>

\* The end of the first complete pollOnce.
FinishBackfill ==
  /\ loading
  /\ loading' = FALSE
  /\ UNCHANGED <<storeVars, readerVars>>

\* The tailer reads one file at a time, so a batch is of one file.
Batches(f) ==
  UNION {[1..n -> [file : {f}, ts : Times, entry : Id]] : n \in 1..MaxBatch}

Writer ==
  \/ \E f \in Files : \E batch \in Batches(f) : AppendBatch(batch)
  \/ \E f \in Files : DropFile(f)
  \/ FinishBackfill

------------------------------------------------------------------------------
(***************************************************************************)
(* Stream.                                                                 *)
(***************************************************************************)

\* eventID: the file index with the handler's id, or with the position of
\* the line, for which the sequence number stands here.
EventID(i) ==
  <<events[i].file, IF i <= Len(ids) /\ ids[i] # NoId THEN ids[i] ELSE events[i].seq>>

ToLogEvent(i) == [seq |-> events[i].seq, id |-> EventID(i)]

\* The order of newestHeap and of the first batch.
Older(i, j) ==
  \/ events[i].ts < events[j].ts
  \/ events[i].ts = events[j].ts /\ events[i].seq < events[j].seq

\* Fault: a full heap takes nothing any more.
OfferUntilFull(heap, i) == IF Cardinality(heap) < StreamLimit THEN heap \cup {i} ELSE heap

\* newestHeap.offer: a heap holding fewer than the limit takes index i, a
\* full one exchanges its root, the oldest index it holds, for a newer i.
Offer(heap, i) ==
  IF Cardinality(heap) < StreamLimit
    THEN heap \cup {i}
    ELSE LET root == CHOOSE k \in heap : \A h \in heap \ {k} : Older(k, h)
         IN  IF Older(root, i) THEN (heap \ {root}) \cup {i} ELSE heap

\* The heap after every stored event was offered, in array order.
NewestHeap ==
  LET offered[n \in 0..Len(events)] == IF n = 0 THEN {} ELSE Offer(offered[n - 1], n)
  IN  offered[Len(events)]

\* Stream reads progress().Loading before it takes the store's lock.
SampleReady(r) ==
  /\ ~sampled[r]
  /\ sampled' = [sampled EXCEPT ![r] = TRUE]
  /\ ready' = [ready EXCEPT ![r] = ~loading]
  /\ UNCHANGED <<storeVars, loading, cursor, delivered>>

Return(r, indices, next) ==
  /\ delivered' = [delivered EXCEPT ![r] = @ \o [j \in DOMAIN indices |-> ToLogEvent(indices[j])]]
  /\ cursor' = [cursor EXCEPT ![r] = next]
  /\ sampled' = [sampled EXCEPT ![r] = FALSE]
  /\ UNCHANGED <<storeVars, loading, ready>>

\* A zero cursor before the backfill is over: nothing, and the cursor stays.
StreamEarly(r) ==
  /\ sampled[r]
  /\ cursor[r] = 0
  /\ ~ready[r]
  /\ Return(r, <<>>, 0)

\* A zero cursor: the newest events by time, oldest of them first.
StreamFirst(r) ==
  /\ sampled[r]
  /\ cursor[r] = 0
  /\ ready[r]
  /\ \E out \in Listings(NewestHeap, Older) : Return(r, out, nextSeq)

\* Fault: the search looks for the first event after the cursor.
SearchPast(cur) ==
  {start \in 1..(Len(events) + 1) :
     \A i \in DOMAIN events : (i >= start) <=> (events[i].seq > cur)}

\* Fault: the next call starts with the last event of this one.
StreamAgain(r) ==
  /\ sampled[r]
  /\ cursor[r] # 0
  /\ \E start \in 1..Len(events) :
       /\ events[start].seq = cursor[r]
       /\ Len(delivered[r]) < MaxSeq
       /\ Return(r, <<start>>, events[start].seq)

\* sort.Search over the array: the indices before start are before the
\* cursor and those from start on are not.  There is one such start as long
\* as the array is in sequence order.
SearchResults(cur) ==
  {start \in 1..(Len(events) + 1) :
     \A i \in DOMAIN events : (i >= start) <=> (events[i].seq >= cur)}

\* A later call: up to the limit from the cursor on.  The next cursor is the
\* first event left behind, or the number the next event will get.
StreamNext(r) ==
  /\ sampled[r]
  /\ cursor[r] # 0
  /\ \E start \in SearchResults(cursor[r]) :
       LET size == IF start + StreamLimit - 1 <= Len(events)
                     THEN StreamLimit ELSE Len(events) - start + 1
           next == IF start + size <= Len(events)
                     THEN events[start + size].seq ELSE nextSeq
       IN  Return(r, [j \in 1..size |-> start + j - 1], next)

Stream(r) == StreamEarly(r) \/ StreamFirst(r) \/ StreamNext(r)

Next == Writer \/ \E r \in Readers : SampleReady(r) \/ Stream(r)

\* A reader that follows the stream keeps calling: the dashboard re-arms its
\* stream tick every time it fires.  Nothing is assumed of the tailer.
Fairness == \A r \in Readers : WF_vars(SampleReady(r)) /\ WF_vars(Stream(r))

Spec == Init /\ [][Next]_vars /\ Fairness

------------------------------------------------------------------------------
(***************************************************************************)
(* Properties.                                                             *)
(***************************************************************************)

\* The array is in strictly increasing sequence order and below nextSeq,
\* whatever was trimmed or dropped: sort.Search in stream relies on it, and
\* the cursor is a position in the array only because of it.
SequenceOrder ==
  /\ \A i, j \in DOMAIN events : i < j => events[i].seq < events[j].seq
  /\ \A i \in DOMAIN events : events[i].seq < nextSeq

\* The side table, once started, has one row per event, and the row holds
\* what the handler returned with that event; before, no event has an id.
SideTableParallel ==
  /\ hasIds => /\ Len(ids) = Len(events)
               /\ \A i \in DOMAIN events : ids[i] = events[i].entry
  /\ ~hasIds => /\ ids = <<>>
                /\ \A i \in DOMAIN events : events[i].entry = NoId

\* Each stored event is shown under the id its own line gave it, although
\* the ids live in a side table that starts late, is padded, trimmed and
\* compacted beside the events (ids of appendBatch and dropFile, eventID).
IdentityKept ==
  /\ SideTableParallel
  /\ \A i \in DOMAIN events :
       EventID(i) = <<events[i].file,
                      IF events[i].entry = NoId THEN events[i].seq ELSE events[i].entry>>

\* The first batch is what sorting the whole store by time would give: every
\* event left out is older than every event shown, the batch is full unless
\* the store is smaller, and it is shown oldest first (newestHeap, stream).
FirstBatchStep ==
  \A r \in Readers : cursor[r] = 0 /\ cursor'[r] # 0 =>
    LET batch == delivered'[r]
        At(n) == CHOOSE i \in DOMAIN events : events[i].seq = batch[n].seq
        shown == {At(n) : n \in DOMAIN batch}
    IN  /\ \A i \in DOMAIN events \ shown : \A k \in shown : Older(i, k)
        /\ \A m, n \in DOMAIN batch : m < n => Older(At(m), At(n))
        /\ Len(batch) = IF Len(events) < StreamLimit THEN Len(events) ELSE StreamLimit

FirstBatchIsNewest == [][FirstBatchStep]_vars

(***************************************************************************)
(* The store implements the feed.  What is owed to a reader is what stands *)
(* at or after its cursor; a reader is attached once its cursor is set.    *)
(***************************************************************************)
LiveSeqs == {events[i].seq : i \in DOMAIN events}

Feed == INSTANCE EventFeed WITH
  Consumers  <- Readers,
  Capacity   <- MaxEvents,
  BatchLimit <- StreamLimit,
  LastSeq    <- MaxSeq,
  live       <- LiveSeqs,
  open       <- ~loading,
  attached   <- [r \in Readers |-> cursor[r] # 0],
  owed       <- [r \in Readers |-> IF cursor[r] = 0 THEN {}
                                   ELSE {s \in LiveSeqs : s >= cursor[r]}],
  got        <- [r \in Readers |-> [n \in DOMAIN delivered[r] |-> delivered[r][n].seq]]

\* Every behaviour of the store, its trims, drops and cursors included, is a
\* behaviour of the feed: nothing owed to a reader is skipped or repeated,
\* and a reader that keeps calling is eventually served.
ImplementsFeed == Feed!FeedSpec

\* No reader is handed an event twice: not by the first batch, chosen by time,
\* and a later one, chosen by cursor, nor by two later ones (stream).
NoEventTwice == Feed!NeverTwice

==============================================================================
