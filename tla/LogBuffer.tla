------------------------------ MODULE LogBuffer ------------------------------
(***************************************************************************)
(* LogBuffer (internal/ui/logs.go): a ring without wrap-around.  The live  *)
(* window is a suffix of an array of twice its bound; the oldest event is  *)
(* dropped by moving the head, and the window is copied back to the front  *)
(* when the array is full.                                                 *)
(***************************************************************************)
EXTENDS Naturals, Sequences

CONSTANTS
  EventIds,   \* non-empty IDs of events
  NoId,       \* the empty ID
  Contents,   \* what isDup reads of an event besides: time and message
  Blank,      \* the zero LogEvent
  BufferSize, \* log_buffer_size, the max NewLogBuffer is given
  Lookback,   \* how many of the last entries isDup looks at (8 in the code)
  MaxBatch    \* bound: events in one batch

ASSUME BufferAssumption ==
  /\ BufferSize \in Nat
  /\ Lookback \in Nat
  /\ NoId \notin EventIds
  /\ Blank \notin [id : EventIds \cup {NoId}, content : Contents]

LogEvent == [id : EventIds \cup {NoId}, content : Contents]

VARIABLES
  items,  \* the array up to its length
  head    \* index of the oldest live event, counted from 0

bufferVars == <<items, head>>

Max == IF BufferSize < 1 THEN 1 ELSE BufferSize

\* A buffer as a value, for Append runs through a batch event by event.
Buffer(array, first) == [items |-> array, head |-> first]

Live(b) == SubSeq(b.items, b.head + 1, Len(b.items))

\* By ID, or by time and message when the event has none.
IsDup(b, ev) ==
  \E i \in DOMAIN b.items :
    /\ i > b.head
    /\ i > Len(b.items) - Lookback
    /\ IF ev.id # NoId THEN b.items[i].id = ev.id ELSE b.items[i] = ev

\* Fault: the head stays where it was in the full array.
CompactKeepsHead(b) ==
  IF Len(b.items) = 2 * Max THEN Buffer(Live(b), b.head) ELSE b

\* A full array is replaced by its live window.
Compact(b) == IF Len(b.items) = 2 * Max THEN Buffer(Live(b), 0) ELSE b

\* Fault: the bound is compared one too late.
PushLate(b, ev) ==
  LET array == Append(b.items, ev)
  IN  IF Len(array) - b.head > Max + 1
        THEN Buffer([array EXCEPT ![b.head + 1] = Blank], b.head + 1)
        ELSE Buffer(array, b.head)

\* The new event, and the oldest one blanked and passed over if there are
\* too many now.
Push(b, ev) ==
  LET array == Append(b.items, ev)
  IN  IF Len(array) - b.head > Max
        THEN Buffer([array EXCEPT ![b.head + 1] = Blank], b.head + 1)
        ELSE Buffer(array, b.head)

AppendOne(b, ev) == IF IsDup(b, ev) THEN b ELSE Push(Compact(b), ev)

AppendBatch(batch) ==
  LET after[n \in 0..Len(batch)] ==
        IF n = 0 THEN Buffer(items, head) ELSE AppendOne(after[n - 1], batch[n])
  IN  /\ items' = after[Len(batch)].items
      /\ head' = after[Len(batch)].head

Batches == UNION {[1..n -> LogEvent] : n \in 1..MaxBatch}

BufferInit == items = <<>> /\ head = 0

\* adoptSource takes a new buffer.
NewLogBuffer == items' = <<>> /\ head' = 0

BufferNext == (\E batch \in Batches : AppendBatch(batch)) \/ NewLogBuffer

BufferSpec == BufferInit /\ [][BufferNext]_bufferVars

------------------------------------------------------------------------------
(***************************************************************************)
(* Properties.                                                             *)
(***************************************************************************)
live == Live(Buffer(items, head))

\* The type invariant.  The array never outgrows what NewLogBuffer allocated,
\* and the events that were dropped, and no others, are blank, so that they
\* can be collected (Append).
ArrayDiscipline ==
  /\ items \in Seq(LogEvent \cup {Blank})
  /\ head \in Nat
  /\ Len(items) <= 2 * Max
  /\ Len(items) - head <= Max
  /\ head <= Len(items)
  /\ \A i \in DOMAIN items : items[i] = Blank <=> i <= head

SameEvent(old, new) == IF new.id # NoId THEN old.id = new.id ELSE old = new

Log == INSTANCE BoundedLog WITH Size <- Max, Recent <- Lookback, Same <- SameEvent, log <- live

\* Heads, blanks and copies never show: the live window is what a plain
\* bounded list would hold (Append, live).
ImplementsLog == Log!LogSpec

==============================================================================
