---------------------------- MODULE LineFraming ----------------------------
(***************************************************************************)
(* How readFrom (internal/source/tail.go) cuts the bytes of one file into  *)
(* lines: through a read buffer of fixed size, while another program       *)
(* appends, resuming at an offset poll after poll, and giving up on a line *)
(* that is over the limit before its end is there to be seen.              *)
(*                                                                         *)
(* Bytes matter by their role only: "x" is text, "r" a carriage return,    *)
(* "n" a newline.  A line read is handed on, or counted as skipped, or     *)
(* blank.  Whether it is a JSON object, and what becomes of the events, is *)
(* Tailer's subject.                                                       *)
(***************************************************************************)
EXTENDS Naturals, Sequences, FiniteSets

CONSTANTS
  MaxLine,   \* max_line_bytes
  BufSize,   \* readBufSize
  MaxBytes   \* bound: bytes in the file

ASSUME FramingAssumption == MaxLine \in Nat /\ BufSize \in Nat \ {0} /\ MaxBytes \in Nat

Byte == {"x", "r", "n"}

VARIABLES
  bytes,     \* the file
  offset,    \* tailFile.offset
  skipping,  \* tailFile.skipping
  reading,   \* readFrom is running
  held,      \* length of long, the fragments at offset that await their end
  handled,   \* lines handed on in this generation: where, and how long
  skipped    \* lines counted as skipped in this generation

framingVars == <<bytes, offset, skipping, reading, held, handled, skipped>>

FramingInit ==
  /\ bytes = <<>> /\ offset = 0 /\ skipping = FALSE
  /\ reading = FALSE /\ held = 0 /\ handled = <<>> /\ skipped = 0

\* Another program appends, at any moment.
Write ==
  /\ Len(bytes) < MaxBytes
  /\ \E b \in Byte : bytes' = Append(bytes, b)
  /\ UNCHANGED <<offset, skipping, reading, held, handled, skipped>>

\* Fault: a skip under way goes on in the file that took this one's place.
StartOverSkipping ==
  /\ ~reading
  /\ bytes # <<>>
  /\ bytes' = <<>> /\ offset' = 0 /\ handled' = <<>> /\ skipped' = 0
  /\ UNCHANGED <<skipping, reading, held>>

\* The file is truncated or replaced, and pollOnce notices: a new generation.
StartOver ==
  /\ ~reading
  /\ bytes # <<>>
  /\ bytes' = <<>> /\ offset' = 0 /\ handled' = <<>> /\ skipped' = 0
  /\ skipping' = FALSE
  /\ UNCHANGED <<reading, held>>

\* pollOnce calls readFrom when there is more than was consumed.
Poll ==
  /\ ~reading
  /\ Len(bytes) > offset
  /\ reading' = TRUE
  /\ UNCHANGED <<bytes, offset, skipping, held, handled, skipped>>

------------------------------------------------------------------------------
(***************************************************************************)
(* ReadSlice and what readFrom makes of its fragment.                      *)
(***************************************************************************)
Unread == Len(bytes) - offset - held

\* The first newline is n bytes further on.
NewlineAt(n) ==
  /\ n \in 1..Unread
  /\ bytes[offset + held + n] = "n"
  /\ \A m \in 1..(n - 1) : bytes[offset + held + m] # "n"

NoNewlineIn(n) == \A m \in 1..n : bytes[offset + held + m] # "n"

\* A fragment of n bytes with its newline, if that is inside one buffer.
Complete(n) == n <= BufSize /\ NewlineAt(n)

\* A buffer full of bytes without a newline.
BufferFull(n) == n = BufSize /\ n <= Unread /\ NoNewlineIn(n)

\* All there is, without a newline; a read error leaves any part of that.
EndOfFile(n) == n < BufSize /\ n <= Unread /\ NoNewlineIn(n)

\* A partial line of n bytes is over the limit already.  Its last byte may be
\* the first half of CRLF.
OverLimit(n) ==
  \/ n > MaxLine + 1
  \/ n = MaxLine + 1 /\ bytes[offset + n] # "r"

\* The length of the line at s whose newline is its n-th byte, without the
\* carriage returns and the newline at its end (bytes.TrimRight).
Trimmed(s, n) ==
  CHOOSE t \in 0..(n - 1) :
    /\ \A m \in (t + 1)..(n - 1) : bytes[s + m] = "r"
    /\ t = 0 \/ bytes[s + t] # "r"

\* The over-limit line goes on: its bytes are dropped up to its newline.
Skip(n) ==
  /\ offset' = offset + n
  /\ skipping' = ~Complete(n)
  /\ reading' = ~EndOfFile(n)
  /\ UNCHANGED <<held, handled, skipped>>

\* Too long to be ingested: counted now, dropped from here on.
GiveUp(n) ==
  /\ skipped' = skipped + 1
  /\ offset' = offset + held + n
  /\ held' = 0
  /\ skipping' = TRUE
  /\ reading' = BufferFull(n)
  /\ UNCHANGED handled

\* The fragment is kept for the rest of its line; at the end of the file it
\* is left for a later poll.
Hold(n) ==
  /\ held' = IF BufferFull(n) THEN held + n ELSE 0
  /\ reading' = BufferFull(n)
  /\ UNCHANGED <<offset, skipping, handled, skipped>>

\* A complete line, by the size rule of processLine.
Line(n) ==
  LET length == Trimmed(offset, held + n)
  IN  /\ offset' = offset + held + n
      /\ held' = 0
      /\ handled' = IF length \in 1..MaxLine
                      THEN Append(handled, [at |-> offset, length |-> length]) ELSE handled
      /\ skipped' = IF length > MaxLine THEN skipped + 1 ELSE skipped
      /\ UNCHANGED <<skipping, reading>>

\* One turn of the loop.
Turn ==
  /\ reading
  /\ \E n \in 0..BufSize :
       /\ Complete(n) \/ BufferFull(n) \/ EndOfFile(n)
       /\ \/ skipping /\ Skip(n)
          \/ ~skipping /\ ~Complete(n) /\ OverLimit(held + n) /\ GiveUp(n)
          \/ ~skipping /\ ~Complete(n) /\ ~OverLimit(held + n) /\ Hold(n)
          \/ ~skipping /\ Complete(n) /\ Line(n)
  /\ UNCHANGED bytes

FramingNext == Write \/ StartOver \/ Poll \/ Turn

FramingSpec == FramingInit /\ [][FramingNext]_framingVars

------------------------------------------------------------------------------
(***************************************************************************)
(* Properties.                                                             *)
(***************************************************************************)

\* The lines consumed, by the bytes alone: <<start, size with newline>>.
LinesConsumed ==
  {l \in (0..offset) \X (1..offset) :
     /\ l[1] + l[2] <= offset
     /\ l[1] = 0 \/ bytes[l[1]] = "n"
     /\ bytes[l[1] + l[2]] = "n"
     /\ \A m \in 1..(l[2] - 1) : bytes[l[1] + m] # "n"}

LengthOf(l) == Trimmed(l[1], l[2])

TooLong == {l \in LinesConsumed : LengthOf(l) > MaxLine}
Wanted  == {l \in LinesConsumed : LengthOf(l) \in 1..MaxLine}

\* Lines that fit, but end in so many carriage returns that they do not seem
\* to until the newline is there.
Unclear == {l \in LinesConsumed : LengthOf(l) <= MaxLine /\ l[2] - 1 > MaxLine + 1}

HandledAs(l) == [at |-> l[1], length |-> LengthOf(l)]

\* "So an oversized line costs neither memory nor re-reads" (readFrom): what
\* is held of a line never exceeds the limit by more than a carriage return,
\* and between two polls nothing over the limit waits to be read again.
Frugal ==
  /\ held <= MaxLine + 1
  /\ skipping => held = 0
  /\ ~reading /\ ~skipping => held = 0

\* However the writes, the polls, the buffer's bounds and read errors cut the
\* file up: a line that fits is handed on once, whole and in order, and one
\* that does not is counted once, the one being skipped included.  Only on
\* lines with two carriage returns at the end does it depend on the cuts, and
\* it takes no more memory than that (readFrom, overLimit, processLine).
FramesExact ==
  LET got == {handled[i] : i \in DOMAIN handled}
  IN  /\ \A i, j \in DOMAIN handled : i < j => handled[i].at < handled[j].at
      /\ got \subseteq {HandledAs(l) : l \in Wanted}
      /\ \A l \in Wanted \ Unclear : HandledAs(l) \in got
      /\ LET certain == Cardinality(TooLong) + (IF skipping THEN 1 ELSE 0)
         IN  skipped \in certain..(certain + Cardinality({l \in Unclear : HandledAs(l) \notin got}))
      /\ Frugal

==============================================================================
