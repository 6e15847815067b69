----------------------------- MODULE BoundedLog -----------------------------
(***************************************************************************)
(* What the log panel's buffer promises: the newest events in the order    *)
(* they came, at most Size of them, without the ones that were among the   *)
(* last few already.  There is no array, no head and no copying.           *)
(***************************************************************************)
EXTENDS Naturals, Sequences

CONSTANTS
  Batches,   \* what one call of Append may carry
  Size,      \* most events the log holds
  Recent,    \* how many of the newest events a new one is compared with
  Same(_, _) \* Same(old, new): new repeats old

VARIABLE log

Latest(s, n) == SubSeq(s, IF Len(s) > n THEN Len(s) - n + 1 ELSE 1, Len(s))

Repeats(s, ev) == \E i \in DOMAIN s : i > Len(s) - Recent /\ Same(s[i], ev)

Add(s, ev) == IF Repeats(s, ev) THEN s ELSE Latest(Append(s, ev), Size)

AddAll(s, batch) ==
  LET added[n \in 0..Len(batch)] == IF n = 0 THEN s ELSE Add(added[n - 1], batch[n])
  IN  added[Len(batch)]

LogInit == log = <<>>

LogNext ==
  \/ log' = <<>>
  \/ \E batch \in Batches : log' = AddAll(log, batch)

LogSpec == LogInit /\ [][LogNext]_log

==============================================================================
