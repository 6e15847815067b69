------------------------------ MODULE EventFeed ------------------------------
(***************************************************************************)
(* What the event store of a file source promises to the consumers of its  *)
(* stream, with no arrays, cursors or locks.                               *)
(*                                                                         *)
(* Events are numbered in ingestion order.  A consumer that attaches once  *)
(* the backfill is over receives a first batch of the events that are      *)
(* live then; from that moment on, every newly published event is owed to  *)
(* it, and is either handed over exactly once, in order, or withdrawn by   *)
(* the store (trimmed because it was among the oldest, or forgotten with   *)
(* its file) before the consumer got to it.                                *)
(***************************************************************************)
EXTENDS Naturals, Sequences, FiniteSets

CONSTANTS Consumers,    \* whoever follows the stream
          Capacity,     \* most events the store keeps
          BatchLimit,   \* most events one delivery carries
          LastSeq       \* bound: sequence numbers in use are 1..LastSeq

VARIABLES live,        \* sequence numbers of the events stored now
          nextSeq,     \* the number the next event will get
          open,        \* the backfill pass is over
          attached,    \* attached[c]: c has received its first batch
          owed,        \* owed[c]: live events c has still to receive
          got          \* got[c]: what c received, in the order it did

feedVars == <<live, nextSeq, open, attached, owed, got>>

FeedTypeOK ==
  /\ live \subseteq 1..LastSeq
  /\ nextSeq \in 1..(LastSeq + 1)
  /\ open \in BOOLEAN
  /\ attached \in [Consumers -> BOOLEAN]
  /\ owed \in [Consumers -> SUBSET (1..LastSeq)]
  /\ got \in [Consumers -> Seq(1..LastSeq)]

FeedInit ==
  /\ live = {}
  /\ nextSeq = 1
  /\ open = FALSE
  /\ attached = [c \in Consumers |-> FALSE]
  /\ owed = [c \in Consumers |-> {}]
  /\ got = [c \in Consumers |-> <<>>]

\* The events numbered from..to are published.  If that exceeds the capacity
\* the oldest ones go, and at least the newest one stays.
Publish(to) ==
  LET fresh == nextSeq..to
      all   == live \cup fresh
  IN  /\ to \in nextSeq..LastSeq
      /\ \E kept \in SUBSET all :
           /\ \A s \in all \ kept, k \in kept : s < k
           /\ to \in kept
           /\ Cardinality(kept) <= Capacity
           /\ Cardinality(all) <= Capacity => kept = all
           /\ live' = kept
           /\ owed' = [c \in Consumers |->
                         IF attached[c] THEN (owed[c] \cup fresh) \cap kept ELSE {}]
      /\ nextSeq' = to + 1
      /\ UNCHANGED <<open, attached, got>>

\* The store forgets some events: they are owed to nobody any more.
Withdraw(gone) ==
  /\ live' = live \ gone
  /\ owed' = [c \in Consumers |-> owed[c] \ gone]
  /\ UNCHANGED <<nextSeq, open, attached, got>>

Open ==
  /\ open' = TRUE
  /\ UNCHANGED <<live, nextSeq, attached, owed, got>>

\* The first batch: as many live events as a batch carries, none twice.
Attach(c) ==
  /\ open
  /\ ~attached[c]
  /\ attached' = [attached EXCEPT ![c] = TRUE]
  /\ \E chosen \in SUBSET live :
       /\ \/ chosen = live /\ Cardinality(live) <= BatchLimit
          \/ Cardinality(chosen) = BatchLimit
       /\ \E batch \in [1..Cardinality(chosen) -> chosen] :
            /\ \A s \in chosen : \E i \in DOMAIN batch : batch[i] = s
            /\ got' = [got EXCEPT ![c] = batch]
  /\ UNCHANGED <<live, nextSeq, open, owed>>

\* Every later batch: the oldest events still owed, in sequence order.
Deliver(c) ==
  /\ owed[c] # {}
  /\ \E due \in SUBSET owed[c] :
       /\ due # {}
       /\ \A s \in due, t \in owed[c] \ due : s < t
       /\ \/ due = owed[c] /\ Cardinality(due) <= BatchLimit
          \/ Cardinality(due) = BatchLimit
       /\ owed' = [owed EXCEPT ![c] = @ \ due]
       /\ \E batch \in [1..Cardinality(due) -> due] :
            /\ \A i, j \in DOMAIN batch : i < j => batch[i] < batch[j]
            /\ got' = [got EXCEPT ![c] = @ \o batch]
  /\ UNCHANGED <<live, nextSeq, open, attached>>

FeedNext ==
  \/ \E to \in 1..LastSeq : Publish(to)
  \/ \E gone \in SUBSET live : Withdraw(gone)
  \/ Open
  \/ \E c \in Consumers : Attach(c) \/ Deliver(c)

\* What may happen, and what must.
FeedSafety == FeedInit /\ [][FeedNext]_feedVars

FeedSpec ==
  /\ FeedSafety
  /\ \A c \in Consumers : WF_feedVars(Deliver(c)) /\ WF_feedVars(Attach(c))

------------------------------------------------------------------------------
(***************************************************************************)
(* What follows from the promise.                                          *)
(***************************************************************************)

\* No consumer receives an event twice: neither the first batch and a later
\* one, nor two later ones, overlap.
NeverTwice ==
  \A c \in Consumers : \A i, j \in DOMAIN got[c] : got[c][i] = got[c][j] => i = j

\* Only live events published after the consumer attached are owed to it,
\* and none of them has been handed over before.
OwedIsFresh ==
  \A c \in Consumers :
    /\ owed[c] \subseteq live
    /\ \A i \in DOMAIN got[c] : \A s \in owed[c] : got[c][i] < s

\* An attached consumer that keeps asking gets everything owed to it, unless
\* the store withdraws the event first.
EventuallyServed ==
  \A c \in Consumers : \A s \in 1..LastSeq : s \in owed[c] ~> s \notin owed[c]

==============================================================================
