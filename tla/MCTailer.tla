------------------------------ MODULE MCTailer ------------------------------
(***************************************************************************)
(* Tailer on small instances: what is on disk at the start.                *)
(***************************************************************************)
EXTENDS Tailer

Short(l)    == <<[line |-> l, part |-> "short"]>>
Long(l)     == <<[line |-> l, part |-> "head"], [line |-> l, part |-> "tail"]>>
HalfLong(l) == <<[line |-> l, part |-> "head"]>>

OnePath    == <<"a">>
TwoPaths   == <<"a", "b">>

\* The paths name the inodes 1, 2, ... in their order.
Linked  == [p \in Paths |-> CHOOSE n \in DOMAIN PathOrder : PathOrder[n] = p]
Nowhere == [p \in Paths |-> NoFile]

NoInodes   == <<>>
OneLine    == <<Short(1)>>
ThreeLines == <<Short(1) \o Long(2) \o Short(3)>>

\* Two files, one of them ending in a partial line.
TwoFiles == <<Short(1), Short(2) \o HalfLong(3)>>

==============================================================================
