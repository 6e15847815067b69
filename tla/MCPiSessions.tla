---------------------------- MODULE MCPiSessions ----------------------------
(***************************************************************************)
(* PiSessions on a small instance.  An hour is 2 units of time, a day 4,   *)
(* the window of the panel 3, and a call is an orphan after 1; the present *)
(* is 7.                                                                   *)
(***************************************************************************)
EXTENDS PiSessions, TLC

Basename == [c \in {"x/a", "b"} |-> IF c = "b" THEN "b" ELSE "a"]

Entry(type, ts) ==
  [type |-> type, cwd |-> Absent, ts |-> ts, calls |-> {}, call |-> Absent, failed |-> FALSE,
   tokens |-> Absent, cost |-> Absent, model |-> ""]

Header(cwd) == [Entry("session", 3) EXCEPT !.cwd = cwd]

\* Calls with and without an id, one of them made twice, a result, and a line
\* of every other kind that Agents counts.
Entries ==
  {[Entry("assistant", 4) EXCEPT !.calls = {"i", ""}, !.tokens = 7, !.cost = 2, !.model = "m"],
   [Entry("assistant", 6) EXCEPT !.calls = {"i", "j"}, !.failed = TRUE, !.cost = 1],
   [Entry("toolResult", Absent) EXCEPT !.call = "i", !.failed = TRUE],
   [Entry("router", 6) EXCEPT !.failed = TRUE],
   [Entry("compaction", 5) EXCEPT !.cost = 1]}

\* Two agents, and a file whose first line is none.
Headers == {Header("x/a"), Header("b"), Entry("blank", 3)}

FileSymmetry == Permutations(Files)

==============================================================================
