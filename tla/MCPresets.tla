------------------------------ MODULE MCPresets ------------------------------
(***************************************************************************)
(* Presets on a small instance: a source that hides debug at its start and *)
(* has fields to pin, and one without either; debug may be hidden, info not. *)
(***************************************************************************)
EXTENDS Presets

TwoSources == {[seed |-> {"debug"}, pins |-> TRUE], [seed |-> {}, pins |-> FALSE]}

Row(level, texts, client, pin) == [level |-> level, texts |-> texts, client |-> client, pin |-> pin]

FourRows ==
  <<Row("debug", {"s"}, "c", TRUE), Row("info", {"s"}, "", TRUE),
    Row("info", {}, "c", FALSE), Row("info", {"s"}, "c", TRUE)>>

OldPreset == [search |-> "s", client |-> "", hide |-> {"debug"}]

\* No legacy file, one that leaves a gap, one that leaves one slot, and a
\* broken one.
LegacyFiles == {NoFile, [s \in {3} |-> OldPreset], [s \in {2, 3} |-> OldPreset], Broken}

==============================================================================
