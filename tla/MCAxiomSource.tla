---------------------------- MODULE MCAxiomSource ----------------------------
(***************************************************************************)
(* AxiomSource on a small instance: rows at four times, some of them tied, *)
(* with a group, without one in three ways, and with levels in capitals.   *)
(***************************************************************************)
EXTENDS AxiomSource

Row(time, level, message, group, cost) ==
  [time |-> time, level |-> level, message |-> message, group |-> group, cost |-> cost]

RowsAtEdges ==
  {Row(1, "error", "m", "g", 1), Row(5, "error", "m", "g", -1), Row(6, "warn", "m", Null, 2),
   Row(6, "info", "GET", "", Null), Row(6, "ERROR", "n", "(none)", 1), Row(7, "error", "n", "h", 2),
   Row(8, "info", "GET", "g", 3)}

==============================================================================
