----------------------------- MODULE MCDashboard -----------------------------
(***************************************************************************)
(* Dashboard on small instances.  With StreamLimit = 1 two events are      *)
(* enough for a batch that is cut off, and three commands on their way for *)
(* polls that overlap and overtake each other.                             *)
(***************************************************************************)
EXTENDS Dashboard

OneRange  == <<"1h">>
TwoRanges == <<"15m", "1h">>

==============================================================================
