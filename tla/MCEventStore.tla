---------------------------- MODULE MCEventStore ----------------------------
(***************************************************************************)
(* EventStore on a small instance.  Two files whose lines come with and    *)
(* without an id start the side table late, trim it and compact it;        *)
(* MaxEvents = 3 keeps 2 of them at a trim, so that four sequence numbers  *)
(* give several trims; two timestamps tie and run against the order of     *)
(* ingestion; and StreamLimit = 2 cuts batches off.                        *)
(***************************************************************************)
EXTENDS EventStore

MixedTimes == {1, 2}

==============================================================================
