--------------------------- MODULE MCBlockFetcher ---------------------------
(* One toolkit at a time, run after run, with two fetch workers, one compute  *)
(* worker and a node that may be on either of two chains.  A run has up to     *)
(* three jobs; the channels to and from the compute worker hold two, so that   *)
(* both fill while a third job waits to be sent.                               *)
EXTENDS BlockFetcher
=============================================================================
