--------------------------- MODULE MCFIFOScheduler ---------------------------
(* Instance of FIFOScheduler for TLC. *)
EXTENDS FIFOScheduler
=============================================================================
