--------------------------- MODULE MCEpochManager ---------------------------
(* Model checking instance of EpochManager. *)
EXTENDS EpochManager

MCModes ==
  {[serial |-> FALSE, ops |-> {"insert", "query", "scan", "await"},
    hwm |-> 2, lwm |-> 1, max_tail |-> 3],
   [serial |-> FALSE, ops |-> {"insert", "count", "await"},
    hwm |-> 2, lwm |-> 1, max_tail |-> 3],
   [serial |-> TRUE, ops |-> AllOps, hwm |-> 3, lwm |-> 2, max_tail |-> 9]}
=============================================================================
