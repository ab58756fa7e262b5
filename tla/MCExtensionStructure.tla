------------------------ MODULE MCExtensionStructure ------------------------
(***************************************************************************)
(* ExtensionStructure for TLC.  The bounds let every policy grow a third   *)
(* level: tombstones and restarts make tiering and leveling branch, and    *)
(* BSM doubles its levels.                                                 *)
(***************************************************************************)
EXTENDS ExtensionStructure

MCMaxRecords == [l \in Layouts |->
  CASE l = "TEIRING" -> 10 [] l = "LEVELING" -> 11 [] OTHER -> 20]
=============================================================================
