---------------------------- MODULE MCDurability ----------------------------
(* Durability for TLC. *)
EXTENDS Durability, TLC

Symmetry == Permutations(Clients)
=============================================================================
