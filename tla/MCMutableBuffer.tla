-------------------------- MODULE MCMutableBuffer --------------------------
(* Model checking instance of MutableBuffer. *)
EXTENDS MutableBuffer, TLC

Symmetry == Permutations(Writers) \cup Permutations(Readers)
=============================================================================
