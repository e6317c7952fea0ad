-------------------------------- MODULE MCFpu --------------------------------
(* A small instance of Fpu for TLC. *)
EXTENDS Fpu, TLC

Symmetry == Permutations(Proc)
=============================================================================
