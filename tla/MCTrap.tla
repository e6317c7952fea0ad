-------------------------------- MODULE MCTrap -------------------------------
(* A small instance of Trap for TLC. *)
EXTENDS Trap, TLC

MCAddr == 0 .. 1

Symmetry == Permutations(Proc)
=============================================================================
