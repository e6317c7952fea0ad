-------------------------------- MODULE MCMmu --------------------------------
(* Small instances of Mmu for TLC. *)
EXTENDS Mmu, Naturals, TLC

MCIdx == 0..1

(* Two addresses with the middle table in common, but not the last. *)
FarVA == {<<0, 0, 0>>, <<0, 1, 0>>}

Symmetry == Permutations(Proc) \union Permutations(Frame)
=============================================================================
