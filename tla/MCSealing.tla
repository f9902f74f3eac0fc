----------------------------- MODULE MCSealing -----------------------------
(***************************************************************************)
(* The runs of Sealing, and the symmetry of the one with several targets:  *)
(* the target bindings other than none are told apart by nothing.          *)
(***************************************************************************)
EXTENDS Sealing, TLC

Symmetry == Permutations(Target \ {NoTarget})
=============================================================================
