------------------------- MODULE MCConditionalsSkip -------------------------
(***************************************************************************)
(* Conditionals by itself, without the projection.                         *)
(***************************************************************************)
EXTENDS Conditionals
=============================================================================
