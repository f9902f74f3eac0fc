--------------------------- MODULE MCConditionals ---------------------------
(***************************************************************************)
(* Conditionals and the readiness maps made of it, as the run checks them. *)
(***************************************************************************)
EXTENDS Projection
=============================================================================
