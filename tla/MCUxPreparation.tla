-------------------------- MODULE MCUxPreparation --------------------------
(***************************************************************************)
(* Model checking of UxPreparation.                                        *)
(***************************************************************************)
EXTENDS UxPreparation
=============================================================================
