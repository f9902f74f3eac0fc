---------------------------- MODULE MCDshBridge ----------------------------
(***************************************************************************)
(* DshBridge as the runs check it; the .cfg files give the constants.      *)
(***************************************************************************)
EXTENDS DshBridge
=============================================================================
