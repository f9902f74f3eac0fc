----------------------------- MODULE MCRecords -----------------------------
(***************************************************************************)
(* The run of Records.                                                     *)
(***************************************************************************)
EXTENDS Records, TLC

\* A second requirement can be made; PH-001 is the one phase.
Numbers == "FR" :> 2 @@ "PH" :> 1
=============================================================================
