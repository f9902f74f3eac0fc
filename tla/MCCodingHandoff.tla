-------------------------- MODULE MCCodingHandoff --------------------------
(***************************************************************************)
(* Model checking of the two handoffs to the implementing side: the coding *)
(* workspace and the discovery work order.  They share nothing, so each is *)
(* run while the other has not begun.  Processes are interchangeable.      *)
(***************************************************************************)
EXTENDS CodingHandoff, V03Gateway, TLC

HandoffInit == Init /\ GatewayInit

HandoffNext ==
    \/ /\ Next
       /\ GatewayInit
       /\ UNCHANGED gatewayVars
    \/ /\ GatewayNext
       /\ Init
       /\ UNCHANGED vars

HandoffSpec == HandoffInit /\ [][HandoffNext]_<<vars, gatewayVars>>

Symmetry == Permutations(Proc)
=============================================================================
