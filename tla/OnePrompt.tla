----------------------------- MODULE OnePrompt -----------------------------
(***************************************************************************)
(* What the DSH bridge promises for one admitted package: the review       *)
(* prompt is put to the model at most once, and only after the decision to *)
(* do so was made; the outcome that is reported is final, and "accepted"   *)
(* is reported only of a prompt that was put.                              *)
(*                                                                         *)
(* DshBridge.tla implements this module (its property ImplementsOnePrompt).*)
(***************************************************************************)

VARIABLES decided,   \* the prompt is, or may be, on its way
          queued,    \* the prompt stands in the review session
          outcome    \* what the owner can read of it

vars == <<decided, queued, outcome>>

Init ==
    /\ decided = FALSE
    /\ queued = FALSE
    /\ outcome = "none"

Decide ==
    /\ ~decided
    /\ decided' = TRUE
    /\ UNCHANGED <<queued, outcome>>

\* At any time after the decision, also after the outcome was reported as
\* uncertain, and only once.
Queue ==
    /\ decided
    /\ ~queued
    /\ queued' = TRUE
    /\ UNCHANGED <<decided, outcome>>

Conclude(result) ==
    /\ decided
    /\ outcome = "none"
    /\ result = "accepted" => queued
    /\ outcome' = result
    /\ UNCHANGED <<decided, queued>>

Next ==
    \/ Decide
    \/ Queue
    \/ \E result \in {"accepted", "uncertain"} : Conclude(result)

Spec == Init /\ [][Next]_vars
=============================================================================
