----------------------------- MODULE OneHandoff -----------------------------
(***************************************************************************)
(* What the preparation of a coding handoff promises the owner: it goes    *)
(* one way, with one configuration.  A session that is there before the    *)
(* handoff was recorded is never adopted; the session of the handoff is    *)
(* made once and given the recorded model; and READY, which is final, is   *)
(* told of nothing else.                                                   *)
(*                                                                         *)
(* CodingHandoff.tla implements this module (its property                  *)
(* ImplementsOneHandoff).                                                  *)
(***************************************************************************)

CONSTANT Config

VARIABLES status,    \* what the record says
          chosen,    \* the configuration it names
          session,   \* the DSH session with the id of the handoff
          model      \* the model selected in it

vars == <<status, chosen, session, model>>

Init ==
    /\ status = "NONE"
    /\ chosen \in Config
    /\ session \in {"absent", "foreign"}
    /\ model \in Config

Choose(c) ==
    /\ status = "NONE" /\ session = "absent"
    /\ status' = "PREPARING"
    /\ chosen' = c
    /\ UNCHANGED <<session, model>>

Create ==
    /\ status = "PREPARING" /\ session = "absent"
    /\ session' = "ours"
    /\ UNCHANGED <<status, chosen, model>>

Select ==
    /\ status = "PREPARING" /\ session = "ours"
    /\ model' = chosen
    /\ UNCHANGED <<status, chosen, session>>

Finish ==
    /\ status = "PREPARING" /\ session = "ours" /\ model = chosen
    /\ status' = "READY"
    /\ UNCHANGED <<chosen, session, model>>

Next == (\E c \in Config : Choose(c)) \/ Create \/ Select \/ Finish

Spec == Init /\ [][Next]_vars
=============================================================================
