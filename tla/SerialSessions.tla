--------------------------- MODULE SerialSessions ---------------------------
(***************************************************************************)
(* What the intake server promises of a session, whatever its locks are:   *)
(* its requests take turns.  Only the request whose turn it is puts an     *)
(* edit, its own, into the answers, takes none out, and tells of its edit  *)
(* only when it is in there.  Nothing is promised of a session that two    *)
(* uploads share.                                                          *)
(*                                                                         *)
(* IntakeCreation.tla implements this module (its property                 *)
(* ImplementsSerialSessions).                                              *)
(***************************************************************************)

CONSTANTS Session, Client, Edit

VARIABLES turns,    \* the turns that are taken of each session
          kept,     \* the edits in its answers
          told,     \* the edits that were acknowledged
          shared    \* two uploads have it

vars == <<turns, kept, told, shared>>

Turn == [by : Client, edit : Edit]

Init ==
    /\ turns = [s \in Session |-> {}]
    /\ kept = [s \in Session |-> {}]
    /\ told = [s \in Session |-> {}]
    /\ shared = [s \in Session |-> FALSE]

Begin(s, turn) ==
    /\ turns[s] = {}
    /\ turns' = [turns EXCEPT ![s] = {turn}]
    /\ UNCHANGED <<kept, told, shared>>

Keep(s, turn) ==
    /\ turn \in turns[s]
    /\ kept' = [kept EXCEPT ![s] = @ \cup {turn.edit}]
    /\ UNCHANGED <<turns, told, shared>>

Tell(s, turn) ==
    /\ turn \in turns[s]
    /\ shared[s] \/ turn.edit \in kept[s]
    /\ told' = [told EXCEPT ![s] = @ \cup {turn.edit}]
    /\ UNCHANGED <<turns, kept, shared>>

End(s, turn) ==
    /\ turn \in turns[s]
    /\ turns' = [turns EXCEPT ![s] = @ \ {turn}]
    /\ UNCHANGED <<kept, told, shared>>

\* The server is started again.
EndAll ==
    /\ turns' = [s \in Session |-> {}]
    /\ UNCHANGED <<kept, told, shared>>

Share(s) ==
    /\ shared' = [shared EXCEPT ![s] = TRUE]
    /\ UNCHANGED <<turns, kept, told>>

\* What becomes of a shared session's answers, by an upload or by a request
\* that read them before.
Disturb(s) ==
    /\ shared[s]
    /\ \E edits \in SUBSET Edit : kept' = [kept EXCEPT ![s] = edits]
    /\ UNCHANGED <<turns, told, shared>>

Next ==
    \/ \E s \in Session : Share(s) \/ Disturb(s)
    \/ \E s \in Session, turn \in Turn :
          Begin(s, turn) \/ Keep(s, turn) \/ Tell(s, turn) \/ End(s, turn)
    \/ EndAll

Spec == Init /\ [][Next]_vars
=============================================================================
