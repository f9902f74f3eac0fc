---------------------------- MODULE SealHistory ----------------------------
(***************************************************************************)
(* What sealing promises to the owner of an intake session, with no files, *)
(* no locks and no crashes: a sealed package is an entry of an append-only *)
(* log.  An entry is an approved content together with the target it is    *)
(* submitted for; its version is its place in the log; sealing the same    *)
(* entry again designates the place it already has.  Only an entry of the  *)
(* log is ever reported to the owner as admitted.                          *)
(*                                                                         *)
(* Sealing.tla implements this module (its property ImplementsHistory).    *)
(***************************************************************************)
EXTENDS Naturals, Sequences

CONSTANT Entry          \* an approved content with its target binding

VARIABLES log,          \* the entries sealed so far, the oldest first
          current,      \* the place of the entry sealed last, 0 before any
          acknowledged  \* the places the owner was told are admitted

vars == <<log, current, acknowledged>>

Init ==
    /\ log = <<>>
    /\ current = 0
    /\ acknowledged = {}

\* A content that was never sealed for this target takes the next place.
Record(e) ==
    /\ \A place \in DOMAIN log : log[place] # e
    /\ log' = Append(log, e)
    /\ current' = Len(log')
    /\ UNCHANGED acknowledged

\* Sealing what is in the log already changes only which entry is current.
Designate(place) ==
    /\ current' = place
    /\ UNCHANGED <<log, acknowledged>>

\* The owner learns that an entry of the log was admitted.
Acknowledge(place) ==
    /\ acknowledged' = acknowledged \cup {place}
    /\ UNCHANGED <<log, current>>

Next ==
    \/ \E e \in Entry : Record(e)
    \/ \E place \in DOMAIN log : Designate(place) \/ Acknowledge(place)

Spec == Init /\ [][Next]_vars
=============================================================================
