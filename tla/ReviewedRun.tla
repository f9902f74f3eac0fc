---------------------------- MODULE ReviewedRun ----------------------------
(***************************************************************************)
(* What the UX preparation promises the owner of a package: an upload is   *)
(* approved once, over the package that is current; it gets one run, which *)
(* begins and is certified only while that package is current; and runs do *)
(* not overlap.  An attempt that failed is not repeated.                   *)
(*                                                                         *)
(* UxPreparation.tla implements this module (its property                  *)
(* ImplementsReviewedRun).                                                 *)
(***************************************************************************)

CONSTANTS Upload, Source, NoSource, Proposal, NoReview

VARIABLES current,     \* the package that is sealed
          reviewed,    \* what was approved for each upload
          tried,       \* uploads that had their run
          running,     \* the run in progress
          certified    \* what a receipt was given for

vars == <<current, reviewed, tried, running, certified>>

Init ==
    /\ current = NoSource
    /\ reviewed = [u \in Upload |-> NoReview]
    /\ tried = {}
    /\ running = {}
    /\ certified = [u \in Upload |-> NoReview]

Approved(u) == reviewed[u] # NoReview /\ reviewed[u].source = current

Supersede(s) ==
    /\ current' = s
    /\ UNCHANGED <<reviewed, tried, running, certified>>

Approve(u, p) ==
    /\ running = {} /\ current # NoSource
    /\ reviewed[u] = NoReview
    /\ reviewed' = [reviewed EXCEPT ![u] = [source |-> current, proposal |-> p]]
    /\ UNCHANGED <<current, tried, running, certified>>

Begin(u) ==
    /\ running = {} /\ u \notin tried
    /\ Approved(u)
    /\ tried' = tried \cup {u}
    /\ running' = {u}
    /\ UNCHANGED <<current, reviewed, certified>>

Certify(u) ==
    /\ u \in running
    /\ Approved(u)
    /\ certified[u] = NoReview
    /\ certified' = [certified EXCEPT ![u] = reviewed[u]]
    /\ running' = {}
    /\ UNCHANGED <<current, reviewed, tried>>

Stop ==
    /\ running' = {}
    /\ UNCHANGED <<current, reviewed, tried, certified>>

Next ==
    \/ \E s \in Source : Supersede(s)
    \/ \E u \in Upload : (\E p \in Proposal : Approve(u, p)) \/ Begin(u) \/ Certify(u)
    \/ Stop

Spec == Init /\ [][Next]_vars
=============================================================================
