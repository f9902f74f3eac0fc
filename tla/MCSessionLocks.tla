--------------------------- MODULE MCSessionLocks ---------------------------
(***************************************************************************)
(* Model checking of SessionLocks under the making of sessions.  Threads,  *)
(* uploads and lock objects are interchangeable, but a liveness property   *)
(* is checked as well, so that no symmetry is used.                        *)
(***************************************************************************)
EXTENDS IntakeCreation
=============================================================================
