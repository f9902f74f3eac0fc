--------------------------- MODULE MCFinalReview ---------------------------
(***************************************************************************)
(* Model checking of FinalReview.  Tabs, sources and templates are         *)
(* interchangeable: no definition singles one out.                         *)
(***************************************************************************)
EXTENDS FinalReview, TLC

Interchangeable == Permutations(Tab) \cup Permutations(Source) \cup Permutations(Template)
=============================================================================
