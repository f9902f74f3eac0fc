------------------------- MODULE FinalReviewProofs -------------------------
(***************************************************************************)
(* Proofs about FinalReview, for any number of tabs, sources, templates,   *)
(* changes and reviews.  A package is prepared with a review that is       *)
(* current at that moment, so that package and review agree; that a tab    *)
(* had shown both rests on each page having been true when it was loaded.  *)
(***************************************************************************)
EXTENDS FinalReview, TLAPS

\* What a page shows fits together, and so does what it was told.
PageOk(t) ==
    /\ page[t].content.rev = page[t].basis.doc.rev
    /\ page[t].content.template = page[t].basis.template
    /\ page[t].current => page[t].content.review.evidence = page[t].basis.source
    /\ page[t].outcome # NoContent =>
          /\ page[t].outcome.rev = page[t].basis.doc.rev
          /\ page[t].outcome.template = page[t].basis.template
          /\ page[t].outcome.review.evidence = page[t].basis.source

EvidenceReviewed == review # NoReview => review.evidence = review.basis.source

Inv ==
    /\ TypeOK
    /\ EvidenceReviewed
    /\ \A t \in Tab : page[t] # NoPage => PageOk(t)
    /\ PreparedAsReviewed

-----------------------------------------------------------------------------
\* The basis of the review page is well typed.
LEMMA BasisTyped == TypeOK => ReviewBasis \in Basis
BY DEF TypeOK, ReviewBasis, Basis

\* So is the package that the document makes.
LEMMA PackageTyped ==
    ASSUME TypeOK, NEW r \in Review \cup {NoReview}
    PROVE  Package(r) \in Content
BY DEF TypeOK, Package, Content, Document

\* So is what a page shows.
LEMMA PreviewTyped ==
    ASSUME TypeOK, NEW r \in Review \cup {NoReview}
    PROVE  Preview(r) \in Page
<1>1. Current(r) \in BOOLEAN
  BY DEF Current
<1>2. QED
  BY <1>1, BasisTyped, PackageTyped DEF Preview, Page

\* A preview fits together, and names nothing done.
LEMMA PreviewOk ==
    ASSUME NEW r, NEW t \in Tab, page \in [Tab -> Page \cup {NoPage}],
           page' = [page EXCEPT ![t] = Preview(r)]
    PROVE  PageOk(t)'
<1>1. page'[t] = Preview(r)
  OBVIOUS
<1>2. Current(r) => r.evidence = source
  BY DEF Current
<1>3. QED
  BY <1>1, <1>2 DEF PageOk, Preview, Package, ReviewBasis

\* The initial states satisfy the invariant.
LEMMA InitInv == Init => Inv
<1> SUFFICES ASSUME Init PROVE Inv
  OBVIOUS
<1>1. TypeOK
  BY FinalReviewAssumption DEF Init, TypeOK, Document
<1>2. \A t \in Tab : page[t] = NoPage
  BY DEF Init
<1>3. PreparedAsReviewed
  BY DEF Init, PreparedAsReviewed
<1>4. EvidenceReviewed
  BY DEF Init, EvidenceReviewed
<1>5. QED
  BY <1>1, <1>2, <1>3, <1>4 DEF Inv

-----------------------------------------------------------------------------
\* Every step keeps the invariant.
LEMMA NextInv == Inv /\ [Next]_vars => Inv'
<1> SUFFICES ASSUME Inv, [Next]_vars PROVE Inv'
  OBVIOUS
<1> USE DEF Inv
<1>1. CASE Edit \/ ConfirmDerived \/ ReplaceSource \/ ReplaceTemplate
  <2>1. changes' \in 0..MaxChanges
    BY <1>1, FinalReviewAssumption
       DEF Edit, ConfirmDerived, ReplaceSource, ReplaceTemplate, Change, TypeOK
  <2>2. doc' \in Document /\ source' \in Source /\ template' \in Template
    BY <1>1, <2>1 DEF Edit, ConfirmDerived, ReplaceSource, ReplaceTemplate, TypeOK, Document
  <2>3. UNCHANGED <<review, page, sealed, receipts, prepared>>
    BY <1>1 DEF Edit, ConfirmDerived, ReplaceSource, ReplaceTemplate
  <2>4. QED
    BY <2>1, <2>2, <2>3 DEF TypeOK, PageOk, PreparedAsReviewed, EvidenceReviewed
<1>2. ASSUME NEW t \in Tab, Show(t) PROVE Inv'
  <2>1. Preview(review) \in Page
    BY PreviewTyped DEF TypeOK
  <2>2. TypeOK'
    BY <1>2, <2>1 DEF Show, TypeOK, files
  <2>3. PageOk(t)'
    BY <1>2, PreviewOk DEF Show, TypeOK
  <2>4. \A u \in Tab \ {t} : page'[u] = page[u]
    BY <1>2 DEF Show, TypeOK
  <2>5. QED
    BY <1>2, <2>2, <2>3, <2>4 DEF Show, PageOk, PreparedAsReviewed, EvidenceReviewed
<1>3. ASSUME NEW t \in Tab, Approve(t) PROVE Inv'
  <2>1. PICK r \in Review \cup {NoReview} : Record(t, r)
    <3>1. CASE ReviewIsCurrent
      BY <1>3, <3>1 DEF Approve, TypeOK
    <3>2. CASE ~ReviewIsCurrent
      <4>1. ReviewBasis \in Basis /\ source \in Source
        BY BasisTyped DEF TypeOK
      <4>2. review.stamp + 1 \in 1..MaxReviews
        BY <1>3, <3>2, FinalReviewAssumption DEF Approve, TypeOK, Review, NoReview
      <4>3. NewReview(t) \in Review
        BY <1>3, <4>1, <4>2 DEF Approve, NewReview, Review
      <4>4. QED
        BY <1>3, <3>2, <4>3 DEF Approve
    <3>3. QED
      BY <3>1, <3>2
  <2>2. Preview(r) \in Page
    BY PreviewTyped
  <2>3. TypeOK'
    BY <2>1, <2>2 DEF Record, TypeOK, files
  <2>4. PageOk(t)'
    BY <2>1, PreviewOk DEF Record, TypeOK
  <2>5. \A u \in Tab \ {t} : page'[u] = page[u]
    BY <2>1 DEF Record, TypeOK
  <2>6. EvidenceReviewed'
    BY <1>3 DEF Approve, Record, NewReview, ReviewBasis, EvidenceReviewed
  <2>7. QED
    BY <2>1, <2>3, <2>4, <2>5, <2>6 DEF Record, PageOk, PreparedAsReviewed
<1>4. ASSUME NEW t \in Tab, SealReviewed(t) \/ Prepare(t) PROVE Inv'
  <2>1. page[t] \in Page /\ page[t] # NoPage
    BY <1>4 DEF SealReviewed, Prepare, TypeOK
  <2>2. SealedContent \in Content
    BY PackageTyped DEF SealedContent, TypeOK
  <2>3. page' = [page EXCEPT ![t].outcome = SealedContent]
    BY <1>4 DEF SealReviewed, Prepare
  <2>4. /\ page'[t] = [page[t] EXCEPT !.outcome = SealedContent]
        /\ \A u \in Tab \ {t} : page'[u] = page[u]
        /\ page' \in [Tab -> Page \cup {NoPage}]
    BY <2>1, <2>2, <2>3 DEF TypeOK, Page
  <2>5. TypeOK'
    BY <1>4, <2>2, <2>4 DEF SealReviewed, Prepare, TypeOK, files
  <2>6. /\ SealedContent.rev = doc.rev /\ SealedContent.template = template
        /\ SealedContent.review = review
    BY DEF SealedContent, Package
  <2>7. /\ review # NoReview /\ review.basis = ReviewBasis /\ review.evidence = source
    BY <1>4 DEF SealReviewed, Prepare, ReviewIsCurrent, Current
  <2>8. /\ SealedContent.rev = page[t].basis.doc.rev
        /\ SealedContent.template = page[t].basis.template
        /\ SealedContent.review.evidence = page[t].basis.source
    <3>1. CASE SealReviewed(t)
      BY <3>1, <2>6, <2>7 DEF SealReviewed, ReviewBasis
    <3>2. CASE Prepare(t)
      BY <3>2, <2>1 DEF Prepare, PageOk
    <3>3. QED
      BY <1>4, <3>1, <3>2
  <2>9. PageOk(t)'
    BY <2>1, <2>4, <2>8 DEF PageOk, Page
  <2>10. PreparedAsReviewed'
    BY <1>4, <2>6, <2>7 DEF SealReviewed, Prepare, PreparedAsReviewed, ReviewBasis
  <2>11. EvidenceReviewed'
    BY <1>4 DEF SealReviewed, Prepare, EvidenceReviewed
  <2>12. QED
    BY <2>4, <2>5, <2>9, <2>10, <2>11 DEF PageOk
<1>5. CASE SealUnreviewed
  <2>1. SealedContent \in Content
    BY PackageTyped DEF SealedContent, TypeOK
  <2>2. QED
    BY <1>5, <2>1 DEF SealUnreviewed, TypeOK, files, PageOk, PreparedAsReviewed, EvidenceReviewed
<1>6. CASE Admit
  BY <1>6 DEF Admit, TypeOK, files, PageOk, PreparedAsReviewed, EvidenceReviewed
<1>7. CASE UNCHANGED vars
  BY <1>7 DEF vars, files, TypeOK, PageOk, PreparedAsReviewed, EvidenceReviewed
<1>8. QED
  BY <1>1, <1>2, <1>3, <1>4, <1>5, <1>6, <1>7 DEF Next

\* Every reachable state satisfies the invariant.
THEOREM Invariance == Spec => []Inv
BY InitInv, NextInv, PTL DEF Spec

-----------------------------------------------------------------------------
\* Every reachable state is well typed: what is prepared is admitted, and what
\* is admitted is sealed.
THEOREM TypeCorrect == Spec => []TypeOK
<1>1. Inv => TypeOK
  BY DEF Inv
<1>2. QED
  BY <1>1, Invariance, PTL

\* A coding workspace is made only from a package whose review was given over
\* exactly its answers, template and source evidence.
THEOREM WorkspaceReviewed == Spec => []PreparedAsReviewed
<1>1. Inv => PreparedAsReviewed
  BY DEF Inv
<1>2. QED
  BY <1>1, Invariance, PTL

\* What is sealed or prepared at the request of a tab is what that tab showed.
THEOREM ShownAndDone == Spec => []DoneAsShown
<1>1. Inv => DoneAsShown
  BY DEF Inv, DoneAsShown, PageOk
<1>2. QED
  BY <1>1, Invariance, PTL

\* A review replaces another only if it was given over something else.
THEOREM NoEmptyReview == Spec => AcknowledgedOnce
<1>1. Inv /\ [Next]_vars /\ review' # review /\ review # NoReview
          => review'.basis # review.basis
  <2> SUFFICES ASSUME Inv, [Next]_vars, review' # review, review # NoReview
               PROVE  review'.basis # review.basis
    OBVIOUS
  <2>1. PICK t \in Tab : Approve(t)
    BY DEF Next, vars, files, Edit, ConfirmDerived, ReplaceSource, ReplaceTemplate, Show,
           SealReviewed, Prepare, SealUnreviewed, Admit
  <2>2. /\ page[t].basis = ReviewBasis /\ ~ReviewIsCurrent
        /\ review' = NewReview(t)
    BY <2>1 DEF Approve, Record
  <2>3. review.evidence = review.basis.source
    BY DEF Inv, EvidenceReviewed
  <2>4. QED
    BY <2>2, <2>3 DEF NewReview, ReviewIsCurrent, Current, ReviewBasis
<1>2. QED
  BY <1>1, Invariance, PTL DEF Spec, AcknowledgedOnce
=============================================================================
