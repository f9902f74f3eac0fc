---------------------------- MODULE FinalReview ----------------------------
(***************************************************************************)
(* The final review of a package: the owner approves in a browser what the *)
(* review page showed, seals it, has it admitted and a coding workspace    *)
(* prepared (artpkg_coding_handoff.py, the routes of                       *)
(* artpkg_intake_server.py and the seal of artpkg_sealed_handoff.py).      *)
(*                                                                         *)
(* Several tabs may be open.  What a tab shows was true when it was        *)
(* loaded; answers, the source file and the template may have changed      *)
(* since, also in another tab.  A request is one step: it holds the lock   *)
(* of the session (SessionLocks.tla).  Crashes inside a request are the    *)
(* business of Sealing.tla and CodingHandoff.tla.                          *)
(***************************************************************************)
EXTENDS Naturals

CONSTANTS
    Tab,         \* browser tabs with the review page
    Source,      \* contents source_pre_artifacts.md may have, or its absence
    Template,    \* contents the package template may have
    MaxChanges,  \* bound: changes of answers, derived answers, source, template
    MaxReviews   \* bound: final reviews recorded

ASSUME FinalReviewAssumption ==
    /\ Source # {} /\ Template # {}
    /\ MaxChanges \in Nat /\ MaxReviews \in Nat

VARIABLES
    doc,       \* answers.json without its final review
    review,    \* attestation.final_package_review in answers.json
    source,    \* source_pre_artifacts.md
    template,  \* the file at setup.template_path
    changes,   \* changes so far
    page,      \* what each tab shows
    sealed,    \* contents of the packages sealed so far
    receipts,  \* those with a complete Pipeline-A receipt
    prepared   \* those a coding workspace was prepared for

vars == <<doc, review, source, template, changes, page, sealed, receipts, prepared>>
files == <<doc, source, template, changes>>

-----------------------------------------------------------------------------
(***************************************************************************)
(* Data.  `rev` stands for everything in the document that a sealed        *)
(* package contains as it is; timestamps make each edit a new one.  `note` *)
(* is what approved_snapshot normalises away: who confirmed an answer of   *)
(* the script, and when.  A package is named by its content.               *)
(***************************************************************************)

Document == [rev : 0..MaxChanges, note : 0..MaxChanges]

Basis == [doc : Document, source : Source, template : Template]

\* `stamp` is the timestamp of the review, which is in the sealed answers.
Review == [basis : Basis, evidence : Source, stamp : 1..MaxReviews]
NoReview == [stamp |-> 0]

Content == [rev : 0..MaxChanges, review : Review \cup {NoReview}, template : Template]
NoContent == [rev |-> "none"]

\* A tab with a page: its basis, the package its document makes, whether the
\* review is current, and what the answer to its seal or preparation named.
Page == [basis : Basis, content : Content, current : BOOLEAN,
         outcome : Content \cup {NoContent}]
NoPage == [basis |-> "none"]

TypeOK ==
    /\ doc \in Document
    /\ review \in Review \cup {NoReview}
    /\ source \in Source /\ template \in Template
    /\ changes \in 0..MaxChanges
    /\ page \in [Tab -> Page \cup {NoPage}]
    /\ sealed \subseteq Content
    /\ receipts \subseteq sealed
    /\ prepared \subseteq receipts

-----------------------------------------------------------------------------
\* review_basis: neither the review itself nor `updated` is part of it.
ReviewBasis == [doc |-> doc, source |-> source, template |-> template]

\* review_is_current.
AnyReview(r) == r # NoReview
Current(r) == r # NoReview /\ r.basis = ReviewBasis /\ r.evidence = source

ReviewIsCurrent == Current(review)

\* build_handoff: the approved snapshot, rendered with the template of now.
Package(r) == [rev |-> doc.rev, review |-> r, template |-> template]

SealedContent == Package(review)

\* review_preview of a document that has the review r.
Preview(r) ==
    [basis |-> ReviewBasis, content |-> Package(r), current |-> Current(r),
     outcome |-> NoContent]

-----------------------------------------------------------------------------
Init ==
    /\ doc = [rev |-> 0, note |-> 0]
    /\ review = NoReview
    /\ source \in Source
    /\ template \in Template
    /\ changes = 0
    /\ page = [t \in Tab |-> NoPage]
    /\ sealed = {} /\ receipts = {} /\ prepared = {}

-----------------------------------------------------------------------------
(***************************************************************************)
(* What changes under the tabs.                                            *)
(***************************************************************************)

Change == changes < MaxChanges /\ changes' = changes + 1

\* Any request that answers, rejects, confirms or advances something.  The
\* review stays in the document, stale.
Edit ==
    /\ Change
    /\ doc' = [doc EXCEPT !.rev = changes']
    /\ UNCHANGED <<review, source, template, page, sealed, receipts, prepared>>

\* An answer of the script is confirmed.
ConfirmDerived ==
    /\ Change
    /\ doc' = [doc EXCEPT !.note = changes']
    /\ UNCHANGED <<review, source, template, page, sealed, receipts, prepared>>

ReplaceSource ==
    /\ Change
    /\ source' \in Source \ {source}
    /\ UNCHANGED <<doc, review, template, page, sealed, receipts, prepared>>

\* A new release of the program, installed while no request runs.
ReplaceTemplate ==
    /\ Change
    /\ template' \in Template \ {template}
    /\ UNCHANGED <<doc, review, source, page, sealed, receipts, prepared>>

-----------------------------------------------------------------------------
(***************************************************************************)
(* The requests of a tab.                                                  *)
(***************************************************************************)

\* GET /api/session/final-review: review_preview.
Show(t) ==
    /\ page' = [page EXCEPT ![t] = Preview(review)]
    /\ UNCHANGED <<files, review, sealed, receipts, prepared>>

\* POST /api/session/final-review: approve_review and the preview in answer.
Record(t, r) ==
    /\ review' = r
    /\ page' = [page EXCEPT ![t] = Preview(r)]
    /\ UNCHANGED <<files, sealed, receipts, prepared>>

NewReview(t) == [basis |-> page[t].basis, evidence |-> source, stamp |-> review.stamp + 1]

AlwaysAnew(t) ==
    /\ page[t] # NoPage
    /\ page[t].basis = ReviewBasis
    /\ review.stamp < MaxReviews
    /\ Record(t, NewReview(t))
Approve(t) ==
    /\ page[t] # NoPage
    /\ page[t].basis = ReviewBasis
    /\ \/ /\ ReviewIsCurrent
          /\ Record(t, review)
       \/ /\ ~ReviewIsCurrent
          /\ review.stamp < MaxReviews
          /\ Record(t, NewReview(t))

\* POST /api/session/seal from the review page, which names its basis.
AnyBasis(t) ==
    /\ page[t] # NoPage
    /\ ReviewIsCurrent
    /\ sealed' = sealed \cup {SealedContent}
    /\ page' = [page EXCEPT ![t].outcome = SealedContent]
    /\ UNCHANGED <<files, review, receipts, prepared>>
SealReviewed(t) ==
    /\ page[t] # NoPage
    /\ ReviewIsCurrent
    /\ page[t].basis = ReviewBasis
    /\ sealed' = sealed \cup {SealedContent}
    /\ page' = [page EXCEPT ![t].outcome = SealedContent]
    /\ UNCHANGED <<files, review, receipts, prepared>>

\* The same from a page without a review: no basis, no check.
SealUnreviewed ==
    /\ sealed' = sealed \cup {SealedContent}
    /\ UNCHANGED <<files, review, page, receipts, prepared>>

\* Pipeline-A accepts a sealed package, within the request or later.
Admit ==
    /\ \E c \in sealed \ receipts : receipts' = receipts \cup {c}
    /\ UNCHANGED <<files, review, page, sealed, prepared>>

\* POST /api/session/coding-prepare with the sealed id the page shows, which the
\* page offers only with a current review: the package of the current document
\* is sealed and admitted, is the one shown, has a final review in it, and the
\* review is current.
Prepare(t) ==
    /\ page[t] # NoPage /\ page[t].current
    /\ SealedContent \in sealed \cap receipts
    /\ page[t].content = SealedContent
    /\ ReviewIsCurrent
    /\ SealedContent.review # NoReview
    /\ prepared' = prepared \cup {SealedContent}
    /\ page' = [page EXCEPT ![t].outcome = SealedContent]
    /\ UNCHANGED <<files, review, sealed, receipts>>

Next ==
    \/ Edit \/ ConfirmDerived \/ ReplaceSource \/ ReplaceTemplate
    \/ \E t \in Tab : Show(t) \/ Approve(t) \/ SealReviewed(t) \/ Prepare(t)
    \/ SealUnreviewed \/ Admit

Spec == Init /\ [][Next]_vars

-----------------------------------------------------------------------------
\* What the coding workspace is made from was reviewed as it is: the review in
\* the package was given over exactly these answers, this template and the
\* source evidence that the package carries.
PreparedAsReviewed ==
    \A c \in prepared :
        /\ c.review # NoReview
        /\ c.review.basis.doc.rev = c.rev
        /\ c.review.basis.template = c.template
        /\ c.review.basis.source = c.review.evidence

\* A tab that is told that something was sealed or prepared had shown just that:
\* what another tab edited, approved or sealed in the meantime is not done in
\* its name.
DoneAsShown ==
    \A t \in Tab :
        page[t] # NoPage /\ page[t].outcome # NoContent =>
            /\ page[t].outcome.rev = page[t].basis.doc.rev
            /\ page[t].outcome.template = page[t].basis.template
            /\ page[t].outcome.review.evidence = page[t].basis.source

\* "Do not produce a new version for a repeated acknowledgement": a review that
\* replaces another, and with it makes another version of the package, was given
\* over something else.
AcknowledgedOnce ==
    [][review' # review /\ review # NoReview => review'.basis # review.basis]_vars
=============================================================================
