--------------------------- MODULE UxPreparation ---------------------------
(***************************************************************************)
(* Preparing the UX package of a session (artpkg_ux_preparation.py).       *)
(*                                                                         *)
(* The owner uploads a proposal written against an export of the           *)
(* requirements, reviews it against the sealed package, and has the local  *)
(* renderer run over it.  Everything is bound to digests, and nothing is   *)
(* locked between these requests: answers change and packages are sealed   *)
(* again at any time.  The run itself is a sequence of steps, because its  *)
(* subprocesses take minutes and may fail; it holds the session lock and   *)
(* the lock of the UX custody, which keep out requests of this server, and *)
(* not other processes that edit or seal the session.                      *)
(***************************************************************************)
EXTENDS Naturals

CONSTANTS
    Items,      \* contents the source snapshot may have
    Upload,     \* ids of uploads
    MaxEdits    \* bound: changes of the answer document

ASSUME UxAssumption ==
    /\ Items # {} /\ Upload # {}
    /\ MaxEdits \in Nat

VARIABLES
    doc,      \* answers.json
    seal,     \* the package that the custody ledger names current
    upload,   \* proposal.md and upload.json of each upload
    shown,    \* the basis of its last preview
    review,   \* review.json: the basis that was reviewed
    input,    \* the input directory
    output,   \* the output directory
    receipt,  \* receipt.json
    run       \* the run in progress

vars == <<doc, seal, upload, shown, review, input, output, receipt, run>>
private == <<upload, shown, review>>
products == <<input, output, receipt>>

-----------------------------------------------------------------------------
(***************************************************************************)
(* Data.  `rev` is the document, timestamps and all, which is what a       *)
(* package is sealed from; `items` is what snapshot() keeps of it, answers *)
(* and records without reviewers and timestamps, and what can come back.   *)
(***************************************************************************)

Document == [rev : 0..MaxEdits, items : Items]
NoSeal == [rev |-> "none"]

\* A proposal states the snapshot it was written against, row by row, and may
\* name the sealed package or say UNKNOWN, here {}; `complete` if its scope
\* accounts for all items.  `snapshot` is what the document was when it came.
Named == {{}} \cup {{r} : r \in 0..MaxEdits}
Proposal == [stated : Items, sealed : Named, complete : BOOLEAN, snapshot : Items]
NoUpload == [stated |-> "none"]

Basis == [source : Document, proposal : Proposal]
NoBasis == [source |-> "none"]

\* A directory holds what was made from a basis; "partial" while it is written.
Directory == [of : Basis, state : {"partial", "done"}]
NoDirectory == [state |-> "absent"]

At == {"idle", "begun", "proposing", "rendering", "checking"}

TypeOK ==
    /\ doc \in Document
    /\ seal \in Document \cup {NoSeal}
    /\ upload \in [Upload -> Proposal \cup {NoUpload}]
    /\ shown \in [Upload -> Basis \cup {NoBasis}]
    /\ review \in [Upload -> Basis \cup {NoBasis}]
    /\ input \in [Upload -> Directory \cup {NoDirectory}]
    /\ output \in [Upload -> Directory \cup {NoDirectory}]
    /\ receipt \in [Upload -> Basis \cup {NoBasis}]
    /\ \A u \in Upload : review[u] # NoBasis => review[u].proposal = upload[u]
    /\ run \in [at : At, upload : Upload, doc : Document]

-----------------------------------------------------------------------------
(***************************************************************************)
(* Checks, over the document d that the request has loaded.                *)
(***************************************************************************)

\* _load: a proposal is stale when the snapshot moved, and is not when it came
\* back.
Loads(u, d) == upload[u] # NoUpload /\ d.items = upload[u].snapshot

\* verified_source: the current package is this document's.
SourceVerified(d) == seal = d

\* _basis.
AnyProposal(u, d) == Loads(u, d) /\ SourceVerified(d)
HasBasis(u, d) ==
    /\ Loads(u, d)
    /\ SourceVerified(d)
    /\ upload[u].stated = seal.items
    /\ upload[u].sealed \subseteq {seal.rev}

BasisOf(u) == [source |-> seal, proposal |-> upload[u]]

\* _account.
Accounted(b) == b.proposal.complete

\* _reviewed.
Reviewed(u, d) ==
    /\ HasBasis(u, d)
    /\ review[u] = BasisOf(u)
    /\ Accounted(review[u])

-----------------------------------------------------------------------------
Idle == [at |-> "idle", upload |-> CHOOSE u \in Upload : TRUE,
         doc |-> [rev |-> 0, items |-> CHOOSE i \in Items : TRUE]]

Init ==
    /\ \E i \in Items : doc = [rev |-> 0, items |-> i]
    /\ seal = NoSeal
    /\ upload = [u \in Upload |-> NoUpload]
    /\ shown = [u \in Upload |-> NoBasis]
    /\ review = [u \in Upload |-> NoBasis]
    /\ input = [u \in Upload |-> NoDirectory]
    /\ output = [u \in Upload |-> NoDirectory]
    /\ receipt = [u \in Upload |-> NoBasis]
    /\ run = Idle

-----------------------------------------------------------------------------
(***************************************************************************)
(* What other requests, or other processes, do to the session.             *)
(***************************************************************************)

\* An edit changes the items, or only confirms something.
Edit ==
    /\ doc.rev < MaxEdits
    /\ \E i \in Items : doc' = [rev |-> doc.rev + 1, items |-> i]
    /\ UNCHANGED <<seal, private, products, run>>

\* seal_session makes the package of the document current.
Seal ==
    /\ seal' = doc
    /\ UNCHANGED <<doc, private, products, run>>

-----------------------------------------------------------------------------
(***************************************************************************)
(* Requests before the run.  Each holds both locks, and is one step.       *)
(***************************************************************************)

Free == run.at = "idle"

\* POST ux-upload: any proposal that parses, under a new id.
ReceiveUpload(u) ==
    /\ Free /\ upload[u] = NoUpload
    /\ \E stated \in Items, sealed \in Named, complete \in BOOLEAN :
          upload' = [upload EXCEPT ![u] =
              [stated |-> stated, sealed |-> sealed, complete |-> complete,
               snapshot |-> doc.items]]
    /\ UNCHANGED <<doc, seal, shown, review, products, run>>

\* POST ux-resolve: the answers to the UX questions, given anew or again.
Resolve(u) ==
    /\ Free /\ Loads(u, doc)
    /\ doc.rev < MaxEdits
    /\ \E i \in Items : doc' = [rev |-> doc.rev + 1, items |-> i]
    /\ UNCHANGED <<seal, private, products, run>>

\* GET op=preview.
Preview(u) ==
    /\ Free /\ HasBasis(u, doc)
    /\ shown' = [shown EXCEPT ![u] = BasisOf(u)]
    /\ UNCHANGED <<doc, seal, upload, review, products, run>>

\* POST ux-review, naming the basis that was shown.
Review(u) ==
    /\ Free /\ HasBasis(u, doc)
    /\ shown[u] = BasisOf(u)
    /\ review[u] = NoBasis
    /\ Accounted(shown[u])
    /\ review' = [review EXCEPT ![u] = shown[u]]
    /\ UNCHANGED <<doc, seal, upload, shown, products, run>>

-----------------------------------------------------------------------------
(***************************************************************************)
(* POST ux-run.  The document is the one that was loaded with the session. *)
(***************************************************************************)

\* The directories must be new: a run that failed is not run again.
Start(u) ==
    /\ Free /\ Reviewed(u, doc)
    /\ input[u] = NoDirectory /\ output[u] = NoDirectory
    /\ input' = [input EXCEPT ![u] = [of |-> review[u], state |-> "partial"]]
    /\ run' = [at |-> "begun", upload |-> u, doc |-> doc]
    /\ UNCHANGED <<doc, seal, private, output, receipt>>

\* The input files are written and accepted, and the first command starts.
WriteInput ==
    /\ run.at = "begun"
    /\ input' = [input EXCEPT ![run.upload].state = "done"]
    /\ output' = [output EXCEPT ![run.upload] =
                      [of |-> input[run.upload].of, state |-> "partial"]]
    /\ run' = [run EXCEPT !.at = "proposing"]
    /\ UNCHANGED <<doc, seal, private, receipt>>

\* "propose" returned; a package without a user interface is complete then.
Proposed ==
    /\ run.at = "proposing"
    /\ \/ /\ run' = [run EXCEPT !.at = "rendering"]
          /\ UNCHANGED output
       \/ /\ run' = [run EXCEPT !.at = "checking"]
          /\ output' = [output EXCEPT ![run.upload].state = "done"]
    /\ UNCHANGED <<doc, seal, private, input, receipt>>

\* "render" returned.
Rendered ==
    /\ run.at = "rendering"
    /\ output' = [output EXCEPT ![run.upload].state = "done"]
    /\ run' = [run EXCEPT !.at = "checking"]
    /\ UNCHANGED <<doc, seal, private, input, receipt>>

\* "Recheck source and review after subprocesses", and write the receipt.
NoRecheck ==
    /\ run.at = "checking"
    /\ receipt' = [receipt EXCEPT ![run.upload] = review[run.upload]]
    /\ run' = Idle
    /\ UNCHANGED <<doc, seal, private, input, output>>
Finish ==
    /\ run.at = "checking"
    /\ Reviewed(run.upload, run.doc)
    /\ receipt' = [receipt EXCEPT ![run.upload] = review[run.upload]]
    /\ run' = Idle
    /\ UNCHANGED <<doc, seal, private, input, output>>

\* A refusal, a command that fails or takes more than 90 seconds, a crash.
Fail ==
    /\ run.at # "idle"
    /\ run' = Idle
    /\ UNCHANGED <<doc, seal, private, products>>

\* op=verify: the answer is a receipt only if all of this holds.
Verifies(u) ==
    /\ Reviewed(u, doc)
    /\ receipt[u] = review[u]
    /\ input[u] = [of |-> receipt[u], state |-> "done"]
    /\ output[u].state = "done"

Next ==
    \/ Edit \/ Seal
    \/ \E u \in Upload :
          ReceiveUpload(u) \/ Resolve(u) \/ Preview(u) \/ Review(u) \/ Start(u)
    \/ WriteInput \/ Proposed \/ Rendered \/ Finish \/ Fail

Spec == Init /\ [][Next]_vars

-----------------------------------------------------------------------------
\* A receipt stands for one reviewed basis from end to end: it was reviewed, its
\* input and its finished output were made from it, the proposal was written for
\* just that source; and while that source is the current one, it verifies.
ReceiptOfReviewed ==
    \A u \in Upload :
        receipt[u] # NoBasis =>
            /\ receipt[u] = review[u]
            /\ input[u] = [of |-> receipt[u], state |-> "done"]
            /\ output[u] = [of |-> receipt[u], state |-> "done"]
            /\ receipt[u].proposal.stated = receipt[u].source.items
            /\ receipt[u].proposal.sealed \subseteq {receipt[u].source.rev}
            /\ seal = doc /\ receipt[u].source = doc => Verifies(u)

\* When a receipt is written the package it is about is still the current one,
\* although the run took minutes in which another process may have sealed.
ReceiptOfCurrent ==
    [][\A u \in Upload : receipt'[u] # receipt[u] => receipt'[u].source = seal]_vars

\* Reviews, inputs and receipts are evidence: once written they stay what they
\* are, also when a run fails, the package is sealed again or a page is old.
EvidenceKept ==
    [][\A u \in Upload :
          /\ review[u] # NoBasis => review'[u] = review[u]
          /\ receipt[u] # NoBasis => receipt'[u] = receipt[u]
          /\ input[u] # NoDirectory => input'[u].of = input[u].of
          /\ output[u] # NoDirectory => output'[u].of = output[u].of]_vars

\* The preparation implements ReviewedRun.tla.
Promise == INSTANCE ReviewedRun WITH
    Source <- Document, NoSource <- NoSeal, NoReview <- NoBasis,
    current <- seal,
    reviewed <- review,
    tried <- {u \in Upload : input[u] # NoDirectory},
    running <- IF run.at = "idle" THEN {} ELSE {run.upload},
    certified <- receipt

ImplementsReviewedRun == Promise!Spec
=============================================================================
