------------------------ MODULE UxPreparationProofs ------------------------
(***************************************************************************)
(* Proofs about UxPreparation, for any number of uploads and edits.        *)
(*                                                                         *)
(* A review is a fact about the upload and never changes; the directories  *)
(* are made from it, once, because a run starts only where there are none. *)
(* So whatever happens to the session during a run, everything that is     *)
(* there belongs to the one review of the upload, and only the recheck     *)
(* after the subprocesses says whether the package is still current.       *)
(***************************************************************************)
EXTENDS UxPreparation, TLAPS

\* A review was given over a complete proposal written for its source.
ReviewOk(u) ==
    review[u] # NoBasis =>
        /\ review[u] \in Basis
        /\ upload[u] # NoUpload
        /\ upload[u] = review[u].proposal
        /\ upload[u].snapshot = review[u].source.items
        /\ upload[u].stated = review[u].source.items
        /\ upload[u].sealed \subseteq {review[u].source.rev}
        /\ upload[u].complete

\* The directories belong to the review.
DirectoriesOk(u) ==
    /\ input[u] # NoDirectory =>
          /\ input[u] \in Directory
          /\ review[u] # NoBasis /\ input[u].of = review[u]
    /\ output[u] # NoDirectory =>
          /\ output[u] \in Directory
          /\ review[u] # NoBasis /\ output[u].of = review[u]
          /\ input[u] = [of |-> review[u], state |-> "done"]

\* So does a receipt, and everything is finished.
ReceiptOk(u) ==
    receipt[u] # NoBasis =>
        /\ review[u] # NoBasis /\ receipt[u] = review[u]
        /\ input[u] = [of |-> review[u], state |-> "done"]
        /\ output[u] = [of |-> review[u], state |-> "done"]

\* What a run has made by the time it is where it is.
RunOk ==
    /\ run.at # "idle" =>
          /\ review[run.upload] # NoBasis
          /\ receipt[run.upload] = NoBasis
    /\ run.at = "begun" =>
          /\ input[run.upload] = [of |-> review[run.upload], state |-> "partial"]
          /\ output[run.upload] = NoDirectory
    /\ run.at \in {"proposing", "rendering"} =>
          /\ input[run.upload] = [of |-> review[run.upload], state |-> "done"]
          /\ output[run.upload] = [of |-> review[run.upload], state |-> "partial"]
    /\ run.at = "checking" =>
          /\ input[run.upload] = [of |-> review[run.upload], state |-> "done"]
          /\ output[run.upload] = [of |-> review[run.upload], state |-> "done"]

Inv ==
    /\ TypeOK
    /\ \A u \in Upload : ReviewOk(u) /\ DirectoriesOk(u) /\ ReceiptOk(u)
    /\ RunOk

-----------------------------------------------------------------------------
\* What a request refers to when it finds a proposal for the current package.
LEMMA BasisTyped ==
    ASSUME TypeOK, NEW u \in Upload, NEW d \in Document, HasBasis(u, d)
    PROVE  BasisOf(u) \in Basis
BY DEF TypeOK, HasBasis, Loads, SourceVerified, BasisOf, Basis

\* The initial states satisfy the invariant.
LEMMA InitInv == Init => Inv
<1> SUFFICES ASSUME Init PROVE Inv
  OBVIOUS
<1>1. PICK i \in Items : doc = [rev |-> 0, items |-> i]
  BY DEF Init
<1>2. run.at = "idle" /\ run \in [at : At, upload : Upload, doc : Document]
  BY UxAssumption DEF Init, Idle, Document, At
<1>3. TypeOK
  BY <1>1, <1>2, UxAssumption DEF Init, TypeOK, Document, At
<1>4. QED
  BY <1>2, <1>3 DEF Init, Inv, ReviewOk, DirectoriesOk, ReceiptOk, RunOk

-----------------------------------------------------------------------------
\* An upload with a review, and its products, are left alone by a step that
\* changes none of the four variables they are in.
LEMMA Undisturbed ==
    ASSUME Inv, UNCHANGED <<upload, review, input, output, receipt, run>>
    PROVE  RunOk' /\ \A u \in Upload : (ReviewOk(u) /\ DirectoriesOk(u) /\ ReceiptOk(u))'
BY DEF Inv, RunOk, ReviewOk, DirectoriesOk, ReceiptOk

\* Edits, seals, resolutions and previews touch no evidence.
LEMMA SessionInv ==
    ASSUME Inv,
           \/ Edit \/ Seal
           \/ \E u \in Upload : Resolve(u) \/ Preview(u)
    PROVE  Inv'
<1>1. UNCHANGED <<upload, review, input, output, receipt, run>>
  BY DEF Edit, Seal, Resolve, Preview, private, products
<1>2. doc' \in Document
  BY UxAssumption DEF Inv, TypeOK, Document, Edit, Seal, Resolve, Preview
<1>3. seal' \in Document \cup {NoSeal}
  BY DEF Inv, TypeOK, Edit, Seal, Resolve, Preview
<1>4. shown' \in [Upload -> Basis \cup {NoBasis}]
  <2>1. CASE \E v \in Upload : Preview(v)
    <3>1. PICK v \in Upload : Preview(v)
      BY <2>1
    <3>2. BasisOf(v) \in Basis
      BY <3>1, BasisTyped DEF Preview, Inv, TypeOK
    <3>3. QED
      BY <3>1, <3>2 DEF Preview, Inv, TypeOK
  <2>2. CASE ~\E v \in Upload : Preview(v)
    BY <2>2 DEF Edit, Seal, Resolve, private, Inv, TypeOK
  <2>3. QED
    BY <2>1, <2>2
<1>5. TypeOK'
  BY <1>1, <1>2, <1>3, <1>4 DEF Inv, TypeOK
<1>6. QED
  BY <1>1, <1>5, Undisturbed DEF Inv

\* A new proposal comes under an id that has nothing yet.
LEMMA UploadInv ==
    ASSUME Inv, NEW u \in Upload, ReceiveUpload(u)
    PROVE  Inv'
<1>1. PICK p \in Proposal : upload' = [upload EXCEPT ![u] = p]
  <2>1. PICK stated \in Items, sealed \in Named, complete \in BOOLEAN :
          upload' = [upload EXCEPT ![u] =
              [stated |-> stated, sealed |-> sealed, complete |-> complete,
               snapshot |-> doc.items]]
    BY DEF ReceiveUpload
  <2>2. doc.items \in Items
    BY DEF Inv, TypeOK, Document
  <2>3. QED
    BY <2>1, <2>2 DEF Proposal
<1>2. upload[u] = NoUpload /\ run.at = "idle"
  BY DEF ReceiveUpload, Free, Inv, TypeOK
<1>3. UNCHANGED <<doc, seal, shown, review, input, output, receipt, run>>
  BY DEF ReceiveUpload, products
<1>4. review[u] = NoBasis
  BY <1>2 DEF Inv, ReviewOk
<1>5. TypeOK'
  BY <1>1, <1>2, <1>3, <1>4 DEF Inv, TypeOK
<1>6. \A v \in Upload : (ReviewOk(v) /\ DirectoriesOk(v) /\ ReceiptOk(v))'
  BY <1>1, <1>2, <1>3, <1>4 DEF Inv, ReviewOk, DirectoriesOk, ReceiptOk
<1>7. QED
  BY <1>2, <1>3, <1>5, <1>6 DEF Inv, RunOk

\* A review is given once, over a proposal written for the current package.
LEMMA ReviewInv ==
    ASSUME Inv, NEW u \in Upload, Review(u)
    PROVE  Inv'
<1>1. /\ review[u] = NoBasis /\ run.at = "idle"
      /\ review' = [review EXCEPT ![u] = BasisOf(u)]
      /\ UNCHANGED <<doc, seal, upload, shown, input, output, receipt, run>>
  BY DEF Review, Free, products
<1>2. BasisOf(u) \in Basis
  BY BasisTyped DEF Review, Inv, TypeOK
<1>3. TypeOK'
  BY <1>1, <1>2 DEF Inv, TypeOK, BasisOf
<1>4. ReviewOk(u)'
  BY <1>1, <1>2 DEF Review, HasBasis, Loads, SourceVerified, Accounted, BasisOf, ReviewOk,
                    Inv, TypeOK
<1>5. /\ input[u] = NoDirectory /\ output[u] = NoDirectory /\ receipt[u] = NoBasis
  BY <1>1 DEF Inv, DirectoriesOk, ReceiptOk
<1>6. \A v \in Upload : (ReviewOk(v) /\ DirectoriesOk(v) /\ ReceiptOk(v))'
  BY <1>1, <1>4, <1>5 DEF Inv, TypeOK, ReviewOk, DirectoriesOk, ReceiptOk
<1>7. QED
  BY <1>1, <1>3, <1>6 DEF Inv, RunOk

\* A run starts where there are no directories.
LEMMA StartInv ==
    ASSUME Inv, NEW u \in Upload, Start(u)
    PROVE  Inv'
<1>1. /\ input[u] = NoDirectory /\ output[u] = NoDirectory
      /\ input' = [input EXCEPT ![u] = [of |-> review[u], state |-> "partial"]]
      /\ run' = [at |-> "begun", upload |-> u, doc |-> doc]
      /\ UNCHANGED <<doc, seal, upload, shown, review, output, receipt>>
  BY DEF Start, private
<1>2. review[u] = BasisOf(u) /\ review[u] \in Basis
  BY BasisTyped DEF Start, Reviewed, Inv, TypeOK
<1>3. review[u] # NoBasis
  BY <1>2 DEF Start, Reviewed, HasBasis, SourceVerified, Loads, BasisOf, NoBasis, Accounted
<1>4. receipt[u] = NoBasis
  <2>1. [of |-> review[u], state |-> "done"].state # NoDirectory.state
    BY DEF NoDirectory
  <2>2. QED
    BY <1>1, <2>1 DEF Inv, ReceiptOk
<1>5. [of |-> review[u], state |-> "partial"] \in Directory
  BY <1>2 DEF Directory
<1>6. TypeOK'
  BY <1>1, <1>5 DEF Inv, TypeOK, At
<1>7. \A v \in Upload : (ReviewOk(v) /\ DirectoriesOk(v) /\ ReceiptOk(v))'
  BY <1>1, <1>3, <1>4, <1>5 DEF Inv, TypeOK, ReviewOk, DirectoriesOk, ReceiptOk
<1>8. RunOk'
  BY <1>1, <1>3, <1>4 DEF Inv, TypeOK, RunOk
<1>9. QED
  BY <1>6, <1>7, <1>8 DEF Inv

\* The input is finished, and the output begun.
LEMMA WriteInputInv ==
    ASSUME Inv, WriteInput
    PROVE  Inv'
<1> DEFINE u == run.upload
           whole == [of |-> review[u], state |-> "done"]
           begun == [of |-> review[u], state |-> "partial"]
<1>1. u \in Upload /\ review[u] # NoBasis /\ review[u] \in Basis /\ receipt[u] = NoBasis
  BY DEF Inv, TypeOK, WriteInput, RunOk, ReviewOk
<1>2. input[u] = begun /\ output[u] = NoDirectory
  BY DEF Inv, WriteInput, RunOk
<1>3. /\ input' = [input EXCEPT ![u] = whole]
      /\ output' = [output EXCEPT ![u] = begun]
      /\ run' = [run EXCEPT !.at = "proposing"]
      /\ UNCHANGED <<doc, seal, upload, shown, review, receipt>>
  <2>1. [input[u] EXCEPT !.state = "done"] = whole /\ input[u].of = review[u]
    BY <1>2
  <2>2. input' = [input EXCEPT ![u] = [input[u] EXCEPT !.state = "done"]]
    BY DEF WriteInput
  <2>3. QED
    BY <2>1, <2>2 DEF WriteInput, private
<1>4. whole \in Directory /\ begun \in Directory
  BY <1>1 DEF Directory
<1>5. run'.at = "proposing" /\ run'.upload = u /\ run'.doc = run.doc
  BY <1>3 DEF WriteInput
<1>6. TypeOK'
  BY <1>3, <1>4, <1>5 DEF Inv, TypeOK, At
<1>7. \A v \in Upload : (ReviewOk(v) /\ DirectoriesOk(v) /\ ReceiptOk(v))'
  BY <1>1, <1>3, <1>4 DEF Inv, TypeOK, ReviewOk, DirectoriesOk, ReceiptOk
<1>8. RunOk'
  BY <1>1, <1>3, <1>5 DEF Inv, TypeOK, RunOk
<1>9. QED
  BY <1>6, <1>7, <1>8 DEF Inv

\* "propose" is done, and the output with it or not.
LEMMA ProposedInv ==
    ASSUME Inv, Proposed
    PROVE  Inv'
<1> DEFINE u == run.upload
           whole == [of |-> review[u], state |-> "done"]
           begun == [of |-> review[u], state |-> "partial"]
<1>1. u \in Upload /\ review[u] # NoBasis /\ review[u] \in Basis /\ receipt[u] = NoBasis
  BY DEF Inv, TypeOK, Proposed, RunOk, ReviewOk
<1>2. input[u] = whole /\ output[u] = begun
  BY DEF Inv, Proposed, RunOk
<1>3. UNCHANGED <<doc, seal, upload, shown, review, input, receipt>>
  BY DEF Proposed, private
<1>4. \/ run' = [run EXCEPT !.at = "rendering"] /\ output' = output
      \/ run' = [run EXCEPT !.at = "checking"] /\ output' = [output EXCEPT ![u] = whole]
  <2>1. [output[u] EXCEPT !.state = "done"] = whole
    BY <1>2
  <2>2. QED
    BY <2>1 DEF Proposed
<1>5. whole \in Directory
  BY <1>1 DEF Directory
<1>6. /\ run'.upload = u /\ run' \in [at : At, upload : Upload, doc : Document]
      /\ \/ run'.at = "rendering" /\ output' = output
         \/ run'.at = "checking" /\ output' = [output EXCEPT ![u] = whole]
  BY <1>4 DEF Inv, TypeOK, At
<1>7. TypeOK'
  BY <1>3, <1>5, <1>6 DEF Inv, TypeOK
<1>8. \A v \in Upload : (ReviewOk(v) /\ DirectoriesOk(v) /\ ReceiptOk(v))'
  BY <1>1, <1>2, <1>3, <1>5, <1>6 DEF Inv, TypeOK, ReviewOk, DirectoriesOk, ReceiptOk
<1>9. RunOk'
  BY <1>1, <1>2, <1>3, <1>6 DEF Inv, TypeOK, RunOk
<1>10. QED
  BY <1>7, <1>8, <1>9 DEF Inv

\* "render" is done, and the output with it.
LEMMA RenderedInv ==
    ASSUME Inv, Rendered
    PROVE  Inv'
<1> DEFINE u == run.upload
           whole == [of |-> review[u], state |-> "done"]
           begun == [of |-> review[u], state |-> "partial"]
<1>1. u \in Upload /\ review[u] # NoBasis /\ review[u] \in Basis /\ receipt[u] = NoBasis
  BY DEF Inv, TypeOK, Rendered, RunOk, ReviewOk
<1>2. input[u] = whole /\ output[u] = begun
  BY DEF Inv, Rendered, RunOk
<1>3. /\ UNCHANGED <<doc, seal, upload, shown, review, input, receipt>>
      /\ run' = [run EXCEPT !.at = "checking"]
      /\ output' = [output EXCEPT ![u] = whole]
  <2>1. [output[u] EXCEPT !.state = "done"] = whole
    BY <1>2
  <2>2. QED
    BY <2>1 DEF Rendered, private
<1>4. whole \in Directory
  BY <1>1 DEF Directory
<1>5. /\ run'.upload = u /\ run'.at = "checking"
      /\ run' \in [at : At, upload : Upload, doc : Document]
  BY <1>3 DEF Inv, TypeOK, At
<1>6. TypeOK'
  BY <1>3, <1>4, <1>5 DEF Inv, TypeOK
<1>7. \A v \in Upload : (ReviewOk(v) /\ DirectoriesOk(v) /\ ReceiptOk(v))'
  BY <1>1, <1>2, <1>3, <1>4 DEF Inv, TypeOK, ReviewOk, DirectoriesOk, ReceiptOk
<1>8. RunOk'
  BY <1>1, <1>2, <1>3, <1>5 DEF Inv, TypeOK, RunOk
<1>9. QED
  BY <1>6, <1>7, <1>8 DEF Inv

\* A run ends, with a receipt or without.
LEMMA EndInv ==
    ASSUME Inv, Finish \/ Fail
    PROVE  Inv'
<1> DEFINE u == run.upload
           whole == [of |-> review[u], state |-> "done"]
<1>1. /\ u \in Upload /\ review[u] # NoBasis /\ review[u] \in Basis
  BY DEF Inv, TypeOK, Finish, Fail, RunOk, ReviewOk
<1>2. /\ UNCHANGED <<doc, seal, upload, shown, review, input, output>>
      /\ run' = Idle
  BY DEF Finish, Fail, private, products
<1>3. run'.at = "idle" /\ run' \in [at : At, upload : Upload, doc : Document]
  BY <1>2, UxAssumption DEF Idle, Document, At
<1>4. \/ receipt' = receipt
      \/ /\ receipt' = [receipt EXCEPT ![u] = review[u]]
         /\ input[u] = whole /\ output[u] = whole
  BY DEF Inv, RunOk, Finish, Fail, products
<1>5. TypeOK'
  BY <1>1, <1>2, <1>3, <1>4 DEF Inv, TypeOK
<1>6. \A v \in Upload : (ReviewOk(v) /\ DirectoriesOk(v) /\ ReceiptOk(v))'
  BY <1>1, <1>2, <1>4 DEF Inv, TypeOK, ReviewOk, DirectoriesOk, ReceiptOk
<1>7. QED
  BY <1>3, <1>5, <1>6 DEF Inv, RunOk

\* Every step keeps the invariant.
LEMMA NextInv == Inv /\ [Next]_vars => Inv'
<1> SUFFICES ASSUME Inv, [Next]_vars PROVE Inv'
  OBVIOUS
<1>1. CASE UNCHANGED vars
  <2>1. TypeOK'
    BY <1>1 DEF Inv, TypeOK, vars
  <2>2. QED
    BY <1>1, <2>1, Undisturbed DEF Inv, vars
<1>2. CASE Next
  BY <1>2, SessionInv, UploadInv, ReviewInv, StartInv, WriteInputInv, ProposedInv,
     RenderedInv, EndInv DEF Next
<1>3. QED
  BY <1>1, <1>2

\* Every reachable state satisfies the invariant.
THEOREM Invariance == Spec => []Inv
BY InitInv, NextInv, PTL DEF Spec

-----------------------------------------------------------------------------
\* Every reachable state is well typed, and a review is of its upload.
THEOREM TypeCorrect == Spec => []TypeOK
<1>1. Inv => TypeOK
  BY DEF Inv
<1>2. QED
  BY <1>1, Invariance, PTL

\* A receipt is about one reviewed basis from end to end, and verifies whenever
\* that source is the current one, whatever happened in between.
THEOREM ReceiptSound == Spec => []ReceiptOfReviewed
<1>1. Inv => ReceiptOfReviewed
  <2> SUFFICES ASSUME Inv, NEW u \in Upload, receipt[u] # NoBasis
               PROVE  /\ receipt[u] = review[u]
                      /\ input[u] = [of |-> receipt[u], state |-> "done"]
                      /\ output[u] = [of |-> receipt[u], state |-> "done"]
                      /\ receipt[u].proposal.stated = receipt[u].source.items
                      /\ receipt[u].proposal.sealed \subseteq {receipt[u].source.rev}
                      /\ seal = doc /\ receipt[u].source = doc => Verifies(u)
    BY DEF ReceiptOfReviewed
  <2>1. /\ receipt[u] = review[u] /\ review[u] # NoBasis
        /\ input[u] = [of |-> receipt[u], state |-> "done"]
        /\ output[u] = [of |-> receipt[u], state |-> "done"]
    BY DEF Inv, ReceiptOk
  <2>2. /\ review[u] \in Basis /\ upload[u] # NoUpload
        /\ upload[u] = review[u].proposal
        /\ upload[u].snapshot = review[u].source.items
        /\ upload[u].stated = review[u].source.items
        /\ upload[u].sealed \subseteq {review[u].source.rev}
        /\ upload[u].complete
    BY <2>1 DEF Inv, ReviewOk
  <2>3. ASSUME seal = doc, receipt[u].source = doc PROVE Verifies(u)
    <3>1. HasBasis(u, doc)
      BY <2>1, <2>2, <2>3 DEF HasBasis, Loads, SourceVerified
    <3>2. review[u] = BasisOf(u)
      BY <2>1, <2>2, <2>3 DEF BasisOf, Basis
    <3>3. Accounted(review[u])
      BY <2>2 DEF Accounted
    <3>4. QED
      BY <2>1, <3>1, <3>2, <3>3 DEF Verifies, Reviewed
  <2>4. QED
    BY <2>1, <2>2, <2>3
<1>2. QED
  BY <1>1, Invariance, PTL

\* A receipt is written only while its package is the current one.
THEOREM ReceiptTimely == Spec => ReceiptOfCurrent
<1>1. Inv /\ [Next]_vars =>
        \A u \in Upload : receipt'[u] # receipt[u] => receipt'[u].source = seal
  <2> SUFFICES ASSUME Inv, [Next]_vars, NEW u \in Upload, receipt'[u] # receipt[u]
               PROVE  receipt'[u].source = seal
    OBVIOUS
  <2>1. Finish
    BY DEF Next, vars, private, products, Edit, Seal, ReceiveUpload, Resolve, Preview,
           Review, Start, WriteInput, Proposed, Rendered, Fail
  <2>2. u = run.upload /\ receipt'[u] = review[u] /\ review[u] = BasisOf(u)
    BY <2>1 DEF Finish, Reviewed, Inv, TypeOK
  <2>3. QED
    BY <2>2 DEF BasisOf
<1>2. QED
  BY <1>1, Invariance, PTL DEF Spec, ReceiptOfCurrent

\* Reviews, receipts and what a directory was made from stay what they are.
THEOREM EvidenceNeverChanged == Spec => EvidenceKept
<1>1. Inv /\ [Next]_vars =>
        \A u \in Upload :
          /\ review[u] # NoBasis => review'[u] = review[u]
          /\ receipt[u] # NoBasis => receipt'[u] = receipt[u]
          /\ input[u] # NoDirectory => input'[u].of = input[u].of
          /\ output[u] # NoDirectory => output'[u].of = output[u].of
  <2> SUFFICES ASSUME Inv, [Next]_vars, NEW u \in Upload
               PROVE  /\ review[u] # NoBasis => review'[u] = review[u]
                      /\ receipt[u] # NoBasis => receipt'[u] = receipt[u]
                      /\ input[u] # NoDirectory => input'[u].of = input[u].of
                      /\ output[u] # NoDirectory => output'[u].of = output[u].of
    OBVIOUS
  <2>1. Inv'
    BY NextInv
  <2>2. review[u] # NoBasis => review'[u] = review[u]
    BY DEF Next, vars, private, products, Edit, Seal, ReceiveUpload, Resolve, Preview,
           Review, Start, WriteInput, Proposed, Rendered, Finish, Fail, Inv, TypeOK
  <2>3. receipt[u] # NoBasis => receipt'[u] # NoBasis
    BY DEF Next, vars, private, products, Edit, Seal, ReceiveUpload, Resolve, Preview,
           Review, Start, WriteInput, Proposed, Rendered, Finish, Fail, Inv, TypeOK, RunOk
  <2>4. /\ input[u] # NoDirectory => input'[u] # NoDirectory
        /\ output[u] # NoDirectory => output'[u] # NoDirectory
    <3>1. CASE WriteInput \/ Proposed \/ Rendered
      <4>1. /\ run'.at \in {"proposing", "rendering", "checking"} /\ run'.upload = run.upload
            /\ \/ input'[u] = input[u] /\ output'[u] = output[u]
               \/ u = run.upload
        BY <3>1 DEF WriteInput, Proposed, Rendered, Inv, TypeOK
      <4>2. CASE u = run.upload
        <5>1. /\ input'[u] = [of |-> review'[u], state |-> "done"]
              /\ output'[u] \in {[of |-> review'[u], state |-> "partial"],
                                 [of |-> review'[u], state |-> "done"]}
          BY <2>1, <4>1, <4>2 DEF Inv, RunOk
        <5>2. input'[u].state # NoDirectory.state /\ output'[u].state # NoDirectory.state
          BY <5>1 DEF NoDirectory
        <5>3. QED
          BY <5>2
      <4>3. QED
        BY <4>1, <4>2
    <3>2. CASE ~(WriteInput \/ Proposed \/ Rendered)
      BY <3>2 DEF Next, vars, private, products, Edit, Seal, ReceiveUpload, Resolve, Preview,
             Review, Start, Finish, Fail, Inv, TypeOK
    <3>3. QED
      BY <3>1, <3>2
  <2>5. QED
    BY <2>1, <2>2, <2>3, <2>4 DEF Inv, DirectoriesOk, ReceiptOk
<1>2. QED
  BY <1>1, Invariance, PTL DEF Spec, EvidenceKept

-----------------------------------------------------------------------------
(***************************************************************************)
(* The refinement of ReviewedRun.                                          *)
(***************************************************************************)

Tried == {u \in Upload : input[u] # NoDirectory}
Running == IF run.at = "idle" THEN {} ELSE {run.upload}

\* A package that is the document's is one.
LEMMA SealedIsDocument ==
    ASSUME TypeOK, SourceVerified(doc)
    PROVE  seal # NoSeal
<1>1. NoSeal \notin Document
  <2>1. \A d \in Document : "items" \in DOMAIN d
    BY DEF Document
  <2>2. "items" \notin DOMAIN NoSeal
    BY DEF NoSeal
  <2> QED
    BY <2>1, <2>2
<1> QED
  BY <1>1 DEF TypeOK, SourceVerified

\* A run that goes on or ends leaves the directories that are there.
LEMMA TriedStays ==
    ASSUME Inv, WriteInput \/ Proposed \/ Rendered \/ Finish \/ Fail
    PROVE  Tried' = Tried
<1>1. CASE Proposed \/ Rendered \/ Finish \/ Fail
  BY <1>1 DEF Proposed, Rendered, Finish, Fail, products, Tried
<1>2. CASE WriteInput
  <2>1. input[run.upload] # NoDirectory /\ input'[run.upload] # NoDirectory
    BY <1>2 DEF WriteInput, Inv, TypeOK, RunOk, NoDirectory
  <2>2. \A u \in Upload : u # run.upload => input'[u] = input[u]
    BY <1>2 DEF WriteInput, Inv, TypeOK
  <2> QED
    BY <2>1, <2>2 DEF Tried
<1> QED
  BY <1>1, <1>2

\* Every step of the preparation is a step of ReviewedRun or a stutter: a review
\* is an approval, Start begins the only run of an upload, and Finish, after its
\* recheck, certifies it; what is uploaded, shown or written meanwhile, or left
\* behind by a failure, does not count.
THEOREM Implementation == Spec => ImplementsReviewedRun
<1>1. Init => Promise!Init
  <2> SUFFICES ASSUME Init PROVE Promise!Init
    OBVIOUS
  <2>1. run.at = "idle" /\ \A u \in Upload : input[u] = NoDirectory
    BY DEF Init, Idle
  <2> QED
    BY <2>1 DEF Init, Promise!Init
<1>2. ASSUME Inv, [Next]_vars PROVE [Promise!Next]_(Promise!vars)
  <2>0. TypeOK
    BY <1>2 DEF Inv
  <2>1. CASE UNCHANGED <<seal, review, input, receipt, run>>
    BY <2>1 DEF Promise!vars
  <2>2. CASE Seal
    <3>1. doc \in Document /\ seal' = doc
      BY <2>0, <2>2 DEF Seal, TypeOK
    <3> QED
      BY <2>2, <3>1 DEF Seal, private, products, Promise!Next, Promise!Supersede
  <2>3. ASSUME NEW u \in Upload, Review(u) PROVE Promise!Next
    <3>1. review[u] = NoBasis /\ review' = [review EXCEPT ![u] = BasisOf(u)] /\ run.at = "idle"
      BY <2>3 DEF Review, Free
    <3>2. upload[u] \in Proposal
      BY <2>0, <2>3 DEF Review, HasBasis, Loads, TypeOK
    <3>3. seal # NoSeal
      BY <2>0, <2>3, SealedIsDocument DEF Review, HasBasis
    <3>4. Promise!Approve(u, upload[u])
      BY <2>3, <3>1, <3>3 DEF Promise!Approve, BasisOf, Review, products
    <3> QED
      BY <3>2, <3>4 DEF Promise!Next
  <2>4. ASSUME NEW u \in Upload, Start(u) PROVE Promise!Next
    <3>1. /\ run.at = "idle" /\ input[u] = NoDirectory
          /\ review[u].source = seal
          /\ UNCHANGED <<seal, review, receipt>>
      BY <2>4 DEF Start, Free, Reviewed, BasisOf, private
    <3>2. review[u] # NoBasis
      <4>1. review[u] = [source |-> seal, proposal |-> upload[u]]
        BY <2>4 DEF Start, Reviewed, BasisOf
      <4>2. "proposal" \in DOMAIN review[u] /\ "proposal" \notin DOMAIN NoBasis
        BY <4>1 DEF NoBasis
      <4> QED
        BY <4>2
    <3>3. run'.at = "begun" /\ run'.upload = u
      BY <2>4 DEF Start
    <3>4. Tried' = Tried \cup {u}
      <4>1. input'[u] # NoDirectory
        BY <2>0, <2>4 DEF Start, TypeOK, NoDirectory
      <4>2. \A w \in Upload : w # u => input'[w] = input[w]
        BY <2>0, <2>4 DEF Start, TypeOK
      <4> QED
        BY <4>1, <4>2 DEF Tried
    <3>5. Promise!Begin(u)
      BY <3>1, <3>2, <3>3, <3>4 DEF Promise!Begin, Promise!Approved, Tried
    <3> QED
      BY <3>5 DEF Promise!Next
  <2>5. CASE Finish
    <3>1. Tried' = Tried
      BY <1>2, <2>5, TriedStays
    <3>2. /\ run.at # "idle" /\ run' = Idle /\ run.upload \in Upload
          /\ review[run.upload] # NoBasis /\ receipt[run.upload] = NoBasis
          /\ review[run.upload].source = seal
          /\ receipt' = [receipt EXCEPT ![run.upload] = review[run.upload]]
          /\ UNCHANGED <<seal, review>>
      BY <1>2, <2>0, <2>5 DEF Finish, Reviewed, BasisOf, Inv, RunOk, TypeOK, private
    <3>3. run'.at = "idle"
      BY <3>2 DEF Idle
    <3>4. Promise!Certify(run.upload)
      BY <3>1, <3>2, <3>3 DEF Promise!Certify, Promise!Approved, Tried
    <3> QED
      BY <3>2, <3>4 DEF Promise!Next
  <2>6. CASE Fail
    <3>1. Tried' = Tried /\ run'.at = "idle" /\ UNCHANGED <<seal, review, receipt>>
      BY <1>2, <2>6, TriedStays DEF Fail, Idle, private, products
    <3> QED
      BY <3>1 DEF Promise!Next, Promise!Stop, Tried
  <2>7. CASE WriteInput \/ Proposed \/ Rendered
    <3>1. Tried' = Tried /\ UNCHANGED <<seal, review, receipt>>
      BY <1>2, <2>7, TriedStays DEF WriteInput, Proposed, Rendered, private
    <3>2. Running' = Running
      BY <2>0, <2>7 DEF WriteInput, Proposed, Rendered, Running, TypeOK
    <3> QED
      BY <3>1, <3>2 DEF Promise!vars, Tried, Running
  <2> QED
    BY <1>2, <2>1, <2>2, <2>3, <2>4, <2>5, <2>6, <2>7
    DEF Next, Edit, ReceiveUpload, Resolve, Preview, private, products, vars
<1> QED
  BY <1>1, <1>2, Invariance, PTL DEF Spec, ImplementsReviewedRun, Promise!Spec
=============================================================================
