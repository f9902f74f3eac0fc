--------------------------- MODULE SealingProofs ---------------------------
(***************************************************************************)
(* Proofs about Sealing, for any number of processes, revisions and        *)
(* crashes.  The invariants of the runs are not inductive by themselves:   *)
(* that a version is never issued twice rests on the flock, on the ledger  *)
(* read under it still being the ledger when it is replaced, and on the    *)
(* empty ledger being written only while nobody can have sealed anything.  *)
(***************************************************************************)
EXTENDS Sealing, Sequences, FiniteSetTheorems, TLAPS

Creating == {"rooted", "keyed", "lockable", "creating"}
Holding  == {"locked", "chosen", "published", "pending", "replaced"}
Deciding == {"locked", "chosen", "published", "pending"}
Decided  == {"chosen", "published", "pending"}
InStore  == Holding \cup {"waiting", "committed", "admitting"}

\* The versions of a set of handoffs are 1..n, so that it has a greatest one.
DenseTo(seals, n) ==
    /\ \A h \in seals : h.version \in 1..n
    /\ \A v \in 1..n : \E h \in seals : h.version = v
Dense(seals) == \E n \in Nat : DenseTo(seals, n)

\* Only the creator of the store writes the empty ledger, and nobody has read
\* a ledger by then.
CreationInv ==
    /\ "ledger" \in custody => "root" \in custody
    /\ "ledger" \notin custody => ledger.seals = {}
    /\ \A p \in Proc : req[p].at \in Creating =>
          /\ "root" \in custody
          /\ "ledger" \notin custody
          /\ \A q \in Proc : req[q].at \in Creating => q = p
    /\ \A p \in Proc : req[p].at \in InStore => "ledger" \in custody

\* While a request decides, what it read is the ledger, and what it decided is
\* a choice that build_handoff may make from it.
RequestInv ==
    \A p \in Proc :
        /\ req[p].at \in Holding => flock = p
        /\ req[p].at \in Deciding => req[p].base = ledger.seals
        /\ req[p].at \in Decided =>
              req[p].new \in BuildHandoff(ledger.seals, req[p].doc, req[p].target)
        /\ req[p].at \in {"published", "pending"} => req[p].new \in history
        /\ req[p].at \in {"replaced", "committed", "admitting"} =>
              req[p].new \in ledger.seals

AdmissionInv ==
    /\ submitted \subseteq ledger.seals
    /\ receipts \subseteq submitted
    /\ complete \subseteq receipts
    /\ acked \subseteq complete

Inv ==
    /\ TypeOK
    /\ Dense(ledger.seals)
    /\ Dense(history)
    /\ LedgerChain
    /\ CommittedOnDisk
    /\ HistoryGapFree
    /\ CreationInv
    /\ RequestInv
    /\ AdmissionInv

-----------------------------------------------------------------------------
(***************************************************************************)
(* Lemmas about choosing an identity.                                      *)
(***************************************************************************)

\* select_identity's max(versions, default=0) + 1 is the version after the last.
LEMMA NextVersionAfter ==
    ASSUME NEW S, NEW n \in Nat, DenseTo(S, n)
    PROVE  NextVersion(S) = n + 1
<1> DEFINE M == {h.version : h \in S} \cup {0}
<1>1. n \in M /\ \A m \in M : m \in Nat /\ m <= n
  BY DEF DenseTo
<1>2. Max(M) = n
  <2>1. \E x \in M : \A y \in M : x >= y
    BY <1>1
  <2>2. Max(M) \in M /\ \A y \in M : Max(M) >= y
    BY <2>1 DEF Max
  <2>3. /\ Max(M) \in Nat
        /\ Max(M) <= n
        /\ Max(M) >= n
    BY <1>1, <2>2
  <2>4. QED
    BY <2>3
<1>3. QED
  BY <1>2 DEF NextVersion

\* What build_handoff may return is a handoff, for any dense history.
LEMMA BuildHandoffType ==
    ASSUME NEW S \in SUBSET Handoff, Dense(S), NEW d \in Document, NEW t \in Target
    PROVE  BuildHandoff(S, d, t) \subseteq Handoff
<1>1. PICK n \in Nat : DenseTo(S, n)
  BY DEF Dense
<1>2. NextVersion(S) = n + 1
  BY <1>1, NextVersionAfter
<1>3. NoParent \in PackageDigest
  BY SealingAssumption DEF NoParent, PackageDigest
<1>4. \A h \in S : Digest(h) \in PackageDigest
  BY DEF Digest, PackageDigest, Handoff
<1>5. Revision(S, d, t) \subseteq Handoff
  BY <1>2, <1>3, <1>4, SealingAssumption DEF Revision, Handoff, Document
<1>6. QED
  BY <1>5 DEF BuildHandoff, Matching

\* A handoff built from a history either is in it, or takes the version after
\* the last with the last one as its parent.
LEMMA BuildHandoffChoice ==
    ASSUME NEW S \in SUBSET Handoff, NEW n \in Nat, DenseTo(S, n),
           NEW d \in Document, NEW t \in Target,
           NEW b \in BuildHandoff(S, d, t), b \notin S
    PROVE  /\ b \in Handoff
           /\ b.version = n + 1
           /\ \A s \in S : ~(s.rev = b.rev /\ s.target = b.target)
           /\ IF n = 0 THEN b.parent = NoParent
              ELSE \E s \in S : s.version = n /\ Digest(s) = b.parent
<1>1. NextVersion(S) = n + 1
  BY NextVersionAfter
<1>2. b \in Revision(S, d, t) /\ Matching(S, d, t) = {}
  BY DEF BuildHandoff, Matching
<1>3. b \in Handoff
  BY BuildHandoffType DEF Dense
<1>4. b.rev = d.rev /\ b.target = t /\ b.version = n + 1
  BY <1>1, <1>2 DEF Revision
<1>5. \A s \in S : ~(s.rev = b.rev /\ s.target = b.target)
  BY <1>2, <1>4 DEF Matching
<1>6. IF n = 0 THEN b.parent = NoParent
      ELSE \E s \in S : s.version = n /\ Digest(s) = b.parent
  BY <1>1, <1>2 DEF Revision
<1>7. QED
  BY <1>3, <1>4, <1>5, <1>6

\* A version that follows one already there keeps a history dense.
LEMMA DenseAdd ==
    ASSUME NEW S, NEW b, NEW n \in Nat, DenseTo(S, n), b.version \in 1..(n + 1)
    PROVE  Dense(S \cup {b})
<1>1. CASE b.version = n + 1
  <2>1. DenseTo(S \cup {b}, n + 1)
    BY <1>1 DEF DenseTo
  <2>2. QED
    BY <2>1 DEF Dense
<1>2. CASE b.version \in 1..n
  <2>1. DenseTo(S \cup {b}, n)
    BY <1>2 DEF DenseTo
  <2>2. QED
    BY <2>1 DEF Dense
<1>3. QED
  BY <1>1, <1>2

-----------------------------------------------------------------------------
\* The initial states satisfy the invariant.
LEMMA InitInv == Init => Inv
<1> SUFFICES ASSUME Init PROVE Inv
  OBVIOUS
<1>1. TypeOK
  BY SealingAssumption
  DEF Init, TypeOK, Document, Handoff, PackageDigest, Legacy, NoHandoff, NoParent,
      CustodyFile, Request, NoRequest, Step
<1>2. Dense(ledger.seals)
  <2>1. DenseTo(ledger.seals, 0)
    BY DEF Init, DenseTo
  <2>2. QED
    BY <2>1 DEF Dense
<1>3. Dense(history)
  <2>1. CASE history = {}
    <3>1. DenseTo(history, 0)
      BY <2>1 DEF DenseTo
    <3>2. QED
      BY <3>1 DEF Dense
  <2>2. CASE history = {Legacy}
    <3>1. DenseTo(history, 1)
      BY <2>2 DEF DenseTo, Legacy
    <3>2. QED
      BY <3>1 DEF Dense
  <2>3. QED
    BY <2>1, <2>2 DEF Init
<1>4. HistoryGapFree
  BY DEF Init, HistoryGapFree, Legacy
<1>5. LedgerChain /\ CommittedOnDisk
  BY DEF Init, LedgerChain, CommittedOnDisk
<1>6. CreationInv /\ RequestInv /\ AdmissionInv
  BY DEF Init, CreationInv, RequestInv, AdmissionInv, NoRequest, Creating, Holding,
         Deciding, Decided, InStore
<1>7. QED
  BY <1>1, <1>2, <1>3, <1>4, <1>5, <1>6 DEF Inv
-----------------------------------------------------------------------------
\* Every step keeps the types.
LEMMA TypeStep == Inv /\ [Next]_vars => TypeOK'
<1> SUFFICES ASSUME Inv, [Next]_vars PROVE TypeOK'
  OBVIOUS
<1> USE DEF TypeOK, admission
<1>1. TypeOK /\ Dense(ledger.seals) /\ Dense(history) /\ RequestInv
  BY DEF Inv
<1>2. NoRequest \in Request /\ NoHandoff \in Handoff
  BY SealingAssumption
  DEF NoRequest, Request, NoHandoff, Handoff, NoParent, PackageDigest, Document, Step
<1>3. CASE Edit
  BY <1>1, <1>3, SealingAssumption DEF Edit, Document
<1>4. CASE Touch
  BY <1>1, <1>4, SealingAssumption DEF Touch, Document
<1>5. ASSUME NEW p \in Proc, NEW t \in Target, Load(p, t) PROVE TypeOK'
  BY <1>1, <1>2, <1>5 DEF Load, Request, NoRequest, Step
<1>6. ASSUME NEW p \in Proc, Abort(p) PROVE TypeOK'
  BY <1>1, <1>2, <1>6, SealingAssumption DEF Abort, Release
<1>7. ASSUME NEW h \in submitted, WriteReceipt(h) \/ WriteComplete(h) PROVE TypeOK'
  BY <1>1, <1>7 DEF WriteReceipt, WriteComplete
<1>8. ASSUME NEW p \in Proc, Advance(p) PROVE TypeOK'
  <2>0. req[p] \in Request
    BY <1>1
  <2>1. CASE Preflight(p)
    <3>1. BuildHandoff(history, req[p].doc, req[p].target) \subseteq Handoff
      BY <1>1, <2>0, BuildHandoffType DEF Request
    <3>2. QED
      BY <1>1, <1>2, <2>0, <2>1, <3>1 DEF Preflight, Request, Step
  <2>2. CASE OpenCustody(p)
    BY <1>1, <1>2, <2>0, <2>2 DEF OpenCustody, Request, Step, CustodyFile
  <2>3. CASE CreateCustody(p)
    BY <1>1, <1>2, <2>0, <2>3
    DEF CreateCustody, CreateFile, CreateLedger, Request, Step, CustodyFile
  <2>4. CASE CheckCustody(p)
    BY <1>1, <1>2, <2>0, <2>4 DEF CheckCustody, Request, Step
  <2>5. CASE TakeFlock(p)
    BY <1>1, <2>0, <2>5 DEF TakeFlock, Request, Step
  <2>6. CASE Choose(p)
    <3>1. req[p].base = ledger.seals
      BY <1>1, <2>6 DEF Choose, RequestInv, Deciding
    <3>2. BuildHandoff(req[p].base, req[p].doc, req[p].target) \subseteq Handoff
      BY <1>1, <2>0, <3>1, BuildHandoffType DEF Request
    <3>3. QED
      BY <1>1, <1>2, <2>0, <2>6, <3>2 DEF Choose, Release, Request, Step
  <2>7. CASE Publish(p)
    BY <1>1, <2>0, <2>7 DEF Publish, Request, Step
  <2>8. CASE WritePending(p)
    BY <1>1, <1>2, <2>0, <2>8 DEF WritePending, Release, Request, Step, CustodyFile
  <2>9. CASE ReplaceLedger(p)
    BY <1>1, <2>0, <2>9 DEF ReplaceLedger, Request, Step, CustodyFile
  <2>10. CASE Unlock(p)
    BY <1>1, <2>0, <2>10 DEF Unlock, Release, Request, Step
  <2>11. CASE Submit(p)
    BY <1>1, <2>0, <2>11 DEF Submit, Request, Step
  <2>12. CASE Admitted(p)
    BY <1>1, <1>2, <2>0, <2>12 DEF Admitted, Request
  <2>13. CASE NotAdmitted(p)
    BY <1>1, <1>2, <2>13 DEF NotAdmitted
  <2>14. QED
    BY <1>8, <2>1, <2>2, <2>3, <2>4, <2>5, <2>6, <2>7, <2>8, <2>9, <2>10, <2>11,
       <2>12, <2>13 DEF Advance
<1>9. CASE UNCHANGED vars
  BY <1>1, <1>9 DEF vars
<1>10. ASSUME NEW rev \in 1..MaxRev, Summarize(rev) PROVE TypeOK'
  BY <1>1, <1>10 DEF Summarize
<1>11. QED
  BY <1>3, <1>4, <1>5, <1>6, <1>7, <1>8, <1>9, <1>10 DEF Next
-----------------------------------------------------------------------------
(***************************************************************************)
(* The ledger and the directories.                                         *)
(***************************************************************************)

\* Replacing the ledger is the only step that changes its entries: the empty
\* ledger is written only over an empty one.
LEMMA LedgerSteps ==
    ASSUME Inv, [Next]_vars
    PROVE  ledger.seals' = ledger.seals \/ \E p \in Proc : ReplaceLedger(p)
<1>1. ASSUME NEW p \in Proc, CreateLedger(p) PROVE ledger.seals' = ledger.seals
  <2>1. ledger.seals = {}
    BY <1>1 DEF Inv, CreationInv, CreateLedger, Creating
  <2>2. QED
    BY <1>1, <2>1 DEF CreateLedger
<1>2. ASSUME NEW p \in Proc, Advance(p)
      PROVE  ledger.seals' = ledger.seals \/ ReplaceLedger(p)
  BY <1>1, <1>2
  DEF Advance, Preflight, OpenCustody, CreateCustody, CreateFile, CheckCustody, TakeFlock,
      Choose, Publish, WritePending, Unlock, Submit, Admitted, NotAdmitted
<1>3. QED
  BY <1>2 DEF Next, vars, Edit, Touch, Load, Abort, WriteReceipt, WriteComplete, Summarize

\* Publishing is the only step that changes the directories.
LEMMA HistorySteps ==
    ASSUME [Next]_vars
    PROVE  history' = history \/ \E p \in Proc : Publish(p)
<1>1. ASSUME NEW p \in Proc, Advance(p) PROVE history' = history \/ Publish(p)
  BY <1>1
  DEF Advance, Preflight, OpenCustody, CreateCustody, CreateFile, CreateLedger, CheckCustody,
      TakeFlock, Choose, WritePending, ReplaceLedger, Unlock, Submit, Admitted, NotAdmitted
<1>2. QED
  BY <1>1 DEF Next, vars, Edit, Touch, Load, Abort, WriteReceipt, WriteComplete, Summarize

\* What a request commits was chosen from the ledger it extends.
LEMMA CommitAdds ==
    ASSUME Inv, NEW p \in Proc, ReplaceLedger(p)
    PROVE  /\ ledger.seals' = ledger.seals \cup {req[p].new}
           /\ req[p].new \in BuildHandoff(ledger.seals, req[p].doc, req[p].target)
           /\ req[p].new \in history
           /\ req[p].doc \in Document /\ req[p].target \in Target
<1>1. req[p] \in Request
  BY DEF Inv, TypeOK
<1>2. QED
  BY <1>1 DEF Inv, RequestInv, ReplaceLedger, Deciding, Decided, Request

\* What a request publishes was chosen from the ledger too.
LEMMA PublishAdds ==
    ASSUME Inv, NEW p \in Proc, Publish(p)
    PROVE  /\ history' = history \cup {req[p].new}
           /\ req[p].new \in BuildHandoff(ledger.seals, req[p].doc, req[p].target)
           /\ req[p].doc \in Document /\ req[p].target \in Target
<1>1. req[p] \in Request
  BY DEF Inv, TypeOK
<1>2. QED
  BY <1>1 DEF Inv, RequestInv, Publish, Decided, Request

\* The chain over a dense ledger grows at its end or stays as it is.
LEMMA ChainStep ==
    ASSUME Inv, NEW p \in Proc, ReplaceLedger(p)
    PROVE  Dense(ledger.seals)' /\ LedgerChain'
<1> DEFINE S == ledger.seals
           b == req[p].new
<1>1. PICK n \in Nat : DenseTo(S, n)
  BY DEF Inv, Dense
<1>2. S \in SUBSET Handoff /\ LedgerChain
  BY DEF Inv, TypeOK
<1>3. CASE b \in S
  <2>1. ledger.seals' = S
    BY <1>3, CommitAdds
  <2>2. QED
    BY <1>1, <1>2, <2>1 DEF LedgerChain, Dense
<1>4. CASE b \notin S
  <2>1. /\ b.version = n + 1
        /\ \A s \in S : ~(s.rev = b.rev /\ s.target = b.target)
        /\ IF n = 0 THEN b.parent = NoParent
           ELSE \E s \in S : s.version = n /\ Digest(s) = b.parent
    BY <1>1, <1>2, <1>4, CommitAdds, BuildHandoffChoice
  <2>2. ledger.seals' = S \cup {b}
    BY CommitAdds
  <2>3. Dense(S \cup {b})
    BY <1>1, <2>1, DenseAdd
  <2>4. \A s \in S : s.version \in 1..n
    BY <1>1 DEF DenseTo
  <2>5. \A g, h \in S \cup {b} : g.version = h.version => g = h
    BY <1>2, <2>1, <2>4 DEF LedgerChain
  <2>6. \A g, h \in S \cup {b} : g.rev = h.rev /\ g.target = h.target => g = h
    BY <1>2, <2>1 DEF LedgerChain
  <2>7. \A h \in S \cup {b} :
           IF h.version = 1 THEN h.parent = NoParent
           ELSE \E g \in S \cup {b} : Digest(g) = h.parent /\ g.version = h.version - 1
    <3>1. CASE n = 0
      BY <1>2, <2>1, <3>1 DEF LedgerChain
    <3>2. CASE n # 0
      BY <1>2, <2>1, <3>2 DEF LedgerChain
    <3>3. QED
      BY <3>1, <3>2
  <2>8. QED
    BY <2>2, <2>3, <2>5, <2>6, <2>7 DEF LedgerChain
<1>5. QED
  BY <1>3, <1>4

\* A published directory takes at most the version after the last one.
LEMMA DirectoryStep ==
    ASSUME Inv, NEW p \in Proc, Publish(p)
    PROVE  Dense(history)' /\ HistoryGapFree'
<1> DEFINE S == ledger.seals
           b == req[p].new
<1>1. PICK n \in Nat : DenseTo(S, n)
  BY DEF Inv, Dense
<1>2. PICK m \in Nat : DenseTo(history, m)
  BY DEF Inv, Dense
<1>3. S \in SUBSET Handoff /\ S \subseteq history /\ HistoryGapFree
  BY DEF Inv, TypeOK, CommittedOnDisk
<1>4. CASE b \in S
  <2>1. history' = history
    BY <1>3, <1>4, PublishAdds
  <2>2. QED
    BY <1>2, <1>3, <2>1 DEF HistoryGapFree, Dense
<1>5. CASE b \notin S
  <2>1. /\ b.version = n + 1
        /\ IF n = 0 THEN b.parent = NoParent
           ELSE \E s \in S : s.version = n /\ Digest(s) = b.parent
    BY <1>1, <1>3, <1>5, PublishAdds, BuildHandoffChoice
  <2>2. n <= m
    <3>1. CASE n = 0
      BY <3>1
    <3>2. CASE n # 0
      <4>1. \E s \in S : s.version = n
        BY <1>1, <3>2 DEF DenseTo
      <4>2. QED
        BY <1>2, <1>3, <4>1 DEF DenseTo
    <3>3. QED
      BY <3>1, <3>2
  <2>3. history' = history \cup {b}
    BY PublishAdds
  <2>4. Dense(history \cup {b})
    BY <1>2, <2>1, <2>2, DenseAdd
  <2>5. \A h \in history \cup {b} :
           h.version > 1 =>
              \E g \in history \cup {b} : Digest(g) = h.parent /\ g.version = h.version - 1
    BY <1>3, <2>1 DEF HistoryGapFree
  <2>6. QED
    BY <2>3, <2>4, <2>5 DEF HistoryGapFree
<1>6. QED
  BY <1>4, <1>5

\* Ledger and directories only grow, by the next version, and stay a chain.
LEMMA StoreStep ==
    ASSUME Inv, [Next]_vars
    PROVE  /\ Dense(ledger.seals)' /\ LedgerChain' /\ CommittedOnDisk'
           /\ Dense(history)' /\ HistoryGapFree'
           /\ history \subseteq history'
           /\ ledger.seals \subseteq ledger.seals'
<1>1. history \subseteq history'
  BY HistorySteps, PublishAdds
<1>2. ledger.seals \subseteq ledger.seals'
  BY LedgerSteps, CommitAdds
<1>3. Dense(ledger.seals)' /\ LedgerChain'
  <2>1. CASE ledger.seals' = ledger.seals
    BY <2>1 DEF Inv, LedgerChain, Dense
  <2>2. QED
    BY <2>1, LedgerSteps, ChainStep
<1>4. Dense(history)' /\ HistoryGapFree'
  <2>1. CASE history' = history
    BY <2>1 DEF Inv, HistoryGapFree, Dense
  <2>2. QED
    BY <2>1, HistorySteps, DirectoryStep
<1>5. CommittedOnDisk'
  <2>1. ledger.seals \subseteq history
    BY DEF Inv, CommittedOnDisk
  <2>2. CASE ledger.seals' = ledger.seals
    BY <1>1, <2>1, <2>2 DEF CommittedOnDisk
  <2>3. ASSUME NEW p \in Proc, ReplaceLedger(p) PROVE CommittedOnDisk'
    BY <1>1, <2>1, <2>3, CommitAdds DEF CommittedOnDisk
  <2>4. QED
    BY <2>2, <2>3, LedgerSteps
<1>6. QED
  BY <1>1, <1>2, <1>3, <1>4, <1>5
-----------------------------------------------------------------------------
(***************************************************************************)
(* The creation of the store, the requests and the admissions.             *)
(***************************************************************************)

\* A step of a request leaves the other requests where they are.
LEMMA OthersStay ==
    ASSUME TypeOK, NEW p \in Proc, NEW q \in Proc, q # p,
           Advance(p) \/ Abort(p) \/ \E t \in Target : Load(p, t)
    PROVE  req'[q] = req[q]
BY DEF TypeOK, Load, Abort, Advance, Preflight, OpenCustody, CreateCustody, CreateFile,
       CreateLedger, CheckCustody, TakeFlock, Choose, Publish, WritePending, ReplaceLedger,
       Unlock, Submit, Admitted, NotAdmitted

\* Where a step takes its own request.
LEMMA StepsAhead ==
    ASSUME TypeOK, NEW p \in Proc
    PROVE  /\ Preflight(p) => req'[p].at \in {"shown", "idle"}
           /\ OpenCustody(p) => req'[p].at \in {"found", "rooted", "idle"}
           /\ CheckCustody(p) => req'[p].at \in {"waiting", "idle"}
           /\ TakeFlock(p) => req'[p].at = "locked"
           /\ Choose(p) => req'[p].at \in {"chosen", "idle"}
           /\ Publish(p) => req'[p].at = "published"
           /\ WritePending(p) => req'[p].at \in {"pending", "idle"}
           /\ ReplaceLedger(p) => req'[p].at = "replaced"
           /\ Unlock(p) => req'[p].at = "committed"
           /\ Submit(p) => req'[p].at = "admitting"
           /\ Admitted(p) \/ NotAdmitted(p) \/ Abort(p) => req'[p].at = "idle"
           /\ \A t \in Target : Load(p, t) => req'[p].at = "loaded"
<1>1. req \in [Proc -> Request]
  BY DEF TypeOK
<1> USE <1>1 DEF Request, NoRequest
<1>2. Preflight(p) => req'[p].at \in {"shown", "idle"}
  BY DEF Preflight
<1>3. OpenCustody(p) => req'[p].at \in {"found", "rooted", "idle"}
  BY DEF OpenCustody
<1>4. CheckCustody(p) => req'[p].at \in {"waiting", "idle"}
  BY DEF CheckCustody
<1>5. TakeFlock(p) => req'[p].at = "locked"
  BY DEF TakeFlock
<1>6. Choose(p) => req'[p].at \in {"chosen", "idle"}
  BY DEF Choose
<1>7. Publish(p) => req'[p].at = "published"
  BY DEF Publish
<1>8. WritePending(p) => req'[p].at \in {"pending", "idle"}
  BY DEF WritePending
<1>9. ReplaceLedger(p) => req'[p].at = "replaced"
  BY DEF ReplaceLedger
<1>10. Unlock(p) => req'[p].at = "committed"
  BY DEF Unlock
<1>11. Submit(p) => req'[p].at = "admitting"
  BY DEF Submit
<1>12. Admitted(p) \/ NotAdmitted(p) \/ Abort(p) => req'[p].at = "idle"
  BY DEF Admitted, NotAdmitted, Abort
<1>13. \A t \in Target : Load(p, t) => req'[p].at = "loaded"
  BY DEF Load
<1>14. QED
  BY <1>2, <1>3, <1>4, <1>5, <1>6, <1>7, <1>8, <1>9, <1>10, <1>11, <1>12, <1>13

\* A request that does not create the store keeps CreationInv when it steps
\* past the check of the store only while the ledger is there.
LEMMA CreationKept ==
    ASSUME Inv, NEW p \in Proc,
           Advance(p) \/ Abort(p) \/ \E t \in Target : Load(p, t),
           ledger.seals' = ledger.seals \/ "ledger" \in custody,
           "root" \in custody' <=> "root" \in custody,
           "ledger" \in custody' <=> "ledger" \in custody,
           req'[p].at \notin Creating,
           req'[p].at \in InStore => req[p].at \in InStore \/ "ledger" \in custody
    PROVE  CreationInv'
<1>1. \A q \in Proc : q # p => req'[q] = req[q]
  BY OthersStay DEF Inv
<1>2. CreationInv
  BY DEF Inv
<1>3. \A q \in Proc : req'[q].at \in Creating => req[q].at \in Creating
  BY <1>1
<1>4. \A q \in Proc : req'[q].at \in InStore => "ledger" \in custody
  BY <1>1, <1>2 DEF CreationInv
<1>5. QED
  BY <1>2, <1>3, <1>4 DEF CreationInv

\* A custody file is made empty only while nobody can have read one.
LEMMA CreationStep ==
    ASSUME Inv, [Next]_vars
    PROVE  CreationInv'
<1>0. TypeOK /\ CreationInv
  BY DEF Inv
<1> USE DEF Creating, InStore, Holding
<1>1. CASE Edit \/ Touch
  BY <1>0, <1>1 DEF Edit, Touch, CreationInv
<1>2. ASSUME NEW p \in Proc, NEW t \in Target, Load(p, t) PROVE CreationInv'
  <2>1. UNCHANGED <<custody, ledger>>
    BY <1>2 DEF Load
  <2>2. QED
    BY <1>0, <1>2, <2>1, StepsAhead, CreationKept
<1>3. ASSUME NEW p \in Proc, Abort(p) PROVE CreationInv'
  <2>1. UNCHANGED <<custody, ledger>>
    BY <1>3 DEF Abort
  <2>2. QED
    BY <1>0, <1>3, <2>1, StepsAhead, CreationKept
<1>4. CASE UNCHANGED <<custody, ledger, req>>
  BY <1>0, <1>4 DEF CreationInv
<1>5. ASSUME NEW p \in Proc, Advance(p) PROVE CreationInv'
  <2>0. \A q \in Proc : q # p => req'[q] = req[q]
    BY <1>0, <1>5, OthersStay
  <2>1. CASE Preflight(p) \/ TakeFlock(p) \/ Choose(p) \/ Publish(p) \/ Unlock(p)
             \/ Submit(p) \/ Admitted(p) \/ NotAdmitted(p)
    <3>1. UNCHANGED <<custody, ledger>>
      BY <2>1 DEF Preflight, TakeFlock, Choose, Publish, Unlock, Submit, Admitted, NotAdmitted
    <3>2. req'[p].at \in InStore => req[p].at \in InStore
      BY <1>0, <2>1, StepsAhead
      DEF Preflight, TakeFlock, Choose, Publish, Unlock, Submit, Admitted, NotAdmitted
    <3>3. QED
      BY <1>0, <1>5, <2>1, <3>1, <3>2, StepsAhead, CreationKept
  <2>2. CASE OpenCustody(p)
    <3>1. CASE custody' = custody
      <4>1. req'[p].at \notin Creating \cup InStore
        BY <1>0, <2>2, <3>1 DEF OpenCustody, TypeOK, Request, NoRequest
      <4>2. QED
        BY <1>5, <2>2, <3>1, <4>1, CreationKept DEF OpenCustody
    <3>2. CASE custody' # custody
      <4>1. /\ "root" \notin custody
            /\ custody' = custody \cup {"root"}
            /\ ledger' = ledger
            /\ req'[p].at = "rooted"
        BY <1>0, <2>2, <3>2 DEF OpenCustody, TypeOK, Request
      <4>2. QED
        BY <1>0, <2>0, <4>1 DEF CreationInv
    <3>3. QED
      BY <3>1, <3>2
  <2>3. CASE CreateCustody(p)
    <3>1. /\ req[p].at \in Creating
          /\ "root" \in custody'
          /\ \/ req'[p].at \in Creating /\ "ledger" \notin custody' /\ ledger' = ledger
             \/ req'[p].at = "found" /\ "ledger" \in custody'
      BY <1>0, <2>3 DEF CreateCustody, CreateFile, CreateLedger, TypeOK, Request, CreationInv
    <3>2. QED
      BY <1>0, <2>0, <3>1 DEF CreationInv
  <2>4. CASE CheckCustody(p)
    <3>1. UNCHANGED <<custody, ledger>> /\ (req'[p].at = "waiting" => "ledger" \in custody)
      BY <1>0, <2>4 DEF CheckCustody, TypeOK, Request, NoRequest
    <3>2. QED
      BY <1>0, <1>5, <2>4, <3>1, StepsAhead, CreationKept
  <2>5. CASE WritePending(p) \/ ReplaceLedger(p)
    <3>1. /\ req[p].at \in InStore
          /\ "root" \in custody' <=> "root" \in custody
          /\ "ledger" \in custody' <=> "ledger" \in custody
      BY <2>5 DEF WritePending, ReplaceLedger
    <3>2. "ledger" \in custody
      BY <1>0, <3>1 DEF CreationInv
    <3>3. QED
      BY <1>0, <1>5, <2>5, <3>1, <3>2, StepsAhead, CreationKept
  <2>6. QED
    BY <1>5, <2>1, <2>2, <2>3, <2>4, <2>5 DEF Advance
<1>6. CASE UNCHANGED vars
  BY <1>0, <1>6 DEF vars, CreationInv
<1>7. QED
  BY <1>1, <1>2, <1>3, <1>4, <1>5, <1>6 DEF Next, WriteReceipt, WriteComplete, Summarize

\* RequestInv for one request.
RequestOk(p) ==
    /\ req[p].at \in Holding => flock = p
    /\ req[p].at \in Deciding => req[p].base = ledger.seals
    /\ req[p].at \in Decided =>
          req[p].new \in BuildHandoff(ledger.seals, req[p].doc, req[p].target)
    /\ req[p].at \in {"published", "pending"} => req[p].new \in history
    /\ req[p].at \in {"replaced", "committed", "admitting"} =>
          req[p].new \in ledger.seals

\* The flock keeps the other requests where they are: one that holds it stays
\* its holder, and nobody else replaces the ledger under it.
LEMMA OthersUndisturbed ==
    ASSUME Inv, NEW p \in Proc, NEW q \in Proc, q # p,
           Advance(p) \/ Abort(p) \/ \E t \in Target : Load(p, t)
    PROVE  RequestOk(q)'
<1> USE DEF Holding, Deciding, Decided
<1>1. req'[q] = req[q]
  BY OthersStay DEF Inv
<1>2. RequestOk(q) /\ RequestOk(p)
  BY DEF Inv, RequestInv, RequestOk
<1>3. [Next]_vars
  BY DEF Next
<1>4. history \subseteq history' /\ ledger.seals \subseteq ledger.seals'
  BY <1>3, StoreStep
<1>5. req[q].at \in Holding => flock' = q
  <2> SUFFICES ASSUME req[q].at \in Holding PROVE flock' = q
    OBVIOUS
  <2>1. flock = q
    BY <1>2 DEF RequestOk
  <2>2. flock # NoProc /\ flock # p
    BY <2>1, SealingAssumption
  <2>3. Advance(p) => flock' = flock
    BY <2>2
    DEF Advance, Preflight, OpenCustody, CreateCustody, CreateFile, CreateLedger, CheckCustody,
        TakeFlock, Choose, Publish, WritePending, ReplaceLedger, Unlock, Submit, Admitted,
        NotAdmitted, Release, admission
  <2>4. QED
    BY <2>1, <2>2, <2>3 DEF Abort, Release, Load, admission
<1>6. req[q].at \in Holding => ledger.seals' = ledger.seals
  <2> SUFFICES ASSUME req[q].at \in Holding,
                      NEW r \in Proc, ReplaceLedger(r)
               PROVE  FALSE
    BY <1>3, LedgerSteps
  <2>1. req[r].at = "pending" /\ req'[r].at = "replaced"
    BY StepsAhead DEF ReplaceLedger, Inv
  <2>2. flock = r
    BY <2>1 DEF Inv, RequestInv
  <2>3. flock = q
    BY <1>2 DEF RequestOk
  <2>4. QED
    BY <1>1, <2>1, <2>2, <2>3
<1>7. QED
  BY <1>1, <1>2, <1>4, <1>5, <1>6 DEF RequestOk

\* The request that steps.
LEMMA OwnStep ==
    ASSUME Inv, NEW p \in Proc,
           Advance(p) \/ Abort(p) \/ \E t \in Target : Load(p, t)
    PROVE  RequestOk(p)'
<1> USE DEF Holding, Deciding, Decided
<1>1. RequestOk(p) /\ TypeOK
  BY DEF Inv, RequestInv, RequestOk
<1>2. req[p] \in Request /\ req \in [Proc -> Request]
  BY <1>1 DEF TypeOK
<1>3. CASE req'[p].at \notin Holding \cup {"committed", "admitting"}
  BY <1>3 DEF RequestOk
<1>4. CASE req'[p].at \in Holding \cup {"committed", "admitting"}
  <2>1. \/ TakeFlock(p) \/ Choose(p) \/ Publish(p) \/ WritePending(p)
        \/ ReplaceLedger(p) \/ Unlock(p) \/ Submit(p)
    <3>1. ~CreateCustody(p)
      BY <1>2, <1>4 DEF CreateCustody, CreateFile, CreateLedger, Request
    <3>2. QED
      BY <1>1, <1>4, <3>1, StepsAhead DEF Advance
  <2>2. CASE TakeFlock(p)
    BY <1>2, <2>2 DEF TakeFlock, RequestOk, Request
  <2>3. CASE Choose(p)
    <3>1. req'[p].at = "chosen"
      BY <1>1, <1>4, <2>3, StepsAhead
    <3>2. /\ req'[p].new \in BuildHandoff(req[p].base, req[p].doc, req[p].target)
          /\ req'[p].base = req[p].base
          /\ req'[p].doc = req[p].doc /\ req'[p].target = req[p].target
          /\ flock' = flock /\ ledger' = ledger
      BY <1>2, <2>3, <3>1 DEF Choose, Request, NoRequest
    <3>3. req[p].base = ledger.seals /\ flock = p
      BY <1>1, <2>3 DEF Choose, RequestOk
    <3>4. QED
      BY <3>1, <3>2, <3>3 DEF RequestOk
  <2>4. CASE Publish(p)
    <3>1. /\ req' = [req EXCEPT ![p].at = "published"]
          /\ req[p].new \in history'
          /\ UNCHANGED <<flock, ledger>>
      BY <2>4 DEF Publish
    <3>2. QED
      BY <1>1, <1>2, <2>4, <3>1 DEF Publish, RequestOk, Request
  <2>5. CASE WritePending(p)
    <3>1. req'[p].at = "pending"
      BY <1>1, <1>4, <2>5, StepsAhead
    <3>2. req' = [req EXCEPT ![p].at = "pending"] /\ UNCHANGED <<flock, ledger, history>>
      BY <1>2, <2>5, <3>1 DEF WritePending, Request, NoRequest
    <3>3. QED
      BY <1>1, <1>2, <2>5, <3>2 DEF WritePending, RequestOk, Request
  <2>6. CASE ReplaceLedger(p)
    BY <1>1, <1>2, <2>6 DEF ReplaceLedger, RequestOk, Request
  <2>7. CASE Unlock(p)
    BY <1>1, <1>2, <2>7 DEF Unlock, RequestOk, Request
  <2>8. CASE Submit(p)
    BY <1>1, <1>2, <2>8 DEF Submit, RequestOk, Request
  <2>9. QED
    BY <2>1, <2>2, <2>3, <2>4, <2>5, <2>6, <2>7, <2>8
<1>5. QED
  BY <1>3, <1>4

\* What a request has read and chosen under the flock stays true until it lets go.
LEMMA RequestStep ==
    ASSUME Inv, [Next]_vars
    PROVE  RequestInv'
<1>1. \A p \in Proc : RequestOk(p)
  BY DEF Inv, RequestInv, RequestOk
<1>2. ASSUME NEW p \in Proc, Advance(p) \/ Abort(p) \/ \E t \in Target : Load(p, t)
      PROVE  \A q \in Proc : RequestOk(q)'
  BY <1>2, OthersUndisturbed, OwnStep
<1>3. ASSUME UNCHANGED <<history, ledger, flock, req>>
      PROVE  \A q \in Proc : RequestOk(q)'
  BY <1>1, <1>3 DEF RequestOk
<1>4. \/ UNCHANGED <<history, ledger, flock, req>>
      \/ \E p \in Proc : Advance(p) \/ Abort(p) \/ \E t \in Target : Load(p, t)
  BY DEF Next, vars, Edit, Touch, WriteReceipt, WriteComplete, Summarize
<1>5. \A q \in Proc : RequestOk(q)'
  BY <1>2, <1>3, <1>4
<1>6. QED
  BY <1>5 DEF RequestInv, RequestOk

\* Admissions are of packages in the ledger, and are never taken back.
LEMMA AdmissionStep ==
    ASSUME Inv, [Next]_vars
    PROVE  AdmissionInv' /\ acked \subseteq acked'
<1>1. ledger.seals \subseteq ledger.seals' /\ AdmissionInv
  BY StoreStep DEF Inv
<1>2. \A p \in Proc : req[p].at \in {"committed", "admitting"} => req[p].new \in ledger.seals
  BY DEF Inv, RequestInv
<1>3. CASE UNCHANGED admission
  BY <1>1, <1>3 DEF AdmissionInv, admission
<1>4. ASSUME NEW p \in Proc, Submit(p) \/ Admitted(p)
      PROVE  AdmissionInv' /\ acked \subseteq acked'
  BY <1>1, <1>2, <1>4 DEF AdmissionInv, Submit, Admitted
<1>5. ASSUME NEW h \in submitted, WriteReceipt(h) \/ WriteComplete(h)
      PROVE  AdmissionInv' /\ acked \subseteq acked'
  BY <1>1, <1>5 DEF AdmissionInv, WriteReceipt, WriteComplete
<1>6. ASSUME NEW p \in Proc, Advance(p)
      PROVE  Submit(p) \/ Admitted(p) \/ UNCHANGED admission
  BY <1>6
  DEF Advance, Preflight, OpenCustody, CreateCustody, CreateFile, CreateLedger, CheckCustody,
      TakeFlock, Choose, Publish, WritePending, ReplaceLedger, Unlock, NotAdmitted, admission
<1>7. ASSUME NEW rev \in 1..MaxRev, Summarize(rev)
      PROVE  AdmissionInv' /\ acked \subseteq acked'
  BY <1>1, <1>7 DEF AdmissionInv, Summarize
<1>8. QED
  BY <1>3, <1>4, <1>5, <1>6, <1>7 DEF Next, vars, admission, Edit, Touch, Load, Abort

\* Every reachable state satisfies the invariant.
LEMMA Invariance == Spec => []Inv
<1>1. Inv /\ [Next]_vars => Inv'
  BY TypeStep, StoreStep, CreationStep, RequestStep, AdmissionStep DEF Inv
<1>2. QED
  BY InitInv, <1>1, PTL DEF Spec

-----------------------------------------------------------------------------
\* The state keeps its types: in particular whatever identity build_handoff
\* chooses, over the directories or over the ledger, is a well-formed handoff.
THEOREM TypeCorrect == Spec => []TypeOK
<1>1. Inv => TypeOK
  BY DEF Inv
<1>2. QED
  BY <1>1, Invariance, PTL

\* The committed packages form one unbroken lineage: versions without repeats
\* or gaps, each naming its predecessor (select_identity and build_handoff
\* under Store.locked), for any number of processes and crashes.
THEOREM LineageUnbroken == Spec => []LedgerChain
<1>1. Inv => LedgerChain
  BY DEF Inv
<1>2. QED
  BY <1>1, Invariance, PTL

\* Whatever the ledger vouches for is a published directory: seal_to_history
\* comes before Store.commit on every path.
THEOREM LedgerBacked == Spec => []CommittedOnDisk
<1>1. Inv => CommittedOnDisk
  BY DEF Inv
<1>2. QED
  BY <1>1, Invariance, PTL

\* The directories, which review_package reads, never miss a prior version,
\* also after requests were lost between the directory and the ledger.
THEOREM PreviewNeverBroken == Spec => []HistoryGapFree
<1>1. Inv => HistoryGapFree
  BY DEF Inv
<1>2. QED
  BY <1>1, Invariance, PTL

\* Only a package of the ledger is submitted, and only one with receipt and
\* completion marker is reported as admitted (verify_receipt, whoever calls it).
THEOREM AdmissionSound == Spec => []AdmittedIsCommitted
<1>1. Inv => AdmittedIsCommitted
  BY DEF Inv, AdmissionInv, AdmittedIsCommitted
<1>2. QED
  BY <1>1, Invariance, PTL

\* No step replaces or loses a sealed directory, a ledger entry or a reported
\* admission (seal_to_history's "a prior seal is never overwritten").
THEOREM NothingOverwritten == Spec => NeverOverwritten
<1>1. Inv /\ [Next]_vars =>
         [/\ history \subseteq history'
          /\ ledger.seals \subseteq ledger.seals'
          /\ acked \subseteq acked']_vars
  BY StoreStep, AdmissionStep
<1>2. QED
  BY <1>1, Invariance, PTL DEF Spec, NeverOverwritten
-----------------------------------------------------------------------------
(***************************************************************************)
(* The refinement of SealHistory.  Its log is the ledger in the order of   *)
(* the versions, as long as the ledger has entries.                        *)
(***************************************************************************)

Place(h) == [rev |-> h.rev, target |-> h.target]
LogOf(seals) == [v \in 1..Cardinality(seals) |->
                    LET h == CHOOSE s \in seals : s.version = v IN Place(h)]

Distinct(seals) == \A g, h \in seals : g.version = h.version => g = h

\* Before the first commit no handoff is current.
CurrentInv == ledger.seals = {} => ledger.current = NoHandoff

\* Versions 1..n, none of them twice, are n packages.
LEMMA CountVersions ==
    ASSUME NEW S, NEW n \in Nat, DenseTo(S, n), Distinct(S)
    PROVE  Cardinality(S) = n
<1> DEFINE f == [v \in 1..n |-> CHOOSE s \in S : s.version = v]
<1>1. \A v \in 1..n : f[v] \in S /\ f[v].version = v
  BY DEF DenseTo
<1>2. \A s \in S : s.version \in 1..n /\ f[s.version] = s
  BY <1>1 DEF DenseTo, Distinct
<1>3. f \in [1..n -> S]
  BY <1>1
<1>4. \A v, w \in 1..n : f[v] = f[w] => v = w
  BY <1>1
<1> HIDE DEF f
<1>5. f \in Injection(1..n, S)
  BY <1>3, <1>4 DEF Injection, IsInjective
<1>6. f \in Surjection(1..n, S)
  BY <1>2, <1>3 DEF Surjection
<1>7. ExistsBijection(1..n, S)
  BY <1>5, <1>6 DEF ExistsBijection, Bijection
<1>8. QED
  BY <1>7, FS_CountingElements

\* The entry at a place of the log is that of the package with this version.
LEMMA LogEntry ==
    ASSUME NEW S, NEW n \in Nat, DenseTo(S, n), Distinct(S)
    PROVE  /\ DOMAIN LogOf(S) = 1..n
           /\ \A h \in S : LogOf(S)[h.version] = Place(h)
           /\ \A v \in 1..n : \E h \in S : h.version = v /\ LogOf(S)[v] = Place(h)
<1>1. Cardinality(S) = n
  BY CountVersions
<1>2. DOMAIN LogOf(S) = 1..n
  BY <1>1 DEF LogOf
<1>3. ASSUME NEW h \in S PROVE LogOf(S)[h.version] = Place(h)
  <2>1. h.version \in 1..n
    BY DEF DenseTo
  <2>2. (CHOOSE s \in S : s.version = h.version) = h
    BY DEF Distinct
  <2>3. QED
    BY <1>1, <2>1, <2>2 DEF LogOf
<1>4. QED
  BY <1>2, <1>3 DEF DenseTo

\* Appending, read as a function of the places.
LEMMA AppendedSequence ==
    ASSUME NEW P, NEW s \in Seq(P), NEW e \in P
    PROVE  Append(s, e) =
              [v \in 1..(Len(s) + 1) |-> IF v = Len(s) + 1 THEN e ELSE s[v]]
<1> DEFINE A == Append(s, e)
           N == Len(s) + 1
<1>1. A \in Seq(P) /\ Len(A) = N
  OBVIOUS
<1>2. \A v \in 1..N : A[v] = IF v = N THEN e ELSE s[v]
  OBVIOUS
<1> HIDE DEF A, N
<1>3. DOMAIN A = 1..N /\ A = [v \in DOMAIN A |-> A[v]]
  BY <1>1
<1>4. A = [v \in 1..N |-> IF v = N THEN e ELSE s[v]]
  BY <1>2, <1>3
<1>5. QED
  BY <1>4 DEF A, N

\* A package with the version after the last is appended to the log.
LEMMA LogAppend ==
    ASSUME NEW S \in SUBSET Handoff, NEW n \in Nat, DenseTo(S, n), Distinct(S),
           NEW b \in Handoff, b.version = n + 1
    PROVE  LogOf(S \cup {b}) = Append(LogOf(S), Place(b))
<1> DEFINE T == S \cup {b}
<1>1. DenseTo(T, n + 1) /\ Distinct(T)
  BY DEF DenseTo, Distinct
<1>2. DOMAIN LogOf(S) = 1..n /\ DOMAIN LogOf(T) = 1..(n + 1)
  BY <1>1, LogEntry
<1>3. \A h \in S : LogOf(S)[h.version] = Place(h) /\ LogOf(T)[h.version] = Place(h)
  BY <1>1, LogEntry
<1>4. LogOf(T)[n + 1] = Place(b)
  BY <1>1, LogEntry
<1>5. \A v \in 1..n : LogOf(T)[v] = LogOf(S)[v]
  <2> SUFFICES ASSUME NEW v \in 1..n PROVE LogOf(T)[v] = LogOf(S)[v]
    OBVIOUS
  <2>1. PICK h \in S : h.version = v
    BY DEF DenseTo
  <2>2. LogOf(S)[h.version] = LogOf(T)[h.version]
    BY <1>3
  <2>3. QED
    BY <2>1, <2>2
<1>6. Cardinality(S) = n /\ Cardinality(T) = n + 1
  BY <1>1, CountVersions
<1>7. LogOf(S) = [v \in 1..n |-> LogOf(S)[v]] /\ LogOf(T) = [v \in 1..(n + 1) |-> LogOf(T)[v]]
  BY <1>6 DEF LogOf
<1> DEFINE P == {Place(h) : h \in S \cup {b}}
<1>8. LogOf(S) \in Seq(P)
  <2>1. \A v \in 1..n : LogOf(S)[v] \in P
    BY <1>3 DEF DenseTo
  <2> HIDE DEF P
  <2>2. LogOf(S) \in [1..n -> P]
    BY <1>7, <2>1
  <2>3. QED
    BY <2>2
<1>9. Place(b) \in P
  OBVIOUS
<1> HIDE DEF P, T
<1> DEFINE L == LogOf(S)
           e == Place(b)
<1>10. Len(L) = n
  BY <1>2, <1>8
<1>11. Append(L, e) = [v \in 1..(n + 1) |-> IF v = n + 1 THEN e ELSE L[v]]
  BY <1>8, <1>9, <1>10, AppendedSequence DEF L, e
<1>12. \A v \in 1..(n + 1) : LogOf(T)[v] = IF v = n + 1 THEN e ELSE L[v]
  BY <1>4, <1>5
<1> HIDE DEF L, e
<1>13. LogOf(T) = [v \in 1..(n + 1) |-> IF v = n + 1 THEN e ELSE L[v]]
  BY <1>7, <1>12
<1>14. QED
  BY <1>11, <1>13 DEF T, L, e

\* The owner is told that a package is admitted.
Told(h) == h \in ledger.seals /\ ledger' = ledger /\ acked' = acked \cup {h}

\* The steps that change the ledger or what the owner was told: what
\* session_summary finds among the directories is in the ledger, because nothing
\* else was ever submitted.
LEMMA ReportedSteps ==
    ASSUME Inv, CurrentInv, [Next]_vars
    PROVE  \/ UNCHANGED <<ledger.seals, ledger.current, acked>>
           \/ \E p \in Proc : ReplaceLedger(p) /\ UNCHANGED acked
           \/ \E h \in ledger.seals : Told(h)
<1>1. ASSUME NEW p \in Proc, CreateLedger(p)
      PROVE  UNCHANGED <<ledger.seals, ledger.current, acked>>
  <2>1. ledger.seals = {}
    BY <1>1 DEF Inv, CreationInv, CreateLedger, Creating
  <2>2. QED
    BY <1>1, <2>1 DEF CreateLedger, CurrentInv, admission
<1>2. ASSUME NEW p \in Proc, Advance(p)
      PROVE  \/ UNCHANGED <<ledger.seals, ledger.current, acked>>
             \/ ReplaceLedger(p) /\ UNCHANGED acked
             \/ Admitted(p)
  BY <1>1, <1>2
  DEF Advance, Preflight, OpenCustody, CreateCustody, CreateFile, CheckCustody, TakeFlock,
      Choose, Publish, WritePending, ReplaceLedger, Unlock, Submit, NotAdmitted, admission
<1>3. ASSUME NEW p \in Proc, Admitted(p) PROVE \E h \in ledger.seals : Told(h)
  BY <1>3 DEF Inv, RequestInv, Admitted, Told
<1>4. ASSUME NEW rev \in 1..MaxRev, Summarize(rev) PROVE \E h \in ledger.seals : Told(h)
  <2>1. PICK h \in complete : acked' = acked \cup {h}
    BY <1>4 DEF Summarize
  <2>2. h \in ledger.seals
    BY <2>1 DEF Inv, AdmissionInv
  <2> QED
    BY <1>4, <2>1, <2>2 DEF Summarize, Told
<1>5. QED
  BY <1>2, <1>3, <1>4
  DEF Next, vars, admission, Edit, Touch, Load, Abort, WriteReceipt, WriteComplete

LEMMA CurrentStep == Inv /\ CurrentInv /\ [Next]_vars => CurrentInv'
<1> SUFFICES ASSUME Inv, CurrentInv, [Next]_vars PROVE CurrentInv'
  OBVIOUS
<1>1. ASSUME NEW p \in Proc, ReplaceLedger(p) PROVE CurrentInv'
  BY <1>1 DEF ReplaceLedger, CurrentInv
<1>2. ASSUME NEW h \in ledger.seals, Told(h) PROVE CurrentInv'
  BY <1>2 DEF Told, CurrentInv
<1>3. QED
  BY <1>1, <1>2, ReportedSteps DEF CurrentInv

\* A commit records a new entry at the end, or designates the one that is there.
LEMMA CommitRefines ==
    ASSUME Inv, Inv', NEW p \in Proc, ReplaceLedger(p), UNCHANGED acked
    PROVE  History!Next
<1> DEFINE S == ledger.seals
           b == req[p].new
<1>1. PICK n \in Nat : DenseTo(S, n)
  BY DEF Inv, Dense
<1>2. /\ S \in SUBSET Handoff
      /\ Distinct(S)
  BY DEF Inv, TypeOK, LedgerChain, Distinct
<1>3. /\ ledger'.seals = S \cup {b}
      /\ b \in BuildHandoff(S, req[p].doc, req[p].target)
      /\ req[p].doc \in Document /\ req[p].target \in Target
  BY CommitAdds
<1>4. ledger'.current = b
  BY DEF ReplaceLedger
<1>5. DOMAIN LogOf(S) = 1..n
  BY <1>1, <1>2, LogEntry
<1>6. CASE b \in S
  <2>1. ledger'.seals = S
    BY <1>3, <1>6
  <2>2. b.version \in DOMAIN LogOf(S)
    BY <1>1, <1>5, <1>6 DEF DenseTo
  <2>3. History!Designate(b.version)
    BY <1>4, <2>1 DEF History!Designate
  <2>4. QED
    BY <2>2, <2>3 DEF History!Next, LogOf, Place
<1>7. CASE b \notin S
  <2>1. /\ b \in Handoff
        /\ b.version = n + 1
        /\ \A s \in S : ~(s.rev = b.rev /\ s.target = b.target)
    BY <1>1, <1>2, <1>3, <1>7, BuildHandoffChoice
  <2>2. Place(b) \in [rev : 1..MaxRev, target : Target]
    BY <1>3, <1>7 DEF BuildHandoff, Matching, Revision, Document, Place
  <2>3. LogOf(ledger'.seals) = Append(LogOf(S), Place(b))
    BY <1>1, <1>2, <1>3, <2>1, LogAppend
  <2>4. \A v \in DOMAIN LogOf(S) : LogOf(S)[v] # Place(b)
    <3>1. \A v \in 1..n : \E h \in S : LogOf(S)[v] = Place(h)
      BY <1>1, <1>2, LogEntry
    <3>2. \A h \in S : Place(h) # Place(b)
      BY <2>1 DEF Place
    <3>3. QED
      BY <1>5, <3>1, <3>2
  <2>5. Len(LogOf(ledger'.seals)) = n + 1
    <3>1. DenseTo(ledger'.seals, n + 1) /\ Distinct(ledger'.seals)
      BY <1>1, <1>2, <1>3, <2>1 DEF DenseTo, Distinct
    <3>2. DOMAIN LogOf(ledger'.seals) = 1..(n + 1)
      BY <3>1, LogEntry
    <3>3. QED
      BY <3>2
  <2>6. \E e \in [rev : 1..MaxRev, target : Target] : History!Record(e)
    BY <1>4, <2>1, <2>2, <2>3, <2>4, <2>5 DEF History!Record, LogOf, Place
  <2>7. QED
    BY <2>6 DEF History!Next
<1>8. QED
  BY <1>6, <1>7

\* What the owner is told to be admitted is an entry of the log.
LEMMA ToldRefines ==
    ASSUME Inv, NEW h \in ledger.seals, Told(h)
    PROVE  History!Next
<1>1. PICK n \in Nat : DenseTo(ledger.seals, n)
  BY DEF Inv, Dense
<1>2. Distinct(ledger.seals)
  BY DEF Inv, LedgerChain, Distinct
<1>3. h.version \in DOMAIN LogOf(ledger.seals)
  BY <1>1, <1>2, LogEntry DEF DenseTo
<1>4. \E place \in DOMAIN LogOf(ledger.seals) : History!Acknowledge(place)
  BY <1>3 DEF History!Acknowledge, Told
<1>5. QED
  BY <1>4 DEF History!Next, LogOf, Place

\* Sealing keeps the promise of SealHistory: the ledger is an append-only log
\* in the order of its versions, a content sealed before for its target only
\* becomes current again, and only an entry of the log is reported admitted
\* (seal_session, Store.commit, verify_receipt), whatever crashes.
THEOREM Implementation == Spec => ImplementsHistory
<1>1. Init => History!Init
  <2> SUFFICES ASSUME Init PROVE History!Init
    OBVIOUS
  <2>1. Cardinality(ledger.seals) = 0
    BY FS_EmptySet DEF Init
  <2>2. QED
    BY <2>1 DEF Init, History!Init, NoHandoff
<1>2. Init => CurrentInv
  BY DEF Init, CurrentInv
<1>3. Inv /\ Inv' /\ CurrentInv /\ [Next]_vars => [History!Next]_(History!vars)
  <2> SUFFICES ASSUME Inv, Inv', CurrentInv, [Next]_vars
               PROVE  [History!Next]_(History!vars)
    OBVIOUS
  <2>1. CASE UNCHANGED <<ledger.seals, ledger.current, acked>>
    BY <2>1 DEF History!vars
  <2>2. QED
    BY <2>1, ReportedSteps, CommitRefines, ToldRefines
<1>4. QED
  BY <1>1, <1>2, <1>3, CurrentStep, Invariance, PTL
  DEF Spec, ImplementsHistory, History!Spec

-----------------------------------------------------------------------------
(***************************************************************************)
(* What the preview is worth.                                              *)
(***************************************************************************)

Chosen == {"chosen", "published", "pending", "replaced", "committed", "admitting"}

\* A request past its preview goes on with a sealable document, for which both
\* what it showed and what it chose were built.
PreviewOk(p) ==
    /\ req[p].at \notin {"idle", "loaded"} =>
          /\ req[p].doc.rev \notin Unsealable
          /\ req[p].shown.rev = req[p].doc.rev /\ req[p].shown.target = req[p].target
    /\ req[p].at \in Chosen =>
          req[p].new.rev = req[p].doc.rev /\ req[p].new.target = req[p].target

PreviewInv == (\A p \in Proc : PreviewOk(p)) /\ NothingBlockedSealed

\* build_handoff, from whatever history, returns a package of the document and
\* the target it is given.
LEMMA BuiltAsAsked ==
    ASSUME NEW S, NEW d, NEW t, NEW h \in BuildHandoff(S, d, t)
    PROVE  h.rev = d.rev /\ h.target = t
  BY DEF BuildHandoff, Matching, Revision

\* A step that leaves the three of them in a request keeps what is known of it.
LEMMA PreviewStays ==
    ASSUME NEW p \in Proc, PreviewOk(p),
           req'[p].at \notin {"idle", "loaded"} =>
              /\ req[p].at \notin {"idle", "loaded"}
              /\ req'[p].doc = req[p].doc /\ req'[p].target = req[p].target
              /\ req'[p].shown = req[p].shown,
           req'[p].at \in Chosen => req[p].at \in Chosen /\ req'[p].new = req[p].new
    PROVE  PreviewOk(p)'
<1>1. req'[p].at \in Chosen => req'[p].at \notin {"idle", "loaded"}
  BY DEF Chosen
<1> QED
  BY <1>1 DEF PreviewOk

\* The two steps that build a package, and the steps that go on with it.
LEMMA PreviewStep ==
    ASSUME TypeOK, NEW p \in Proc, PreviewOk(p),
           Advance(p) \/ Abort(p) \/ \E t \in Target : Load(p, t)
    PROVE  PreviewOk(p)'
<1>1. req[p] \in Request /\ req \in [Proc -> Request]
  BY DEF TypeOK
<1>2. CASE Preflight(p)
  <2>1. CASE req'[p].at = "idle"
    BY <2>1 DEF PreviewOk, Chosen
  <2>2. CASE req'[p].at # "idle"
    <3>1. PICK h \in BuildHandoff(history, req[p].doc, req[p].target) :
             req' = [req EXCEPT ![p].at = "shown", ![p].shown = h]
      BY <1>1, <1>2, <2>2 DEF Preflight, NoRequest
    <3>2. req[p].doc.rev \notin Unsealable
      BY <1>1, <1>2, <2>2 DEF Preflight, NoRequest
    <3>3. /\ req'[p].at = "shown" /\ req'[p].shown = h
          /\ req'[p].doc = req[p].doc /\ req'[p].target = req[p].target
      BY <1>1, <3>1 DEF Request
    <3> QED
      BY <3>2, <3>3, BuiltAsAsked DEF PreviewOk, Chosen
  <2> QED
    BY <2>1, <2>2
<1>3. CASE Choose(p)
  <2>1. CASE req'[p].at = "idle"
    BY <2>1 DEF PreviewOk, Chosen
  <2>2. CASE req'[p].at # "idle"
    <3>1. PICK h \in BuildHandoff(req[p].base, req[p].doc, req[p].target) :
             req' = [req EXCEPT ![p].at = "chosen", ![p].new = h]
      BY <1>1, <1>3, <2>2 DEF Choose, NoRequest
    <3>2. /\ req[p].at = "locked" /\ req'[p].new = h
          /\ req'[p].doc = req[p].doc /\ req'[p].target = req[p].target
          /\ req'[p].shown = req[p].shown
      BY <1>1, <1>3, <3>1 DEF Choose, Request
    <3> QED
      BY <3>2, BuiltAsAsked DEF PreviewOk
  <2> QED
    BY <2>1, <2>2
<1>4. CASE Abort(p) \/ \E t \in Target : Load(p, t)
  <2>1. req'[p].at \in {"idle", "loaded"}
    BY <1>4, StepsAhead
  <2> QED
    BY <2>1 DEF PreviewOk, Chosen
<1>5. CASE /\ Advance(p)
           /\ ~Preflight(p) /\ ~Choose(p)
  <2>1. /\ req[p].at \notin {"idle", "loaded"}
        /\ \/ req'[p] = NoRequest
           \/ \E there \in Step : req'[p] = [req[p] EXCEPT !.at = there]
           \/ req'[p] = [req[p] EXCEPT !.at = "locked", !.base = ledger.seals]
    BY <1>1, <1>5
    DEF Advance, OpenCustody, CreateCustody, CreateFile, CreateLedger, CheckCustody, TakeFlock,
        Publish, WritePending, ReplaceLedger, Unlock, Submit, Admitted, NotAdmitted, Step
  <2>2. CASE req'[p] = NoRequest
    BY <2>2 DEF NoRequest, PreviewOk, Chosen
  <2>3. CASE req'[p] # NoRequest
    <3>1. /\ req'[p].doc = req[p].doc /\ req'[p].target = req[p].target
          /\ req'[p].shown = req[p].shown /\ req'[p].new = req[p].new
      BY <1>1, <2>1, <2>3 DEF Request
    <3>2. req'[p].at \in Chosen => req[p].at \in Chosen
      BY <1>1, <1>5, <2>3, StepsAhead
      DEF Advance, OpenCustody, CreateCustody, CreateFile, CreateLedger, CheckCustody, TakeFlock,
          Publish, WritePending, ReplaceLedger, Unlock, Submit, Admitted, NotAdmitted, Chosen,
          Request
    <3> QED
      BY <2>1, <3>1, <3>2, PreviewStays
  <2> QED
    BY <2>2, <2>3
<1> QED
  BY <1>2, <1>3, <1>4, <1>5

\* Every reachable state keeps what the previews found.
LEMMA PreviewInvariance == Spec => []PreviewInv
<1>1. Init => PreviewInv
  BY DEF Init, NoRequest, PreviewInv, PreviewOk, Chosen, NothingBlockedSealed
<1>2. ASSUME Inv, PreviewInv, [Next]_vars PROVE PreviewInv'
  <2>1. ASSUME NEW p \in Proc, Advance(p) \/ Abort(p) \/ \E t \in Target : Load(p, t)
        PROVE  \A q \in Proc : PreviewOk(q)'
    <3>1. PreviewOk(p)'
      BY <1>2, <2>1, PreviewStep DEF Inv, PreviewInv
    <3>2. ASSUME NEW q \in Proc, q # p PROVE PreviewOk(q)'
      <4>1. req'[q] = req[q]
        BY <1>2, <2>1, <3>2, OthersStay DEF Inv
      <4> QED
        BY <1>2, <4>1 DEF PreviewInv, PreviewOk
    <3> QED
      BY <3>1, <3>2
  <2>2. ASSUME req' = req PROVE \A q \in Proc : PreviewOk(q)'
    BY <1>2, <2>2 DEF PreviewInv, PreviewOk
  <2>3. \A q \in Proc : PreviewOk(q)'
    BY <1>2, <2>1, <2>2 DEF Next, vars, Edit, Touch, WriteReceipt, WriteComplete, Summarize
  <2>4. NothingBlockedSealed'
    <3>1. CASE ledger.seals' = ledger.seals
      BY <1>2, <3>1 DEF PreviewInv, NothingBlockedSealed
    <3>2. ASSUME NEW p \in Proc, ReplaceLedger(p) PROVE NothingBlockedSealed'
      <4>1. req[p].at = "pending" /\ ledger.seals' = ledger.seals \cup {req[p].new}
        BY <1>2, <3>2, CommitAdds DEF ReplaceLedger
      <4> QED
        BY <1>2, <4>1 DEF PreviewInv, PreviewOk, Chosen, NothingBlockedSealed
    <3> QED
      BY <1>2, <3>1, <3>2, LedgerSteps
  <2> QED
    BY <2>3, <2>4 DEF PreviewInv
<1> QED
  BY <1>1, <1>2, Invariance, PTL DEF Spec

\* Whatever other processes and crashes do, seal_session commits the content and
\* the target that the request previewed: the preview of review_package can be
\* wrong about the version and the parent, never about what is sealed.
THEOREM ContentSealedAsPreviewed == Spec => []ContentAsPreviewed
<1>1. PreviewInv => ContentAsPreviewed
  BY DEF PreviewInv, PreviewOk, Chosen, ContentAsPreviewed
<1> QED
  BY <1>1, PreviewInvariance, PTL

\* The blockers are looked at in the preview only, not under the lock; still no
\* revision that has some is committed.
THEOREM BlockersRespected == Spec => []NothingBlockedSealed
<1>1. PreviewInv => NothingBlockedSealed
  BY DEF PreviewInv
<1> QED
  BY <1>1, PreviewInvariance, PTL

-----------------------------------------------------------------------------
(***************************************************************************)
(* What a crash is to blame for.                                           *)
(***************************************************************************)

\* As long as no request was cut off, a pending file is one being written.
LeftoverInv ==
    aborts = 0 /\ "pending" \in custody =>
        \E p \in Proc : req[p].at \in {"creating", "pending"}

\* Whoever writes it removes it with its next step.
LEMMA LeftoverStep ==
    ASSUME TypeOK, LeftoverInv, aborts = 0, NEW p \in Proc,
           Advance(p) \/ \E t \in Target : Load(p, t), "pending" \in custody'
    PROVE  \E q \in Proc : req'[q].at \in {"creating", "pending"}
<1>1. CASE "pending" \notin custody
  <2>1. CreateFile(p, "lockable", "pending", "creating") \/ WritePending(p)
    <3>1. ASSUME NEW before, NEW file, NEW after, CreateFile(p, before, file, after)
          PROVE  file = "pending"
      BY <1>1, <3>1 DEF CreateFile
    <3>2. ~OpenCustody(p) /\ ~CreateLedger(p) /\ ~ReplaceLedger(p)
      BY <1>1 DEF OpenCustody, CreateLedger, ReplaceLedger
    <3>3. CreateCustody(p) \/ WritePending(p)
      BY <1>1, <3>2
      DEF Load, Advance, Preflight, CheckCustody, TakeFlock, Choose, Publish, Unlock, Submit,
          Admitted, NotAdmitted
    <3>4. ~CreateFile(p, "rooted", "key", "keyed") /\ ~CreateFile(p, "keyed", "lock", "lockable")
      BY <3>1
    <3> QED
      BY <3>2, <3>3, <3>4 DEF CreateCustody
  <2>2. req' = [req EXCEPT ![p].at = "creating"] \/ req' = [req EXCEPT ![p].at = "pending"]
    BY <1>1, <2>1 DEF CreateFile, WritePending
  <2>3. req'[p].at \in {"creating", "pending"}
    BY <2>2 DEF TypeOK, Request
  <2> QED
    BY <2>3
<1>2. CASE "pending" \in custody
  <2>1. PICK q \in Proc : req[q].at \in {"creating", "pending"}
    BY <1>2 DEF LeftoverInv
  <2>2. CASE p # q
    BY <2>1, <2>2, OthersStay
  <2>3. CASE p = q
    <3>1. CreateLedger(p) \/ ReplaceLedger(p)
      BY <2>1, <2>3
      DEF Load, Advance, Preflight, OpenCustody, CreateCustody, CreateFile, CheckCustody,
          TakeFlock, Choose, Publish, WritePending, Unlock, Submit, Admitted, NotAdmitted
    <3>2. "pending" \notin custody'
      BY <3>1 DEF CreateLedger, ReplaceLedger
    <3> QED
      BY <3>2
  <2> QED
    BY <2>2, <2>3
<1> QED
  BY <1>1, <1>2

\* No step but an abort counts as one, and an abort is counted.
LEMMA AbortsCounted ==
    ASSUME TypeOK, [Next]_vars, aborts' = 0
    PROVE  /\ aborts = 0
           /\ \/ \E p \in Proc : Advance(p) \/ \E t \in Target : Load(p, t)
              \/ UNCHANGED <<custody, req>>
<1>1. ASSUME NEW p \in Proc, Abort(p) PROVE FALSE
  <2>1. aborts' = aborts + 1 /\ aborts \in Nat
    BY <1>1, SealingAssumption DEF Abort, TypeOK
  <2> QED
    BY <2>1
<1>2. ASSUME NEW p \in Proc, Advance(p) PROVE aborts' = aborts
  BY <1>2
  DEF Advance, Preflight, OpenCustody, CreateCustody, CreateFile, CreateLedger, CheckCustody,
      TakeFlock, Choose, Publish, WritePending, ReplaceLedger, Unlock, Submit, Admitted,
      NotAdmitted
<1> QED
  BY <1>1, <1>2 DEF Next, vars, Edit, Touch, Load, WriteReceipt, WriteComplete, Summarize

\* So it is in every reachable state.
LEMMA LeftoverInvariance == Spec => []LeftoverInv
<1>1. Init => LeftoverInv
  BY DEF Init, LeftoverInv
<1>2. ASSUME TypeOK, LeftoverInv, [Next]_vars PROVE LeftoverInv'
  BY <1>2, LeftoverStep, AbortsCounted DEF LeftoverInv
<1>3. Inv => TypeOK
  BY DEF Inv
<1> QED
  BY <1>1, <1>2, <1>3, Invariance, PTL DEF Spec

\* Only a request that was cut off by a crash or an OS error leaves behind what
\* refuses to submit a committed package again (ledger.pending, opened with
\* O_EXCL by Store.write): refusals, timeouts and other requests never do.
THEOREM RetryableUnlessCutOff == Spec => [](aborts = 0 => AdmissionRetryable)
<1>1. LeftoverInv => (aborts = 0 => AdmissionRetryable)
  BY DEF LeftoverInv, AdmissionRetryable
<1> QED
  BY <1>1, LeftoverInvariance, PTL

-----------------------------------------------------------------------------
(***************************************************************************)
(* One process and no crash: what the preview is worth then.               *)
(***************************************************************************)

Before == {"shown", "found", "waiting", "locked"} \cup Creating

\* While the store exists, the directories are those of the ledger and, between
\* the publication and the commit, the one being sealed.
AloneOk(p) ==
    /\ req[p].at = "found" => "root" \in custody
    /\ "root" \in custody =>
          history = IF req[p].at \in {"published", "pending"}
                    THEN ledger.seals \cup {req[p].new} ELSE ledger.seals
    /\ req[p].at \in Before =>
          req[p].shown \in BuildHandoff(history, req[p].doc, req[p].target)
    /\ req[p].at \in {"chosen", "published", "pending", "replaced"} =>
          req[p].new = req[p].shown

AloneInv == aborts = 0 => \A p \in Proc : AloneOk(p)

\* From an unbroken lineage build_handoff has one package to return: "the first
\* match in the order of the sealed ids" and "the package of that version" each
\* stand for at most one.
LEMMA OneChoice ==
    ASSUME NEW S \in SUBSET Handoff, Dense(S),
           \A g, h \in S : g.version = h.version => g = h,
           \A g, h \in S : g.rev = h.rev /\ g.target = h.target => g = h,
           NEW d, NEW t, NEW x \in BuildHandoff(S, d, t), NEW y \in BuildHandoff(S, d, t)
    PROVE  x = y
<1>1. CASE Matching(S, d, t) # {}
  <2>1. x \in Matching(S, d, t) /\ y \in Matching(S, d, t)
    BY <1>1 DEF BuildHandoff
  <2> QED
    BY <2>1 DEF Matching
<1>2. CASE Matching(S, d, t) = {}
  <2> DEFINE v == NextVersion(S)
             parents == IF v = 1 THEN {NoParent}
                        ELSE {Digest(h) : h \in {s \in S : s.version = v - 1}}
             package(p) == [rev |-> d.rev, touch |-> d.touch, target |-> t,
                            version |-> v, parent |-> p]
  <2>1. /\ x \in {package(p) : p \in parents}
        /\ y \in {package(p) : p \in parents}
    BY <1>2 DEF BuildHandoff, Revision
  <2>2. \A p, q \in parents : p = q
    OBVIOUS
  <2> HIDE DEF parents
  <2> QED
    BY <2>1, <2>2
<1> QED
  BY <1>1, <1>2

\* The steps that leave the store and the directories as they are.
LEMMA AloneStays ==
    ASSUME NEW p \in Proc, AloneOk(p),
           UNCHANGED <<history, custody, ledger.seals>>,
           req[p].at \notin {"published", "pending"},
           req'[p].at \notin {"published", "pending"},
           req'[p].at = "found" => "root" \in custody,
           req'[p].at \in Before =>
              /\ req[p].at \in Before
              /\ req'[p].doc = req[p].doc /\ req'[p].target = req[p].target
              /\ req'[p].shown = req[p].shown,
           req'[p].at \notin {"chosen", "replaced"}
    PROVE  AloneOk(p)'
  BY DEF AloneOk

LEMMA AloneStep ==
    ASSUME Inv, LeftoverInv, aborts = 0, NEW p \in Proc, \A q \in Proc : q = p, AloneOk(p),
           Advance(p) \/ \E t \in Target : Load(p, t)
    PROVE  AloneOk(p)'
<1>1. /\ req[p] \in Request /\ req \in [Proc -> Request]
      /\ history \subseteq Handoff /\ ledger.seals \subseteq Handoff
  BY DEF Inv, TypeOK
<1>2. ASSUME NEW t \in Target, Load(p, t) PROVE AloneOk(p)'
  <2>1. req'[p].at = "loaded"
    BY <1>1, <1>2 DEF Load, NoRequest
  <2> QED
    BY <1>2, <2>1, AloneStays DEF Load, Before, Creating
<1>3. CASE Preflight(p)
  <2>1. req'[p].at = "idle" \/ /\ req'[p].at = "shown"
                               /\ req'[p].shown \in BuildHandoff(history, req[p].doc, req[p].target)
                               /\ req'[p].doc = req[p].doc /\ req'[p].target = req[p].target
    BY <1>1, <1>3 DEF Preflight, NoRequest, Request
  <2> QED
    BY <1>3, <2>1 DEF AloneOk, Preflight, Before, Creating
<1>4. CASE OpenCustody(p)
  <2>1. CASE custody' = custody
    <3>1. \/ req' = [req EXCEPT ![p] = NoRequest]
          \/ "root" \in custody /\ req' = [req EXCEPT ![p].at = "found"]
      BY <1>4, <2>1 DEF OpenCustody
    <3>2. \/ req'[p].at = "idle"
          \/ /\ req'[p].at = "found" /\ "root" \in custody
             /\ req'[p].doc = req[p].doc /\ req'[p].target = req[p].target
             /\ req'[p].shown = req[p].shown
      BY <1>1, <3>1 DEF NoRequest, Request
    <3>3. req[p].at = "shown"
      BY <1>4 DEF OpenCustody
    <3> QED
      BY <1>4, <2>1, <3>2, <3>3, AloneStays DEF OpenCustody, Before, Creating
  <2>2. CASE custody' # custody
    <3>1. /\ history = {} /\ "root" \notin custody
          /\ req' = [req EXCEPT ![p].at = "rooted"]
      BY <1>4, <2>2 DEF OpenCustody
    <3>2. ledger.seals = {}
      BY <3>1 DEF Inv, CreationInv
    <3>3. /\ req'[p].at = "rooted"
          /\ req'[p].doc = req[p].doc /\ req'[p].target = req[p].target
          /\ req'[p].shown = req[p].shown
      BY <1>1, <3>1 DEF Request
    <3> QED
      BY <1>4, <3>1, <3>2, <3>3 DEF AloneOk, OpenCustody, Before, Creating
  <2> QED
    BY <2>1, <2>2
<1>5. CASE CreateCustody(p)
  <2>1. /\ req[p].at \in Creating
        /\ req'[p].at \in {"keyed", "lockable", "creating", "found"}
        /\ req'[p].doc = req[p].doc /\ req'[p].target = req[p].target
        /\ req'[p].shown = req[p].shown
        /\ history' = history
    BY <1>1, <1>5 DEF CreateCustody, CreateFile, CreateLedger, Creating, Request
  <2>2. "root" \in custody /\ ledger.seals = {}
    BY <2>1 DEF Inv, CreationInv
  <2>3. ledger'.seals = {} /\ "root" \in custody'
    BY <1>5, <2>2 DEF CreateCustody, CreateFile, CreateLedger
  <2> QED
    BY <2>1, <2>2, <2>3 DEF AloneOk, Before, Creating
<1>6. CASE CheckCustody(p) \/ TakeFlock(p)
  <2>1. /\ UNCHANGED <<history, custody, ledger>>
        /\ req[p].at \in {"found", "waiting"}
        /\ \/ req'[p].at = "idle"
           \/ /\ req'[p].at \in {"waiting", "locked"}
              /\ req'[p].doc = req[p].doc /\ req'[p].target = req[p].target
              /\ req'[p].shown = req[p].shown
    BY <1>1, <1>6 DEF CheckCustody, TakeFlock, NoRequest, Request
  <2> QED
    BY <2>1, AloneStays DEF Before, Creating
<1>7. CASE Choose(p)
  <2>1. UNCHANGED <<history, custody, ledger>> /\ req[p].at = "locked"
    BY <1>7 DEF Choose
  <2>2. CASE req'[p].at = "idle"
    BY <2>1, <2>2, AloneStays DEF Before, Creating
  <2>3. CASE req'[p].at # "idle"
    <3>1. PICK h \in BuildHandoff(req[p].base, req[p].doc, req[p].target) :
             req' = [req EXCEPT ![p].at = "chosen", ![p].new = h]
      BY <1>1, <1>7, <2>3 DEF Choose, NoRequest
    <3>2. req'[p].at = "chosen" /\ req'[p].new = h /\ req'[p].shown = req[p].shown
      BY <1>1, <3>1 DEF Request
    <3>3. "root" \in custody /\ req[p].base = ledger.seals
      BY <2>1 DEF Inv, CreationInv, RequestInv, InStore, Holding, Deciding
    <3>4. history = ledger.seals
      BY <2>1, <3>3 DEF AloneOk
    <3>5. req[p].shown \in BuildHandoff(ledger.seals, req[p].doc, req[p].target)
      BY <2>1, <3>4 DEF AloneOk, Before
    <3>6. h = req[p].shown
      BY <1>1, <3>1, <3>3, <3>5, OneChoice DEF Inv, LedgerChain
    <3> QED
      BY <2>1, <3>2, <3>4, <3>6 DEF AloneOk, Before, Creating
  <2> QED
    BY <2>2, <2>3
<1>8. CASE Publish(p)
  <2>1. /\ UNCHANGED <<custody, ledger>> /\ req[p].at = "chosen"
        /\ history' = history \cup {req[p].new}
        /\ req'[p].at = "published" /\ req'[p].new = req[p].new
        /\ req'[p].shown = req[p].shown
    BY <1>1, <1>8 DEF Publish, Request
  <2> QED
    BY <2>1 DEF AloneOk, Before, Creating
<1>9. CASE WritePending(p)
  <2>1. req[p].at = "published"
    BY <1>9 DEF WritePending
  <2>2. "pending" \notin custody
    BY <2>1 DEF LeftoverInv
  <2>3. /\ custody' = custody \cup {"pending"} /\ UNCHANGED <<history, ledger>>
        /\ req'[p].at = "pending" /\ req'[p].new = req[p].new
        /\ req'[p].shown = req[p].shown
    BY <1>1, <1>9, <2>2 DEF WritePending, Request
  <2>4. "root" \in custody' <=> "root" \in custody
    BY <2>3
  <2> QED
    BY <2>1, <2>3, <2>4 DEF AloneOk, Before, Creating
<1>10. CASE ReplaceLedger(p)
  <2>1. /\ req[p].at = "pending" /\ history' = history
        /\ custody' = custody \ {"pending"}
        /\ ledger'.seals = req[p].base \cup {req[p].new}
        /\ req'[p].at = "replaced" /\ req'[p].new = req[p].new
        /\ req'[p].shown = req[p].shown
    BY <1>1, <1>10 DEF ReplaceLedger, Request
  <2>2. req[p].base = ledger.seals /\ "root" \in custody
    BY <2>1 DEF Inv, CreationInv, RequestInv, Deciding, InStore, Holding
  <2>3. history = ledger.seals \cup {req[p].new} /\ req[p].new = req[p].shown
    BY <2>1, <2>2 DEF AloneOk
  <2> QED
    BY <2>1, <2>2, <2>3 DEF AloneOk, Before, Creating
<1>11. CASE Unlock(p) \/ Submit(p) \/ Admitted(p) \/ NotAdmitted(p)
  <2>1. /\ UNCHANGED <<history, custody, ledger>>
        /\ req[p].at \in {"replaced", "committed", "admitting"}
        /\ req'[p].at \in {"committed", "admitting", "idle"}
    BY <1>1, <1>11 DEF Unlock, Submit, Admitted, NotAdmitted, NoRequest, Request
  <2> QED
    BY <2>1, AloneStays DEF Before, Creating
<1> QED
  BY <1>2, <1>3, <1>4, <1>5, <1>6, <1>7, <1>8, <1>9, <1>10, <1>11 DEF Advance

\* What the owner approved in the preview, version, parent and time of
\* completion included, is what is sealed when one process serves the session
\* and no request was cut off: review_package reads the directories and
\* seal_session the ledger, and the two agree.
THEOREM PreviewExactAlone ==
    ASSUME \A p, q \in Proc : p = q
    PROVE  Spec => [](aborts = 0 => SealedAsPreviewed)
<1>1. Init => AloneInv
  BY DEF Init, NoRequest, AloneInv, AloneOk, Before, Creating
<1>2. ASSUME Inv, LeftoverInv, AloneInv, [Next]_vars PROVE AloneInv'
  <2> SUFFICES ASSUME aborts' = 0, NEW p \in Proc PROVE AloneOk(p)'
    BY DEF AloneInv
  <2>1. aborts = 0 /\ AloneOk(p)
    BY <1>2, AbortsCounted DEF Inv, AloneInv
  <2>2. CASE Advance(p) \/ \E t \in Target : Load(p, t)
    BY <1>2, <2>1, <2>2, AloneStep
  <2>3. CASE UNCHANGED <<history, custody, ledger, req>>
    BY <2>1, <2>3 DEF AloneOk
  <2>4. ~Abort(p)
    BY <2>1, SealingAssumption DEF Abort
  <2> QED
    BY <1>2, <2>2, <2>3, <2>4 DEF Next, vars, Edit, Touch, WriteReceipt, WriteComplete, Summarize
<1>3. AloneInv => (aborts = 0 => SealedAsPreviewed)
  BY DEF AloneInv, AloneOk, SealedAsPreviewed
<1> QED
  BY <1>1, <1>2, <1>3, Invariance, LeftoverInvariance, PTL DEF Spec

-----------------------------------------------------------------------------
(***************************************************************************)
(* Requests come to an end.                                                *)
(***************************************************************************)

Progress(at) ==
    CASE at = "loaded" -> 1
      [] at = "shown" -> 2
      [] at = "rooted" -> 3
      [] at = "keyed" -> 4
      [] at = "lockable" -> 5
      [] at = "creating" -> 6
      [] at = "found" -> 7
      [] at = "waiting" -> 8
      [] at = "locked" -> 9
      [] at = "chosen" -> 10
      [] at = "published" -> 11
      [] at = "pending" -> 12
      [] at = "replaced" -> 13
      [] at = "committed" -> 14
      [] at = "admitting" -> 15
      [] OTHER -> 0

\* The safety half of RequestsProgress: a sealing request does no step again, not
\* even the look at the ledger before it waits for the flock, and so ends after at
\* most fifteen steps of its own.
THEOREM RequestsGoForward ==
    Spec => [][\A p \in Proc :
                  req[p].at # "idle" /\ req'[p] # req[p] =>
                      req'[p].at = "idle" \/ Progress(req'[p].at) > Progress(req[p].at)]_vars
<1>1. ASSUME TypeOK, [Next]_vars, NEW p \in Proc, req[p].at # "idle", req'[p] # req[p]
      PROVE  req'[p].at = "idle" \/ Progress(req'[p].at) > Progress(req[p].at)
  <2>1. Advance(p) \/ Abort(p)
    <3>1. \E q \in Proc : Advance(q) \/ Abort(q) \/ \E t \in Target : Load(q, t)
      BY <1>1 DEF Next, Edit, Touch, WriteReceipt, WriteComplete, Summarize, vars
    <3>2. Advance(p) \/ Abort(p) \/ \E t \in Target : Load(p, t)
      BY <1>1, <3>1, OthersStay
    <3> QED
      BY <1>1, <3>2 DEF Load
  <2>2. CASE CreateCustody(p)
    <3>1. \/ req[p].at = "rooted" /\ req' = [req EXCEPT ![p].at = "keyed"]
          \/ req[p].at = "keyed" /\ req' = [req EXCEPT ![p].at = "lockable"]
          \/ req[p].at = "lockable" /\ req' = [req EXCEPT ![p].at = "creating"]
          \/ req[p].at = "creating" /\ req' = [req EXCEPT ![p].at = "found"]
      BY <2>2 DEF CreateCustody, CreateFile, CreateLedger
    <3>2. \/ req[p].at = "rooted" /\ req'[p].at = "keyed"
          \/ req[p].at = "keyed" /\ req'[p].at = "lockable"
          \/ req[p].at = "lockable" /\ req'[p].at = "creating"
          \/ req[p].at = "creating" /\ req'[p].at = "found"
      BY <1>1, <3>1 DEF TypeOK, Request
    <3> QED
      BY <3>2 DEF Progress
  <2>3. CASE Preflight(p) \/ OpenCustody(p) \/ CheckCustody(p) \/ TakeFlock(p)
    <3>1. \/ Preflight(p) /\ req[p].at = "loaded"
          \/ OpenCustody(p) /\ req[p].at = "shown"
          \/ CheckCustody(p) /\ req[p].at = "found"
          \/ TakeFlock(p) /\ req[p].at = "waiting"
      BY <2>3 DEF Preflight, OpenCustody, CheckCustody, TakeFlock
    <3> QED
      BY <1>1, <3>1, StepsAhead DEF Progress
  <2>4. CASE Choose(p) \/ Publish(p) \/ WritePending(p) \/ ReplaceLedger(p) \/ Unlock(p) \/ Submit(p)
    <3>1. \/ Choose(p) /\ req[p].at = "locked"
          \/ Publish(p) /\ req[p].at = "chosen"
          \/ WritePending(p) /\ req[p].at = "published"
          \/ ReplaceLedger(p) /\ req[p].at = "pending"
          \/ Unlock(p) /\ req[p].at = "replaced"
          \/ Submit(p) /\ req[p].at = "committed"
      BY <2>4 DEF Choose, Publish, WritePending, ReplaceLedger, Unlock, Submit
    <3> QED
      BY <1>1, <3>1, StepsAhead DEF Progress
  <2>5. CASE Admitted(p) \/ NotAdmitted(p) \/ Abort(p)
    BY <1>1, <2>5, StepsAhead
  <2> QED
    BY <2>1, <2>2, <2>3, <2>4, <2>5 DEF Advance
<1>2. TypeOK /\ [Next]_vars =>
         [\A p \in Proc :
             req[p].at # "idle" /\ req'[p] # req[p] =>
                 req'[p].at = "idle" \/ Progress(req'[p].at) > Progress(req[p].at)]_vars
  BY <1>1
<1> QED
  BY <1>2, TypeCorrect, PTL DEF Spec
=============================================================================
