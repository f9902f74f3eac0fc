------------------------------ MODULE Sealing ------------------------------
(***************************************************************************)
(* Sealing one intake session into immutable packages and admitting them.  *)
(*                                                                         *)
(* POST /api/session/seal (artpkg_intake_server.py) loads the answers,     *)
(* shows itself the package that would be sealed, calls seal_session       *)
(* (artpkg_sealed_handoff.py), which under the lock of the custody ledger  *)
(* (artpkg_source_commitment.py) chooses the identity, publishes the       *)
(* directory and only then commits the ledger, and finally submits the     *)
(* directory to Pipeline-A (artpkg_pipeline_admission.py).  Every durable  *)
(* write is a step of its own, because the process can die, or the disk    *)
(* refuse, between any two of them.                                        *)
(*                                                                         *)
(* Proc is the set of server processes that share the session directory.   *)
(* In one process the session lock (SessionLocks.tla) admits one request   *)
(* at a time, so a process is one sequence of steps; what serialises the   *)
(* processes is only the flock of the ledger.                              *)
(***************************************************************************)
EXTENDS Naturals, FiniteSets, FiniteSetsExt

CONSTANTS
    Proc,        \* server processes working on the session
    NoProc,      \* the holder of a lock nobody holds
    Target,      \* target bindings a request may name
    NoTarget,    \* target_binding null, the one the review page sends
    Unsealable,  \* revisions with sealing blockers
    MaxRev,      \* bound: revisions of the answer document
    MaxTouch,    \* bound: times `updated` moves without a change of content
    MaxAborts    \* bound: requests that die or fail on an OS error

ASSUME SealingAssumption ==
    /\ NoProc \notin Proc
    /\ NoTarget \in Target
    /\ MaxRev \in Nat \ {0}
    /\ MaxTouch \in Nat
    /\ MaxAborts \in Nat

VARIABLES
    doc,         \* the answer document on disk
    history,     \* sealed_packages/: the published handoffs
    custody,     \* the files of .artpkg-source-custody
    ledger,      \* the content of ledger.json
    flock,       \* the process that holds custody/lock
    req,         \* the sealing request each process is serving
    submitted,   \* handoffs given to the Pipeline-A command
    receipts,    \* handoffs with ADMISSION_RECEIPT.json
    complete,    \* handoffs with ADMISSION_COMPLETE.json as well
    acked,       \* handoffs reported to the owner as admitted
    aborts       \* requests that ended by a crash or an OS error

vars == <<doc, history, custody, ledger, flock, req, submitted, receipts,
          complete, acked, aborts>>

admission == <<submitted, receipts, complete, acked>>

-----------------------------------------------------------------------------
(***************************************************************************)
(* Data.  `rev` stands for the bytes of the three payloads: every edit     *)
(* adds to answer_history or to the deleted ids, so a content never comes  *)
(* back.  `touch` is what approved_snapshot normalises away but            *)
(* completed_at keeps: `updated` moved and nothing else did.  A handoff is *)
(* its own sealed_id, the digest of the manifest that covers all of it.    *)
(***************************************************************************)

Document == [rev : 1..MaxRev, touch : 0..MaxTouch]

\* package_sha256: the digest of the package id, the version and the payloads.
PackageDigest == [rev : 0..MaxRev, version : Nat]
NoParent == [rev |-> 0, version |-> 0]

Handoff == [rev : 0..MaxRev, touch : 0..MaxTouch, target : Target,
            version : Nat, parent : PackageDigest]
NoHandoff == [rev |-> 0, touch |-> 0, target |-> NoTarget, version |-> 0,
              parent |-> NoParent]

Digest(h) == [rev |-> h.rev, version |-> h.version]

\* A package sealed by a release that kept no custody ledger.
Legacy == [rev |-> 1, touch |-> 0, target |-> NoTarget, version |-> 1,
           parent |-> NoParent]

CustodyFile == {"root", "key", "lock", "ledger", "pending"}

Step == {"idle", "loaded", "shown", "rooted", "keyed", "lockable", "creating",
         "found", "waiting", "locked", "chosen", "published", "pending",
         "replaced", "committed", "admitting"}

Request == [at : Step, doc : Document, target : Target, shown : Handoff,
            base : SUBSET Handoff, new : Handoff]
NoRequest == [at |-> "idle", doc |-> [rev |-> 1, touch |-> 0],
              target |-> NoTarget, shown |-> NoHandoff, base |-> {},
              new |-> NoHandoff]

TypeOK ==
    /\ doc \in Document
    /\ history \subseteq Handoff
    /\ custody \subseteq CustodyFile
    /\ ledger \in [seals : SUBSET Handoff, current : Handoff]
    /\ flock \in Proc \cup {NoProc}
    /\ req \in [Proc -> Request]
    /\ submitted \subseteq Handoff
    /\ receipts \subseteq Handoff
    /\ complete \subseteq Handoff
    /\ acked \subseteq Handoff
    /\ aborts \in 0..MaxAborts

-----------------------------------------------------------------------------
(***************************************************************************)
(* select_identity and build_handoff, over either history: the directories *)
(* (review_package) or the ledger (seal_session).  The code takes the      *)
(* first match in the order of the sealed ids, which are digests, so the   *)
(* result is any of the matches; no result is the error "the prior sealed  *)
(* package version is missing".                                            *)
(***************************************************************************)

Matching(seals, d, t) == {h \in seals : h.rev = d.rev /\ h.target = t}

NextVersion(seals) == Max({h.version : h \in seals} \cup {0}) + 1

FirstParent(seals, d, t) ==
    LET v == NextVersion(seals) IN
    {[rev |-> d.rev, touch |-> d.touch, target |-> t, version |-> v, parent |-> p] :
        p \in IF v = 1 THEN {NoParent} ELSE {Digest(h) : h \in {s \in seals : s.version = 1}}}
Revision(seals, d, t) ==
    LET v == NextVersion(seals) IN
    {[rev |-> d.rev, touch |-> d.touch, target |-> t, version |-> v, parent |-> p] :
        p \in IF v = 1 THEN {NoParent}
              ELSE {Digest(h) : h \in {s \in seals : s.version = v - 1}}}

AlwaysRevision(seals, d, t) == Revision(seals, d, t)
BuildHandoff(seals, d, t) ==
    IF Matching(seals, d, t) # {} THEN Matching(seals, d, t)
    ELSE Revision(seals, d, t)

-----------------------------------------------------------------------------
Init ==
    /\ doc = [rev |-> 1, touch |-> 0]
    /\ history \in {{}, {Legacy}}
    /\ custody = {}
    /\ ledger = [seals |-> {}, current |-> NoHandoff]
    /\ flock = NoProc
    /\ req = [p \in Proc |-> NoRequest]
    /\ submitted = {}
    /\ receipts = {}
    /\ complete = {}
    /\ acked = {}
    /\ aborts = 0

-----------------------------------------------------------------------------
(***************************************************************************)
(* The document changes under the requests: another process of the server, *)
(* or the questionnaire's command line, saves it with no lock they share.  *)
(***************************************************************************)

Edit ==
    /\ doc.rev < MaxRev
    /\ doc' = [rev |-> doc.rev + 1, touch |-> 0]
    /\ UNCHANGED <<history, custody, ledger, flock, req, admission, aborts>>

\* A rerun over the same seed merges no record and still moves `updated`.
Touch ==
    /\ doc.touch < MaxTouch
    /\ doc' = [doc EXCEPT !.touch = @ + 1]
    /\ UNCHANGED <<history, custody, ledger, flock, req, admission, aborts>>

-----------------------------------------------------------------------------
(***************************************************************************)
(* The sealing request.                                                    *)
(***************************************************************************)

\* The session is loaded once; what is sealed is this copy.
Load(p, t) ==
    /\ req[p].at = "idle"
    /\ req' = [req EXCEPT ![p] = [NoRequest EXCEPT !.at = "loaded",
                                                   !.doc = doc,
                                                   !.target = t]]
    /\ UNCHANGED <<doc, history, custody, ledger, flock, admission, aborts>>

\* pipeline_admission_status(review_package(...)): the package is previewed
\* from the directories, and a document with blockers goes no further.
Preflight(p) ==
    /\ req[p].at = "loaded"
    /\ \/ /\ req[p].doc.rev \notin Unsealable
          /\ \E h \in BuildHandoff(history, req[p].doc, req[p].target) :
                req' = [req EXCEPT ![p].at = "shown", ![p].shown = h]
       \/ /\ \/ req[p].doc.rev \in Unsealable
             \/ BuildHandoff(history, req[p].doc, req[p].target) = {}
          /\ req' = [req EXCEPT ![p] = NoRequest]
    /\ UNCHANGED <<doc, history, custody, ledger, flock, admission, aborts>>

\* Store.locked(create=True): an absent store is created, but only for a
\* session that has no sealed history to adopt.
OpenCustody(p) ==
    /\ req[p].at = "shown"
    /\ \/ /\ "root" \in custody
          /\ req' = [req EXCEPT ![p].at = "found"]
          /\ UNCHANGED custody
       \/ /\ "root" \notin custody
          /\ history = {}
          /\ custody' = custody \cup {"root"}
          /\ req' = [req EXCEPT ![p].at = "rooted"]
       \/ /\ "root" \notin custody
          /\ history # {}
          /\ req' = [req EXCEPT ![p] = NoRequest]
          /\ UNCHANGED custody
    /\ UNCHANGED <<doc, history, ledger, flock, admission, aborts>>

\* The creator writes the key, the lock file and an empty ledger in turn.
CreateFile(p, before, file, after) ==
    /\ req[p].at = before
    /\ custody' = custody \cup {file}
    /\ req' = [req EXCEPT ![p].at = after]
    /\ UNCHANGED <<doc, history, ledger, flock, admission, aborts>>

CreateLedger(p) ==
    /\ req[p].at = "creating"
    /\ custody' = (custody \ {"pending"}) \cup {"ledger"}
    /\ ledger' = [seals |-> {}, current |-> NoHandoff]
    /\ req' = [req EXCEPT ![p].at = "found"]
    /\ UNCHANGED <<doc, history, flock, admission, aborts>>

CreateCustody(p) ==
    \/ CreateFile(p, "rooted", "key", "keyed")
    \/ CreateFile(p, "keyed", "lock", "lockable")
    \/ CreateFile(p, "lockable", "pending", "creating")
    \/ CreateLedger(p)

\* A store with a file missing is not repaired: "manual recovery required".
CheckCustody(p) ==
    /\ req[p].at = "found"
    /\ IF {"key", "lock", "ledger"} \subseteq custody
       THEN req' = [req EXCEPT ![p].at = "waiting"]
       ELSE req' = [req EXCEPT ![p] = NoRequest]
    /\ UNCHANGED <<doc, history, custody, ledger, flock, admission, aborts>>

\* The exclusive flock; the ledger is read while it is held.
SkipFlock(p) ==
    /\ req[p].at = "waiting"
    /\ flock' = p
    /\ req' = [req EXCEPT ![p].at = "locked", ![p].base = ledger.seals]
    /\ UNCHANGED <<doc, history, custody, ledger, admission, aborts>>
TakeFlock(p) ==
    /\ req[p].at = "waiting"
    /\ flock = NoProc
    /\ flock' = p
    /\ req' = [req EXCEPT ![p].at = "locked", ![p].base = ledger.seals]
    /\ UNCHANGED <<doc, history, custody, ledger, admission, aborts>>

\* The lock goes with the file handle, on every way out of the `with` block.
KeepOpen(p) == UNCHANGED flock
Release(p) == flock' = IF flock = p THEN NoProc ELSE flock

\* The identity is chosen from the ledger, never from the directories, and for
\* the document that was loaded, whatever has been saved since.
ChooseFromHistory(p) ==
    /\ req[p].at = "locked"
    /\ \E h \in BuildHandoff(history, req[p].doc, req[p].target) :
          req' = [req EXCEPT ![p].at = "chosen", ![p].new = h]
    /\ UNCHANGED <<doc, history, custody, ledger, flock, admission, aborts>>
ChooseAnew(p) ==
    /\ req[p].at = "locked"
    /\ \E h \in BuildHandoff(req[p].base, doc, req[p].target) :
          req' = [req EXCEPT ![p].at = "chosen", ![p].new = h]
    /\ UNCHANGED <<doc, history, custody, ledger, flock, admission, aborts>>
Choose(p) ==
    /\ req[p].at = "locked"
    /\ LET choices == BuildHandoff(req[p].base, req[p].doc, req[p].target) IN
       IF choices = {}
       THEN /\ req' = [req EXCEPT ![p] = NoRequest]
            /\ Release(p)
       ELSE /\ \E h \in choices :
                  req' = [req EXCEPT ![p].at = "chosen", ![p].new = h]
            /\ UNCHANGED flock
    /\ UNCHANGED <<doc, history, custody, ledger, admission, aborts>>

\* seal_to_history: the staged directory is renamed to its sealed id, or the
\* one that has this id already is found to hold the same bytes.
Publish(p) ==
    /\ req[p].at = "chosen"
    /\ history' = history \cup {req[p].new}
    /\ req' = [req EXCEPT ![p].at = "published"]
    /\ UNCHANGED <<doc, custody, ledger, flock, admission, aborts>>

\* Store.write opens ledger.pending with O_EXCL: a leftover one is an error.
WritePending(p) ==
    /\ req[p].at = "published"
    /\ \/ /\ "pending" \notin custody
          /\ custody' = custody \cup {"pending"}
          /\ req' = [req EXCEPT ![p].at = "pending"]
          /\ UNCHANGED flock
       \/ /\ "pending" \in custody
          /\ req' = [req EXCEPT ![p] = NoRequest]
          /\ Release(p)
          /\ UNCHANGED custody
    /\ UNCHANGED <<doc, history, ledger, admission, aborts>>

\* os.replace: the new ledger is visible as a whole or not at all.
DropCurrent(p) ==
    /\ req[p].at = "pending"
    /\ custody' = custody \ {"pending"}
    /\ ledger' = [seals |-> req[p].base \cup {req[p].new}]
    /\ req' = [req EXCEPT ![p].at = "replaced"]
    /\ UNCHANGED <<doc, history, flock, admission, aborts>>
ReplaceLedger(p) ==
    /\ req[p].at = "pending"
    /\ custody' = custody \ {"pending"}
    /\ ledger' = [seals |-> req[p].base \cup {req[p].new}, current |-> req[p].new]
    /\ req' = [req EXCEPT ![p].at = "replaced"]
    /\ UNCHANGED <<doc, history, flock, admission, aborts>>

Unlock(p) ==
    /\ req[p].at = "replaced"
    /\ Release(p)
    /\ req' = [req EXCEPT ![p].at = "committed"]
    /\ UNCHANGED <<doc, history, custody, ledger, admission, aborts>>

-----------------------------------------------------------------------------
(***************************************************************************)
(* Admission.  The Pipeline-A command is external: once given a package it *)
(* may write the receipt, and later its completion marker, at any time,    *)
(* also when the server that started it has died, or has killed it after   *)
(* 60 seconds while what it started itself goes on.                        *)
(***************************************************************************)

Submit(p) ==
    /\ req[p].at = "committed"
    /\ submitted' = submitted \cup {req[p].new}
    /\ req' = [req EXCEPT ![p].at = "admitting"]
    /\ UNCHANGED <<doc, history, custody, ledger, flock, receipts, complete, acked, aborts>>

WriteReceipt(h) ==
    /\ h \in submitted \ receipts
    /\ receipts' = receipts \cup {h}
    /\ UNCHANGED <<doc, history, custody, ledger, flock, req, submitted, complete, acked, aborts>>

WriteComplete(h) ==
    /\ h \in receipts \ complete
    /\ complete' = complete \cup {h}
    /\ UNCHANGED <<doc, history, custody, ledger, flock, req, submitted, receipts, acked, aborts>>

\* The exit status is never trusted alone: verify_receipt reads the pair.
TrustExitStatus(p) ==
    /\ req[p].at = "admitting"
    /\ acked' = acked \cup {req[p].new}
    /\ req' = [req EXCEPT ![p] = NoRequest]
    /\ UNCHANGED <<doc, history, custody, ledger, flock, submitted, receipts, complete, aborts>>
Admitted(p) ==
    /\ req[p].at = "admitting"
    /\ req[p].new \in complete
    /\ acked' = acked \cup {req[p].new}
    /\ req' = [req EXCEPT ![p] = NoRequest]
    /\ UNCHANGED <<doc, history, custody, ledger, flock, submitted, receipts, complete, aborts>>

\* A timeout, a nonzero exit or a receipt that does not verify.
NotAdmitted(p) ==
    /\ req[p].at = "admitting"
    /\ req' = [req EXCEPT ![p] = NoRequest]
    /\ UNCHANGED <<doc, history, custody, ledger, flock, admission, aborts>>

\* session_summary, which answers every route of the session: the package is
\* previewed from the directories, for a document that may have been saved
\* again since it was loaded, and reported admitted when its receipt verifies.
\* The ledger is not asked.
Summarize(rev) ==
    /\ rev \in 1..doc.rev \ Unsealable
    /\ \E h \in BuildHandoff(history, [rev |-> rev, touch |-> 0], NoTarget) \cap history \cap complete :
          acked' = acked \cup {h}
    /\ UNCHANGED <<doc, history, custody, ledger, flock, req, submitted, receipts, complete, aborts>>

-----------------------------------------------------------------------------
\* A request ends at any step by a crash of its process or an OS error: the
\* lock goes with it, what it wrote stays.
Abort(p) ==
    /\ req[p].at # "idle"
    /\ aborts < MaxAborts
    /\ aborts' = aborts + 1
    /\ req' = [req EXCEPT ![p] = NoRequest]
    /\ Release(p)
    /\ UNCHANGED <<doc, history, custody, ledger, admission>>

Advance(p) ==
    \/ Preflight(p)
    \/ OpenCustody(p)
    \/ CreateCustody(p)
    \/ CheckCustody(p)
    \/ TakeFlock(p)
    \/ Choose(p)
    \/ Publish(p)
    \/ WritePending(p)
    \/ ReplaceLedger(p)
    \/ Unlock(p)
    \/ Submit(p)
    \/ Admitted(p)
    \/ NotAdmitted(p)

Next ==
    \/ Edit
    \/ Touch
    \/ \E p \in Proc : Advance(p) \/ Abort(p) \/ \E t \in Target : Load(p, t)
    \/ \E h \in submitted : WriteReceipt(h) \/ WriteComplete(h)
    \/ \E rev \in 1..MaxRev : Summarize(rev)

Spec == Init /\ [][Next]_vars

\* A request that can take a step takes it: nothing in it waits but for the
\* flock, and the admission command is cut off after 60 seconds.
FairSpec == Spec /\ \A p \in Proc : WF_vars(Advance(p))

-----------------------------------------------------------------------------
\* The lineage of the committed packages is one unbroken chain: no version is
\* issued twice, none is skipped, each revision names the package before it
\* as its parent, and a content is never sealed twice for the same target
\* (select_identity and build_handoff, over the ledger).
LedgerChain ==
    /\ \A g, h \in ledger.seals : g.version = h.version => g = h
    /\ \A g, h \in ledger.seals : g.rev = h.rev /\ g.target = h.target => g = h
    /\ \A h \in ledger.seals :
          IF h.version = 1 THEN h.parent = NoParent
          ELSE \E g \in ledger.seals : Digest(g) = h.parent /\ g.version = h.version - 1

\* Every package the ledger vouches for can be read back from its directory,
\* whatever crashed (seal_to_history runs before Store.commit).
CommittedOnDisk == ledger.seals \subseteq history

\* The preview never fails on "the prior sealed package version is missing":
\* each directory beyond version 1, those of lost requests included, has its
\* parent among the directories (review_package reads them, not the ledger).
HistoryGapFree ==
    \A h \in history :
        h.version > 1 => \E g \in history : Digest(g) = h.parent /\ g.version = h.version - 1

\* The owner is told "admitted" only of a package that the ledger holds, and
\* only with a receipt and its completion marker on disk, by the seal route and
\* by session_summary, which looks at directories and receipts alone; nothing
\* that the ledger does not hold, a legacy or a lost directory, reaches
\* Pipeline-A.
AdmittedIsCommitted ==
    /\ submitted \subseteq ledger.seals
    /\ acked \subseteq ledger.seals \cap complete

\* "A prior seal is never overwritten": neither a published directory nor a
\* ledger entry is ever replaced or lost, and an admission is never revoked.
NeverOverwritten ==
    [][/\ history \subseteq history'
       /\ ledger.seals \subseteq ledger.seals'
       /\ acked \subseteq acked']_vars

\* The ledger, read as the log of its entries by version, behaves as the
\* append-only history of SealHistory.tla.
History == INSTANCE SealHistory WITH
    Entry <- [rev : 1..MaxRev, target : Target],
    log <- [v \in 1..Cardinality(ledger.seals) |->
               LET h == CHOOSE s \in ledger.seals : s.version = v
               IN  [rev |-> h.rev, target |-> h.target]],
    current <- ledger.current.version,
    acknowledged <- {h.version : h \in acked}

ImplementsHistory == History!Spec

\* No request keeps the others out: one that is past its start and not itself
\* waiting for the flock goes on, until it ends or waits for the flock; and
\* whoever has the flock gives it back, also when its admission never answers.
\* Which of the waiting processes gets it then, flock does not say.
RequestsProgress ==
    \A p \in Proc :
        /\ req[p].at \notin {"idle", "waiting"} ~> req[p].at \in {"idle", "waiting"}
        /\ flock = p ~> flock # p

\* With one process and no crash, the package committed is the one the same
\* request previewed: the two histories it was chosen from agree.
SealedAsPreviewed ==
    \A p \in Proc : req[p].at = "replaced" => req[p].new = req[p].shown

\* A committed package that was not admitted can be submitted again: nothing
\* an earlier request left behind refuses the commit that precedes admission.
AdmissionRetryable ==
    (/\ ledger.seals \ complete # {}
     /\ \A p \in Proc : req[p].at = "idle")
        => "pending" \notin custody

\* Whatever is saved, overlaps or crashes between the preview and the commit,
\* what is committed is the content that the same request previewed, for the
\* target it named: only the version, the parent and the time of completion may
\* be others.
ContentAsPreviewed ==
    \A p \in Proc :
        req[p].at \in {"replaced", "committed", "admitting"} =>
            req[p].new.rev = req[p].shown.rev /\ req[p].new.target = req[p].shown.target

\* A revision with sealing blockers is never committed.
NothingBlockedSealed == \A h \in ledger.seals : h.rev \notin Unsealable
=============================================================================
