# ArtPkgPro in TLA+

ArtPkgPro turns a requirements document into a reviewed, sealed and admitted
"artifacts package". A small intake server keeps one directory per session; the
owner answers questions in a browser, approves the result, seals it into an
immutable package, has it admitted by an external command (Pipeline-A), sends it
to an external model server (DSH) for an advisory review and finally has a
coding workspace prepared. This directory holds TLA+ models of the parts of that
program in which order, failure and concurrency matter, the TLC runs that check
them and TLAPS proofs of their main properties.

Source paths below are relative to `src/tools/`.

## The system

### Components, what they keep and what they do

| component | state | operations |
|---|---|---|
| intake server (`artpkg_intake_server.py`) | the lock registry; everything else is on disk | routes of `do_GET` and `do_POST`; creation of a session and its move to the owner; projection files |
| session locks (same file, 35-48, 642-653, 817-819) | `_SESSION_LOCKS` (weak values), its guard | find or make the lock of a session, hold it for one request |
| intake (`artpkg_intake.py`) | `answers.json`, `session.json`, `seed.json` | create, load, confirm, provide, reject, advance a record, review the intent, refresh |
| questionnaire (`artifacts_package_questionnaire.py`) | the answer document: answers, records, deleted ids, history | set an answer, suppress and restore conditional answers, harness mode and transitions, add/edit/delete records, validate, save, generate |
| requirement approval (`artpkg_requirement_approval.py`) | none | derive whether the requirements are approved |
| sealing (`artpkg_sealed_handoff.py`) | `sealed_packages/<sealed_id>/` | preview, choose the identity, publish a directory, read back, ZIP |
| source custody (`artpkg_source_commitment.py`) | `.artpkg-source-custody/`: key, lock, ledger | create, lock, read, replace the ledger |
| pipeline admission (`artpkg_pipeline_admission.py`) | receipts of the external command | submit, verify a receipt |
| dsh bridge (`artpkg_dsh_bridge.py`) | one directory per binding: `.lock`, `DSH_HANDOFF.json`, staged files | send, status, transcript |
| coding handoff (`artpkg_coding_handoff.py`) | the final review in the document; a workspace and a record per package | preview and approve the review, prepare the workspace and its DSH session |
| ux preparation (`artpkg_ux_preparation.py`) | uploads, resolutions, reviews and runs | upload, resolve, review, run, verify |
| v0.3 gateway (`artpkg_v03.py`) | none between calls; revision, lineage and digest are in the documents | new intake, revise, export a work order, new scope, validate |
| archify (`artpkg_archify_projection.py`, `artpkg_archify_runner.py`) | projection files and HTML of a session | build and check the projection, run the external renderer |
| authentication, DSH setup, status server, operational check, review guard, web pages | none of their own | header check, configuration, reports, pages |

### How they interact

A request takes the lock of its session, loads the document, calls one function
and saves what it changed before the answer is sent and the lock released. That
orders requests *inside* one process. What several server processes share is
ordered only by `flock`: the custody ledger (blocking) and the directory of a DSH
binding (nonblocking). The bridge and the coding handoff start from a package
that is sealed and whose Pipeline-A receipt verifies; they read it, and never
change what sealing wrote. Pipeline-A is a child process that is cut off after
60 seconds, DSH an HTTP server whose calls are cut off after 20: either may
still do what it was asked afterwards.

### What is hard

- **Crash between two durable writes**: directory published but not in the
  ledger; receipt without its completion marker; prompt on its way but recorded
  only before; workspace renamed but no record; `session.json` half written.
- **Late effects of a call that was given up**, followed by a retry.
- **Two processes, or two threads, on one session**, and copies of the document
  that are written back whole.
- **Two histories of one thing**: the preview reads the directories, the seal
  reads the ledger.
- **Identity over long sequences**: content sealed, edited, edited back, sealed
  for another target, with versions, parents and submission ids that must form
  one lineage; conditional answers suppressed and restored again and again.

### What makes each component correct

- *Sealing and custody*: the committed packages form one chain without repeats
  or gaps; nothing sealed is overwritten; the ledger never names a package that
  is not on disk; what is sealed is what was reviewed.
- *Admission*: only what the ledger holds is submitted, and "admitted" is said
  only with a verified, complete receipt; a failure can be retried.
- *DSH bridge*: the prompt goes out at most once, whatever fails; only into a
  fresh session of the bridge's own; under the model that is recorded; the
  reported outcome is true and final.
- *Session locks*: one request per session at a time, no acknowledged edit
  lost, no lock kept by a failure, no registry entry without a request.
- *Coding handoff*: a workspace and a session are prepared once per approved
  package, resumed after a crash, never adopted, never prompted.
- *Final review*: an approval covers exactly what was shown.
- *Questionnaire*: what a human said survives suppression; what is derived never
  outlives its cause; record ids are never reused.
- *Session creation*: a session is told of when it is whole and at its place;
  the rewriting of its files, without the lock, loses no acknowledged edit.
- *v0.3 gateway*: what is bound to a superseded requirement never passes again.
- *Archify*: the map shows what was saved, and the map that was announced is the
  one that is served.
- *UX preparation*: what runs is what was reviewed, over the sources reviewed.
- *Approval*: nothing is reported as confirmed that nobody confirmed.

## The modules

| module | what it is |
|---|---|
| `SealHistory` | abstract: sealing as an append-only log of (content, target), with the acknowledged admissions |
| `Sealing` | one session: document, directories, custody store, ledger, flock, seal requests step by step, Pipeline-A |
| `MCSealing` + 4 `.cfg` | the runs of `Sealing` |
| `SealingProofs` | its theorems, the refinement included |
| `OnePrompt` | abstract: decide once, queue at most once, conclude once and truthfully |
| `DshBridge` | one binding: record, flock, sends step by step, the DSH server and the owner's native chat |
| `MCDshBridge` | its run |
| `DshBridgeProofs` | its theorems, the refinement included |
| `SerialSessions` | abstract: the requests of a session take turns, each adds its own edit and tells of it only then |
| `SessionLocks` | the weak lock registry, its guard, and requests that load, change and save a document |
| `IntakeCreation` | extends `SessionLocks`: the uploads that make the sessions, next to the requests on them |
| `MCSessionLocks` | the run of the two together |
| `SessionLocksProofs` | theorems of each and of the two together, the refinement included |
| `OneHandoff` | abstract: choose once, create, select the chosen model, finish once |
| `CodingHandoff` | one admitted package: coding workspace, record, flock, DSH session, and the owner at work in both |
| `V03Gateway` | the other handoff: revisions of a requirement, work orders, scopes and their validation |
| `MCCodingHandoff` | the run of both; they share nothing, and each runs while the other has not begun |
| `HandoffProofs` | theorems of both, the refinement included |
| `Conditionals`, `MCConditionalsSkip` | the answers that make other questions inapplicable, the discovery profile, loads and saves; the run of one of its gaps |
| `Projection` | extends `Conditionals`: the readiness map made from the document and rendered by Archify |
| `MCConditionals` | the run of the two together |
| `ConditionalsProofs` | theorems of each and of the two together |
| `FinalReview`, `MCFinalReview` | review, seal and preparation from several browser tabs; its run |
| `FinalReviewProofs` | its theorems |
| `ReviewedRun` | abstract: an upload is approved once and run once, certified only while its package is current |
| `UxPreparation`, `MCUxPreparation` | proposals, their reviews and runs against the current sealed package; its run |
| `UxPreparationProofs` | its theorems, the refinement included |
| `Records`, `MCRecords` | the records of a document and their ids, from seeding to what can be told of them from a sealed package; its run |
| `RecordsProofs` | its theorems |

Definitions that stand in front of an action and are used nowhere (`SkipFlock`,
`IgnoreLock`, `NoGuard`, `UsedByRecords`, ...) are mutated forms of the action below them: a
plausible mistake in that code, for which a property of the action's runs fails.

### Sealing

`doc` is `answers.json`, abstracted to a revision (the bytes of the payloads;
every edit enlarges `answer_history` or the deleted ids, so a content does not
come back) and a touch (`updated` moved, nothing else, which
`approved_snapshot` normalises away and `completed_at` keeps). A handoff is the
record of what its digest covers: revision, touch, target, version, parent. The
sealed id *is* the handoff: two handoffs differ iff their digests do.
`history` is the set of published directories; a leftover `.sealing-*` directory
of a crash is skipped by `_existing_handoffs` and therefore not state.
`custody` is the set of files of the store and `ledger` the content of
`ledger.json`.

A request moves through `req[p].at`: `Load` (session load), `Preflight` (the
route's own `review_package`, from the directories), `OpenCustody` and, for the
first request, `CreateCustody` in its four writes, `CheckCustody`, `TakeFlock`,
`Choose` (`build_handoff` over the ledger), `Publish` (`seal_to_history`),
`WritePending`, `ReplaceLedger`, `Unlock`, `Submit`, `Admitted`/`NotAdmitted`.
`Abort` ends a request at any of these places: crash, disk error, any exception.
`Edit` and `Touch` are the other requests of the session and the command line
tool. `WriteReceipt` and `WriteComplete` are the external command, which may act
at any later time. `Summarize` is `session_summary`, which every other route of the
session answers with: it reports an admission too, from the directories and the
receipts and never from the ledger, and `AdmittedIsCommitted` holds it to the same.
`Init` allows a version-1 directory that is older than the
ledger (`Legacy`). In one process the session lock admits one request, so a
process is one sequence; several processes are ordered by the flock alone.

### DshBridge

`record` is `DSH_HANDOFF.json`: status and configuration. The other fields of a
record are functions of the binding, which is fixed here: another binding has
another directory, lock and session. Each `save_record` is an atomic replace and
is one step; each `rpc` is a step that makes the call (`CallOut`) and one that
takes its answer or gives up. `Serve` carries out a call at any time after it
was made, also when nobody waits for it any more. `create` of a session that is
there already answers as if new, which is what the code relies on when it
resumes. `NativeMessage` is the owner writing in the session. `Crash` ends a
send anywhere, and stands for any exception too: it changes no record.
`Reconfigure` changes provider and model between sends. `used` is a history
field for the properties only. `session/rename` (its answer is ignored) is
folded into `Selected`, and `verify_preset` into the exceptions. A change of the
model inside DSH by the owner is not modelled; the transcript reader checks
provenance for that.

### SessionLocks

`locks` is `_SESSION_LOCKS`, `guard` is `_SESSION_LOCKS_GUARD`, `owner` says who
holds each lock object, `req[t].lock` is the strong reference in a local
variable. A lock object leaves the registry when the last reference is dropped
(`Forget`; CPython collects at once). `answers.json` is a set of edits, one per
request; a request loads a copy and writes back its copy and its edit, and then
rewrites `session.json` in place in two steps. `Fail` is any exception or
refusal under the lock, `Restart` a crash of the process. One process only: the
source says that other writers on the host are outside its boundary
(`artpkg_intake.py` 660-662), and `Sealing` covers what they share on purpose.
`/api/intake` takes no lock and is `IntakeCreation`.

### IntakeCreation

The uploads of one file by one owner, so that a session id (second, name and
digest of the file, `_session_id`) is the second it was made in, and sessions are
numbers: `clock` may stand still between two uploads, and does not go back. An
upload builds `intake_sessions/<id>` privately (`MakeDir`), moves it to its owner
(`Move`; `shutil.move` puts it *into* a destination that is there, here `nested`),
reads, truncates and rewrites `answers.json` where it lies now (`ReadAnswers`,
`OpenAnswers`, `WriteAnswers`; `open` keeps apart a file that `save_answers` has
replaced meanwhile, which is written in vain), rewrites `session.json` in the same
way and answers. None of this has the session lock. `FailUpload` is an exception
at any step, `RestartAll` the death of the server. A request for a session can
come only when an upload told of it (`AskKnown`), and `load_answers` refuses a
file that is cut off (`LoadWhole`). Of a failed upload only what it leaves for
others matters: a staged directory, which refuses the next upload of that second,
or a session at its owner's place that names the old one, which nobody was told
of.

Whether the id has a resolution of one second is a divergence of its own:
`IMPLEMENTATION_REPORT.md` 248 says that it contains a random seed, `_session_id`
has none. Two uploads of the same file in one second therefore share a session,
and the properties say exactly what is lost by that.

### CodingHandoff

`workspace` is the directory of the package: absent, fresh, with work in
`project/` (which `_verify_files` accepts), or with a companion file that was
changed. `record` is `coding/DSH_HANDOFF.json`. A preparation takes the
nonblocking flock (`Lock`), reads the record (`ReadRecord`), checks or places the
workspace (`CheckWorkspace`, `PlaceWorkspace`: one rename), lists the sessions
(`ListSessions`), records PREPARING (`SavePreparing`), creates the session,
checks that it is blank, selects the model and records READY. Calls to DSH are
made, served and answered as in `DshBridge`; `Crash` ends a preparation
anywhere. The owner works in the workspace (`Work`), changes companion files
(`Spoil`) and writes in the session (`NativeMessage`).

### Conditionals

`doc` is `answers.json` as far as it matters here: the answers, the harness mode
and, per followup question, the latest entry of `answer_history`, which is the
only one `_restore_conditional_answer` reads. State and value of an answer are
one value; `fresh` says that an answer was written since the last save, which
stands for its timestamp. `Apply` is `apply_conditionals`, `Plan` is
`build_question_plan`, which runs on every load and before every save of the
server; the command line (`Interactive`, `SetHarnessMode`) saves without it.
`said` is a history variable: what a person or the source last answered.

### Projection

`projection` is the request that makes the map: it has loaded the document, after
the plan (`LoadSession`), builds the map from it and checks it against
`answers.json` read again (`BuildProjection`, which ends with the removal of the
old HTML), lets Archify render it (`Deliver`) and decorates the page
(`Decorate`). Of the map the authority is followed, the answer to AUT-001 with
its provenance, because that is what the plan answers in memory and what
`validate_projection_mapping` compares. Archify is a program of its own: it may
fail, exceed its minute, leave half a file, or say ok and leave none; that it
says ok and leaves half a file is not modelled. A projection has the session
lock, so the web page saves nothing meanwhile (`Web`), but the command line does
(`CommandLine`). `html.saved` is a history field: what `answers.json` said when the map
was built.

### V03Gateway

`current` is the authority part of the intake document: everything the digest
covers, in four fields, of which `content` stands for requirements, owners, the
approval record, eligibility and questions. `Sufficient` are the contents in which
validation finds nothing missing. `Revise` may change every field, the
status and the revision number included, because the code copies what it is
given; only the lineage is its own. Digests tell payloads apart and nothing else.
`exported` are the authorities a work order was exported from; a scope carries one
as snapshot and one, perhaps another, as work order. `Disposition` is
`validate_evidence_enriched_scope`, in the order of its returns. The caller is
trusted to pass the intake as it is now.

### FinalReview

`doc` is the answer document without its review: `rev` is what a package
contains as it is, `note` what `approved_snapshot` normalises away (who
confirmed an answer of the script). A package is named by its content: revision,
review, template. `page[t]` is what a tab shows: basis, package, whether the
review is current, and what the answer to its own last action named. Every
request is one step, because it holds the session lock; what happens inside a
seal or a preparation is in `Sealing` and `CodingHandoff`. Requests carry what a
page showed at any earlier time; only the preparation is limited to what the
page offers (`artpkg_final_review.html` 198), because its request names the
sealed id and not the basis. The template changes only between requests.

### UxPreparation

`rev` is the document, `items` the part that `snapshot()` keeps and that can come
back. `seal` is the current entry of the custody ledger. An upload has its
proposal, the last basis shown for it, its review, its two directories and its
receipt. `Loads`, `HasBasis`, `Reviewed` and `Verifies` are `_load`, `_basis`,
`_reviewed` and `verify`; `_account`, which compares a proposal row by row with
the items, is one predicate. A run is four steps with a failure possible before
each; it works on the document it loaded, while `Edit` and `Seal` are also other
processes, which neither the session lock nor the UX custody lock keeps out.

### Records

An id is a prefix and a number; two sections are followed whose ids are generated
(`FR`, `PH`), and the questions, whose ids are brought along (`Q-B1` from the
source, `P1-Q1` from an addendum). A record is its status, who made it and its
review disposition; an answer is what it says, from whom, and its disposition.
`Merge` and `Seeded` are what `seed_from_pre_artifacts` and `merge_seed_records`
do with a source, of which only the outcome matters: a requirement, a row of the
table of blocking questions, an open scope. Every requirement becomes PROPOSED,
whatever status the source gives it. `Resolved` is
`apply_decision_resolution_addendum`, `Planned` the discovery profile's part of
`build_question_plan`. `ReadyToSeal` has the rules of `completion_summary` and
`validate_answers` on PH-001, AUT-001 and unresolved answers; all others only
refuse more seals. `Approved` is the stamp of `approved_snapshot`, `Report` the
derivation of approvals for the digest a consumer names. `word` and `taken` are
history variables: what a person last said of an item, and the ids ever used.
`edit_record` and `delete_record` have no caller in `tools/` but the tests, and
are actions because they are the module's interface. Every request and command
is one step: the session lock and the atomic replacement of `answers.json`
order them, which is `SessionLocks`.

## The runs

All runs check for deadlock unless noted. States are those of TLC 2.19.

| run | instance | shows |
|---|---|---|
| `sealing` | 1 process, 3 targets, 2 revisions of which one is unsealable, 1 touch, 1 abort (2.84 million states with symmetry) | type invariant, `LedgerChain`, `HistoryGapFree`, `AdmittedIsCommitted`, `ContentAsPreviewed`, and that `Sealing` implements `SealHistory`: one lineage over several targets |
| `sealing_race` | 2 processes, 2 revisions, 1 abort, fairness (107 287 states) | `NeverOverwritten` when only the flock orders the processes, creation of the store included, and `RequestsProgress`: every request ends or waits for the flock, and whoever has the flock gives it back |
| `sealing_preview` | 1 process, 1 abort | **violation** of `SealedAsPreviewed` |
| `sealing_retry` | 1 process, 1 abort | **violation** of `AdmissionRetryable` |
| `dsh` | 2 processes, 2 configurations, 3 sends, fairness (71 436 states) | all properties of the bridge, that it implements `OnePrompt`, and `SendEnds`; no deadlock check, because the system stops when the sends are used up |
| `session_locks` | 2 uploads, 2 seconds, 2 threads, 2 lock objects, 3 requests, fairness (614 403 states) | `NoTornRead` (one user of a `session.json` at a time, uploads included, unless the session is shared), `KeptUnlessShared`, `ToldIsWhole`, `SharedIsNested`, that requests and uploads implement `SerialSessions`, `LockReleased` |
| `coding` | 2 processes, 2 configurations, 3 preparations; 2 contents of a requirement and 4 revisions of its package (359 340 states with symmetry) | `UsedNotConfigured`, `Resumable`, `WorkKept`, `ReadyQuiet`, that preparations implement `OneHandoff`, and `SupersededStaysStale` of the gateway; no deadlock check, because the system stops when the preparations are used up |
| `conditionals` | 3 of the 4 followups, all controlling answers but SEC-001, one projection at a time (511 272 states) | `LatestWordStands`, `LoadSettled`, `DiscoveryGrantsNothing`, `ShownAsSaved`, `ReadyIsServed` |
| `conditionals_skip` | the fourth followup and SEC-001 | **violation** of `SkippedHasCause` |
| `final_review` | 2 tabs, 2 sources, 2 templates, 2 changes, 2 reviews (183 521 states with symmetry) | `PreparedAsReviewed`, `DoneAsShown`, `AcknowledgedOnce` |
| `ux_preparation` | 2 uploads, 2 snapshots, 3 edits (357 836 states) | `ReceiptOfReviewed`, and that the preparation implements `ReviewedRun` |
| `records` | 2 requirements, 1 phase, 4 requests or commands, 2 packages (1.71 million states) | `GeneratedFresh`, `RecordsStand`, `ReportedAsSaid`, `AddendumSettled`; no deadlock check, because the system stops when the requests are used up |

### Bounds

Three targets give version 3 with a parent that itself has a parent, and a
version that is skipped by sealing an older content again; one abort allows a
directory that the ledger lost, at any of the three versions. Two processes are
enough for every conflict over the store, since at most one passes the flock.
`MaxSends = 3` allows a prepared send, a resumed one that dispatches and one that
comes later, with two of them alive at once; two configurations are enough to
tell "the same" from "another"; the same holds for `MaxPreps = 3`. Two threads with three requests allow one that
holds a lock, one that waits for it, and the first again, arriving while the entry
is being kept or dropped; two sessions show that the guard is shared and the locks are
not; a lock object is collected and made again, so two are enough for two
sessions. Two uploads and two seconds let sessions be made in one second, in the
same order or another, or apart. Four revisions of a package let a requirement
change, change back and be revised once more while a scope is out. In `Conditionals` nothing is bounded but the text of a free answer: one
text tells it from NOT_APPLICABLE and from nothing. Two changes let a source or
a template change and come back between two tabs, or an edit follow either;
three edits let the snapshot change, come back and be sealed anew. Four requests
on records allow a deletion, an addition after it and a decision on the new
record before a seal, and two packages a digest that is asked of the other one. The theorems
hold without any of these bounds (`MaxRev`, `MaxSends`, ... are arbitrary
constants there).

### Fairness

Only steps the program takes by itself are fair. `Advance(p)` in `Sealing` and
`DshBridge` is the running request: it never waits but for a blocking flock or a
call with a timeout, and the timeout is an action of it. Not fair are crashes,
edits, the owner, Pipeline-A's command and the DSH server. In `IntakeCreation`
the threads of requests are scheduled (`EnterKnown`, `ServeKnown`), uploads are not needed
to be; which waiter gets a released lock is not
promised by `threading.RLock`, so nothing is claimed about a single waiter.

### Findings

1. `sealing_preview`. `seal_session` insists that "the exact sealing summary and
   confirmation must be reviewed" (`artpkg_sealed_handoff.py` 542), but builds
   the preview from the directories (521) and the seal from the ledger
   (548-549). After a crash between publishing and committing (557-558), an
   edited document is previewed as version 2 with a parent and sealed as
   version 1 without.
2. `sealing_retry`. The final review page promises that the action "retries
   admission without changing the seal" (`artpkg_final_review.html` 120). Every
   retry commits the ledger first, and `Store.write` opens `ledger.pending` with
   `O_EXCL` (`artpkg_source_commitment.py` 95): one that a crash left there
   refuses every later commit, and with it every retry.
3. `conditionals_skip`. `artpkg_intake.py` 566-568 does not offer a question that
   the script answered NOT_APPLICABLE, because "apply_conditionals will keep
   forcing it back". `build_question_plan` (282) answers PKG-006, the snapshot,
   that way while the repository is NOT_CREATED. When PKG-005 later names a
   repository nothing takes the answer back: PKG-006 stays NOT_APPLICABLE with the
   reason "Repository is NOT_CREATED" and is not asked again. `apply_conditionals`
   itself has no such gap: for its own followups the property holds.

All three were reproduced by running the code in the states that the traces
describe. Some smaller observations have no run. `resolve` of the UX preparation
reports `proposal_stale` in any case, also when the same resolutions are given
again and the snapshot, hence the draft, is as before. The recheck at the end of
a UX run reads the ledger anew, but compares it with the document loaded before
the run, so that an edit by another process that is not sealed shows only when
the receipt is verified. Of the records: `README.md` 101-104 of the repository
says that PH-001 is blocked until "the remaining P1 questions and explicit
implementation authorization are recorded"; `validate_answers` (1824) asks for
neither once somebody advanced the status of PH-001. `README.md` 45 says that
"deleted IDs are not reused"; that holds for generated ids (`GeneratedFresh`), but
`add_record` does not compare an id it is given with `deleted_ids`, so an addendum
or a row Q-Bn may bring one back. `resume --pre-artifacts` puts the source's
answers over the owner's and adds every requirement once more. The derivation
confirms by status alone, hence also an item that a reviewer rejected after it
was accepted. Of the v0.3 gateway: `revise_requirement_intake` keeps the status
APPROVED_FOR_DISCOVERY and the old approval record when the requirements change,
so that the revised intake passes at once, while `README.md` 214-217 and
`docs/artifacts_package_questionnaire.md` 109-117 of the repository speak of an immutable,
human-approved snapshot; what was bound to the old revision is stale all the same
(`SupersededStaysStale`).

## The proofs

All proofs are checked by `tlapm` without assumptions beyond the `ASSUME`s of the
component modules (distinct "nobody" values, non-empty sets, natural bounds),
which TLC evaluates in the runs.

`SealingProofs` (for any number of processes, revisions, targets, crashes):
`TypeCorrect`, `LineageUnbroken`, `LedgerBacked`, `PreviewNeverBroken`,
`AdmissionSound`, `NothingOverwritten`, `Implementation`, and on what the findings leave
standing `ContentSealedAsPreviewed`, `BlockersRespected`, `RetryableUnlessCutOff`,
`PreviewExactAlone`, `RequestsGoForward`. `LedgerChain` is not inductive: that a
version is not issued twice depends on the ledger read under the flock still
being the ledger when it is replaced (`RequestInv`), on the empty ledger being
written while nobody can have read one (`CreationInv`), and on versions being
1..n so that "the greatest plus one" exists and the parent is in the set
(`Dense`). `HistoryGapFree` then follows for directories too, because a request
publishes only a choice made from the ledger, whose entries are on disk.
`Implementation` needs more than the steps: the log of `SealHistory` is the ledger
counted and ordered by version, so `CountVersions` shows that distinct versions 1..n
are n packages (a bijection with the places), `LogEntry` that each place has one
package, and `LogAppend` that the next version extends the log at its end. That the
empty ledger can be written without moving `current` back is `CurrentInv`.

Two properties of `Sealing` are refuted by runs, and four theorems say how far the refutation
goes. Whatever overlaps or crashes, content and target are sealed as previewed
(`ContentSealedAsPreviewed`), because a request keeps one copy of the document and
`build_handoff` returns a package of it from either history (`PreviewInv`); for the
same reason the blockers, which only the preview looks at, are respected
(`BlockersRespected`). With one process and as long as no request was cut off, version, parent
and time are sealed as previewed too (`PreviewExactAlone`): while the store
exists the directories are those of the ledger and the one being sealed
(`AloneInv`), from an unbroken lineage there is one package to choose
(`OneChoice`), and a legacy directory stops a request before it creates a store.
It has the hypothesis that there is one process, because a second one may seal
between preview and lock. And without a request cut off nothing refuses a
retry (`RetryableUnlessCutOff`): a `ledger.pending` is then always one that a
request is about to rename (`LeftoverInv`).

`DshBridgeProofs`: `TypeCorrect`, `AtMostOnePrompt`, `RecordedBeforeDone`,
`NoPromptIntoUsed`, `NeverAdopted`, `ModelAsRecorded`, `Implementation`,
`StatusForward`, `SendsGoForward`. The
invariant says, for each place a send can be at, that the flock is its own and
what the record says (`SendOk`); that calls carry the configuration of the record
and no two prompts exist (`CallsOk`); and that sends differ by number. One
prompt: `dispatching` is reached only from `announcing`, where the record is not
settled and hence no prompt call exists; the record is settled before the call,
and no later send passes `ReadRecord`. The refinement is proved step by step:
`SaveDispatching` is `Decide`, serving the prompt is `Queue`, `SaveOutcome` is
`Conclude`, all else stutters.

`SessionLocksProofs`: `TypeCorrect`, `MutualExclusion`,
`NothingAcknowledgedLost`, `RegistryBounded`, `NoLostUpdate` for
requests alone, and `CreationTypeCorrect`, `CreationExcludes`, `ReadsSettled`, `RelocationKeeps`,
`ToldWhenWhole`, `SharedMeansNested`, `Implementation` for requests and uploads (any
number of either).
The first invariant: who has a reference to a lock has the one in the registry, and a
thread inside owns it (`RequestOk`); no lock serves two sessions
(`OneLockEach`); a copy in use equals the file. A lock that is dropped has no
other reference, and a lock that is made finds no entry, because looking and
making are under the guard. With uploads the document invariant holds per session
and only while it is not nested (`Unshared`): an upload that is past the move has a
session that is not nested to itself (`Apart`), so while it rewrites the answers no
other upload can have told of them, and nobody is asking for them nor was ever
answered (`AskedKnown`). `UploadOk` says which file an upload that is cut off would
leave torn, and that none is when it tells. `ReadsSettled` (`NoTornRead`) joins both: two
requests that read or write one `session.json` are kept apart by the lock, two uploads
that finish one session, or an upload and a request of it, only by the session not
being nested. On a session that two uploads of one second share, a request does
meet the second upload in mid-write, and is refused with 403.
`Implementation` maps a session to the turns taken of it (`TurnsOf`, the requests
inside its lock), its answers, what was acknowledged, and whether it is nested:
acquiring is `Begin`, `SaveAnswers` is `Keep`, an answer is `Tell`, giving the lock
back `End`, the death of the server `EndAll`, everything about the guard, the
registry, `session.json` and private directories a stutter. Two facts are needed beyond the
invariants: the answers of a session that no upload has told of, and the copy of them
that an upload rewrites, are empty unless the session is nested (`Untouched`), so that
making one shows nothing; and a copy in use equals the file, so that writing it
back adds an edit and nothing else (`SaveKeeps`). What uploads and requests do to the
answers of a session that two uploads share is `Disturb`: nothing is promised there.

`HandoffProofs` (for any number of processes, preparations, configurations;
any contents and revisions): `TypeCorrect`, `ReadyMeansReady`, `UsedSessionKept`,
`NeverStuck`, `NoAdoption`, `WorkSurvives`, `ReadyStays`, `Implementation`,
`PreparationsGoForward`, `StaleForGood`. As in the
bridge, each place of a preparation says that the flock is its own and what the record
says, and calls carry the configuration of the record. `NeverStuck` adds what
has been done by each place, so that whatever a cut-off leaves is one of the states the
next preparation under the same configuration takes up. A record of another
configuration refuses it (`artpkg_coding_handoff.py` 263-265), until the old one is set
again. `Implementation` maps `SavePreparing` to `Choose`, the service of
the two calls, at whatever time, to `Create` and `Select`, and `SaveReady` to
`Finish`; repeated and late calls stutter, because a selection that is under way carries
the recorded configuration and is of the handoff's own session
(`SelectsOurs`). `StaleForGood` needs that the current authority and every
superseded one differ in their lineage: a digest is in the lineage of the next, so
no revision can have the digest of one before it.

`ConditionalsProofs` (for any set of questions and texts): `TypeCorrect`,
`LastWordKept`, `LoadingSettles`, `ProfileGrantsNothing`, `SuppressedForCause`,
`OnlyRepositoryOrphans`, `ProjectionAnswers`, `MapTellsTheFile`, `ReadyMapServed`. `LatestWordStands` is inductive with what the
archive says: while a question does not apply, its latest entry is a suppression
and holds what was said last, or nothing was said. The plan and the conditionals are
functions of the document, and lemmas say of each what it keeps of that. The finding of
`conditionals_skip` has one source only: what `apply_conditionals` suppresses always
has a cause (`SuppressedForCause`), and a step that leaves PKG-006 skipped
without one has changed the answer to PKG-005 (`OnlyRepositoryOrphans`), since
with a repository the plan does nothing and what people answer is not the script's. That the projection
changes no answer (`ProjectionAnswers`) carries all of it over.

`FinalReviewProofs` (for any number of tabs, sources, templates, changes,
reviews): `TypeCorrect`, `WorkspaceReviewed`, `ShownAndDone`, `NoEmptyReview`. A
package is prepared with a review that is current at that moment, so package and
review agree, and stay so, because a package does not change. That a tab had
shown both needs the pages in the invariant: each was true when it was loaded
(`PageOk`), and a request compares what it names with the files. `NoEmptyReview`
needs that a review's evidence is the source of its basis (`EvidenceReviewed`):
then a review over the same basis is still current, and is not replaced.

`UxPreparationProofs` (for any number of uploads, snapshots, edits):
`TypeCorrect`, `ReceiptSound`, `ReceiptTimely`, `EvidenceNeverChanged`, `Implementation`. The
invariant says that a review was given over a complete proposal written for its
source (`ReviewOk`), that directories and receipt belong to the review
(`DirectoriesOk`, `ReceiptOk`), and what a run has made by the time it is where
it is (`RunOk`). It needs no lock around the session: a run starts only where
there are no directories, reviews are given once, and only the recheck decides
whether the package is still current. `Implementation` maps `Seal` to `Supersede`, `Review` to
`Approve`, `Start` to `Begin`, `Finish` to `Certify` and a failure to `Stop`; an
upload counts as tried while its input directory is there, which no step removes
(`TriedStays`), so a certificate belongs to the only run there was.

`RecordsProofs` (for any questions, sections, numbers of records, requests):
`TypeCorrect`, `Reported`, `IdsFresh`, `StatusOnlySaid`, `Settled`.
`ReportedAsSaid` looks at packages, so the invariant says of the document what it
says of them (`LastWord`): an answer with a person's name on it is the last thing
a person said, and a record is beyond `PROPOSED` exactly when that is the last
word on it. That the second is an equivalence needs that a record that is not there has no word
(`RecordHeard`), or a new one under a deleted id would inherit it. `GeneratedFresh`
needs that every id ever used is present or remembered as deleted (`Remembers`).
Each request is then a document that keeps what was used (`Grows`), brings only
unused generated ids (`Fresh`, all but an addendum) and leaves what exists
(`Stands`; `StandsBut` where one record is advanced or edited). `Least`
shows that `_next_id` has a first free number to choose.

`CommittedOnDisk` (in `LedgerBacked`), `AnnouncedFirst` (in `RecordedBeforeDone`)
and `AnswersGrow` (in `NoLostUpdate`) are proved and in no run.

The type invariants of all modules but `Sealing` are proved and in no run, and so are
`AcknowledgedKept` and `RegistryActive` of `SessionLocks` and `ForeignUntouched` of
`CodingHandoff`.

`OneInside` of `SessionLocks` and `ReadyIsTrue` of `CodingHandoff` are proved (`MutualExclusion`,
`ReadyMeansReady`); the runs check them as parts of `ImplementsSerialSessions` (a
turn begins only when no other is taken) and `ImplementsOneHandoff` (`Finish` is
enabled on the chosen model only). `NothingBlockedSealed` of `Sealing` and `EvidenceKept` of
`UxPreparation` are proved and in no run; the second is mostly the guards of `Review` and
`Start`, and that a review has one run is part of `ImplementsReviewedRun`.

`RequestsGoForward`, `SendsGoForward` and `PreparationsGoForward` are what can be proved of
termination: each step of a request, send or preparation that does not end it leads to a
later place (`Progress`), so there are at most fifteen (twelve) of them. That the next one is
taken, which needs fairness and `ENABLED`, stays with TLC. `RecordForward` of
`DshBridge` (in `StatusForward`) and `ReceiptOfCurrent` of `UxPreparation` (in
`ReceiptTimely`) are proved and in no run; the second is the guard of `Certify`.

Checked by TLC only: all liveness (`RequestsProgress`, `SendEnds`, `LockReleased`: fairness
and `ENABLED` are outside the prover), and that `SealedAsPreviewed`, `AdmissionRetryable` and `SkippedHasCause`
fail, of which the theorems above say when they hold.

## Not modelled

- The seed extraction from Markdown, rendering of payloads, canonical JSON and
  schema validation: data, represented by "same content iff same value".
- Power loss: a file system that forgets unsynced directory entries. The code
  syncs the files and directories it replaces, but not the parent of a new
  binding directory (`artpkg_dsh_bridge.py` 306).
- The transcript reader of the bridge: it reads a bounded prefix of what the DSH
  server has cached, changes nothing and is advisory by its own words.
- Owners who upload in the same second: their staged directories have one name,
  and the later upload is refused; `IntakeCreation` has one owner, whose second
  upload is refused in the same way.
- An Archify that outlives the server that started it, and writes a map while the
  next projection is made.
- Documents of version 0.1 and 0.2 and the rendering of v0.3 documents; harness
  transitions; the queues, summaries and listings that pages show.
- Authentication header, path checks, DSH setup, status server, operational
  check, review guard, pages: no state of their own. What pages send appears as
  "any request at any time".
- What DSH or Pipeline-A do inside; only the effects the bridge and the
  admission can observe.
