------------------------------ MODULE Records ------------------------------
(***************************************************************************)
(* The repeated records of an answer document, their stable ids, and what  *)
(* can be told of them from a sealed package: the questionnaire adds,      *)
(* merges and deletes records, the review confirms, rejects and advances   *)
(* them, sealing stamps them all as confirmed, and the derivation of       *)
(* approvals tells from the package which items a person really acted on.  *)
(*                                                                         *)
(* An id is a prefix and a number.  The section of a record follows from   *)
(* the prefix, as no two sections share one.                               *)
(***************************************************************************)
EXTENDS Integers, FiniteSets

CONSTANTS
    Question,     \* the questions that are followed
    Generated,    \* the prefixes of the sections that are followed
    MaxNumber,    \* bound: records generated in each of these sections
    MaxRequests,  \* bound: requests and commands
    MaxPackages   \* bound: sealed packages

ASSUME RecordsAssumption ==
    /\ "AUT-001" \in Question
    /\ Generated \subseteq {"FR", "PH", "Q"}
    /\ {"FR", "PH"} \subseteq Generated
    /\ MaxNumber \in [Generated -> Nat \ {0}]
    /\ MaxRequests \in Nat
    /\ MaxPackages \in Nat

VARIABLES
    doc,       \* answers.json
    packages,  \* the sealed packages, each with the words at its sealing
    word,      \* the status or answer a person last gave to each item
    taken,     \* the ids that ever named a record
    requests   \* requests and commands so far

vars == <<doc, packages, word, taken, requests>>

-----------------------------------------------------------------------------
Number(prefix) == 1..MaxNumber[prefix]
Blocking == <<"Q-B", 1>>       \* a row of the source's table of questions
Remaining == <<"P1-Q", 1>>     \* a question of the addendum's last section
Id == (UNION {{prefix} \X Number(prefix) : prefix \in Generated}) \cup {Blocking, Remaining}

Section(id) == IF id[1] \in {"Q-B", "P1-Q"} THEN "Q" ELSE id[1]

\* "HELD" is "Scope accepted; execution not yet authorized", which no list of
\* choices has; a question has no status.
Status(section) ==
    CASE section = "FR" -> {"PROPOSED", "ACCEPTED"}
      [] section = "PH" -> {"PROPOSED", "ACCEPTED", "HELD"}
      [] section = "Q" -> {"STATELESS"}
Choice(section) == Status(section) \ {"HELD"}
Advanceable == {"FR", "PH"}

\* An answer's state, and its value where that is PROVIDED.
Says == {"NONE", "OTHER", "UNKNOWN", "DEFERRED"}
SaysTo(q) == IF q = "AUT-001" THEN Says \ {"DEFERRED"} ELSE Says \ {"NONE"}
Disposition == {"pending", "confirmed", "rejected"}
Provenance == {"human", "source", "script"}

Answer == [says : Says, by : Provenance, review : Disposition]
Record(section) == [status : Status(section), by : {"human", "source"}, review : Disposition]
NoRecord == [status |-> "ABSENT", by |-> "nobody", review |-> "pending"]

Silent == "SILENT"
AnyStatus == UNION {Status(s) : s \in {"FR", "PH", "Q"}}

IsDocument(d) ==
    /\ DOMAIN d = {"answers", "records", "deleted", "concept"}
    /\ d.answers \in [Question -> Answer]
    /\ DOMAIN d.records = Id
    /\ \A id \in Id : d.records[id] \in Record(Section(id)) \cup {NoRecord}
    /\ d.deleted \subseteq Id
    /\ d.concept \in BOOLEAN

Word == [records : [Id -> AnyStatus \cup {Silent}],
         answers : [Question -> Says \cup {Silent}]]

TypeOK ==
    /\ IsDocument(doc)
    /\ \A p \in packages : /\ DOMAIN p = {"doc", "word"}
                           /\ IsDocument(p.doc) /\ p.word \in Word
    /\ word \in Word
    /\ taken \subseteq Id
    /\ requests \in 0..MaxRequests

-----------------------------------------------------------------------------
(***************************************************************************)
(* _next_id, add_record, delete_record.                                    *)
(***************************************************************************)

Present(d) == {id \in Id : d.records[id] # NoRecord}

\* The numbers of a section that a record has or a deleted record had.
UsedByRecords(d, prefix) == {n \in Number(prefix) : <<prefix, n>> \in Present(d)}
Used(d, prefix) ==
    {n \in Number(prefix) : <<prefix, n>> \in Present(d) \cup d.deleted}

Free(d, prefix) == Number(prefix) \ Used(d, prefix)
NextId(d, prefix) ==
    <<prefix, CHOOSE n \in Free(d, prefix) : \A m \in Free(d, prefix) : n <= m>>

New(status, by) == [status |-> status, by |-> by, review |-> "pending"]
Put(d, id, record) == [d EXCEPT !.records[id] = record]

\* delete_record.
Without(d, id) ==
    [d EXCEPT !.records[id] = NoRecord, !.deleted = @ \cup {id}]

-----------------------------------------------------------------------------
(***************************************************************************)
(* seed_from_pre_artifacts and merge_seed_records: what the source says.   *)
(* Its requirements get generated ids, whatever the source calls them; a   *)
(* row Q-Bn keeps its own, and a second record of that id is refused with  *)
(* all that was read.                                                      *)
(***************************************************************************)

Source == [requirement : {"NONE", "PROPOSED", "ACCEPTED"}, blocking : BOOLEAN,
           scope : {"OTHER", "UNKNOWN"}]

Requires(s) == s.requirement # "NONE"

\* _extract_functional_requirements: the status in the source is kept as
\* source_status, which is only shown.
Extracted(s) == New("PROPOSED", "source")

Mergeable(d, s) ==
    /\ Requires(s) => Free(d, "FR") # {}
    /\ s.blocking => Blocking \notin Present(d)

Merge(d, s) ==
    LET one == IF Requires(s) THEN Put(d, NextId(d, "FR"), Extracted(s))
               ELSE d IN
    IF s.blocking THEN Put(one, Blocking, New("STATELESS", "source")) ELSE one

\* A document that is seeded once more loses what was answered before.
Seeded(d, s) ==
    Merge([d EXCEPT !.answers =
              [q \in Question |->
                 [says |-> IF q = "AUT-001" THEN "OTHER" ELSE s.scope,
                  by |-> "source", review |-> "pending"]]], s)

\* build_question_plan on AUT-001: the discovery profile insists on NONE.
Planned(d) ==
    IF d.concept /\ d.answers["AUT-001"].says # "NONE"
    THEN [d EXCEPT !.answers["AUT-001"] =
             [says |-> "NONE", by |-> "script", review |-> "pending"]]
    ELSE d

-----------------------------------------------------------------------------
(***************************************************************************)
(* apply_decision_resolution_addendum: FR-001 when the addendum includes   *)
(* it in the phase, PH-001 with the status its block gives, and a question *)
(* that remains.  What exists under the id is left as it is.               *)
(***************************************************************************)
Addendum == [requirement : BOOLEAN, phase : {"HELD", "ACCEPTED"}]

Named(a) ==
    {<<"PH", 1>>, Remaining} \cup (IF a.requirement THEN {<<"FR", 1>>} ELSE {})
StatusIn(a, id) ==
    CASE id[1] = "PH" -> a.phase [] id[1] = "FR" -> "ACCEPTED" [] OTHER -> "STATELESS"

\* _add_addendum_record, and one that takes an addendum for applied when its
\* phase is there.
AddedOnce(d, a) == IF <<"PH", 1>> \in Present(d) THEN {} ELSE Named(a)
Added(d, a) == Named(a) \ Present(d)

Resolved(d, a) ==
    LET new == Added(d, a) IN
    [d EXCEPT
       !.records = [id \in Id |-> IF id \in new
                                  THEN New(StatusIn(a, id), "human") ELSE @[id]],
       !.answers["AUT-001"] = [says |-> "OTHER", by |-> "human", review |-> "pending"]]

-----------------------------------------------------------------------------
(***************************************************************************)
(* completion_summary, approved_snapshot and the derivation of approvals.  *)
(***************************************************************************)

\* validate_answers on PH-001; its other rules only refuse more seals.
Held(d) == d.records[<<"PH", 1>>].status = "HELD"

ReadyToSeal(d) ==
    /\ ~Held(d)
    /\ \A q \in Question : d.answers[q].says # "UNKNOWN"
    /\ d.answers["AUT-001"].says = "NONE"

Stamp(item) == IF item.review = "rejected" THEN item ELSE [item EXCEPT !.review = "confirmed"]
Approved(d) ==
    [d EXCEPT
       !.answers = [q \in Question |-> Stamp(@[q])],
       !.records = [id \in Id |-> IF @[id] = NoRecord THEN NoRecord ELSE Stamp(@[id])]]

\* human_confirmed of an item with the basis it is told on.
OfAnswer(a) ==
    CASE a.says = "DEFERRED" -> "deferred"
      [] a.says = "UNKNOWN" -> "ambiguous"
      [] OTHER -> IF a.by = "human" THEN "confirmed" ELSE "unconfirmed"
RecordByReview(section, r) == IF r.review = "confirmed" THEN "confirmed" ELSE "unconfirmed"
OfRecord(section, r) ==
    CASE section \notin Advanceable -> "unmodeled"
      [] OTHER -> IF r.status # "PROPOSED" THEN "confirmed" ELSE "unconfirmed"

Derive(d) ==
    [answers |-> [q \in Question |-> OfAnswer(d.answers[q])],
     records |-> [id \in Present(d) |-> OfRecord(Section(id), d.records[id])]]

\* The package digest: two packages have the same one exactly when they are the
\* same.  The derivation answers for one digest only.
Digest(p) == p.doc
Accepts(p, expected) == Digest(p) = expected
Nothing == [answers |-> <<>>, records |-> <<>>]
Report(p, expected) == IF Accepts(p, expected) THEN Derive(p.doc) ELSE Nothing

-----------------------------------------------------------------------------
(***************************************************************************)
(* The requests of the review, and the commands of the questionnaire.      *)
(***************************************************************************)

\* create_intake_session.
Init ==
    /\ \E s \in Source, concept \in BOOLEAN :
          doc = Planned(Seeded(
                  [answers |-> [q \in Question |->
                                  [says |-> "UNKNOWN", by |-> "source", review |-> "pending"]],
                   records |-> [id \in Id |-> NoRecord],
                   deleted |-> {}, concept |-> concept], s))
    /\ packages = {}
    /\ word = [records |-> [id \in Id |-> Silent], answers |-> [q \in Question |-> Silent]]
    /\ taken = Present(doc)
    /\ requests = 0

Write(d) ==
    /\ requests < MaxRequests
    /\ requests' = requests + 1
    /\ doc' = d
    /\ taken' = taken \cup Present(d)
    /\ UNCHANGED packages

\* load_intake_session and _refresh_session plan before and after the change.
Shown == Planned(doc)
Publish(d) == Write(Planned(d))

HeardAnswer(q, says) == word' = [word EXCEPT !.answers[q] = says]
HeardStatus(id, status) == word' = [word EXCEPT !.records[id] = status]

ProvideAnswer(q, says) ==
    /\ Publish([Shown EXCEPT !.answers[q] = [says |-> says, by |-> "human", review |-> "confirmed"]])
    /\ HeardAnswer(q, says)

ReviewAnswer(q, review) ==
    /\ Publish([Shown EXCEPT !.answers[q].review = review])
    /\ UNCHANGED word

ReviewRecord(id, review) ==
    /\ id \in Present(doc)
    /\ Publish([Shown EXCEPT !.records[id].review = review])
    /\ UNCHANGED word

SectionOf(d, section) == {id \in Present(d) : Section(id) = section}

\* confirm_record_section, and one that accepts what it confirms.
AcceptedWithSection(r) ==
    [r EXCEPT !.review = "confirmed", !.status = IF @ = "STATELESS" THEN @ ELSE "ACCEPTED"]
Confirmed(r) == [r EXCEPT !.review = "confirmed"]

ConfirmSection(section) ==
    /\ Publish([Shown EXCEPT !.records =
           [id \in Id |-> IF id \in SectionOf(Shown, section) THEN Confirmed(@[id]) ELSE @[id]]])
    /\ UNCHANGED word

AdvanceStatus(id, target) ==
    /\ id \in Present(doc)
    /\ Section(id) \in Advanceable
    /\ target \in Choice(Section(id))
    /\ Publish([Shown EXCEPT !.records[id].status = target])
    /\ HeardStatus(id, target)

\* interactive_start: an answer, and a record that collect_record adds.
Interactive(q, says) ==
    /\ Write([doc EXCEPT !.answers[q] = [says |-> says, by |-> "human", review |-> "pending"]])
    /\ HeardAnswer(q, says)

Collect(prefix, status) ==
    /\ Free(doc, prefix) # {}
    /\ status \in Choice(prefix)
    /\ LET id == NextId(doc, prefix) IN
       /\ Write(Put(doc, id, New(status, "human")))
       /\ HeardStatus(id, status)

\* `resume --pre-artifacts` seeds the document once more.
Resume(s) ==
    /\ Mergeable(doc, s)
    /\ Write(Seeded(doc, s))
    /\ UNCHANGED word

ApplyAddendum(a) ==
    /\ Write(Resolved(doc, a))
    /\ word' = [word EXCEPT
                  !.answers["AUT-001"] = "OTHER",
                  !.records = [id \in Id |-> IF id \in Added(doc, a) THEN StatusIn(a, id)
                                             ELSE @[id]]]

\* edit_record and delete_record, which callers of the module use.
Edit(id, status) ==
    /\ id \in Present(doc)
    /\ status \in Choice(Section(id))
    /\ Write([doc EXCEPT !.records[id].status = status])
    /\ HeardStatus(id, status)

Delete(id) ==
    /\ id \in Present(doc)
    /\ Write(Without(doc, id))
    /\ HeardStatus(id, Silent)

\* The same content is not sealed twice.
Seal ==
    /\ ReadyToSeal(Shown)
    /\ Cardinality(packages) < MaxPackages
    /\ \A p \in packages : p.doc # Approved(Shown)
    /\ packages' = packages \cup {[doc |-> Approved(Shown), word |-> word]}
    /\ UNCHANGED <<doc, word, taken, requests>>

Next ==
    \/ \E q \in Question : \E says \in SaysTo(q) : ProvideAnswer(q, says) \/ Interactive(q, says)
    \/ \E review \in {"confirmed", "rejected"} :
          \/ \E q \in Question : ReviewAnswer(q, review)
          \/ \E id \in Id : ReviewRecord(id, review)
    \/ \E section \in Generated : ConfirmSection(section)
    \/ \E id \in Id : Delete(id) \/ \E s \in AnyStatus : AdvanceStatus(id, s) \/ Edit(id, s)
    \/ \E prefix \in Generated : \E s \in AnyStatus : Collect(prefix, s)
    \/ \E s \in Source : Resume(s)
    \/ \E a \in Addendum : ApplyAddendum(a)
    \/ Seal

Spec == Init /\ [][Next]_vars

-----------------------------------------------------------------------------
\* A generated id never named another record, deleted ones included: "deleted
\* IDs are retained so later records are never renumbered".  (An addendum and
\* the rows Q-Bn bring their own ids, which may have been deleted before.)
GeneratedFresh ==
    [][(\E a \in Addendum : ApplyAddendum(a)) \/
       \A id \in Present(doc)' \ Present(doc) : id[1] \in Generated => id \notin taken]_vars

\* A record stays what it is: no merge, addendum, confirmation of a section or
\* seal changes what stands under its id, and its status moves only where a
\* person advances or edits this one record: "No bulk/section form exists on
\* purpose".  So PH-001 stays blocked until someone advances it.
RecordsStand ==
    [][\A id \in Present(doc) \cap Present(doc)' :
          /\ doc'.records[id].by = doc.records[id].by
          /\ doc'.records[id].status # doc.records[id].status =>
                \E s \in AnyStatus : AdvanceStatus(id, s) \/ Edit(id, s)]_vars

\* What the derivation reports for the digest a consumer names is true of that
\* package: a record is confirmed exactly when the last word of a person on this
\* record, before the sealing, was a status beyond the first; an answer only
\* when it is what a person said.  Neither the stamp of the seal nor the
\* confirmation of a section makes a record confirmed.
ReportedAsSaid ==
    \A p, expected \in packages :
        LET report == Report(p, Digest(expected)) IN
        /\ \A q \in DOMAIN report.answers :
              report.answers[q] = "confirmed" =>
                  expected.word.answers[q] = expected.doc.answers[q].says
        /\ \A id \in DOMAIN report.records :
              report.records[id] = "confirmed" <=>
                  /\ Section(id) \in Advanceable
                  /\ expected.word.records[id] \notin {Silent, "PROPOSED"}

\* An addendum that was applied changes no record when it is applied again, and
\* everything it names is in the document.
AddendumSettled ==
    \A a \in Addendum :
        LET once == Resolved(doc, a) IN
        /\ Named(a) \subseteq Present(once)
        /\ Resolved(once, a).records = once.records
=============================================================================
