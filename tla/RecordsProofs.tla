--------------------------- MODULE RecordsProofs ---------------------------
(***************************************************************************)
(* Theorems about Records, for any questions, sections, numbers of records *)
(* and requests.                                                           *)
(***************************************************************************)
EXTENDS Records, FiniteSetTheorems, WellFoundedInduction, TLAPS

(***************************************************************************)
(* The inductive invariant: what a document says agrees with the last word *)
(* of a person, and an id that was ever used is still known.               *)
(***************************************************************************)
AnswersHeard(d, w) ==
    \A q \in Question : d.answers[q].by = "human" => w.answers[q] = d.answers[q].says

RecordHeard(id, r, s) ==
    IF r = NoRecord THEN s = Silent
    ELSE Section(id) \in Advanceable =>
             (r.status # "PROPOSED" <=> s \notin {Silent, "PROPOSED"})

RecordsHeard(d, w) == \A id \in Id : RecordHeard(id, d.records[id], w.records[id])

LastWord(d, w) == AnswersHeard(d, w) /\ RecordsHeard(d, w)

Remembers(d, ids) == \A id \in ids : id[1] \in Generated => id \in Present(d) \cup d.deleted

RInv ==
    /\ TypeOK
    /\ LastWord(doc, word)
    /\ Remembers(doc, taken)
    /\ \A p \in packages : LastWord(p.doc, p.word)

\* Words that differ at one item only.
Follows(w, v, id) ==
    v.answers = w.answers /\ \A j \in Id \ {id} : v.records[j] = w.records[j]

\* What a request makes of a document: nothing is forgotten; a new record has
\* an unused id, if it is generated; what stays is as it was.
Grows(d, e) == Present(d) \subseteq Present(e) \cup e.deleted /\ d.deleted \subseteq e.deleted
Fresh(d, e) ==
    \A id \in Present(e) \ Present(d) : id[1] \in Generated => id \notin d.deleted
Stands(d, e) ==
    \A id \in Present(d) \cap Present(e) :
        e.records[id].by = d.records[id].by /\ e.records[id].status = d.records[id].status

\* All but one record, of which a person says the status.
StandsBut(d, e, id) ==
    \A j \in Present(d) \cap Present(e) :
        /\ e.records[j].by = d.records[j].by
        /\ j # id => e.records[j].status = d.records[j].status

-----------------------------------------------------------------------------
(***************************************************************************)
(* Ids.                                                                    *)
(***************************************************************************)

\* The section of an id is one of the three, and of a generated id its prefix.
LEMMA Sections ==
    /\ \A id \in Id : Section(id) \in {"FR", "PH", "Q"}
    /\ \A prefix \in Generated : \A n \in Number(prefix) :
           <<prefix, n>> \in Id /\ Section(<<prefix, n>>) = prefix
    /\ \A id \in Id : id[1] \in Generated =>
           id[2] \in Number(id[1]) /\ id = <<id[1], id[2]>> /\ Section(id) = id[1]
<1>1. \A prefix \in Generated : prefix \in {"FR", "PH", "Q"}
  BY RecordsAssumption
<1>2. \A id \in Id : \/ id \in {Blocking, Remaining}
                     \/ \E prefix \in Generated : id \in {prefix} \X Number(prefix)
  BY DEF Id
<1>3. \A prefix \in Generated : \A n \in Number(prefix) : <<prefix, n>> \in Id
  BY DEF Id
<1> QED
  BY <1>1, <1>2, <1>3 DEF Section, Blocking, Remaining

\* A set of numbers up to N that is not empty has a least one.
LEMMA Least ==
    ASSUME NEW N \in Nat, NEW S \in SUBSET (1..N), S # {}
    PROVE  \E n \in S : \A m \in S : n <= m
<1> DEFINE Below(k) == {m \in S : m <= k}
           less == StrictSubsetOrdering(S)
           T == {Below(k) : k \in S}
<1>1. IsFiniteSet(S)
  <2>1. IsFiniteSet(1..N)
    BY FS_Interval
  <2>2. S \subseteq 1..N
    OBVIOUS
  <2> QED
    BY <2>1, <2>2, FS_Subset, Zenon
<1>2. IsWellFoundedOn(less, FiniteSubsetsOf(S))
  BY FS_StrictSubsetOrderingWellFounded
<1>3. \A k \in S : Below(k) \in FiniteSubsetsOf(S)
  <2>1. \A k \in S : Below(k) \subseteq S
    OBVIOUS
  <2>2. \A k \in S : IsFiniteSet(Below(k))
    BY <1>1, <2>1, FS_Subset, Zenon
  <2> QED
    BY <2>1, <2>2, Zenon DEF FiniteSubsetsOf
<1>4. T \subseteq FiniteSubsetsOf(S) /\ T # {}
  <2> HIDE DEF Below
  <2> QED
    BY <1>3, Zenon
<1> HIDE DEF less
<1>5. PICK B \in T : \A C \in T : ~ (<<C, B>> \in less)
  BY <1>2, <1>4, WFMin, Zenon
<1>6. PICK k \in S : B = Below(k)
  BY <1>5
<1>7. ASSUME NEW m \in S, m < k
      PROVE  FALSE
  <2>0. m \in Int /\ k \in Int /\ \A x \in S : x \in Int
    OBVIOUS
  <2>1. Below(m) \subseteq Below(k) /\ k \in Below(k) /\ k \notin Below(m)
    <3>1. \A x \in S : x <= m => x <= k
      BY <2>0, <1>7
    <3>2. k <= k /\ ~ (k <= m)
      BY <2>0, <1>7
    <3> QED
      BY <3>1, <3>2, Zenon
  <2>2. Below(m) # Below(k) /\ Below(m) \in SUBSET S /\ Below(k) \in SUBSET S
    BY <2>1, Zenon
  <2>3. <<Below(m), B>> \in less
    <3> HIDE DEF Below
    <3> QED
      BY <2>1, <2>2, <1>6 DEF less, StrictSubsetOrdering
  <2> QED
    BY <2>3, <1>5, Zenon
<1> QED
  BY <1>7

\* _next_id gives an id of its section that no record has or had.
LEMMA NextIdUnused ==
    ASSUME NEW d, NEW prefix \in Generated, Free(d, prefix) # {}
    PROVE  /\ NextId(d, prefix) \in Id
           /\ Section(NextId(d, prefix)) = prefix
           /\ NextId(d, prefix) \notin Present(d) \cup d.deleted
<1>1. MaxNumber[prefix] \in Nat
  BY RecordsAssumption
<1>2. Free(d, prefix) \subseteq 1..MaxNumber[prefix]
  BY DEF Free, Number
<1>3. \E n \in Free(d, prefix) : \A m \in Free(d, prefix) : n <= m
  BY <1>1, <1>2, Least
<1>4. PICK n \in Free(d, prefix) : NextId(d, prefix) = <<prefix, n>>
  BY <1>3 DEF NextId
<1>5. n \in Number(prefix) /\ <<prefix, n>> \notin Present(d) \cup d.deleted
  BY DEF Free, Used
<1> QED
  BY <1>4, <1>5, Sections

-----------------------------------------------------------------------------
(***************************************************************************)
(* What a change of a document keeps.                                      *)
(***************************************************************************)

\* A record has the status of its section, and is not NoRecord.
LEMMA RecordKinds ==
    \A section \in {"FR", "PH", "Q"} :
        /\ NoRecord \notin Record(section)
        /\ \A r \in Record(section) : r.status \in AnyStatus /\ r.status # "ABSENT"
BY DEF Record, NoRecord, Status, AnyStatus

\* The words are no statuses.
LEMMA Words == Silent \notin AnyStatus /\ AnyStatus = {"PROPOSED", "ACCEPTED", "HELD", "STATELESS"}
BY DEF Silent, AnyStatus, Status

\* Only answers change.
LEMMA AnswersChange ==
    ASSUME NEW d, IsDocument(d), NEW e, DOMAIN e = DOMAIN d,
           e.records = d.records, e.deleted = d.deleted, e.concept = d.concept,
           e.answers \in [Question -> Answer]
    PROVE  /\ IsDocument(e) /\ Present(e) = Present(d)
           /\ Grows(d, e) /\ Fresh(d, e) /\ Stands(d, e)
           /\ \A w : RecordsHeard(d, w) => RecordsHeard(e, w)
BY DEF IsDocument, Present, Grows, Fresh, Stands, RecordsHeard

\* Only the review disposition of records changes.
LEMMA ReviewsChange ==
    ASSUME NEW d, IsDocument(d), NEW e, DOMAIN e = DOMAIN d,
           e.answers = d.answers, e.deleted = d.deleted, e.concept = d.concept,
           DOMAIN e.records = Id,
           \A id \in Id :
              \/ e.records[id] = d.records[id]
              \/ /\ d.records[id] # NoRecord
                 /\ \E review \in Disposition :
                       e.records[id] = [d.records[id] EXCEPT !.review = review]
    PROVE  /\ IsDocument(e) /\ Present(e) = Present(d)
           /\ Grows(d, e) /\ Fresh(d, e) /\ Stands(d, e)
           /\ \A w : LastWord(d, w) => LastWord(e, w)
<1>1. \A id \in Id : Section(id) \in {"FR", "PH", "Q"}
  BY Sections
<1>2. ASSUME NEW id \in Id
      PROVE  /\ e.records[id] = NoRecord <=> d.records[id] = NoRecord
             /\ e.records[id] \in Record(Section(id)) \cup {NoRecord}
             /\ e.records[id].by = d.records[id].by
             /\ e.records[id].status = d.records[id].status
  <2>1. CASE e.records[id] = d.records[id]
    BY <2>1 DEF IsDocument
  <2>2. CASE e.records[id] # d.records[id]
    <3>1. d.records[id] \in Record(Section(id))
      BY <2>2 DEF IsDocument
    <3>2. PICK review \in Disposition : e.records[id] = [d.records[id] EXCEPT !.review = review]
      BY <2>2
    <3>3. /\ e.records[id] \in Record(Section(id))
          /\ e.records[id].by = d.records[id].by
          /\ e.records[id].status = d.records[id].status
      BY <3>1, <3>2 DEF Record
    <3> QED
      BY <1>1, <3>1, <3>3, RecordKinds
  <2> QED
    BY <2>1, <2>2
<1>3. IsDocument(e)
  BY <1>2 DEF IsDocument
<1>4. Present(e) = Present(d)
  BY <1>2 DEF Present
<1>5. Grows(d, e) /\ Fresh(d, e) /\ Stands(d, e)
  BY <1>2, <1>4 DEF Grows, Fresh, Stands, Present
<1>6. ASSUME NEW w, LastWord(d, w)
      PROVE  LastWord(e, w)
  BY <1>2, <1>6 DEF LastWord, AnswersHeard, RecordsHeard, RecordHeard
<1> QED
  BY <1>3, <1>4, <1>5, <1>6

\* One record is put into a document, new or in place of another.
LEMMA PutKeeps ==
    ASSUME NEW d, IsDocument(d), NEW id \in Id, NEW r \in Record(Section(id))
    PROVE  /\ IsDocument(Put(d, id, r)) /\ Present(Put(d, id, r)) = Present(d) \cup {id}
           /\ Put(d, id, r).answers = d.answers /\ Put(d, id, r).concept = d.concept
           /\ Put(d, id, r).deleted = d.deleted
           /\ \A j \in Id : Put(d, id, r).records[j] = IF j = id THEN r ELSE d.records[j]
           /\ Grows(d, Put(d, id, r))
           /\ (id[1] \in Generated /\ id \in d.deleted => id \in Present(d))
                  => Fresh(d, Put(d, id, r))
           /\ id \notin Present(d) => Stands(d, Put(d, id, r))
           /\ \A w, v : Follows(w, v, id) /\ LastWord(d, w) /\ RecordHeard(id, r, v.records[id])
                            => LastWord(Put(d, id, r), v)
<1> DEFINE e == Put(d, id, r)
<1>1. /\ DOMAIN e = DOMAIN d /\ e.answers = d.answers /\ e.deleted = d.deleted
      /\ e.concept = d.concept /\ DOMAIN e.records = Id
      /\ \A j \in Id : e.records[j] = IF j = id THEN r ELSE d.records[j]
  BY DEF Put, IsDocument
<1> HIDE DEF e
<1>2. r # NoRecord
  BY Sections, RecordKinds
<1>3. IsDocument(e)
  BY <1>1 DEF IsDocument
<1>4. Present(e) = Present(d) \cup {id}
  BY <1>1, <1>2 DEF Present
<1>5. Grows(d, e)
  BY <1>1, <1>4 DEF Grows
<1>6. (id[1] \in Generated /\ id \in d.deleted => id \in Present(d)) => Fresh(d, e)
  BY <1>4 DEF Fresh
<1>7. id \notin Present(d) => Stands(d, e)
  BY <1>1 DEF Stands, Present
<1>8. ASSUME NEW w, NEW v, LastWord(d, w), Follows(w, v, id),
             RecordHeard(id, r, v.records[id])
      PROVE  LastWord(e, v)
  <2>0. v.answers = w.answers /\ \A j \in Id \ {id} : v.records[j] = w.records[j]
    BY <1>8 DEF Follows
  <2>1. AnswersHeard(e, v)
    BY <1>1, <1>8, <2>0 DEF LastWord, AnswersHeard
  <2>2. ASSUME NEW j \in Id PROVE RecordHeard(j, e.records[j], v.records[j])
    <3>1. CASE j = id
      BY <1>1, <1>8, <3>1
    <3>2. CASE j # id
      BY <1>1, <1>8, <2>0, <3>2 DEF LastWord, RecordsHeard
    <3> QED
      BY <3>1, <3>2
  <2> QED
    BY <2>1, <2>2 DEF LastWord, RecordsHeard
<1> USE DEF e
<1> QED
  BY <1>1, <1>3, <1>4, <1>5, <1>6, <1>7, <1>8

\* The discovery profile speaks for itself and not for a person.
LEMMA PlanKeeps ==
    ASSUME NEW d, IsDocument(d)
    PROVE  /\ IsDocument(Planned(d)) /\ Present(Planned(d)) = Present(d)
           /\ Planned(d).records = d.records /\ Planned(d).deleted = d.deleted
           /\ \A w : LastWord(d, w) => LastWord(Planned(d), w)
<1> DEFINE e == Planned(d)
<1>1. /\ DOMAIN e = DOMAIN d /\ e.records = d.records /\ e.deleted = d.deleted
      /\ e.concept = d.concept
      /\ \A q \in Question : e.answers[q].by = "human" => e.answers[q] = d.answers[q]
      /\ e.answers \in [Question -> Answer]
  <2>1. [says |-> "NONE", by |-> "script", review |-> "pending"] \in Answer
    BY DEF Answer, Says, Provenance, Disposition
  <2>2. CASE d.concept /\ d.answers["AUT-001"].says # "NONE"
    <3>1. e = [d EXCEPT !.answers["AUT-001"] =
                 [says |-> "NONE", by |-> "script", review |-> "pending"]]
      BY <2>2 DEF Planned
    <3> HIDE DEF e
    <3> QED
      BY <2>1, <3>1 DEF IsDocument
  <2>3. CASE ~ (d.concept /\ d.answers["AUT-001"].says # "NONE")
    <3>1. e = d
      BY <2>3 DEF Planned
    <3> HIDE DEF e
    <3> QED
      BY <3>1 DEF IsDocument
  <2> QED
    BY <2>2, <2>3
<1> HIDE DEF e
<1>2. IsDocument(e) /\ Present(e) = Present(d) /\ \A w : RecordsHeard(d, w) => RecordsHeard(e, w)
  BY <1>1, AnswersChange
<1>3. \A w : AnswersHeard(d, w) => AnswersHeard(e, w)
  BY <1>1 DEF AnswersHeard
<1> QED
  BY <1>1, <1>2, <1>3 DEF LastWord, e

\* One change after another.
LEMMA Composed ==
    ASSUME NEW d, NEW e, NEW f, Grows(d, e), Grows(e, f)
    PROVE  /\ Grows(d, f)
           /\ Fresh(d, e) /\ Fresh(e, f) => Fresh(d, f)
           /\ Present(d) \subseteq Present(e) /\ Stands(d, e) /\ Stands(e, f) => Stands(d, f)
BY DEF Grows, Fresh, Stands

\* What a source brings is new, PROPOSED, and nobody's word.
LEMMA MergeKeeps ==
    ASSUME NEW d, IsDocument(d), NEW s \in Source, Mergeable(d, s)
    PROVE  /\ IsDocument(Merge(d, s))
           /\ Grows(d, Merge(d, s)) /\ Fresh(d, Merge(d, s)) /\ Stands(d, Merge(d, s))
           /\ \A w : LastWord(d, w) => LastWord(Merge(d, s), w)
<1> DEFINE one == IF Requires(s) THEN Put(d, NextId(d, "FR"), Extracted(s)) ELSE d
           whole == Merge(d, s)
<1>0. whole = IF s.blocking THEN Put(one, Blocking, New("STATELESS", "source")) ELSE one
  BY DEF Merge
<1>1. /\ New("PROPOSED", "source") \in Record("FR")
      /\ New("STATELESS", "source") \in Record("Q")
      /\ New("PROPOSED", "source").status = "PROPOSED"
  BY DEF New, Record, Status, Disposition
<1>2. Blocking \in Id /\ Section(Blocking) = "Q" /\ Blocking[1] \notin Generated
  BY RecordsAssumption DEF Id, Blocking, Section
<1>3. /\ IsDocument(one) /\ Present(d) \subseteq Present(one)
      /\ Grows(d, one) /\ Fresh(d, one) /\ Stands(d, one)
      /\ \A w : LastWord(d, w) => LastWord(one, w)
      /\ Blocking \in Present(one) => Blocking \in Present(d)
  <2>1. CASE ~ Requires(s)
    BY <2>1 DEF Grows, Fresh, Stands
  <2>2. CASE Requires(s)
    <3> DEFINE id == NextId(d, "FR")
               r == New("PROPOSED", "source")
    <3>1. Free(d, "FR") # {}
      BY <2>2 DEF Mergeable
    <3>2. id \in Id /\ Section(id) = "FR" /\ id \notin Present(d) \cup d.deleted
      BY <3>1, NextIdUnused, RecordsAssumption
    <3>3. one = Put(d, id, r)
      BY <2>2 DEF Extracted
    <3> HIDE DEF id
    <3>4. r # NoRecord /\ r \in Record(Section(id)) /\ r.status = "PROPOSED"
      BY <1>1, <3>2, RecordKinds
    <3> HIDE DEF r, one
    <3>5. ASSUME NEW w, LastWord(d, w)
          PROVE  RecordHeard(id, r, w.records[id])
      <4>1. w.records[id] = Silent
        BY <3>2, <3>5 DEF LastWord, RecordsHeard, RecordHeard, Present
      <4> QED
        BY <4>1, <3>4 DEF RecordHeard
    <3>6. \A w : LastWord(d, w) => LastWord(one, w)
      <4>1. \A w : Follows(w, w, id)
        BY DEF Follows
      <4> QED
        BY <3>2, <3>3, <3>4, <3>5, <4>1, PutKeeps, Zenon
    <3> QED
      BY <1>2, <3>2, <3>3, <3>4, <3>6, PutKeeps
  <2> QED
    BY <2>1, <2>2
<1> HIDE DEF one, whole
<1>4. CASE ~ s.blocking
  BY <1>0, <1>3, <1>4 DEF whole
<1>5. CASE s.blocking
  <2> DEFINE r == New("STATELESS", "source")
  <2>1. whole = Put(one, Blocking, r) /\ Blocking \notin Present(one)
    BY <1>0, <1>3, <1>5 DEF Mergeable
  <2>2. r \in Record(Section(Blocking)) /\ r # NoRecord
    BY <1>1, <1>2, RecordKinds
  <2> HIDE DEF r
  <2>3. ASSUME NEW w, LastWord(one, w)
        PROVE  RecordHeard(Blocking, r, w.records[Blocking])
    BY <1>2, <2>2 DEF RecordHeard, Advanceable
  <2>4. \A w : LastWord(one, w) => LastWord(whole, w)
    <3>1. \A w : Follows(w, w, Blocking)
      BY DEF Follows
    <3> QED
      BY <1>2, <1>3, <2>1, <2>2, <2>3, <3>1, PutKeeps, Zenon
  <2>5. IsDocument(whole) /\ Grows(one, whole) /\ Fresh(one, whole) /\ Stands(one, whole)
    BY <1>2, <1>3, <2>1, <2>2, PutKeeps
  <2> QED
    BY <1>3, <2>4, <2>5, Composed DEF whole
<1> QED
  BY <1>4, <1>5

\* A document that is seeded once more has no answer of a person, and all its records.
LEMMA SeedKeeps ==
    ASSUME NEW d, IsDocument(d), NEW s \in Source, Mergeable(d, s)
    PROVE  /\ IsDocument(Seeded(d, s))
           /\ Grows(d, Seeded(d, s)) /\ Fresh(d, Seeded(d, s)) /\ Stands(d, Seeded(d, s))
           /\ \A w : RecordsHeard(d, w) => LastWord(Seeded(d, s), w)
<1> DEFINE new == [q \in Question |->
                     [says |-> IF q = "AUT-001" THEN "OTHER" ELSE s.scope,
                      by |-> "source", review |-> "pending"]]
           e == [d EXCEPT !.answers = new]
<1>1. new \in [Question -> Answer] /\ \A q \in Question : new[q].by # "human"
  BY DEF Source, Answer, Says, Provenance, Disposition
<1> HIDE DEF new
<1>2. /\ DOMAIN e = DOMAIN d /\ e.records = d.records /\ e.deleted = d.deleted
      /\ e.concept = d.concept /\ e.answers = new
  BY DEF IsDocument
<1>3. Seeded(d, s) = Merge(e, s)
  BY DEF Seeded, new
<1> HIDE DEF e
<1>4. /\ IsDocument(e) /\ Present(e) = Present(d)
      /\ Grows(d, e) /\ Fresh(d, e) /\ Stands(d, e)
      /\ \A w : RecordsHeard(d, w) => RecordsHeard(e, w)
  BY <1>1, <1>2, AnswersChange
<1>5. Mergeable(e, s)
  BY <1>2, <1>4 DEF Mergeable, Free, Used
<1>6. \A w : RecordsHeard(d, w) => LastWord(e, w)
  BY <1>1, <1>2, <1>4 DEF LastWord, AnswersHeard
<1>7. /\ IsDocument(Merge(e, s))
      /\ Grows(e, Merge(e, s)) /\ Fresh(e, Merge(e, s)) /\ Stands(e, Merge(e, s))
      /\ \A w : LastWord(e, w) => LastWord(Merge(e, s), w)
  BY <1>4, <1>5, MergeKeeps
<1> QED
  BY <1>3, <1>4, <1>6, <1>7, Composed

-----------------------------------------------------------------------------
(***************************************************************************)
(* The requests and commands, one by one.                                  *)
(***************************************************************************)

\* A write that keeps the invariant.
Sound(d) ==
    /\ Write(d) /\ IsDocument(d) /\ word' \in Word
    /\ LastWord(d, word') /\ Grows(doc, d)

\* Such a write keeps it, and the packages.
LEMMA SoundWrite ==
    ASSUME RInv, NEW d, Sound(d)
    PROVE  RInv' /\ packages' = packages
<1>1. doc' = d /\ packages' = packages /\ taken' = taken \cup Present(d)
      /\ requests \in 0..MaxRequests /\ requests < MaxRequests /\ requests' = requests + 1
  BY DEF RInv, TypeOK, Sound, Write
<1>2. requests' \in 0..MaxRequests
  BY <1>1, RecordsAssumption
<1>3. Present(d) \subseteq Id
  BY DEF Present
<1>4. TypeOK'
  BY <1>1, <1>2, <1>3 DEF RInv, TypeOK, Sound
<1>5. LastWord(doc, word)'
  BY <1>1 DEF Sound, LastWord, AnswersHeard, RecordsHeard, RecordHeard
<1>6. Remembers(doc, taken)'
  BY <1>1 DEF RInv, Sound, Grows, Remembers, Present
<1>7. (\A p \in packages : LastWord(p.doc, p.word))'
  BY <1>1 DEF RInv, LastWord, AnswersHeard, RecordsHeard, RecordHeard
<1> QED
  BY <1>1, <1>4, <1>5, <1>6, <1>7 DEF RInv

\* What the review shows is the document, but for the profile's answer.
LEMMA ShownKeeps ==
    ASSUME RInv
    PROVE  /\ IsDocument(Shown) /\ LastWord(Shown, word)
           /\ Shown.records = doc.records /\ Shown.deleted = doc.deleted
           /\ Present(Shown) = Present(doc)
BY PlanKeeps DEF RInv, TypeOK, Shown

\* A request of the review that makes e of what it shows.
LEMMA PublishSound ==
    ASSUME RInv, NEW e, Publish(e), IsDocument(e), Grows(Shown, e),
           word' \in Word, LastWord(e, word')
    PROVE  /\ Sound(Planned(e))
           /\ Fresh(Shown, e) => Fresh(doc, Planned(e))
           /\ Stands(Shown, e) => Stands(doc, Planned(e))
           /\ Planned(e).records = e.records
<1> DEFINE d == Planned(e)
<1>1. /\ IsDocument(d) /\ Present(d) = Present(e) /\ d.records = e.records
      /\ d.deleted = e.deleted /\ LastWord(d, word')
  BY PlanKeeps
<1>2. Write(d)
  BY DEF Publish
<1> HIDE DEF d
<1>3. Grows(doc, d)
  BY <1>1, ShownKeeps DEF Grows
<1>4. Fresh(Shown, e) => Fresh(doc, d)
  BY <1>1, ShownKeeps DEF Fresh
<1>5. Stands(Shown, e) => Stands(doc, d)
  BY <1>1, ShownKeeps DEF Stands
<1> QED
  BY <1>1, <1>2, <1>3, <1>4, <1>5 DEF Sound, d

\* An answer that a person gives is the last word on the question.
LEMMA AnswerHeard ==
    ASSUME NEW d, IsDocument(d), NEW w \in Word, LastWord(d, w),
           NEW q \in Question, NEW says \in Says, NEW review \in Disposition,
           NEW e, e = [d EXCEPT !.answers[q] = [says |-> says, by |-> "human", review |-> review]],
           NEW v, v = [w EXCEPT !.answers[q] = says]
    PROVE  /\ IsDocument(e) /\ Grows(d, e) /\ Fresh(d, e) /\ Stands(d, e)
           /\ v \in Word /\ LastWord(e, v)
<1>1. [says |-> says, by |-> "human", review |-> review] \in Answer
  BY DEF Answer, Provenance
<1>2. /\ DOMAIN e = DOMAIN d /\ e.records = d.records /\ e.deleted = d.deleted
      /\ e.concept = d.concept /\ e.answers \in [Question -> Answer]
      /\ \A p \in Question : e.answers[p] =
             IF p = q THEN [says |-> says, by |-> "human", review |-> review] ELSE d.answers[p]
  BY <1>1 DEF IsDocument
<1>3. /\ v \in Word /\ v.records = w.records
      /\ \A p \in Question : v.answers[p] = IF p = q THEN says ELSE w.answers[p]
  BY DEF Word
<1>4. /\ IsDocument(e) /\ Grows(d, e) /\ Fresh(d, e) /\ Stands(d, e)
      /\ RecordsHeard(d, w) => RecordsHeard(e, w)
  BY <1>2, AnswersChange
<1>5. RecordsHeard(e, v)
  BY <1>3, <1>4 DEF LastWord, RecordsHeard
<1>6. AnswersHeard(e, v)
  BY <1>2, <1>3 DEF LastWord, AnswersHeard
<1> QED
  BY <1>3, <1>4, <1>5, <1>6 DEF LastWord

\* POST answer, and an answer on the command line.
LEMMA ProvideAnswerSound ==
    ASSUME RInv, NEW q \in Question, NEW says \in SaysTo(q), ProvideAnswer(q, says)
    PROVE  \E d : Sound(d) /\ Fresh(doc, d) /\ Stands(doc, d)
<1> DEFINE e == [Shown EXCEPT !.answers[q] =
                    [says |-> says, by |-> "human", review |-> "confirmed"]]
<1>1. says \in Says /\ "confirmed" \in Disposition
  BY DEF SaysTo, Disposition
<1>2. word \in Word /\ word' = [word EXCEPT !.answers[q] = says] /\ Publish(e)
  BY DEF RInv, TypeOK, ProvideAnswer, HeardAnswer
<1> HIDE DEF Shown
<1>3. /\ IsDocument(e) /\ Grows(Shown, e) /\ Fresh(Shown, e) /\ Stands(Shown, e)
      /\ word' \in Word /\ LastWord(e, word')
  BY <1>1, <1>2, ShownKeeps, AnswerHeard
<1> HIDE DEF e
<1> QED
  BY <1>2, <1>3, PublishSound

\* interactive_start.
LEMMA InteractiveSound ==
    ASSUME RInv, NEW q \in Question, NEW says \in SaysTo(q), Interactive(q, says)
    PROVE  \E d : Sound(d) /\ Fresh(doc, d) /\ Stands(doc, d)
<1> DEFINE e == [doc EXCEPT !.answers[q] =
                    [says |-> says, by |-> "human", review |-> "pending"]]
<1>1. says \in Says /\ "pending" \in Disposition
  BY DEF SaysTo, Disposition
<1>2. /\ word \in Word /\ word' = [word EXCEPT !.answers[q] = says] /\ Write(e)
      /\ IsDocument(doc) /\ LastWord(doc, word)
  BY DEF RInv, TypeOK, Interactive, HeardAnswer
<1>3. /\ IsDocument(e) /\ Grows(doc, e) /\ Fresh(doc, e) /\ Stands(doc, e)
      /\ word' \in Word /\ LastWord(e, word')
  BY <1>1, <1>2, AnswerHeard
<1> HIDE DEF e
<1> QED
  BY <1>2, <1>3 DEF Sound

\* POST confirm and reject of an answer.
LEMMA ReviewAnswerSound ==
    ASSUME RInv, NEW q \in Question, NEW review \in Disposition, ReviewAnswer(q, review)
    PROVE  \E d : Sound(d) /\ Fresh(doc, d) /\ Stands(doc, d)
<1> DEFINE e == [Shown EXCEPT !.answers[q].review = review]
<1>1. word \in Word /\ word' = word /\ Publish(e)
  BY DEF RInv, TypeOK, ReviewAnswer
<1> HIDE DEF Shown
<1>2. IsDocument(Shown) /\ LastWord(Shown, word)
  BY ShownKeeps
<1>3. /\ DOMAIN e = DOMAIN Shown /\ e.records = Shown.records /\ e.deleted = Shown.deleted
      /\ e.concept = Shown.concept /\ e.answers \in [Question -> Answer]
      /\ \A p \in Question : /\ e.answers[p].by = Shown.answers[p].by
                             /\ e.answers[p].says = Shown.answers[p].says
  BY <1>2 DEF IsDocument, Answer
<1> HIDE DEF e
<1>4. /\ IsDocument(e) /\ Grows(Shown, e) /\ Fresh(Shown, e) /\ Stands(Shown, e)
      /\ RecordsHeard(Shown, word) => RecordsHeard(e, word)
  BY <1>2, <1>3, AnswersChange
<1>5. LastWord(e, word')
  BY <1>1, <1>2, <1>3, <1>4 DEF LastWord, AnswersHeard
<1> QED
  BY <1>1, <1>4, <1>5, PublishSound

\* POST record/confirm and record/reject.
LEMMA ReviewRecordSound ==
    ASSUME RInv, NEW id \in Id, NEW review \in Disposition, ReviewRecord(id, review)
    PROVE  \E d : Sound(d) /\ Fresh(doc, d) /\ Stands(doc, d)
<1> DEFINE e == [Shown EXCEPT !.records[id].review = review]
<1>1. word \in Word /\ word' = word /\ Publish(e) /\ Shown.records[id] # NoRecord
  BY ShownKeeps DEF RInv, TypeOK, ReviewRecord, Present
<1> HIDE DEF Shown
<1>2. IsDocument(Shown) /\ LastWord(Shown, word)
  BY ShownKeeps
<1>3. /\ DOMAIN e = DOMAIN Shown /\ e.answers = Shown.answers /\ e.deleted = Shown.deleted
      /\ e.concept = Shown.concept /\ DOMAIN e.records = Id
      /\ \A j \in Id : e.records[j] = IF j = id THEN [Shown.records[id] EXCEPT !.review = review]
                                      ELSE Shown.records[j]
  BY <1>2 DEF IsDocument
<1> HIDE DEF e
<1>4. \A j \in Id :
          \/ e.records[j] = Shown.records[j]
          \/ /\ Shown.records[j] # NoRecord
             /\ \E r \in Disposition : e.records[j] = [Shown.records[j] EXCEPT !.review = r]
  BY <1>1, <1>3
<1>5. /\ IsDocument(e) /\ Grows(Shown, e) /\ Fresh(Shown, e) /\ Stands(Shown, e)
      /\ LastWord(e, word')
  BY <1>1, <1>2, <1>3, <1>4, ReviewsChange
<1> QED
  BY <1>1, <1>5, PublishSound

\* POST record-section/confirm.
LEMMA ConfirmSectionSound ==
    ASSUME RInv, NEW section \in Generated, ConfirmSection(section)
    PROVE  \E d : Sound(d) /\ Fresh(doc, d) /\ Stands(doc, d)
<1> DEFINE e == [Shown EXCEPT !.records =
                    [id \in Id |-> IF id \in SectionOf(Shown, section) THEN Confirmed(@[id])
                                   ELSE @[id]]]
<1>1. word \in Word /\ word' = word /\ Publish(e)
  BY DEF RInv, TypeOK, ConfirmSection
<1> HIDE DEF Shown
<1>2. IsDocument(Shown) /\ LastWord(Shown, word)
  BY ShownKeeps
<1>3. /\ DOMAIN e = DOMAIN Shown /\ e.answers = Shown.answers /\ e.deleted = Shown.deleted
      /\ e.concept = Shown.concept /\ DOMAIN e.records = Id
      /\ \A id \in Id : e.records[id] = IF id \in SectionOf(Shown, section)
                                        THEN [Shown.records[id] EXCEPT !.review = "confirmed"]
                                        ELSE Shown.records[id]
  BY <1>2 DEF IsDocument, Confirmed
<1> HIDE DEF e
<1>4. \A id \in Id :
          \/ e.records[id] = Shown.records[id]
          \/ /\ Shown.records[id] # NoRecord
             /\ \E r \in Disposition : e.records[id] = [Shown.records[id] EXCEPT !.review = r]
  BY <1>3 DEF SectionOf, Present, Disposition
<1>5. /\ IsDocument(e) /\ Grows(Shown, e) /\ Fresh(Shown, e) /\ Stands(Shown, e)
      /\ LastWord(e, word')
  BY <1>1, <1>2, <1>3, <1>4, ReviewsChange
<1> QED
  BY <1>1, <1>5, PublishSound

\* A status that a person gives one record is the last word on it.
LEMMA StatusGiven ==
    ASSUME NEW d, IsDocument(d), NEW w \in Word, LastWord(d, w),
           NEW id \in Present(d), NEW s \in Choice(Section(id)),
           NEW e, e = [d EXCEPT !.records[id].status = s],
           NEW v, v = [w EXCEPT !.records[id] = s]
    PROVE  /\ IsDocument(e) /\ Grows(d, e) /\ Fresh(d, e) /\ StandsBut(d, e, id)
           /\ v \in Word /\ LastWord(e, v)
<1> DEFINE r == [d.records[id] EXCEPT !.status = s]
<1>1. id \in Id /\ Section(id) \in {"FR", "PH", "Q"} /\ d.records[id] \in Record(Section(id))
  BY Sections DEF Present, IsDocument
<1>2. s \in Status(Section(id)) /\ s \in AnyStatus
  BY <1>1 DEF Choice, AnyStatus
<1>3. r \in Record(Section(id)) /\ r.status = s /\ r.by = d.records[id].by
  BY <1>1, <1>2 DEF Record
<1>4. e = Put(d, id, r)
  BY DEF Put, IsDocument
<1> HIDE DEF r
<1>5. v \in Word /\ Follows(w, v, id) /\ v.records[id] = s
  BY <1>1, <1>2 DEF Word, Follows
<1>6. r # NoRecord
  BY <1>1, <1>3, RecordKinds
<1>7. RecordHeard(id, r, v.records[id])
  BY <1>2, <1>3, <1>5, <1>6, Words DEF RecordHeard
<1>8. LastWord(e, v)
  <2>1. LastWord(d, w) /\ Follows(w, v, id) /\ RecordHeard(id, r, v.records[id])
    BY <1>5, <1>7
  <2>2. LastWord(Put(d, id, r), v)
    BY <1>1, <1>3, <2>1, PutKeeps, Zenon
  <2> QED
    BY <1>4, <2>2, Zenon
<1>9. \A j \in Id : e.records[j] = IF j = id THEN r ELSE d.records[j]
  BY <1>1, <1>4 DEF Put, IsDocument
<1>10. StandsBut(d, e, id)
  BY <1>3, <1>9 DEF StandsBut, Present
<1> QED
  BY <1>1, <1>3, <1>4, <1>5, <1>8, <1>10, PutKeeps

\* POST record/advance-status.
LEMMA AdvanceStatusSound ==
    ASSUME RInv, NEW id \in Id, NEW s \in AnyStatus, AdvanceStatus(id, s)
    PROVE  \E d : Sound(d) /\ Fresh(doc, d) /\ StandsBut(doc, d, id)
<1> DEFINE e == [Shown EXCEPT !.records[id].status = s]
<1>1. /\ word \in Word /\ word' = [word EXCEPT !.records[id] = s] /\ Publish(e)
      /\ id \in Present(Shown) /\ s \in Choice(Section(id))
  BY ShownKeeps DEF RInv, TypeOK, AdvanceStatus, HeardStatus
<1> HIDE DEF Shown
<1>2. /\ IsDocument(e) /\ Grows(Shown, e) /\ Fresh(Shown, e) /\ StandsBut(Shown, e, id)
      /\ word' \in Word /\ LastWord(e, word')
  BY <1>1, ShownKeeps, StatusGiven
<1> HIDE DEF e
<1>3. /\ Sound(Planned(e)) /\ Fresh(doc, Planned(e)) /\ Planned(e).records = e.records
  BY <1>1, <1>2, PublishSound
<1>4. StandsBut(doc, Planned(e), id)
  BY <1>2, <1>3, ShownKeeps DEF StandsBut, Present
<1> QED
  BY <1>3, <1>4

\* edit_record.
LEMMA EditSound ==
    ASSUME RInv, NEW id \in Id, NEW s \in AnyStatus, Edit(id, s)
    PROVE  \E d : Sound(d) /\ Fresh(doc, d) /\ StandsBut(doc, d, id)
<1> DEFINE e == [doc EXCEPT !.records[id].status = s]
<1>1. /\ word \in Word /\ word' = [word EXCEPT !.records[id] = s] /\ Write(e)
      /\ id \in Present(doc) /\ s \in Choice(Section(id))
      /\ IsDocument(doc) /\ LastWord(doc, word)
  BY DEF RInv, TypeOK, Edit, HeardStatus
<1>2. /\ IsDocument(e) /\ Grows(doc, e) /\ Fresh(doc, e) /\ StandsBut(doc, e, id)
      /\ word' \in Word /\ LastWord(e, word')
  BY <1>1, StatusGiven
<1> HIDE DEF e
<1> QED
  BY <1>1, <1>2 DEF Sound

\* collect_record.
LEMMA CollectSound ==
    ASSUME RInv, NEW prefix \in Generated, NEW s \in AnyStatus, Collect(prefix, s)
    PROVE  \E d : Sound(d) /\ Fresh(doc, d) /\ Stands(doc, d)
<1> DEFINE id == NextId(doc, prefix)
           r == New(s, "human")
           e == Put(doc, id, r)
<1>1. /\ id \in Id /\ Section(id) = prefix /\ id \notin Present(doc) \cup doc.deleted
  BY NextIdUnused DEF Collect
<1>2. /\ word \in Word /\ word' = [word EXCEPT !.records[id] = s] /\ Write(e)
      /\ s \in Choice(Section(id)) /\ IsDocument(doc) /\ LastWord(doc, word)
  BY <1>1 DEF RInv, TypeOK, Collect, HeardStatus
<1> HIDE DEF id
<1>3. r \in Record(Section(id)) /\ r.status = s
  BY <1>2 DEF New, Record, Choice, Disposition
<1>4. r # NoRecord
  BY <1>1, <1>3, Sections, RecordKinds
<1> HIDE DEF r
<1>5. word' \in Word /\ Follows(word, word', id) /\ word'.records[id] = s
  BY <1>1, <1>2 DEF Word, Follows
<1>6. RecordHeard(id, r, word'.records[id])
  BY <1>3, <1>4, <1>5, Words DEF RecordHeard
<1>7. LastWord(e, word')
  BY <1>1, <1>2, <1>3, <1>5, <1>6, PutKeeps, Zenon
<1>8. IsDocument(e) /\ Grows(doc, e) /\ Fresh(doc, e) /\ Stands(doc, e)
  BY <1>1, <1>2, <1>3, PutKeeps
<1> HIDE DEF e
<1> QED
  BY <1>2, <1>5, <1>7, <1>8 DEF Sound

\* resume --pre-artifacts.
LEMMA ResumeSound ==
    ASSUME RInv, NEW s \in Source, Resume(s)
    PROVE  \E d : Sound(d) /\ Fresh(doc, d) /\ Stands(doc, d)
<1>1. /\ IsDocument(doc) /\ LastWord(doc, word) /\ word \in Word /\ word' = word
      /\ Mergeable(doc, s) /\ Write(Seeded(doc, s))
  BY DEF RInv, TypeOK, Resume
<1>2. /\ IsDocument(Seeded(doc, s)) /\ Grows(doc, Seeded(doc, s))
      /\ Fresh(doc, Seeded(doc, s)) /\ Stands(doc, Seeded(doc, s))
      /\ LastWord(Seeded(doc, s), word)
  BY <1>1, SeedKeeps DEF LastWord
<1> QED
  BY <1>1, <1>2 DEF Sound

\* delete_record.
LEMMA DeleteSound ==
    ASSUME RInv, NEW id \in Id, Delete(id)
    PROVE  \E d : Sound(d) /\ Fresh(doc, d) /\ Stands(doc, d)
<1> DEFINE e == Without(doc, id)
<1>1. /\ IsDocument(doc) /\ LastWord(doc, word) /\ word \in Word
      /\ word' = [word EXCEPT !.records[id] = Silent] /\ Write(e)
  BY DEF RInv, TypeOK, Delete, HeardStatus
<1>2. /\ DOMAIN e = DOMAIN doc /\ e.answers = doc.answers /\ e.concept = doc.concept
      /\ e.deleted = doc.deleted \cup {id} /\ DOMAIN e.records = Id
      /\ \A j \in Id : e.records[j] = IF j = id THEN NoRecord ELSE doc.records[j]
  BY <1>1 DEF Without, IsDocument
<1> HIDE DEF e
<1>3. IsDocument(e)
  BY <1>1, <1>2 DEF IsDocument
<1>4. Present(e) = Present(doc) \ {id}
  BY <1>2 DEF Present
<1>5. Grows(doc, e) /\ Fresh(doc, e) /\ Stands(doc, e)
  BY <1>2, <1>4 DEF Grows, Fresh, Stands, Present
<1>6. /\ word' \in Word /\ word'.answers = word.answers /\ word'.records[id] = Silent
      /\ \A j \in Id \ {id} : word'.records[j] = word.records[j]
  BY <1>1 DEF Word
<1>7. AnswersHeard(e, word')
  BY <1>1, <1>2, <1>6 DEF LastWord, AnswersHeard
<1>8. ASSUME NEW j \in Id PROVE RecordHeard(j, e.records[j], word'.records[j])
  <2>1. CASE j = id
    BY <1>2, <1>6, <2>1 DEF RecordHeard
  <2>2. CASE j # id
    BY <1>1, <1>2, <1>6, <2>2 DEF LastWord, RecordsHeard
  <2> QED
    BY <2>1, <2>2
<1> QED
  BY <1>1, <1>3, <1>5, <1>6, <1>7, <1>8 DEF Sound, LastWord, RecordsHeard

-----------------------------------------------------------------------------
(***************************************************************************)
(* The addendum and the seal.                                              *)
(***************************************************************************)

\* What an addendum adds has the status of its section, and an id of Id.
LEMMA Adds ==
    ASSUME NEW a \in Addendum
    PROVE  /\ Named(a) \subseteq Id
           /\ \A id \in Named(a) : /\ StatusIn(a, id) \in Status(Section(id))
                                   /\ New(StatusIn(a, id), "human") \in Record(Section(id))
                                   /\ StatusIn(a, id) # "PROPOSED"
<1>1. <<"PH", 1>> \in Id /\ Section(<<"PH", 1>>) = "PH" /\ <<"FR", 1>> \in Id /\ Section(<<"FR", 1>>) = "FR"
  <2>1. 1 \in Number("PH") /\ 1 \in Number("FR")
    BY RecordsAssumption DEF Number
  <2> QED
    BY <2>1, Sections, RecordsAssumption
<1>2. Remaining \in Id /\ Section(Remaining) = "Q"
  BY DEF Id, Remaining, Section
<1>3. /\ StatusIn(a, <<"PH", 1>>) \in {"HELD", "ACCEPTED"}
      /\ StatusIn(a, <<"FR", 1>>) = "ACCEPTED" /\ StatusIn(a, Remaining) = "STATELESS"
  BY DEF StatusIn, Remaining, Addendum
<1>4. Named(a) \subseteq {<<"PH", 1>>, <<"FR", 1>>, Remaining}
  BY DEF Named
<1>5. \A id \in Named(a) : StatusIn(a, id) \in Status(Section(id)) /\ StatusIn(a, id) # "PROPOSED"
  BY <1>1, <1>2, <1>3, <1>4 DEF Status
<1>6. \A section, s : s \in Status(section) => New(s, "human") \in Record(section)
  BY DEF New, Record, Disposition
<1> QED
  BY <1>1, <1>2, <1>4, <1>5, <1>6

\* An addendum leaves the records that exist, and is a person's word on the others.
LEMMA ResolvedKeeps ==
    ASSUME NEW d, IsDocument(d), NEW a \in Addendum, NEW e, e = Resolved(d, a)
    PROVE  /\ IsDocument(e) /\ Present(e) = Present(d) \cup Named(a)
           /\ Grows(d, e) /\ Stands(d, e)
           /\ \A id \in Id : e.records[id] = IF id \in Added(d, a)
                                             THEN New(StatusIn(a, id), "human")
                                             ELSE d.records[id]
           /\ \A q \in Question : e.answers[q] =
                  IF q = "AUT-001" THEN [says |-> "OTHER", by |-> "human", review |-> "pending"]
                  ELSE d.answers[q]
<1>1. /\ DOMAIN e = DOMAIN d /\ e.deleted = d.deleted /\ e.concept = d.concept
      /\ DOMAIN e.records = Id
      /\ \A id \in Id : e.records[id] = IF id \in Added(d, a)
                                        THEN New(StatusIn(a, id), "human") ELSE d.records[id]
  BY DEF Resolved, IsDocument
<1>2. /\ e.answers \in [Question -> Answer]
      /\ \A q \in Question : e.answers[q] =
             IF q = "AUT-001" THEN [says |-> "OTHER", by |-> "human", review |-> "pending"]
             ELSE d.answers[q]
  BY RecordsAssumption DEF Resolved, IsDocument, Answer, Says, Provenance, Disposition
<1>3. \A id \in Added(d, a) : /\ id \in Id /\ e.records[id] \in Record(Section(id))
                              /\ e.records[id] # NoRecord
  BY <1>1, Adds, Sections, RecordKinds DEF Added
<1>4. IsDocument(e)
  BY <1>1, <1>2, <1>3 DEF IsDocument
<1>5. Present(e) = Present(d) \cup Named(a)
  BY <1>1, <1>3, Adds DEF Present, Added
<1>6. Grows(d, e) /\ Stands(d, e)
  <2>1. \A id \in Present(d) : id \in Id /\ id \notin Added(d, a)
    BY DEF Present, Added
  <2>2. \A id \in Present(d) : e.records[id] = d.records[id]
    BY <1>1, <2>1
  <2> QED
    BY <1>1, <1>5, <2>2 DEF Grows, Stands
<1> QED
  BY <1>1, <1>2, <1>4, <1>5, <1>6

\* decision addendum.
LEMMA ApplyAddendumSound ==
    ASSUME RInv, NEW a \in Addendum, ApplyAddendum(a)
    PROVE  \E d : Sound(d) /\ Stands(doc, d)
<1> DEFINE e == Resolved(doc, a)
<1>1. /\ IsDocument(doc) /\ LastWord(doc, word) /\ word \in Word /\ Write(e)
      /\ word' = [word EXCEPT
                    !.answers["AUT-001"] = "OTHER",
                    !.records = [id \in Id |-> IF id \in Added(doc, a) THEN StatusIn(a, id)
                                               ELSE @[id]]]
  BY DEF RInv, TypeOK, ApplyAddendum
<1>2. \A id \in Added(doc, a) : StatusIn(a, id) \in AnyStatus /\ StatusIn(a, id) # "PROPOSED"
  <2>1. \A id \in Added(doc, a) : Section(id) \in {"FR", "PH", "Q"}
    BY Adds, Sections DEF Added
  <2> QED
    BY <2>1, Adds DEF Added, AnyStatus
<1>3. /\ word' \in Word
      /\ \A id \in Id : word'.records[id] = IF id \in Added(doc, a) THEN StatusIn(a, id)
                                             ELSE word.records[id]
      /\ \A q \in Question : word'.answers[q] = IF q = "AUT-001" THEN "OTHER" ELSE word.answers[q]
  BY <1>1, <1>2 DEF Word, Says
<1>4. /\ IsDocument(e) /\ Grows(doc, e) /\ Stands(doc, e)
      /\ \A id \in Id : e.records[id] = IF id \in Added(doc, a)
                                        THEN New(StatusIn(a, id), "human") ELSE doc.records[id]
      /\ \A q \in Question : e.answers[q] =
             IF q = "AUT-001" THEN [says |-> "OTHER", by |-> "human", review |-> "pending"]
             ELSE doc.answers[q]
  BY <1>1, ResolvedKeeps
<1> HIDE DEF e
<1>5. AnswersHeard(e, word')
  BY <1>1, <1>3, <1>4 DEF LastWord, AnswersHeard
<1>6. ASSUME NEW id \in Id PROVE RecordHeard(id, e.records[id], word'.records[id])
  <2>1. CASE id \in Added(doc, a)
    <3>1. e.records[id].status = StatusIn(a, id) /\ word'.records[id] = StatusIn(a, id)
      <4>1. e.records[id] = New(StatusIn(a, id), "human")
        BY <1>4, <2>1
      <4>2. word'.records[id] = StatusIn(a, id)
        BY <1>3, <2>1
      <4> QED
        BY <4>1, <4>2 DEF New
    <3>2. e.records[id] # NoRecord
      BY <3>1, <1>2, <2>1, Words DEF NoRecord
    <3> QED
      BY <3>1, <3>2, <1>2, <2>1, Words DEF RecordHeard
  <2>2. CASE id \notin Added(doc, a)
    BY <1>1, <1>3, <1>4, <2>2 DEF LastWord, RecordsHeard
  <2> QED
    BY <2>1, <2>2
<1> QED
  BY <1>1, <1>3, <1>4, <1>5, <1>6 DEF Sound, LastWord, RecordsHeard

\* The stamp of the seal changes review dispositions only.
LEMMA ApprovedKeeps ==
    ASSUME NEW d, IsDocument(d), NEW w, LastWord(d, w)
    PROVE  IsDocument(Approved(d)) /\ LastWord(Approved(d), w)
<1> DEFINE e == Approved(d)
           one == [d EXCEPT !.answers = [q \in Question |-> Stamp(@[q])]]
<1>1. "confirmed" \in Disposition
  BY DEF Disposition
<1>2. \A q \in Question : /\ Stamp(d.answers[q]) \in Answer
                          /\ Stamp(d.answers[q]).by = d.answers[q].by
                          /\ Stamp(d.answers[q]).says = d.answers[q].says
  BY <1>1 DEF Stamp, Answer, IsDocument
<1>3. /\ DOMAIN one = DOMAIN d /\ one.records = d.records /\ one.deleted = d.deleted
      /\ one.concept = d.concept /\ one.answers = [q \in Question |-> Stamp(d.answers[q])]
  BY DEF IsDocument
<1>4. /\ DOMAIN e = DOMAIN one /\ e.answers = one.answers /\ e.deleted = one.deleted
      /\ e.concept = one.concept
      /\ e.records = [id \in Id |-> IF one.records[id] = NoRecord THEN NoRecord
                                    ELSE Stamp(one.records[id])]
  BY <1>3 DEF IsDocument, Approved
<1> HIDE DEF e, one
<1>5. one.answers \in [Question -> Answer]
  BY <1>2, <1>3
<1>6. IsDocument(one) /\ (RecordsHeard(d, w) => RecordsHeard(one, w))
  BY <1>3, <1>5, AnswersChange
<1>7. LastWord(one, w)
  BY <1>2, <1>3, <1>6 DEF LastWord, AnswersHeard
<1>8. \A id \in Id :
         \/ e.records[id] = one.records[id]
         \/ /\ one.records[id] # NoRecord
            /\ \E review \in Disposition : e.records[id] = [one.records[id] EXCEPT !.review = review]
  BY <1>1, <1>4 DEF Stamp
<1>9. DOMAIN e.records = Id
  BY <1>4
<1> QED
  <2>1. \A v : LastWord(one, v) => LastWord(e, v)
    BY <1>4, <1>6, <1>8, <1>9, ReviewsChange
  <2>2. IsDocument(e)
    <3>1. \A id \in Id : one.records[id] # NoRecord =>
             Stamp(one.records[id]) \in Record(Section(id))
      BY <1>1, <1>6 DEF IsDocument, Stamp, Record
    <3> QED
      BY <1>4, <1>6, <3>1 DEF IsDocument
  <2> QED
    BY <1>7, <2>1, <2>2 DEF e

\* seal_completed_intake.
LEMMA SealSound ==
    ASSUME RInv, Seal
    PROVE  RInv'
<1>1. IsDocument(Approved(Shown)) /\ LastWord(Approved(Shown), word)
  BY ShownKeeps, ApprovedKeeps
<1>2. /\ packages' = packages \cup {[doc |-> Approved(Shown), word |-> word]}
      /\ doc' = doc /\ word' = word /\ taken' = taken /\ requests' = requests
  BY DEF Seal
<1>3. word \in Word
  BY DEF RInv, TypeOK
<1> DEFINE p == [doc |-> Approved(Shown), word |-> word]
<1>4. DOMAIN p = {"doc", "word"} /\ p.doc = Approved(Shown) /\ p.word = word
  OBVIOUS
<1>5. packages' = packages \cup {p}
  BY <1>2
<1> HIDE DEF p
<1>6. IsDocument(p.doc) /\ p.word \in Word /\ LastWord(p.doc, p.word)
  BY <1>1, <1>3, <1>4
<1>7. TypeOK'
  BY <1>2, <1>4, <1>5, <1>6 DEF RInv, TypeOK
<1>8. (\A o \in packages : LastWord(o.doc, o.word))'
  BY <1>5, <1>6 DEF RInv, LastWord, AnswersHeard, RecordsHeard, RecordHeard
<1>9. LastWord(doc, word)' /\ Remembers(doc, taken)'
  BY <1>2 DEF RInv, LastWord, AnswersHeard, RecordsHeard, RecordHeard, Remembers, Present
<1> QED
  BY <1>7, <1>8, <1>9 DEF RInv

-----------------------------------------------------------------------------
(***************************************************************************)
(* The invariant.                                                          *)
(***************************************************************************)

\* create_intake_session establishes it.
LEMMA InitInv == Init => RInv
<1> SUFFICES ASSUME Init PROVE RInv
  OBVIOUS
<1>1. PICK s \in Source, concept \in BOOLEAN :
        doc = Planned(Seeded(
                [answers |-> [q \in Question |->
                                [says |-> "UNKNOWN", by |-> "source", review |-> "pending"]],
                 records |-> [id \in Id |-> NoRecord],
                 deleted |-> {}, concept |-> concept], s))
  BY DEF Init
<1> DEFINE d == [answers |-> [q \in Question |->
                                [says |-> "UNKNOWN", by |-> "source", review |-> "pending"]],
                 records |-> [id \in Id |-> NoRecord],
                 deleted |-> {}, concept |-> concept]
<1>2. /\ packages = {} /\ taken = Present(doc) /\ requests = 0
      /\ word = [records |-> [id \in Id |-> Silent], answers |-> [q \in Question |-> Silent]]
  BY DEF Init
<1>3. [says |-> "UNKNOWN", by |-> "source", review |-> "pending"] \in Answer
  BY DEF Answer, Says, Provenance, Disposition
<1>4. IsDocument(d) /\ Present(d) = {} /\ d.deleted = {} /\ \A id \in Id : d.records[id] = NoRecord
  BY <1>3 DEF IsDocument, Present
<1>5. doc = Planned(Seeded(d, s))
  BY <1>1
<1> HIDE DEF d
<1>6. Mergeable(d, s)
  <2>1. 1 \in Number("FR")
    BY RecordsAssumption DEF Number
  <2> QED
    BY <1>4, <2>1 DEF Mergeable, Free, Used
<1>7. word \in Word /\ RecordsHeard(d, word)
  BY <1>2, <1>4 DEF Word, RecordsHeard, RecordHeard
<1>8. IsDocument(Seeded(d, s)) /\ LastWord(Seeded(d, s), word)
  BY <1>4, <1>6, <1>7, SeedKeeps
<1>9. IsDocument(doc) /\ LastWord(doc, word)
  BY <1>5, <1>8, PlanKeeps
<1>10. Remembers(doc, taken) /\ taken \subseteq Id
  BY <1>2 DEF Remembers, Present
<1>11. requests \in 0..MaxRequests
  BY <1>2, RecordsAssumption
<1> QED
  BY <1>2, <1>7, <1>9, <1>10, <1>11 DEF RInv, TypeOK

\* What each step does to the document.
Ordinary(d) == Sound(d) /\ Fresh(doc, d) /\ Stands(doc, d)
StatusSaid(d, id) ==
    /\ Sound(d) /\ Fresh(doc, d) /\ StandsBut(doc, d, id)
    /\ \E s \in AnyStatus : AdvanceStatus(id, s) \/ Edit(id, s)
Addended(d) == Sound(d) /\ Stands(doc, d) /\ \E a \in Addendum : ApplyAddendum(a)

\* Every step is a request that was looked at above.
LEMMA Steps ==
    ASSUME RInv, Next
    PROVE  \/ \E d : Ordinary(d)
           \/ \E d : \E id \in Id : StatusSaid(d, id)
           \/ \E d : Addended(d)
           \/ Seal
<1>1. CASE \E q \in Question : \E says \in SaysTo(q) : ProvideAnswer(q, says)
  BY <1>1, ProvideAnswerSound DEF Ordinary
<1>2. CASE \E q \in Question : \E says \in SaysTo(q) : Interactive(q, says)
  BY <1>2, InteractiveSound DEF Ordinary
<1>3. {"confirmed", "rejected"} \subseteq Disposition
  BY DEF Disposition
<1>4. CASE \E review \in {"confirmed", "rejected"} : \E q \in Question : ReviewAnswer(q, review)
  BY <1>3, <1>4, ReviewAnswerSound DEF Ordinary
<1>5. CASE \E review \in {"confirmed", "rejected"} : \E id \in Id : ReviewRecord(id, review)
  BY <1>3, <1>5, ReviewRecordSound DEF Ordinary
<1>6. CASE \E section \in Generated : ConfirmSection(section)
  BY <1>6, ConfirmSectionSound DEF Ordinary
<1>7. CASE \E id \in Id : Delete(id)
  BY <1>7, DeleteSound DEF Ordinary
<1>8. CASE \E id \in Id : \E s \in AnyStatus : AdvanceStatus(id, s)
  BY <1>8, AdvanceStatusSound DEF StatusSaid
<1>9. CASE \E id \in Id : \E s \in AnyStatus : Edit(id, s)
  BY <1>9, EditSound DEF StatusSaid
<1>10. CASE \E prefix \in Generated : \E s \in AnyStatus : Collect(prefix, s)
  BY <1>10, CollectSound DEF Ordinary
<1>11. CASE \E s \in Source : Resume(s)
  BY <1>11, ResumeSound DEF Ordinary
<1>12. CASE \E a \in Addendum : ApplyAddendum(a)
  BY <1>12, ApplyAddendumSound DEF Addended
<1> QED
  BY <1>1, <1>2, <1>4, <1>5, <1>6, <1>7, <1>8, <1>9, <1>10, <1>11, <1>12 DEF Next

\* Every step keeps the invariant.
LEMMA NextInv == RInv /\ [Next]_vars => RInv'
<1> SUFFICES ASSUME RInv, [Next]_vars PROVE RInv'
  OBVIOUS
<1>1. CASE Next
  <2>1. CASE \E d : Sound(d)
    BY <2>1, SoundWrite
  <2>2. CASE Seal
    BY <2>2, SealSound
  <2> QED
    BY <1>1, <2>1, <2>2, Steps DEF Ordinary, StatusSaid, Addended
<1>2. CASE UNCHANGED vars
  BY <1>2 DEF vars, RInv, TypeOK, LastWord, AnswersHeard, RecordsHeard, RecordHeard,
              Remembers, Present, IsDocument
<1> QED
  BY <1>1, <1>2

\* The invariant holds throughout.
THEOREM Invariance == Spec => []RInv
BY InitInv, NextInv, PTL DEF Spec

-----------------------------------------------------------------------------
\* The document, the packages and the words have their types in every state.
THEOREM TypeCorrect == Spec => []TypeOK
<1>1. RInv => TypeOK
  BY DEF RInv
<1> QED
  BY <1>1, Invariance, PTL

\* What the derivation tells of a sealed package is what a person said before
\* the sealing, and of records exactly that.
THEOREM Reported == Spec => []ReportedAsSaid
<1>1. RInv => ReportedAsSaid
  <2> SUFFICES ASSUME RInv, NEW p \in packages, NEW expected \in packages
               PROVE  LET report == Report(p, Digest(expected)) IN
                      /\ \A q \in DOMAIN report.answers :
                            report.answers[q] = "confirmed" =>
                                expected.word.answers[q] = expected.doc.answers[q].says
                      /\ \A id \in DOMAIN report.records :
                            report.records[id] = "confirmed" <=>
                                /\ Section(id) \in Advanceable
                                /\ expected.word.records[id] \notin {Silent, "PROPOSED"}
    BY DEF ReportedAsSaid
  <2> DEFINE d == expected.doc
             w == expected.word
             report == Report(p, Digest(expected))
  <2>1. CASE p.doc # d
    <3>1. report = [answers |-> <<>>, records |-> <<>>]
      BY <2>1 DEF Report, Accepts, Digest, Nothing
    <3> QED
      BY <3>1
  <2>2. CASE p.doc = d
    <3>1. report = [answers |-> [q \in Question |-> OfAnswer(d.answers[q])],
                    records |-> [id \in Present(d) |-> OfRecord(Section(id), d.records[id])]]
      BY <2>2 DEF Report, Accepts, Digest, Derive
    <3>2. LastWord(d, w)
      BY DEF RInv
    <3> HIDE DEF d, w, report
    <3>3. \A q \in Question : OfAnswer(d.answers[q]) = "confirmed" => w.answers[q] = d.answers[q].says
      BY <3>2 DEF LastWord, AnswersHeard, OfAnswer
    <3>4. ASSUME NEW id \in Present(d)
          PROVE  OfRecord(Section(id), d.records[id]) = "confirmed" <=>
                     /\ Section(id) \in Advanceable
                     /\ w.records[id] \notin {Silent, "PROPOSED"}
      <4>1. RecordHeard(id, d.records[id], w.records[id]) /\ d.records[id] # NoRecord
        BY <3>2 DEF LastWord, RecordsHeard, Present
      <4>2. CASE Section(id) \in Advanceable
        BY <4>1, <4>2 DEF RecordHeard, OfRecord
      <4>3. CASE Section(id) \notin Advanceable
        BY <4>3 DEF OfRecord
      <4> QED
        BY <4>2, <4>3
    <3> USE DEF d, w, report
    <3> QED
      BY <3>1, <3>3, <3>4
  <2> QED
    BY <2>1, <2>2
<1> QED
  BY <1>1, Invariance, PTL

\* An id that _next_id gives never named another record, deleted ones included.
THEOREM IdsFresh == Spec => GeneratedFresh
<1>1. RInv /\ [Next]_vars =>
        [(\E a \in Addendum : ApplyAddendum(a)) \/
         \A id \in Present(doc)' \ Present(doc) : id[1] \in Generated => id \notin taken]_vars
  <2> SUFFICES ASSUME RInv, Next, ~ \E a \in Addendum : ApplyAddendum(a),
                      NEW id \in Present(doc)' \ Present(doc), id[1] \in Generated
               PROVE  id \notin taken
    BY DEF vars
  <2>1. CASE \E d : Sound(d) /\ Fresh(doc, d)
    <3>1. Fresh(doc, doc') /\ Present(doc)' = Present(doc')
      BY <2>1 DEF Sound, Write, Present
    <3> QED
      BY <3>1 DEF RInv, Remembers, Fresh
  <2>2. CASE Seal
    BY <2>2 DEF Seal, Present
  <2> QED
    BY <2>1, <2>2, Steps DEF Ordinary, StatusSaid, Addended
<1> QED
  BY <1>1, Invariance, PTL DEF Spec, GeneratedFresh

\* A record stays what it is, and its status moves only where a person moves it.
THEOREM StatusOnlySaid == Spec => RecordsStand
<1>1. RInv /\ [Next]_vars =>
        [\A id \in Present(doc) \cap Present(doc)' :
            /\ doc'.records[id].by = doc.records[id].by
            /\ doc'.records[id].status # doc.records[id].status =>
                  \E s \in AnyStatus : AdvanceStatus(id, s) \/ Edit(id, s)]_vars
  <2> SUFFICES ASSUME RInv, Next, NEW id \in Present(doc) \cap Present(doc)'
               PROVE  /\ doc'.records[id].by = doc.records[id].by
                      /\ doc'.records[id].status # doc.records[id].status =>
                            \E s \in AnyStatus : AdvanceStatus(id, s) \/ Edit(id, s)
    BY DEF vars
  <2>0. id \in Present(doc) \cap Present(doc')
    BY DEF Present
  <2>1. CASE \E d : Sound(d) /\ Stands(doc, d)
    BY <2>0, <2>1 DEF Sound, Write, Stands
  <2>2. CASE \E d : \E j \in Id : StatusSaid(d, j)
    <3>1. PICK j \in Id : StatusSaid(doc', j)
      BY <2>2 DEF StatusSaid, Sound, Write
    <3>2. /\ doc'.records[id].by = doc.records[id].by
          /\ id # j => doc'.records[id].status = doc.records[id].status
      BY <2>0, <3>1 DEF StatusSaid, StandsBut
    <3> QED
      BY <3>1, <3>2 DEF StatusSaid
  <2>3. CASE Seal
    BY <2>3 DEF Seal
  <2> QED
    BY <2>1, <2>2, <2>3, Steps DEF Ordinary, Addended
<1> QED
  BY <1>1, Invariance, PTL DEF Spec, RecordsStand

\* An addendum is applied in full, and a second time changes no record.
THEOREM Settled == Spec => []AddendumSettled
<1>1. RInv => AddendumSettled
  <2> SUFFICES ASSUME RInv, NEW a \in Addendum
               PROVE  /\ Named(a) \subseteq Present(Resolved(doc, a))
                      /\ Resolved(Resolved(doc, a), a).records = Resolved(doc, a).records
    BY DEF AddendumSettled
  <2> DEFINE once == Resolved(doc, a)
  <2>1. IsDocument(doc)
    BY DEF RInv, TypeOK
  <2>2. IsDocument(once) /\ Present(once) = Present(doc) \cup Named(a)
    BY <2>1, ResolvedKeeps
  <2>3. once.records = [id \in Id |-> once.records[id]]
    BY <2>1 DEF Resolved, IsDocument
  <2> HIDE DEF once
  <2>4. Added(once, a) = {}
    BY <2>2 DEF Added
  <2>5. Resolved(once, a).records = [id \in Id |-> once.records[id]]
    BY <2>2, <2>4 DEF Resolved, IsDocument
  <2> QED
    BY <2>2, <2>3, <2>5 DEF once
<1> QED
  BY <1>1, Invariance, PTL
=============================================================================
