---------------------------- MODULE Conditionals ----------------------------
(***************************************************************************)
(* Questions that one answer makes inapplicable: apply_conditionals of the *)
(* questionnaire, and the discovery profile of the intake's question plan, *)
(* which answers two questions by itself.                                  *)
(*                                                                         *)
(* A suppressed question is answered NOT_APPLICABLE by the script, after   *)
(* the answer it had was archived; when it applies again, the archived     *)
(* answer comes back.  The plan runs whenever a session is loaded and      *)
(* before it is saved; the command line tool saves without it.             *)
(***************************************************************************)
CONSTANTS
    Question,  \* the questions that are followed
    Text       \* what may be answered to a question with a free answer

Profile == {"PKG-002", "PKG-005", "PKG-006", "AUT-001"}
Suppressible == {"XFR-SET", "AUT-004", "SEC-001-CATEGORIES", "HAR-001"}

ASSUME ConditionalsAssumption ==
    /\ Profile \subseteq Question
    /\ Question \subseteq Profile \cup Suppressible \cup {"SEC-001"}
    /\ "SEC-001-CATEGORIES" \in Question => "SEC-001" \in Question
    /\ Text \cap {"NOT_APPLICABLE", "ABSENT"} = {}

VARIABLES
    doc,    \* answers.json
    said    \* the last answer a person or the source gave to each followup

vars == <<doc, said>>

-----------------------------------------------------------------------------
Followup == Question \cap Suppressible

\* State and value of an answer in one; "UNKNOWN" is the state, and what
\* _value makes of it.  For PKG-006 NOT_APPLICABLE is the value too, as the plan
\* and the seeds write it; the state alone, which people leave, is a Text.
Choices(q) ==
    CASE q = "PKG-002" -> {"DISCOVERY", "CROSS_PROJECT_TRANSFER"}
      [] q = "PKG-005" -> {"NOT_CREATED", "EXISTS"}
      [] q = "AUT-001" -> {"NONE", "UNKNOWN", "DESIGN_ONLY"}
      [] q = "SEC-001" -> {"YES", "NO"}
      [] OTHER -> Text \cup {"NOT_APPLICABLE"}

\* `by` is DERIVED_BY_SCRIPT or any other provenance; `fresh` marks what was
\* written, timestamp and all, since the document was last saved.
Answer(q) == [value : Choices(q), by : {"script", "source"}, fresh : BOOLEAN]
Absent == [value |-> "ABSENT", by |-> "nobody", fresh |-> FALSE]

\* The latest entry of answer_history about a followup; the others are not read.
Entry(q) == [previous : Answer(q) \cup {Absent}, suppression : BOOLEAN]
NoEntry == [previous |-> Absent, suppression |-> FALSE]

TypeOK ==
    /\ DOMAIN doc = {"answers", "archive", "harness"}
    /\ DOMAIN doc.answers = Question /\ DOMAIN doc.archive = Followup
    /\ \A q \in Question : doc.answers[q] \in Answer(q) \cup {Absent}
    /\ \A f \in Followup : doc.archive[f] \in Entry(f)
    /\ doc.harness \in BOOLEAN
    /\ DOMAIN said = Followup
    /\ \A f \in Followup : said[f] \in Choices(f) \cup {"ABSENT"}

-----------------------------------------------------------------------------
(***************************************************************************)
(* apply_conditionals.                                                     *)
(***************************************************************************)

Value(d, q) == d.answers[q].value

Inactive(d, f) ==
    CASE f = "XFR-SET" -> Value(d, "PKG-002") # "CROSS_PROJECT_TRANSFER"
      [] f = "AUT-004" -> Value(d, "AUT-001") \in {"ABSENT", "NONE"}
      [] f = "SEC-001-CATEGORIES" -> Value(d, "SEC-001") # "YES"
      [] f = "HAR-001" -> ~d.harness

NotApplicable == [value |-> "NOT_APPLICABLE", by |-> "script", fresh |-> TRUE]

Derived(a) == a.by = "script" /\ a.value = "NOT_APPLICABLE"

\* _set_derived_na, as the answer and the entry it leaves.
Discard(d, f) ==
    [answer |-> IF Derived(d.answers[f]) THEN d.answers[f] ELSE NotApplicable,
     entry |-> d.archive[f]]
Suppressed(d, f) ==
    LET a == d.answers[f] IN
    [answer |-> IF Derived(a) THEN a ELSE NotApplicable,
     entry |-> IF Derived(a) \/ a = Absent THEN d.archive[f]
               ELSE [previous |-> a, suppression |-> TRUE]]

\* _restore_conditional_answer: only the latest entry counts.
Restored(d, f) ==
    LET a == d.answers[f]
        e == d.archive[f] IN
    [answer |-> IF ~Derived(a) THEN a ELSE IF e.suppression THEN e.previous ELSE Absent,
     entry |-> e]

Conditional(d, f) == IF Inactive(d, f) THEN Suppressed(d, f) ELSE Restored(d, f)

Apply(d) ==
    [answers |-> [q \in Question |-> IF q \in Followup THEN Conditional(d, q).answer
                                     ELSE d.answers[q]],
     archive |-> [f \in Followup |-> Conditional(d, f).entry],
     harness |-> d.harness]

-----------------------------------------------------------------------------
(***************************************************************************)
(* set_answer, set_harness_mode, build_question_plan.                      *)
(***************************************************************************)

\* Only a changed value is archived; the answer is replaced in any case.
Store(d, q, v, by) ==
    LET a == d.answers[q] IN
    [answers |-> [d.answers EXCEPT ![q] = [value |-> v, by |-> by, fresh |-> TRUE]],
     archive |-> [f \in Followup |-> IF f = q /\ a # Absent /\ a.value # v
                                     THEN [previous |-> a, suppression |-> FALSE]
                                     ELSE d.archive[f]],
     harness |-> d.harness]

SetAnswer(d, q, v, by) ==
    IF q \in {"PKG-002", "AUT-001", "SEC-001"} THEN Apply(Store(d, q, v, by))
    ELSE Store(d, q, v, by)

SetHarness(d, enabled) == Apply([d EXCEPT !.harness = enabled])

Concept(d) == Value(d, "PKG-002") = "DISCOVERY" /\ Value(d, "PKG-005") = "NOT_CREATED"

\* An unchanged answer is not replaced: that would move its timestamps.
Insist(d, q, v) == IF Value(d, q) = v THEN d ELSE SetAnswer(d, q, v, "script")

EagerPlan(d) ==
    IF Concept(d)
    THEN Apply(SetAnswer(SetAnswer(d, "AUT-001", "NONE", "script"),
                         "PKG-006", "NOT_APPLICABLE", "script"))
    ELSE d
LaxPlan(d) ==
    IF Concept(d)
    THEN Insist(Insist(d, "AUT-001", "NONE"), "PKG-006", "NOT_APPLICABLE")
    ELSE d
Plan(d) ==
    IF Concept(d)
    THEN Apply(Insist(Insist(d, "AUT-001", "NONE"), "PKG-006", "NOT_APPLICABLE"))
    ELSE d

\* What is written to answers.json counts as unchanged from then on.
Settle(a) == [value |-> a.value, by |-> a.by, fresh |-> FALSE]
Saved(d) ==
    [answers |-> [q \in Question |-> Settle(d.answers[q])],
     archive |-> [f \in Followup |-> [d.archive[f] EXCEPT !.previous = Settle(@)]],
     harness |-> d.harness]

Loaded(d) == Plan(d)

-----------------------------------------------------------------------------
\* create_intake_session: a new document, the seeds, the plan.  The source says
\* nothing of the authority (NOT_EVALUATED, here with NONE) and may name the
\* repository and the snapshot.
Init ==
    /\ \E repository \in Choices("PKG-005"), snapshot \in Choices("PKG-006") :
          LET from(v) == [value |-> v, by |-> "source", fresh |-> FALSE]
              seeded == [q \in Question |->
                            CASE q = "PKG-002" -> from("DISCOVERY")
                              [] q = "PKG-005" -> from(repository)
                              [] q = "PKG-006" -> from(snapshot)
                              [] q = "AUT-001" -> from("NONE")
                              [] q = "SEC-001" -> Absent
                              [] q \in Followup -> NotApplicable] IN
          doc = Saved(Plan([answers |-> seeded, archive |-> [f \in Followup |-> NoEntry],
                            harness |-> FALSE]))
    /\ said = [f \in Followup |-> "ABSENT"]

Say(q, v) == said' = IF q \in Followup THEN [said EXCEPT ![q] = v] ELSE said

\* POST /api/session/answer: load, provide_answer, _refresh_session.
ProvideAnswer(q, v) ==
    /\ doc' = Saved(Plan(SetAnswer(Loaded(doc), q, v, "source")))
    /\ Say(q, v)

\* Any other request that saves the session.
Refresh ==
    /\ doc' = Saved(Plan(Loaded(doc)))
    /\ UNCHANGED said

\* The command line tool skips what the script answered NOT_APPLICABLE, but may
\* be given the source again, which answers what it answered first.
Interactive(q, v) ==
    /\ q \in Followup => ~Derived(doc.answers[q])
    /\ doc' = Saved(SetAnswer(doc, q, v, "source"))
    /\ Say(q, v)

SetHarnessMode(enabled) ==
    /\ doc' = Saved(SetHarness(doc, enabled))
    /\ UNCHANGED said

Next ==
    \/ \E q \in Question : \E v \in Choices(q) : ProvideAnswer(q, v) \/ Interactive(q, v)
    \/ Refresh
    \/ \E enabled \in BOOLEAN : SetHarnessMode(enabled)

Spec == Init /\ [][Next]_vars

-----------------------------------------------------------------------------
\* What was last answered to a question stands: when the question applies, its
\* answer is that one, through any number of suppressions, and no older answer
\* comes back in its place; while it does not apply nothing else is there but
\* NOT_APPLICABLE.  A question that was never answered is asked.
LatestWordStands ==
    \A f \in Followup :
        IF Derived(doc.answers[f]) THEN Inactive(doc, f)
        ELSE doc.answers[f].value = said[f]

\* "Planning runs on every load.  Replacing an unchanged answer would reset its
\* timestamps/provenance and invalidate the final review": once saved, a
\* document that is loaded again is the same, timestamps included.
LoadSettled ==
    LET once == Saved(Loaded(doc)) IN Loaded(once) = once

\* In the discovery profile the document that is shown, reviewed and sealed
\* claims no authority, whatever was answered before: AUT-001 is NONE and no
\* answer about the scope of an authority is left standing.
DiscoveryGrantsNothing ==
    LET shown == Loaded(doc) IN
    Concept(shown) =>
        /\ Value(shown, "AUT-001") = "NONE"
        /\ \A f \in Followup \cap {"AUT-004"} : Derived(shown.answers[f])

\* A question that is not offered because the script answered NOT_APPLICABLE
\* has a cause that holds: "apply_conditionals will keep forcing it back".
SkippedHasCause ==
    LET shown == Loaded(doc) IN
    /\ \A f \in Followup : Derived(shown.answers[f]) => Inactive(shown, f)
    /\ Derived(shown.answers["PKG-006"]) => Value(shown, "PKG-005") = "NOT_CREATED"
=============================================================================
