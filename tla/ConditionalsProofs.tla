------------------------- MODULE ConditionalsProofs -------------------------
(***************************************************************************)
(* Proofs about Conditionals and Projection, for any set of questions that *)
(* is followed and any texts.                                              *)
(*                                                                         *)
(* The argument is about documents: Typed, Settled (what is suppressed is  *)
(* inactive) and Honest (an answer is the last word of a person, and so is *)
(* the archive of one that is suppressed).  apply_conditionals makes a     *)
(* document settled, and each operation keeps the three.                   *)
(***************************************************************************)
EXTENDS Projection, TLAPS

-----------------------------------------------------------------------------
AnswerOf(q) == Answer(q) \cup {Absent}

Typed(d) ==
    /\ d = [answers |-> d.answers, archive |-> d.archive, harness |-> d.harness]
    /\ d.answers = [q \in Question |-> d.answers[q]]
    /\ d.archive = [f \in Followup |-> d.archive[f]]
    /\ \A q \in Question : d.answers[q] \in AnswerOf(q)
    /\ \A f \in Followup : d.archive[f] \in Entry(f)
    /\ d.harness \in BOOLEAN

Settled(d) == \A f \in Followup : Derived(d.answers[f]) => Inactive(d, f)

\* Answer a with entry e, when w is the last word.
Faithful(a, e, w) ==
    /\ Derived(a) =>
          IF e.suppression
          THEN e.previous.value = w /\ ~Derived(e.previous) /\ e.previous # Absent
          ELSE w = "ABSENT"
    /\ ~Derived(a) => a.value = w
    /\ a = Absent => ~e.suppression

Honest(d, s) == \A f \in Followup : Faithful(d.answers[f], d.archive[f], s[f])

Good(d, s) == Typed(d) /\ Settled(d) /\ Honest(d, s)

\* Everything that is inactive is suppressed.
Applied(d) == \A f \in Followup : Inactive(d, f) => Derived(d.answers[f])

Controls == {"PKG-002", "PKG-005", "PKG-006", "AUT-001", "SEC-001"}

-----------------------------------------------------------------------------
\* No followup controls another one.
LEMMA FollowupApart == Followup \cap Controls = {} /\ Followup \subseteq Question
BY DEF Followup, Controls, Suppressible

\* An answer is never the absent one, and a followup may be NOT_APPLICABLE.
LEMMA AnswerPresent ==
    /\ \A q : \A a \in Answer(q) : a.value # "ABSENT" /\ a # Absent
    /\ \A f \in Followup : NotApplicable \in Answer(f)
<1>1. \A q : "ABSENT" \notin Choices(q)
  BY ConditionalsAssumption DEF Choices
<1>2. \A f \in Followup : "NOT_APPLICABLE" \in Choices(f)
  BY DEF Followup, Suppressible, Choices
<1> QED
  BY <1>1, <1>2 DEF Answer, Absent, NotApplicable

\* Absent and the script's answer are told apart.
LEMMA Marks == ~Derived(Absent) /\ Derived(NotApplicable) /\ NotApplicable # Absent
BY DEF Derived, Absent, NotApplicable

-----------------------------------------------------------------------------
(***************************************************************************)
(* apply_conditionals.                                                     *)
(***************************************************************************)

\* What it makes of one followup is typed.
LEMMA ConditionalTyped ==
    ASSUME NEW d, Typed(d), NEW f \in Followup
    PROVE  Conditional(d, f).answer \in AnswerOf(f) /\ Conditional(d, f).entry \in Entry(f)
<1>1. d.answers[f] \in AnswerOf(f) /\ d.archive[f] \in Entry(f)
  BY FollowupApart DEF Typed
<1>2. d.archive[f].previous \in AnswerOf(f)
  BY <1>1 DEF Entry, AnswerOf
<1>3. Suppressed(d, f).answer \in AnswerOf(f) /\ Suppressed(d, f).entry \in Entry(f)
  BY <1>1, AnswerPresent DEF Suppressed, Entry, AnswerOf
<1>4. Restored(d, f).answer \in AnswerOf(f) /\ Restored(d, f).entry \in Entry(f)
  BY <1>1, <1>2 DEF Restored, AnswerOf
<1> QED
  BY <1>3, <1>4 DEF Conditional

\* It is suppressed exactly when it is inactive, and the last word is kept.
LEMMA ConditionalFaithful ==
    ASSUME NEW d, NEW f, NEW w, Faithful(d.answers[f], d.archive[f], w)
    PROVE  /\ Faithful(Conditional(d, f).answer, Conditional(d, f).entry, w)
           /\ Derived(Conditional(d, f).answer) <=> Inactive(d, f)
<1> DEFINE a == d.answers[f]
           e == d.archive[f]
<1>1. Absent.value = "ABSENT"
  BY DEF Absent
<1>2. CASE Inactive(d, f)
  <2>1. CASE Derived(a)
    <3>1. Conditional(d, f) = [answer |-> a, entry |-> e]
      BY <1>2, <2>1 DEF Conditional, Suppressed
    <3>2. Conditional(d, f).answer = a /\ Conditional(d, f).entry = e
      BY <3>1
    <3> QED
      BY <1>2, <2>1, <3>2 DEF Faithful
  <2>2. CASE ~Derived(a) /\ a = Absent
    <3>1. Conditional(d, f) = [answer |-> NotApplicable, entry |-> e]
      BY <1>2, <2>2 DEF Conditional, Suppressed
    <3>2. Conditional(d, f).answer = NotApplicable /\ Conditional(d, f).entry = e
      BY <3>1
    <3> QED
      BY <1>2, <2>2, <3>2, <1>1, Marks DEF Faithful
  <2>3. CASE ~Derived(a) /\ a # Absent
    <3>1. Conditional(d, f) = [answer |-> NotApplicable, entry |-> [previous |-> a, suppression |-> TRUE]]
      BY <1>2, <2>3 DEF Conditional, Suppressed
    <3>2. Conditional(d, f).answer = NotApplicable /\ Conditional(d, f).entry = [previous |-> a, suppression |-> TRUE]
      BY <3>1
    <3> QED
      BY <1>2, <2>3, <3>2, Marks DEF Faithful
  <2> QED
    BY <2>1, <2>2, <2>3
<1>3. CASE ~Inactive(d, f)
  <2>1. CASE ~Derived(a)
    <3>1. Conditional(d, f) = [answer |-> a, entry |-> e]
      BY <1>3, <2>1 DEF Conditional, Restored
    <3>2. Conditional(d, f).answer = a /\ Conditional(d, f).entry = e
      BY <3>1
    <3> QED
      BY <1>3, <2>1, <3>2 DEF Faithful
  <2>2. CASE Derived(a) /\ e.suppression
    <3>1. Conditional(d, f) = [answer |-> e.previous, entry |-> e]
      BY <1>3, <2>2 DEF Conditional, Restored
    <3>2. Conditional(d, f).answer = e.previous /\ Conditional(d, f).entry = e
      BY <3>1
    <3> QED
      BY <1>3, <2>2, <3>2 DEF Faithful
  <2>3. CASE Derived(a) /\ ~e.suppression
    <3>1. Conditional(d, f) = [answer |-> Absent, entry |-> e]
      BY <1>3, <2>3 DEF Conditional, Restored
    <3>2. Conditional(d, f).answer = Absent /\ Conditional(d, f).entry = e
      BY <3>1
    <3> QED
      BY <1>3, <2>3, <3>2, <1>1, Marks DEF Faithful
  <2> QED
    BY <2>1, <2>2, <2>3
<1> QED
  BY <1>2, <1>3

\* Whether a followup is inactive is a matter of the controlling answers.
LEMMA SameCause ==
    ASSUME NEW d, NEW e, d.harness = e.harness,
           \A q \in {"PKG-002", "AUT-001", "SEC-001"} \cap Question : Value(e, q) = Value(d, q),
           NEW f \in Followup
    PROVE  Inactive(e, f) <=> Inactive(d, f)
<1>1. "PKG-002" \in Question /\ "AUT-001" \in Question
  BY ConditionalsAssumption DEF Profile
<1>2. f = "SEC-001-CATEGORIES" => "SEC-001" \in Question
  BY ConditionalsAssumption DEF Followup
<1>3. f \in {"XFR-SET", "AUT-004", "SEC-001-CATEGORIES", "HAR-001"}
  BY DEF Followup, Suppressible
<1> QED
  BY <1>1, <1>2, <1>3 DEF Inactive

\* apply_conditionals keeps the last words and the controlling answers, and
\* suppresses what is inactive and nothing else.
LEMMA ApplyGood ==
    ASSUME NEW d, NEW s, Typed(d), Honest(d, s)
    PROVE  /\ Good(Apply(d), s)
           /\ Applied(Apply(d))
           /\ \A q \in Question \cap Controls : Value(Apply(d), q) = Value(d, q)
           /\ Apply(d).harness = d.harness
<1> DEFINE x == Apply(d)
<1>1. /\ x = [answers |-> x.answers, archive |-> x.archive, harness |-> x.harness]
      /\ x.answers = [q \in Question |-> IF q \in Followup THEN Conditional(d, q).answer
                                         ELSE d.answers[q]]
      /\ x.archive = [f \in Followup |-> Conditional(d, f).entry]
      /\ x.harness = d.harness
  BY DEF Apply
<1> HIDE DEF x
<1>2. \A q \in Question \cap Controls : Value(x, q) = Value(d, q)
  BY <1>1, FollowupApart DEF Value
<1>3. \A f \in Followup : /\ x.answers[f] = Conditional(d, f).answer
                          /\ x.archive[f] = Conditional(d, f).entry
  BY <1>1, FollowupApart
<1>4. Typed(x)
  <2>1. \A q \in Question : x.answers[q] \in AnswerOf(q)
    <3> TAKE q \in Question
    <3>1. CASE q \in Followup
      BY <3>1, <1>3, ConditionalTyped
    <3>2. CASE q \notin Followup
      BY <3>2, <1>1 DEF Typed
    <3> QED
      BY <3>1, <3>2
  <2>2. \A f \in Followup : x.archive[f] \in Entry(f)
    BY <1>3, ConditionalTyped
  <2> QED
    BY <1>1, <2>1, <2>2 DEF Typed
<1>5. \A f \in Followup : Inactive(x, f) <=> Inactive(d, f)
  BY <1>1, <1>2, SameCause DEF Controls
<1>6. \A f \in Followup : /\ Faithful(x.answers[f], x.archive[f], s[f])
                          /\ Derived(x.answers[f]) <=> Inactive(d, f)
  BY <1>3, ConditionalFaithful DEF Honest
<1>7. Settled(x) /\ Applied(x) /\ Honest(x, s)
  BY <1>5, <1>6 DEF Settled, Applied, Honest
<1> QED
  BY <1>1, <1>2, <1>4, <1>7 DEF Good, x

-----------------------------------------------------------------------------
(***************************************************************************)
(* set_answer, set_harness_mode, build_question_plan.                      *)
(***************************************************************************)

\* The word t[f] is s[f] for all questions but q, of which v is said.
Said(s, t, q, v) == \A f \in Followup : t[f] = IF f = q THEN v ELSE s[f]

\* The script answers no followup.
May(q, by) == by \in {"script", "source"} /\ (q \in Followup => by = "source")

\* What set_answer owes before the conditionals are applied.
Stored(x, d, t, q, v) ==
    /\ Typed(x) /\ Honest(x, t)
    /\ \A p \in Question : Value(x, p) = IF p = q THEN v ELSE Value(d, p)
    /\ x.harness = d.harness
    /\ Settled(d) /\ q \notin {"PKG-002", "AUT-001", "SEC-001"} => Settled(x)

\* An answer that is stored is the last word on its question and on no other.
LEMMA StoreGood ==
    ASSUME NEW d, NEW s, NEW t, NEW q \in Question, NEW v \in Choices(q), NEW by,
           May(q, by), Typed(d), Honest(d, s), Said(s, t, q, v)
    PROVE  Stored(Store(d, q, v, by), d, t, q, v)
<1> DEFINE x == Store(d, q, v, by)
           b == [value |-> v, by |-> by, fresh |-> TRUE]
<1>1. /\ x = [answers |-> x.answers, archive |-> x.archive, harness |-> x.harness]
      /\ x.answers = [p \in Question |-> IF p = q THEN b ELSE d.answers[p]]
      /\ x.archive = [f \in Followup |->
                         IF f = q /\ d.answers[q] # Absent /\ d.answers[q].value # v
                         THEN [previous |-> d.answers[q], suppression |-> FALSE]
                         ELSE d.archive[f]]
      /\ x.harness = d.harness
  BY DEF Store, Typed
<1> HIDE DEF x
<1>2. b \in Answer(q) /\ b.value = v
  BY DEF Answer, May
<1>3. Typed(x)
  <2>1. \A p \in Question : x.answers[p] \in AnswerOf(p)
    BY <1>1, <1>2 DEF Typed, AnswerOf
  <2>2. \A f \in Followup : x.archive[f] \in Entry(f)
    <3>1. d.answers[q] \in Answer(q) \cup {Absent}
      BY DEF Typed, AnswerOf
    <3> QED
      BY <1>1, <3>1 DEF Typed, Entry
  <2> QED
    BY <1>1, <2>1, <2>2 DEF Typed
<1>4. \A p \in Question : Value(x, p) = IF p = q THEN v ELSE Value(d, p)
  BY <1>1, <1>2 DEF Value
<1>5. \A f \in Followup : f # q => /\ x.answers[f] = d.answers[f]
                                   /\ x.archive[f] = d.archive[f]
                                   /\ t[f] = s[f]
  BY <1>1, FollowupApart DEF Said
<1>6. q \in Followup => ~Derived(x.answers[q]) /\ x.answers[q] # Absent /\ t[q] = v
                        /\ x.answers[q].value = v
  <2>1. x.answers[q] = b /\ b # Absent
    BY <1>1, <1>2, AnswerPresent
  <2>2. q \in Followup => b.by = "source"
    BY DEF May
  <2>3. q \in Followup => ~Derived(b) /\ t[q] = v
    BY <2>2 DEF Derived, Said
  <2> QED
    BY <1>2, <2>1, <2>3
<1>7. Honest(x, t)
  <2> SUFFICES ASSUME NEW f \in Followup
               PROVE  Faithful(x.answers[f], x.archive[f], t[f])
    BY DEF Honest
  <2>1. CASE f # q
    BY <2>1, <1>5 DEF Honest
  <2>2. CASE f = q
    BY <2>2, <1>6 DEF Faithful
  <2> QED
    BY <2>1, <2>2
<1>8. Settled(d) /\ q \notin {"PKG-002", "AUT-001", "SEC-001"} => Settled(x)
  <2> SUFFICES ASSUME Settled(d), q \notin {"PKG-002", "AUT-001", "SEC-001"}, NEW f \in Followup,
                      Derived(x.answers[f])
               PROVE  Inactive(x, f)
    BY DEF Settled
  <2>1. Inactive(x, f) <=> Inactive(d, f)
    BY <1>1, <1>4, SameCause
  <2>2. f # q /\ Derived(d.answers[f])
    BY <1>5, <1>6
  <2> QED
    BY <2>1, <2>2 DEF Settled
<1> QED
  BY <1>1, <1>3, <1>4, <1>7, <1>8 DEF x, Stored

\* set_answer keeps a document good.
LEMMA SetAnswerGood ==
    ASSUME NEW d, NEW s, NEW t, NEW q \in Question, NEW v \in Choices(q),
           NEW by, May(q, by), Good(d, s), Said(s, t, q, v)
    PROVE  /\ Good(SetAnswer(d, q, v, by), t)
           /\ \A p \in Question \cap Controls :
                 Value(SetAnswer(d, q, v, by), p) = IF p = q THEN v ELSE Value(d, p)
           /\ SetAnswer(d, q, v, by).harness = d.harness
<1>1. Typed(d) /\ Settled(d) /\ Honest(d, s)
  BY DEF Good
<1> DEFINE x == Store(d, q, v, by)
<1>2. Stored(x, d, t, q, v)
  BY <1>1, StoreGood
<1> HIDE DEF x
<1>3. CASE q \in {"PKG-002", "AUT-001", "SEC-001"}
  <2>1. SetAnswer(d, q, v, by) = Apply(x)
    BY <1>3 DEF SetAnswer, x
  <2> QED
    BY <1>2, <2>1, ApplyGood DEF Stored
<1>4. CASE q \notin {"PKG-002", "AUT-001", "SEC-001"}
  <2>1. SetAnswer(d, q, v, by) = x
    BY <1>4 DEF SetAnswer, x
  <2> QED
    BY <1>1, <1>2, <1>4, <2>1 DEF Good, Stored
<1> QED
  BY <1>3, <1>4

\* What the plan insists on is then the answer, and nothing else is touched.
LEMMA InsistGood ==
    ASSUME NEW d, NEW s, NEW q \in {"AUT-001", "PKG-006"}, NEW v \in Choices(q), Good(d, s)
    PROVE  /\ Good(Insist(d, q, v), s)
           /\ \A p \in Question \cap Controls :
                 Value(Insist(d, q, v), p) = IF p = q THEN v ELSE Value(d, p)
<1>1. q \in Question /\ May(q, "script") /\ Said(s, s, q, v)
  BY ConditionalsAssumption, FollowupApart DEF Profile, Controls, Said, May
<1> QED
  BY <1>1, SetAnswerGood DEF Insist

\* The plan keeps the last words; in the profile it leaves the authority NONE,
\* no snapshot, and everything that is inactive suppressed.
LEMMA PlanGood ==
    ASSUME NEW d, NEW s, Good(d, s)
    PROVE  /\ Good(Plan(d), s)
           /\ Concept(Plan(d)) <=> Concept(d)
           /\ Concept(d) => /\ Value(Plan(d), "AUT-001") = "NONE"
                            /\ Value(Plan(d), "PKG-006") = "NOT_APPLICABLE"
                            /\ Applied(Plan(d))
<1>1. CASE ~Concept(d)
  BY <1>1 DEF Plan
<1>2. CASE Concept(d)
  <2> DEFINE x == Insist(d, "AUT-001", "NONE")
             y == Insist(x, "PKG-006", "NOT_APPLICABLE")
  <2>1. {"PKG-002", "PKG-005", "PKG-006", "AUT-001"} \subseteq Question \cap Controls
    BY ConditionalsAssumption DEF Profile, Controls
  <2>2. "NONE" \in Choices("AUT-001") /\ "NOT_APPLICABLE" \in Choices("PKG-006")
    BY DEF Choices
  <2>3. /\ Good(x, s)
        /\ \A p \in Question \cap Controls : Value(x, p) = IF p = "AUT-001" THEN "NONE" ELSE Value(d, p)
    BY <2>2, InsistGood
  <2> HIDE DEF x
  <2>4. /\ Good(y, s)
        /\ \A p \in Question \cap Controls :
              Value(y, p) = IF p = "PKG-006" THEN "NOT_APPLICABLE" ELSE Value(x, p)
    BY <2>2, <2>3, InsistGood
  <2> HIDE DEF y
  <2>5. /\ Good(Apply(y), s) /\ Applied(Apply(y))
        /\ \A q \in Question \cap Controls : Value(Apply(y), q) = Value(y, q)
    BY <2>4, ApplyGood DEF Good
  <2>6. Plan(d) = Apply(y)
    BY <1>2 DEF Plan, x, y
  <2> QED
    BY <1>2, <2>1, <2>3, <2>4, <2>5, <2>6 DEF Concept
<1> QED
  BY <1>1, <1>2

-----------------------------------------------------------------------------
(***************************************************************************)
(* save_answers, and a document that is loaded again.                      *)
(***************************************************************************)

\* Saving changes no value, no cause and no archived word.
LEMMA SavedGood ==
    ASSUME NEW d, NEW s, Good(d, s)
    PROVE  /\ Good(Saved(d), s)
           /\ Concept(Saved(d)) <=> Concept(d)
           /\ \A q \in Question : Value(Saved(d), q) = Value(d, q)
           /\ Applied(d) => Applied(Saved(d))
<1> DEFINE x == Saved(d)
<1>1. /\ x = [answers |-> x.answers, archive |-> x.archive, harness |-> x.harness]
      /\ x.answers = [q \in Question |-> Settle(d.answers[q])]
      /\ x.archive = [f \in Followup |-> [d.archive[f] EXCEPT !.previous = Settle(@)]]
      /\ x.harness = d.harness
  BY DEF Saved
<1> HIDE DEF x
<1>2. Typed(d) /\ Settled(d) /\ Honest(d, s)
  BY DEF Good
<1>3. ASSUME NEW q, NEW a \in AnswerOf(q)
      PROVE  /\ Settle(a) \in AnswerOf(q) /\ Settle(a).value = a.value
             /\ Derived(Settle(a)) <=> Derived(a)
             /\ Settle(a) = Absent <=> a = Absent
  <2>1. CASE a = Absent
    <3>1. Settle(Absent) = Absent
      BY DEF Settle, Absent
    <3> QED
      BY <2>1, <3>1 DEF AnswerOf
  <2>2. CASE a \in Answer(q)
    <3>1. Settle(a) \in Answer(q) /\ Settle(a).value = a.value /\ Settle(a).by = a.by
      BY <2>2 DEF Settle, Answer
    <3> QED
      BY <2>2, <3>1, AnswerPresent DEF AnswerOf, Derived
  <2> QED
    BY <1>3, <2>1, <2>2 DEF AnswerOf
<1>4. \A q \in Question : /\ x.answers[q] \in AnswerOf(q)
                          /\ Value(x, q) = Value(d, q)
                          /\ Derived(x.answers[q]) <=> Derived(d.answers[q])
                          /\ x.answers[q] = Absent <=> d.answers[q] = Absent
  <2> TAKE q \in Question
  <2>1. d.answers[q] \in AnswerOf(q) /\ x.answers[q] = Settle(d.answers[q])
    BY <1>1, <1>2 DEF Typed
  <2> QED
    BY <1>3, <2>1 DEF Value
<1>5. \A f \in Followup :
         /\ x.archive[f] \in Entry(f)
         /\ x.archive[f].suppression = d.archive[f].suppression
         /\ x.archive[f].previous.value = d.archive[f].previous.value
         /\ Derived(x.archive[f].previous) <=> Derived(d.archive[f].previous)
         /\ x.archive[f].previous = Absent <=> d.archive[f].previous = Absent
  <2> TAKE f \in Followup
  <2>1. d.archive[f] \in Entry(f) /\ d.archive[f].previous \in AnswerOf(f)
    BY <1>2 DEF Typed, Entry, AnswerOf
  <2>2. /\ x.archive[f].suppression = d.archive[f].suppression
        /\ x.archive[f].previous = Settle(d.archive[f].previous)
        /\ x.archive[f] = [previous |-> Settle(d.archive[f].previous),
                           suppression |-> d.archive[f].suppression]
    BY <1>1, <2>1 DEF Entry
  <2>3. /\ Settle(d.archive[f].previous) \in AnswerOf(f)
        /\ d.archive[f].suppression \in BOOLEAN
    BY <1>3, <2>1 DEF Entry
  <2>4. x.archive[f] \in Entry(f)
    BY <2>2, <2>3 DEF Entry, AnswerOf
  <2> QED
    BY <1>3, <2>1, <2>2, <2>4
<1>6. Typed(x)
  BY <1>1, <1>2, <1>4, <1>5 DEF Typed
<1>7. \A f \in Followup : Inactive(x, f) <=> Inactive(d, f)
  BY <1>1, <1>4, SameCause
<1>8. Settled(x) /\ (Applied(d) => Applied(x))
  BY <1>2, <1>4, <1>7, FollowupApart DEF Settled, Applied
<1>9. Honest(x, s)
  BY <1>2, <1>4, <1>5, FollowupApart DEF Honest, Faithful, Value
<1>10. Concept(x) <=> Concept(d)
  BY <1>4, ConditionalsAssumption DEF Concept, Profile
<1> QED
  BY <1>4, <1>6, <1>8, <1>9, <1>10 DEF x, Good

\* Where everything that is inactive is suppressed, and nothing else, the
\* conditionals change nothing.
LEMMA ApplyFixed ==
    ASSUME NEW d, Typed(d), Settled(d), Applied(d)
    PROVE  Apply(d) = d
<1>1. \A f \in Followup : /\ Conditional(d, f).answer = d.answers[f]
                          /\ Conditional(d, f).entry = d.archive[f]
  <2> TAKE f \in Followup
  <2>1. CASE Inactive(d, f)
    BY <2>1 DEF Applied, Conditional, Suppressed
  <2>2. CASE ~Inactive(d, f)
    BY <2>2 DEF Settled, Conditional, Restored
  <2> QED
    BY <2>1, <2>2
<1>2. /\ [q \in Question |-> IF q \in Followup THEN Conditional(d, q).answer ELSE d.answers[q]]
         = [q \in Question |-> d.answers[q]]
      /\ [f \in Followup |-> Conditional(d, f).entry] = [f \in Followup |-> d.archive[f]]
  BY <1>1
<1> QED
  BY <1>2 DEF Apply, Typed

\* A document that was loaded and saved is loaded as it is.
LEMMA LoadedAgain ==
    ASSUME NEW d, NEW s, Good(d, s)
    PROVE  Loaded(Saved(Loaded(d))) = Saved(Loaded(d))
<1> DEFINE p == Plan(d)
           x == Saved(p)
<1>1. /\ Good(p, s) /\ (Concept(p) <=> Concept(d))
      /\ Concept(d) => /\ Value(p, "AUT-001") = "NONE"
                       /\ Value(p, "PKG-006") = "NOT_APPLICABLE"
                       /\ Applied(p)
  BY PlanGood
<1> HIDE DEF p
<1>2. /\ Good(x, s) /\ (Concept(x) <=> Concept(p))
      /\ \A q \in Question : Value(x, q) = Value(p, q)
      /\ Applied(p) => Applied(x)
  BY <1>1, SavedGood
<1> HIDE DEF x
<1>3. Plan(x) = x
  <2>1. CASE ~Concept(x)
    BY <2>1 DEF Plan
  <2>2. CASE Concept(x)
    <3>1. Value(x, "AUT-001") = "NONE" /\ Value(x, "PKG-006") = "NOT_APPLICABLE" /\ Applied(x)
      BY <1>1, <1>2, <2>2, ConditionalsAssumption DEF Profile
    <3>2. Plan(x) = Apply(x)
      BY <2>2, <3>1 DEF Plan, Insist
    <3> QED
      BY <1>2, <3>1, <3>2, ApplyFixed DEF Good
  <2> QED
    BY <2>1, <2>2
<1> QED
  BY <1>3 DEF Loaded, p, x

-----------------------------------------------------------------------------
(***************************************************************************)
(* The specification.                                                      *)
(***************************************************************************)

SaidTyped ==
    /\ DOMAIN said = Followup
    /\ \A f \in Followup : said[f] \in Choices(f) \cup {"ABSENT"}

Inv == Good(doc, said) /\ SaidTyped

\* A new session: the seeds, after the plan.
LEMMA InitInv == Init => Inv
<1> SUFFICES ASSUME Init PROVE Inv
  OBVIOUS
<1> DEFINE from(v) == [value |-> v, by |-> "source", fresh |-> FALSE]
           seed(r, n, q) == CASE q = "PKG-002" -> from("DISCOVERY")
                              [] q = "PKG-005" -> from(r)
                              [] q = "PKG-006" -> from(n)
                              [] q = "AUT-001" -> from("NONE")
                              [] q = "SEC-001" -> Absent
                              [] q \in Followup -> NotApplicable
           seeded(r, n) == [q \in Question |-> seed(r, n, q)]
           new(r, n) == [answers |-> seeded(r, n), archive |-> [f \in Followup |-> NoEntry],
                         harness |-> FALSE]
<1>1. PICK r \in Choices("PKG-005"), n \in Choices("PKG-006") : doc = Saved(Plan(new(r, n)))
  BY DEF Init
<1>2. said = [f \in Followup |-> "ABSENT"]
  BY DEF Init
<1> DEFINE d == new(r, n)
<1>3. \A q \in Question : /\ d.answers[q] \in AnswerOf(q)
                          /\ q \in Followup => d.answers[q] = NotApplicable
                          /\ q = "PKG-002" => Value(d, q) = "DISCOVERY"
                          /\ q = "AUT-001" => Value(d, q) = "NONE"
                          /\ q = "SEC-001" => Value(d, q) = "ABSENT"
  <2> TAKE q \in Question
  <2>1. q \in Controls \/ q \in Followup
    BY ConditionalsAssumption DEF Controls, Followup, Profile
  <2>2. \A v \in Choices(q) : from(v) \in Answer(q) /\ from(v).value = v
    BY DEF Answer
  <2>3. /\ "DISCOVERY" \in Choices("PKG-002")
        /\ "NONE" \in Choices("AUT-001")
    BY DEF Choices
  <2>4. CASE q \in Followup
    <3>1. d.answers[q] = NotApplicable
      BY <2>4, FollowupApart DEF Controls
    <3> QED
      BY <2>4, <3>1, FollowupApart, AnswerPresent DEF AnswerOf, Controls
  <2>5. CASE q = "PKG-002"
    <3>1. d.answers[q] = from("DISCOVERY") /\ q \notin Followup
      BY <2>5, FollowupApart DEF Controls
    <3> QED
      BY <2>2, <2>3, <2>5, <3>1 DEF AnswerOf, Value
  <2>6. CASE q = "PKG-005"
    <3>1. d.answers[q] = from(r) /\ q \notin Followup
      BY <2>6, FollowupApart DEF Controls
    <3> QED
      BY <2>2, <2>6, <3>1 DEF AnswerOf
  <2>7. CASE q = "PKG-006"
    <3>1. d.answers[q] = from(n) /\ q \notin Followup
      BY <2>7, FollowupApart DEF Controls
    <3> QED
      BY <2>2, <2>7, <3>1 DEF AnswerOf
  <2>8. CASE q = "AUT-001"
    <3>1. d.answers[q] = from("NONE") /\ q \notin Followup
      BY <2>8, FollowupApart DEF Controls
    <3> QED
      BY <2>2, <2>3, <2>8, <3>1 DEF AnswerOf, Value
  <2>9. CASE q = "SEC-001"
    <3>1. d.answers[q] = Absent /\ q \notin Followup
      BY <2>9, FollowupApart DEF Controls
    <3> QED
      BY <2>9, <3>1 DEF AnswerOf, Value, Absent
  <2> QED
    BY <2>1, <2>4, <2>5, <2>6, <2>7, <2>8, <2>9 DEF Controls
<1>4. /\ d = [answers |-> d.answers, archive |-> d.archive, harness |-> d.harness]
      /\ d.answers = [q \in Question |-> d.answers[q]]
      /\ d.archive = [f \in Followup |-> d.archive[f]]
      /\ d.harness = FALSE
      /\ \A f \in Followup : d.archive[f] = NoEntry
  <2>1. seeded(r, n) = [q \in Question |-> seeded(r, n)[q]]
    <3> HIDE DEF seed
    <3> QED
      OBVIOUS
  <2> HIDE DEF seeded
  <2> QED
    BY <2>1
<1> HIDE DEF d
<1>5. \A f \in Followup : Inactive(d, f)
  <2> TAKE f \in Followup
  <2>1. /\ "PKG-002" \in Question /\ "AUT-001" \in Question
        /\ f = "SEC-001-CATEGORIES" => "SEC-001" \in Question
        /\ f \in Suppressible
    BY ConditionalsAssumption DEF Followup, Profile
  <2> QED
    BY <1>3, <1>4, <2>1 DEF Inactive, Suppressible
<1>6. Typed(d)
  <2>1. NoEntry.suppression = FALSE /\ \A f \in Followup : NoEntry \in Entry(f)
    BY DEF NoEntry, Entry
  <2> QED
    BY <1>3, <1>4, <2>1 DEF Typed
<1>7. Settled(d) /\ Honest(d, said)
  <2>1. \A f \in Followup : /\ d.answers[f] = NotApplicable
                            /\ ~d.archive[f].suppression /\ said[f] = "ABSENT"
    BY <1>2, <1>3, <1>4, FollowupApart DEF NoEntry
  <2> QED
    BY <1>5, <2>1, Marks DEF Settled, Honest, Faithful
<1>8. Good(Plan(d), said)
  BY <1>6, <1>7, PlanGood DEF Good
<1>9. Good(doc, said)
  BY <1>1, <1>8, SavedGood DEF d
<1> QED
  BY <1>2, <1>9 DEF Inv, SaidTyped

\* What a person says becomes the last word.
LEMMA SayTyped ==
    ASSUME Inv, NEW q \in Question, NEW v \in Choices(q), Say(q, v)
    PROVE  SaidTyped' /\ Said(said, said', q, v)
BY DEF Inv, Say, SaidTyped, Said

\* Every operation keeps the invariant.
LEMMA NextInv == Inv /\ [Next]_vars => Inv'
<1> SUFFICES ASSUME Inv, [Next]_vars PROVE Inv'
  OBVIOUS
<1>1. Good(doc, said) /\ SaidTyped
  BY DEF Inv
<1>2. ASSUME NEW q \in Question, NEW v \in Choices(q), ProvideAnswer(q, v)
      PROVE  Inv'
  <2> DEFINE x == SetAnswer(Plan(doc), q, v, "source")
  <2>1. SaidTyped' /\ Said(said, said', q, v)
    BY <1>2, SayTyped DEF ProvideAnswer
  <2>2. Good(Plan(doc), said)
    BY <1>1, PlanGood
  <2>3. May(q, "source")
    BY DEF May
  <2>4. Good(x, said')
    BY <2>1, <2>2, <2>3, SetAnswerGood
  <2> HIDE DEF x
  <2>5. Good(Saved(Plan(x)), said')
    BY <2>4, PlanGood, SavedGood
  <2> QED
    BY <1>2, <2>1, <2>5 DEF Inv, ProvideAnswer, Loaded, x
<1>3. CASE Refresh
  <2>1. Good(Saved(Plan(Plan(doc))), said)
    BY <1>1, PlanGood, SavedGood
  <2> QED
    BY <1>1, <1>3, <2>1 DEF Inv, Refresh, Loaded, SaidTyped
<1>4. ASSUME NEW q \in Question, NEW v \in Choices(q), Interactive(q, v)
      PROVE  Inv'
  <2>1. SaidTyped' /\ Said(said, said', q, v)
    BY <1>4, SayTyped DEF Interactive
  <2>2. May(q, "source")
    BY DEF May
  <2>3. Good(SetAnswer(doc, q, v, "source"), said')
    BY <1>1, <2>1, <2>2, SetAnswerGood
  <2>4. Good(Saved(SetAnswer(doc, q, v, "source")), said')
    BY <2>3, SavedGood
  <2> QED
    BY <1>4, <2>1, <2>4 DEF Inv, Interactive
<1>5. ASSUME NEW enabled \in BOOLEAN, SetHarnessMode(enabled)
      PROVE  Inv'
  <2> DEFINE x == [doc EXCEPT !.harness = enabled]
  <2>1. Typed(doc) /\ Honest(doc, said)
    BY <1>1 DEF Good
  <2>2. /\ x = [answers |-> doc.answers, archive |-> doc.archive, harness |-> enabled]
        /\ x.answers = doc.answers /\ x.archive = doc.archive /\ x.harness = enabled
    BY <2>1 DEF Typed
  <2>3. Typed(x) /\ Honest(x, said)
    BY <2>1, <2>2 DEF Typed, Honest
  <2> HIDE DEF x
  <2>4. Good(Saved(Apply(x)), said)
    BY <2>3, ApplyGood, SavedGood
  <2> QED
    BY <1>1, <1>5, <2>4 DEF Inv, SetHarnessMode, SetHarness, SaidTyped, x
<1>6. CASE UNCHANGED vars
  BY <1>1, <1>6 DEF Inv, vars, SaidTyped
<1> QED
  BY <1>2, <1>3, <1>4, <1>5, <1>6 DEF Next

\* The invariant holds throughout.
LEMMA Invariance == Spec => []Inv
BY InitInv, NextInv, PTL DEF Spec

\* The invariant types the state.
LEMMA InvTyped == Inv => TypeOK
<1> SUFFICES ASSUME Inv PROVE TypeOK
  OBVIOUS
<1>1. Typed(doc) /\ SaidTyped
  BY DEF Inv, Good
<1>2. /\ DOMAIN doc = {"answers", "archive", "harness"}
      /\ DOMAIN doc.answers = Question /\ DOMAIN doc.archive = Followup
  BY <1>1 DEF Typed
<1> QED
  BY <1>1, <1>2 DEF Typed, SaidTyped, TypeOK, AnswerOf

\* Every reachable document is well typed: what the conditionals archive and
\* restore are answers to that question.
THEOREM TypeCorrect == Spec => []TypeOK
BY InvTyped, Invariance, PTL

\* What was said last to a question stands, and comes back after any number of
\* suppressions.
THEOREM LastWordKept == Spec => []LatestWordStands
<1>1. Inv => LatestWordStands
  BY DEF Inv, Good, Settled, Honest, Faithful, LatestWordStands
<1> QED
  BY <1>1, Invariance, PTL

\* A document that was loaded and saved is loaded as it is, timestamps included.
THEOREM LoadingSettles == Spec => []LoadSettled
<1>1. Inv => LoadSettled
  BY LoadedAgain DEF Inv, LoadSettled
<1> QED
  BY <1>1, Invariance, PTL

\* In the discovery profile no authority is shown, reviewed or sealed.
THEOREM ProfileGrantsNothing == Spec => []DiscoveryGrantsNothing
<1>1. Inv => DiscoveryGrantsNothing
  <2> SUFFICES ASSUME Good(doc, said), Concept(Plan(doc))
               PROVE  /\ Value(Plan(doc), "AUT-001") = "NONE"
                      /\ \A f \in Followup \cap {"AUT-004"} : Derived(Plan(doc).answers[f])
    BY DEF Inv, DiscoveryGrantsNothing, Loaded
  <2>1. Value(Plan(doc), "AUT-001") = "NONE" /\ Applied(Plan(doc))
    BY PlanGood
  <2> QED
    BY <2>1 DEF Applied, Inactive
<1> QED
  BY <1>1, Invariance, PTL

-----------------------------------------------------------------------------
(***************************************************************************)
(* What a question is skipped for.                                         *)
(***************************************************************************)

\* "apply_conditionals will keep forcing it back" is true of what it suppresses:
\* none of the questions it follows is skipped without a cause that holds in
\* the document that is shown.
THEOREM SuppressedForCause ==
    Spec => [](\A f \in Followup : Derived(Loaded(doc).answers[f]) => Inactive(Loaded(doc), f))
<1>1. Inv => Settled(Loaded(doc))
  BY PlanGood DEF Inv, Good, Loaded
<1>2. Inv => \A f \in Followup : Derived(Loaded(doc).answers[f]) => Inactive(Loaded(doc), f)
  BY <1>1 DEF Settled
<1> QED
  BY <1>2, Invariance, PTL

\* The snapshot question is skipped though there is a repository to take it of.
Orphaned(d) == Derived(d.answers["PKG-006"]) /\ Value(d, "PKG-005") # "NOT_CREATED"

\* With a repository the plan has nothing to say.
LEMMA PlanIdle ==
    ASSUME NEW d, Value(d, "PKG-005") # "NOT_CREATED"
    PROVE  Plan(d) = d
  BY DEF Plan, Concept

\* The plan never changes which repository there is.
LEMMA PlanKeepsRepository ==
    ASSUME NEW d, NEW s, Good(d, s), Value(Plan(d), "PKG-005") # "NOT_CREATED"
    PROVE  Plan(d) = d
<1>1. CASE Concept(d)
  BY <1>1, PlanGood DEF Concept
<1>2. CASE ~Concept(d)
  BY <1>2 DEF Plan
<1> QED
  BY <1>1, <1>2

\* The conditionals and an answer of the owner to another question leave the
\* snapshot's answer alone, and the owner's own is not the script's.
LEMMA SnapshotAnswers ==
    /\ \A d : Apply(d).answers["PKG-006"] = d.answers["PKG-006"]
    /\ \A d : Derived(Saved(d).answers["PKG-006"]) <=> Derived(d.answers["PKG-006"])
    /\ \A d : \A q \in Question : \A v :
          Typed(d) /\ Derived(SetAnswer(d, q, v, "source").answers["PKG-006"])
              => Derived(d.answers["PKG-006"])
<1>1. "PKG-006" \in Question \ Followup
  BY ConditionalsAssumption, FollowupApart DEF Profile, Controls
<1>2. \A d : Apply(d).answers["PKG-006"] = d.answers["PKG-006"]
  BY <1>1 DEF Apply
<1>3. \A d : Derived(Saved(d).answers["PKG-006"]) <=> Derived(d.answers["PKG-006"])
  BY <1>1 DEF Saved, Settle, Derived
<1>4. ASSUME NEW d, NEW q \in Question, NEW v, Typed(d),
             Derived(SetAnswer(d, q, v, "source").answers["PKG-006"])
      PROVE  Derived(d.answers["PKG-006"])
  <2>1. Derived(Store(d, q, v, "source").answers["PKG-006"])
    BY <1>2, <1>4 DEF SetAnswer
  <2>2. Store(d, q, v, "source").answers["PKG-006"]
           = IF q = "PKG-006" THEN [value |-> v, by |-> "source", fresh |-> TRUE]
             ELSE d.answers["PKG-006"]
    BY <1>1, <1>4 DEF Store, Typed
  <2> QED
    BY <2>1, <2>2 DEF Derived
<1> QED
  BY <1>2, <1>3, <1>4

\* What the finding comes from: the snapshot question is skipped without a cause
\* only after a step that changed the answer about the repository; while that
\* answer stands, no answer, load, harness switch or save does it.
THEOREM OnlyRepositoryOrphans ==
    Spec => [][/\ SkippedHasCause
               /\ Value(doc', "PKG-005") = Value(doc, "PKG-005")
               => SkippedHasCause']_vars
<1>1. Inv => (SkippedHasCause <=> ~Orphaned(doc))
  <2> SUFFICES ASSUME Inv PROVE SkippedHasCause <=> ~Orphaned(doc)
    OBVIOUS
  <2>1. Good(doc, said) /\ Settled(Plan(doc))
    BY PlanGood DEF Inv, Good
  <2>2. Orphaned(Plan(doc)) <=> Orphaned(doc)
    BY <2>1, PlanIdle, PlanKeepsRepository DEF Orphaned
  <2> QED
    BY <2>1, <2>2 DEF SkippedHasCause, Loaded, Settled, Orphaned
<1>2. ASSUME Inv, Inv', [Next]_vars, ~Orphaned(doc), Orphaned(doc'),
             Value(doc', "PKG-005") = Value(doc, "PKG-005")
      PROVE  FALSE
  <2>1. Good(doc, said) /\ Typed(doc) /\ Value(doc, "PKG-005") # "NOT_CREATED"
    BY <1>2 DEF Inv, Good, Orphaned
  <2>2. Plan(doc) = doc
    BY <2>1, PlanIdle
  <2>3. ASSUME NEW d, NEW s, Good(d, s), doc' = Saved(Plan(d)),
               Derived(d.answers["PKG-006"]) => Derived(doc.answers["PKG-006"])
        PROVE  FALSE
    <3>1. Good(Plan(d), s) /\ "PKG-005" \in Question
      BY <2>3, PlanGood, ConditionalsAssumption DEF Profile
    <3>2. Value(Plan(d), "PKG-005") = Value(doc', "PKG-005")
      BY <2>3, <3>1, SavedGood
    <3>3. Plan(d) = d
      BY <1>2, <2>3, <3>2, PlanKeepsRepository DEF Orphaned
    <3> QED
      BY <1>2, <2>1, <2>3, <3>3, SnapshotAnswers DEF Orphaned
  <2>4. ASSUME NEW q \in Question, NEW v \in Choices(q), ProvideAnswer(q, v) PROVE FALSE
    <3>1. Said(said, said', q, v) /\ May(q, "source")
      BY <1>2, <2>4, SayTyped DEF ProvideAnswer, May
    <3>2. Good(SetAnswer(doc, q, v, "source"), said')
      BY <2>1, <3>1, SetAnswerGood
    <3> QED
      BY <2>1, <2>2, <2>3, <2>4, <3>2, SnapshotAnswers DEF ProvideAnswer, Loaded
  <2>5. CASE Refresh
    BY <2>1, <2>2, <2>3, <2>5 DEF Refresh, Loaded
  <2>6. ASSUME NEW q \in Question, NEW v \in Choices(q), Interactive(q, v) PROVE FALSE
    BY <1>2, <2>1, <2>6, SnapshotAnswers DEF Interactive, Orphaned
  <2>7. ASSUME NEW enabled \in BOOLEAN, SetHarnessMode(enabled) PROVE FALSE
    <3>1. Derived([doc EXCEPT !.harness = enabled].answers["PKG-006"])
      BY <1>2, <2>7, SnapshotAnswers DEF SetHarnessMode, SetHarness, Orphaned
    <3>2. [doc EXCEPT !.harness = enabled].answers = doc.answers
      BY <2>1 DEF Typed
    <3> QED
      BY <1>2, <2>1, <3>1, <3>2 DEF Orphaned
  <2>8. CASE UNCHANGED vars
    BY <1>2, <2>8 DEF vars
  <2> QED
    BY <1>2, <2>4, <2>5, <2>6, <2>7, <2>8 DEF Next
<1>3. Inv' => (SkippedHasCause' <=> ~Orphaned(doc)')
  BY <1>1, PTL
<1>4. Inv /\ Inv' /\ [Next]_vars =>
         (/\ SkippedHasCause
          /\ Value(doc', "PKG-005") = Value(doc, "PKG-005")
          => SkippedHasCause')
  BY <1>1, <1>2, <1>3
<1>5. Inv /\ Inv' /\ [Next]_vars =>
         [/\ SkippedHasCause
          /\ Value(doc', "PKG-005") = Value(doc, "PKG-005")
          => SkippedHasCause']_vars
  BY <1>4
<1> QED
  BY <1>5, Invariance, PTL DEF Spec

-----------------------------------------------------------------------------
(***************************************************************************)
(* Projection.                                                             *)
(***************************************************************************)

\* What a projection has reached, and what the session serves meanwhile.
Drawn ==
    /\ At("cleared") => html.form = "absent" /\ html.saved = projection.authority
    /\ At("delivered") => html.form # "absent" /\ html.shows = projection.authority
    /\ At("checking") => html.form = "decorated" /\ html.shows = projection.authority

ProjectionInv == Inv /\ ProjectionTypeOK /\ Drawn /\ ShownAsSaved /\ ReadyIsServed

\* What a document tells of its authority.
LEMMA SourceTyped ==
    ASSUME NEW d, Typed(d)
    PROVE  Source(d) \in Authority \cup {Unknown}
<1>1. d.answers["AUT-001"] \in Answer("AUT-001") \cup {Absent}
  BY ConditionalsAssumption DEF Typed, AnswerOf, Profile
<1>2. CASE d.answers["AUT-001"] = Absent
  BY <1>2 DEF Source, Value, Absent, Unknown
<1>3. CASE d.answers["AUT-001"] \in Answer("AUT-001")
  BY <1>3 DEF Source, Value, Answer, Authority
<1> QED
  BY <1>1, <1>2, <1>3

\* A projection leaves the answers alone, and every other step is one of
\* Conditionals.
LEMMA ProjectionSteps == [ProjectionNext]_projectionVars => [Next]_vars
BY DEF ProjectionNext, projectionVars, Project, LoadSession, BuildProjection, Deliver, Decorate,
       AnswerReady, FailProjection, Web, CommandLine, Next

LEMMA ProjectionInitial == ProjectionInit => ProjectionInv
<1> SUFFICES ASSUME ProjectionInit PROVE ProjectionInv
  OBVIOUS
<1>1. Inv /\ TypeOK
  BY InitInv, InvTyped DEF ProjectionInit
<1> QED
  BY <1>1 DEF ProjectionInit, ProjectionInv, ProjectionTypeOK, Drawn, ShownAsSaved, ReadyIsServed,
              At, Idle, NoHtml

\* Every step of a projection, and every one beside it, keeps the invariant.
LEMMA ProjectionNextInv == ProjectionInv /\ [ProjectionNext]_projectionVars => ProjectionInv'
<1> SUFFICES ASSUME ProjectionInv, [ProjectionNext]_projectionVars PROVE ProjectionInv'
  OBVIOUS
<1> DEFINE A == Authority \cup {Unknown}
           Own == ProjectionTypeOK' /\ Drawn' /\ ShownAsSaved' /\ ReadyIsServed'
<1>1. Inv' /\ TypeOK'
  <2>1. Inv'
    BY NextInv, ProjectionSteps DEF ProjectionInv
  <2> QED
    BY <2>1, InvTyped, PTL
<1>2. Source(doc) \in A /\ Source(Loaded(doc)) \in A
  <2>1. Good(doc, said) /\ Good(Plan(doc), said)
    BY PlanGood DEF ProjectionInv, Inv
  <2> QED
    BY <2>1, SourceTyped DEF Good, Loaded
<1>3. /\ projection \in [at : {"idle", "loaded", "cleared", "delivered", "checking"},
                         authority : A, ready : BOOLEAN]
      /\ html \in [form : {"absent", "cut off", "plain", "decorated"}, shows : A, saved : A]
      /\ Drawn /\ ShownAsSaved /\ ReadyIsServed
  BY DEF ProjectionInv, ProjectionTypeOK
<1>4. Unknown \in A
  OBVIOUS
<1> HIDE DEF A
<1> USE DEF At, Drawn, ShownAsSaved, ReadyIsServed
<1>5. ASSUME LoadSession PROVE Own
  BY <1>1, <1>2, <1>3, <1>5 DEF LoadSession, ProjectionTypeOK, A
<1>6. ASSUME BuildProjection PROVE Own
  BY <1>1, <1>2, <1>3, <1>4, <1>6 DEF BuildProjection, ProjectionTypeOK, A, NoHtml
<1>7. ASSUME Deliver PROVE Own
  <2>1. \E form \in {"absent", "cut off", "plain"} : Render(form)
    BY <1>7 DEF Deliver
  <2>2. PICK form \in {"absent", "cut off", "plain"} : Render(form)
    BY <2>1
  <2>3. /\ html' \in [form : {"absent", "cut off", "plain", "decorated"}, shows : A, saved : A]
        /\ html'.form # "absent" => /\ html'.shows = projection.authority
                                    /\ html'.saved = projection.authority
    BY <1>3, <1>7, <2>2 DEF Render, Deliver
  <2>4. CASE projection' = [projection EXCEPT !.at = "delivered"] /\ html'.form # "absent"
    BY <1>1, <1>3, <2>3, <2>4 DEF ProjectionTypeOK, A
  <2>5. CASE GiveUp
    BY <1>1, <1>3, <1>4, <2>3, <2>5 DEF GiveUp, Idle, ProjectionTypeOK, A
  <2> QED
    BY <1>7, <2>4, <2>5 DEF Deliver
<1>8. ASSUME Decorate PROVE Own
  BY <1>1, <1>3, <1>8 DEF Decorate, ProjectionTypeOK, A
<1>9. ASSUME AnswerReady PROVE Own
  BY <1>1, <1>3, <1>9 DEF AnswerReady, ProjectionTypeOK, A
<1>10. ASSUME FailProjection PROVE Own
  BY <1>1, <1>3, <1>4, <1>10 DEF FailProjection, GiveUp, Idle, ProjectionTypeOK, A
<1>11. ASSUME UNCHANGED projecting PROVE Own
  BY <1>1, <1>3, <1>11 DEF projecting, ProjectionTypeOK, A
<1>12. Own
  BY <1>5, <1>6, <1>7, <1>8, <1>9, <1>10, <1>11
     DEF ProjectionNext, projectionVars, Project, Web, CommandLine
<1> QED
  BY <1>1, <1>12 DEF ProjectionInv

LEMMA ProjectionInvariance == ProjectionSpec => []ProjectionInv
BY ProjectionInitial, ProjectionNextInv, PTL DEF ProjectionSpec

\* The answers of a session that is projected behave as Conditionals says, so
\* that its theorems hold of them.
THEOREM ProjectionAnswers == ProjectionSpec => Spec
<1>1. ProjectionInit => Init
  BY DEF ProjectionInit
<1> QED
  BY <1>1, ProjectionSteps, PTL DEF ProjectionSpec, Spec

\* No map shows an authority that was not in answers.json when it was built.
THEOREM MapTellsTheFile == ProjectionSpec => []ShownAsSaved
BY ProjectionInvariance, PTL DEF ProjectionInv

\* A projection that was answered ready is the map that is served.
THEOREM ReadyMapServed == ProjectionSpec => []ReadyIsServed
BY ProjectionInvariance, PTL DEF ProjectionInv

=============================================================================
