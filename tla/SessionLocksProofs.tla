------------------------- MODULE SessionLocksProofs -------------------------
(***************************************************************************)
(* Proofs about SessionLocks, for any number of threads, sessions and      *)
(* requests.  That a lock made on demand orders all requests of a session  *)
(* rests on their agreeing on it: whoever has a reference found it in the  *)
(* registry or put it there, and the entry stays while the reference does. *)
(***************************************************************************)
EXTENDS IntakeCreation, TLAPS

Holding == At \ {"idle", "entering", "looking", "creating"}
Written == {"saved", "writing", "replying"}

RequestOk(t) ==
    /\ req[t].at \in {"looking", "creating"} => guard = t
    /\ req[t].at = "creating" => locks[req[t].session] = NoLock
    /\ req[t].at \in Holding =>
          req[t].lock # NoLock /\ req[t].lock = locks[req[t].session]
    /\ req[t].at \notin Holding => req[t].lock = NoLock
    /\ Inside(t) => owner[req[t].lock] = t
    /\ req[t].at # "idle" => req[t].edit \in Edit

OneLockEach ==
    \A s, r \in Session : locks[s] # NoLock /\ locks[s] = locks[r] => s = r

LockInv ==
    /\ TypeOK
    /\ \A t \in Thread : RequestOk(t)
    /\ OneLockEach
    /\ RegistryActive

\* What the requests of a session know of its answers.json while they have its
\* lock, and what they told of it.
DataOk(s) ==
    /\ acked[s] \subseteq answers[s]
    /\ \A t \in Thread : req[t].session = s =>
          /\ req[t].at = "serving" => req[t].copy = answers[s]
          /\ req[t].at \in Written => req[t].edit \in answers[s]

Inv == LockInv /\ \A s \in Session : DataOk(s)

-----------------------------------------------------------------------------
\* An idle thread is well typed.
LEMMA Idle == NoRequest \in Request
<1>1. SomeSession \in Session
  BY LocksAssumption DEF SomeSession
<1>2. QED
  BY <1>1, LocksAssumption DEF NoRequest, Request, At, Edit

\* Two threads inside the lock of one session are one thread.
LEMMA Excluded == LockInv => OneInside
<1> SUFFICES ASSUME LockInv, NEW t \in Thread, NEW u \in Thread, Inside(t), Inside(u),
                    req[t].session = req[u].session
             PROVE  t = u
  BY DEF OneInside
<1>1. req[t].lock = locks[req[t].session] /\ req[u].lock = locks[req[u].session]
  BY DEF LockInv, RequestOk, Inside, Holding, At
<1>2. owner[req[t].lock] = t /\ owner[req[u].lock] = u
  BY DEF LockInv, RequestOk
<1>3. QED
  BY <1>1, <1>2

\* The initial states satisfy the invariant.
LEMMA InitInv == Init => LockInv
<1> SUFFICES ASSUME Init PROVE LockInv
  OBVIOUS
<1>1. \A t \in Thread : req[t].at = "idle" /\ req[t].lock = NoLock
  BY DEF Init, NoRequest
<1>2. TypeOK
  BY Idle, LocksAssumption DEF Init, TypeOK
<1>3. \A t \in Thread : RequestOk(t)
  BY <1>1 DEF RequestOk, Holding, Inside, Written
<1>4. OneLockEach /\ RegistryActive
  BY DEF Init, OneLockEach, RegistryActive
<1>5. QED
  BY <1>2, <1>3, <1>4 DEF LockInv

-----------------------------------------------------------------------------
(***************************************************************************)
(* Steps that leave the locks, the guard and the owners alone.             *)
(***************************************************************************)

\* A move changes the place of a thread and nothing else.
LEMMA Went ==
    ASSUME TypeOK, NEW t \in Thread, NEW here, NEW there \in At, Go(t, here, there)
    PROVE  /\ req' \in [Thread -> Request]
           /\ req'[t] = [req[t] EXCEPT !.at = there]
           /\ req[t].at = here
           /\ \A u \in Thread \ {t} : req'[u] = req[u]
BY DEF TypeOK, Go, Request

\* A request that goes on under its lock keeps it, and so do all others.
LEMMA StaysInside ==
    ASSUME LockInv, NEW t \in Thread, Inside(t), req' \in [Thread -> Request],
           \A u \in Thread \ {t} : req'[u] = req[u],
           req'[t].at \in Holding \ {"waiting"},
           req'[t].session = req[t].session, req'[t].edit = req[t].edit,
           req'[t].lock = req[t].lock,
           UNCHANGED <<locks, guard, owner, requests>>,
           answers' \in [Session -> SUBSET Edit],
           summary' \in [Session -> {"whole", "torn"}],
           acked' \in [Session -> SUBSET Edit]
    PROVE  LockInv'
<1>1. TypeOK'
  BY DEF LockInv, TypeOK
<1>2. ASSUME NEW u \in Thread, u # t PROVE RequestOk(u)'
  BY <1>2 DEF LockInv, RequestOk, Inside
<1>3. RequestOk(t)'
  <2>1. RequestOk(t) /\ req[t].at \in Holding
    BY DEF LockInv, Inside, Holding, At
  <2>2. req'[t].at \notin {"idle", "entering", "looking", "creating", "waiting"} /\ Inside(t)'
    BY DEF Holding, Inside, At
  <2>3. QED
    BY <2>1, <2>2 DEF RequestOk, Holding, Inside
<1>4. OneLockEach'
  BY DEF LockInv, OneLockEach
<1>5. RegistryActive'
  <2> SUFFICES ASSUME NEW s \in Session, locks[s] # NoLock
               PROVE  \E u \in Thread : req'[u].lock = locks[s] /\ req'[u].session = s
    BY DEF RegistryActive
  <2>1. PICK u \in Thread : req[u].lock = locks[s] /\ req[u].session = s
    BY DEF LockInv, RegistryActive
  <2>2. QED
    BY <2>1
<1>6. QED
  BY <1>1, <1>2, <1>3, <1>4, <1>5 DEF LockInv

\* Going from one place under the lock to another is of that kind.
LEMMA MovesOn ==
    ASSUME LockInv, NEW t \in Thread, Inside(t),
           NEW there \in {"saved", "writing", "replying", "closing"},
           Go(t, req[t].at, there),
           UNCHANGED <<locks, guard, owner, requests>>,
           answers' \in [Session -> SUBSET Edit],
           summary' \in [Session -> {"whole", "torn"}],
           acked' \in [Session -> SUBSET Edit]
    PROVE  LockInv'
<1>1. there \in At /\ there \in Holding \ {"waiting"}
  BY DEF At, Holding
<1>2. /\ req' \in [Thread -> Request]
      /\ req'[t] = [req[t] EXCEPT !.at = there]
      /\ \A u \in Thread \ {t} : req'[u] = req[u]
  BY <1>1, Went DEF LockInv
<1>3. /\ req'[t].at = there
      /\ req'[t].session = req[t].session
      /\ req'[t].edit = req[t].edit
      /\ req'[t].lock = req[t].lock
  BY <1>2 DEF LockInv, TypeOK, Request
<1>4. QED
  BY <1>1, <1>2, <1>3, StaysInside

\* Every step of a request inside its lock is of that kind.
LEMMA ServeInv ==
    ASSUME LockInv, NEW t \in Thread,
           \/ Load(t) \/ Read(t) \/ SaveAnswers(t) \/ OpenSummary(t)
           \/ WriteSummary(t) \/ Reply(t) \/ Fail(t)
    PROVE  LockInv'
<1> USE DEF LockInv
<1>1. RequestOk(t) /\ req[t] \in Request /\ req[t].session \in Session
  BY DEF TypeOK, Request
<1>2. CASE Load(t)
  <2>1. /\ req'[t] = [req[t] EXCEPT !.copy = answers[req[t].session],
                          !.at = IF summary[req[t].session] = "whole"
                                 THEN "serving" ELSE "closing"]
        /\ \A u \in Thread \ {t} : req'[u] = req[u]
        /\ req' \in [Thread -> Request]
    BY <1>1, <1>2 DEF Load, TypeOK, Request, At
  <2>2. Inside(t) /\ UNCHANGED files
    BY <1>2 DEF Load, Inside
  <2>3. req'[t].at \in {"serving", "closing"} /\ req'[t].session = req[t].session
    BY <1>1, <2>1 DEF Request
  <2>4. req'[t].lock = req[t].lock /\ req'[t].edit = req[t].edit
    BY <1>1, <2>1 DEF Request
  <2>5. req'[t].at \in Holding \ {"waiting"}
    BY <2>3 DEF Holding, At
  <2>6. QED
    BY <1>2, <2>1, <2>2, <2>3, <2>4, <2>5, StaysInside DEF Load, files, TypeOK
<1>3. CASE Read(t) \/ Fail(t)
  <2>1. Inside(t) /\ UNCHANGED files /\ UNCHANGED <<locks, guard, owner, requests>>
    BY <1>3 DEF Read, Fail, Go, Inside
  <2>2. Go(t, req[t].at, "closing")
    BY <1>3 DEF Read, Fail, Go
  <2>3. QED
    BY <2>1, <2>2, MovesOn DEF files, TypeOK
<1>4. CASE SaveAnswers(t)
  <2>1. Go(t, "serving", "saved") /\ Inside(t)
    BY <1>4 DEF SaveAnswers, Go, Inside
  <2>2. req[t].edit \in Edit /\ req[t].copy \in SUBSET Edit
    BY <1>1, <2>1 DEF RequestOk, Go, Request
  <2>3. answers' \in [Session -> SUBSET Edit]
    BY <1>1, <1>4, <2>2 DEF SaveAnswers, TypeOK
  <2>4. QED
    BY <1>4, <2>1, <2>3, MovesOn DEF SaveAnswers, TypeOK, Go
<1>5. CASE OpenSummary(t)
  <2>1. Go(t, "saved", "writing") /\ Inside(t)
    BY <1>5 DEF OpenSummary, Go, Inside
  <2>2. summary' \in [Session -> {"whole", "torn"}]
    BY <1>1, <1>5 DEF OpenSummary, TypeOK
  <2>3. QED
    BY <1>5, <2>1, <2>2, MovesOn DEF OpenSummary, TypeOK, Go
<1>6. CASE WriteSummary(t)
  <2>1. Go(t, "writing", "replying") /\ Inside(t)
    BY <1>6 DEF WriteSummary, Go, Inside
  <2>2. summary' \in [Session -> {"whole", "torn"}]
    BY <1>1, <1>6 DEF WriteSummary, TypeOK
  <2>3. QED
    BY <1>6, <2>1, <2>2, MovesOn DEF WriteSummary, TypeOK, Go
<1>7. CASE Reply(t)
  <2>1. Go(t, "replying", "closing") /\ Inside(t)
    BY <1>7 DEF Reply, Go, Inside
  <2>2. req[t].edit \in Edit
    BY <1>1, <2>1 DEF RequestOk, Go
  <2>3. acked' \in [Session -> SUBSET Edit]
    BY <1>1, <1>7, <2>2 DEF Reply, TypeOK
  <2>4. QED
    BY <1>7, <2>1, <2>3, MovesOn DEF Reply, TypeOK, Go
<1>8. QED
  BY <1>2, <1>3, <1>4, <1>5, <1>6, <1>7

-----------------------------------------------------------------------------
(***************************************************************************)
(* Getting a lock.                                                         *)
(***************************************************************************)

\* A request that arrives keeps the invariant.
LEMMA AskInv ==
    ASSUME LockInv, NEW t \in Thread, NEW s \in Session, Ask(t, s)
    PROVE  LockInv'
<1> USE DEF LockInv
<1>1. requests + 1 \in Edit /\ requests' \in 0..MaxRequests
  BY LocksAssumption DEF Ask, TypeOK, Edit
<1>2. /\ req' \in [Thread -> Request]
      /\ \A u \in Thread \ {t} : req'[u] = req[u]
      /\ req'[t] = [at |-> "entering", session |-> s, edit |-> requests + 1,
                 lock |-> NoLock, copy |-> {}]
  <2>1. [at |-> "entering", session |-> s, edit |-> requests + 1,
         lock |-> NoLock, copy |-> {}] \in Request
    BY <1>1 DEF Request, At, Edit
  <2>2. QED
    BY <2>1 DEF Ask, TypeOK
<1>3. req'[t].at = "entering" /\ req'[t].lock = NoLock /\ req'[t].edit = requests + 1
  BY <1>2
<1>4. req[t].lock = NoLock
  BY DEF Ask, RequestOk, Holding
<1>5. TypeOK'
  BY <1>1, <1>2 DEF Ask, TypeOK, files
<1>6. RequestOk(t)'
  BY <1>1, <1>3 DEF RequestOk, Holding, Inside, Written
<1>7. \A u \in Thread \ {t} : RequestOk(u)'
  BY <1>2 DEF Ask, RequestOk, Inside, files
<1>8. OneLockEach'
  BY DEF Ask, OneLockEach, files
<1>9. RegistryActive'
  BY <1>2, <1>4 DEF Ask, RegistryActive
<1>10. QED
  BY <1>5, <1>6, <1>7, <1>8, <1>9

\* So does one that takes the guard of the registry.
LEMMA EnterGuardInv ==
    ASSUME LockInv, NEW t \in Thread, EnterGuard(t)
    PROVE  LockInv'
<1> USE DEF LockInv
<1>1. /\ req' \in [Thread -> Request]
      /\ req'[t] = [req[t] EXCEPT !.at = "looking"]
      /\ \A u \in Thread \ {t} : req'[u] = req[u]
  BY Went DEF EnterGuard, At
<1>2. /\ req[t].at = "entering"
      /\ req'[t].at = "looking"
      /\ req'[t].lock = req[t].lock
      /\ req'[t].edit = req[t].edit
      /\ req'[t].session = req[t].session
  BY <1>1 DEF EnterGuard, Go, TypeOK, Request
<1>3. TypeOK'
  BY <1>1 DEF EnterGuard, TypeOK, files
<1>4. RequestOk(t)'
  BY <1>2 DEF EnterGuard, RequestOk, Holding, Inside, Written
<1>5. ASSUME NEW u \in Thread \ {t} PROVE RequestOk(u)'
  <2>1. guard # u
    BY LocksAssumption DEF EnterGuard
  <2>2. QED
    BY <1>1, <2>1 DEF EnterGuard, RequestOk, Inside, files
<1>6. OneLockEach'
  BY DEF EnterGuard, OneLockEach, files
<1>7. RegistryActive'
  <2>1. \A u \in Thread : req'[u].lock = req[u].lock /\ req'[u].session = req[u].session
    BY <1>1, <1>2
  <2>2. QED
    BY <2>1 DEF EnterGuard, RegistryActive
<1>8. QED
  BY <1>3, <1>4, <1>5, <1>6, <1>7

\* A thread that leaves the guard with a reference waits for that lock.
LEMMA Referred ==
    ASSUME LockInv, NEW t \in Thread, NEW l \in Lock, Refer(t, l)
    PROVE  /\ req' \in [Thread -> Request]
           /\ req'[t].at = "waiting" /\ req'[t].lock = l
           /\ req'[t].session = req[t].session /\ req'[t].edit = req[t].edit
           /\ \A u \in Thread \ {t} : req'[u] = req[u]
           /\ guard' = NoThread
<1>1. req'[t] = [req[t] EXCEPT !.at = "waiting", !.lock = l]
  BY DEF LockInv, TypeOK, Refer
<1>2. req[t] \in Request
  BY DEF LockInv, TypeOK
<1>3. [req[t] EXCEPT !.at = "waiting", !.lock = l] \in Request
  BY <1>2 DEF Request, At
<1>4. QED
  BY <1>1, <1>2, <1>3 DEF LockInv, TypeOK, Refer, Request

\* Looking a lock up keeps the invariant.
LEMMA LookupInv ==
    ASSUME LockInv, NEW t \in Thread, Lookup(t)
    PROVE  LockInv'
<1> USE DEF LockInv
<1> DEFINE s == req[t].session
<1>1. s \in Session /\ req[t].at = "looking" /\ guard = t /\ req[t].lock = NoLock /\ req[t].edit \in Edit
  BY DEF Lookup, TypeOK, Request, RequestOk, Holding
<1>2. CASE locks[s] # NoLock
  <2>1. locks[s] \in Lock /\ Refer(t, locks[s])
    BY <1>1, <1>2 DEF Lookup, TypeOK
  <2>2. /\ req' \in [Thread -> Request]
        /\ req'[t].at = "waiting" /\ req'[t].lock = locks[s]
        /\ req'[t].session = s /\ req'[t].edit = req[t].edit
        /\ \A u \in Thread \ {t} : req'[u] = req[u]
        /\ guard' = NoThread
    BY <2>1, Referred
  <2>3. TypeOK'
    BY <2>2 DEF Lookup, TypeOK, files
  <2>4. RequestOk(t)'
    BY <1>1, <1>2, <2>2 DEF Lookup, RequestOk, Holding, At, Inside, Written
  <2>5. \A u \in Thread \ {t} : RequestOk(u)'
    BY <1>1, <2>2 DEF Lookup, RequestOk, Inside, files
  <2>6. OneLockEach'
    BY DEF Lookup, OneLockEach, files
  <2>7. RegistryActive'
    BY <1>1, <2>2 DEF Lookup, RegistryActive
  <2>8. QED
    BY <2>3, <2>4, <2>5, <2>6, <2>7
<1>3. CASE locks[s] = NoLock
  <2>1. Go(t, "looking", "creating") /\ UNCHANGED <<locks, guard, owner, requests, files>>
    BY <1>3 DEF Lookup
  <2>2. /\ req' \in [Thread -> Request]
        /\ req'[t] = [req[t] EXCEPT !.at = "creating"]
        /\ \A u \in Thread \ {t} : req'[u] = req[u]
    BY <2>1, Went DEF At
  <2>3. /\ req'[t].at = "creating" /\ req'[t].lock = req[t].lock
        /\ req'[t].session = s /\ req'[t].edit = req[t].edit
    BY <2>2 DEF TypeOK, Request
  <2>4. TypeOK'
    BY <2>1, <2>2 DEF TypeOK, files
  <2>5. RequestOk(t)'
    BY <1>1, <1>3, <2>1, <2>3 DEF RequestOk, Holding, Inside, Written
  <2>6. \A u \in Thread \ {t} : RequestOk(u)'
    BY <2>1, <2>2 DEF RequestOk, Inside, files
  <2>7. OneLockEach'
    BY <2>1 DEF OneLockEach, files
  <2>8. \A u \in Thread : req'[u].lock = req[u].lock /\ req'[u].session = req[u].session
    BY <2>2, <2>3
  <2>9. RegistryActive'
    BY <2>1, <2>8 DEF RegistryActive
  <2>10. QED
    BY <2>4, <2>5, <2>6, <2>7, <2>9
<1>4. QED
  BY <1>2, <1>3

\* So does making one, which nothing refers to yet.
LEMMA CreateInv ==
    ASSUME LockInv, NEW t \in Thread, Create(t)
    PROVE  LockInv'
<1> USE DEF LockInv
<1> DEFINE s == req[t].session
<1>1. PICK l \in Lock : /\ New(l)
                        /\ locks' = [locks EXCEPT ![s] = l]
                        /\ owner' = [owner EXCEPT ![l] = NoThread]
                        /\ Refer(t, l)
  BY DEF Create
<1>2. /\ s \in Session /\ guard = t /\ locks[s] = NoLock
      /\ req[t].lock = NoLock /\ req[t].edit \in Edit
  BY DEF Create, TypeOK, Request, RequestOk, Holding
<1>3. /\ req' \in [Thread -> Request]
      /\ req'[t].at = "waiting" /\ req'[t].lock = l
      /\ req'[t].session = s /\ req'[t].edit = req[t].edit
      /\ \A u \in Thread \ {t} : req'[u] = req[u]
      /\ guard' = NoThread
  BY <1>1, Referred
<1>4. /\ l # NoLock
      /\ locks'[s] = l
      /\ \A r \in Session \ {s} : locks'[r] = locks[r] /\ locks[r] # l
      /\ \A u \in Thread : req[u].lock # l
      /\ \A k \in Lock \ {l} : owner'[k] = owner[k]
  BY <1>1, <1>2, LocksAssumption DEF New, TypeOK
<1>5. TypeOK'
  BY <1>1, <1>2, <1>3 DEF Create, TypeOK, files
<1>6. RequestOk(t)'
  BY <1>2, <1>3, <1>4 DEF RequestOk, Holding, At, Inside, Written
<1>7. ASSUME NEW u \in Thread \ {t} PROVE RequestOk(u)'
  <2>1. RequestOk(u) /\ req'[u] = req[u] /\ req[u] \in Request
    BY <1>3 DEF TypeOK
  <2>2. req[u].at \notin {"looking", "creating"}
    BY <1>2, <2>1 DEF RequestOk
  <2>3. ASSUME req[u].at \in Holding
        PROVE  req[u].session # s /\ req[u].lock \in Lock \ {l}
    BY <1>2, <1>4, <2>1, <2>3 DEF RequestOk, Request
  <2>4. Inside(u) => req[u].at \in Holding
    BY DEF Inside, Holding, At
  <2>5. QED
    BY <1>4, <2>1, <2>2, <2>3, <2>4 DEF Create, RequestOk, Inside, Request, files
<1>8. OneLockEach'
  BY <1>4 DEF OneLockEach
<1>9. RegistryActive'
  BY <1>2, <1>3, <1>4 DEF RegistryActive
<1>10. QED
  BY <1>5, <1>6, <1>7, <1>8, <1>9

\* So does getting it.
LEMMA AcquireInv ==
    ASSUME LockInv, NEW t \in Thread, Acquire(t)
    PROVE  LockInv'
<1> USE DEF LockInv
<1>1. /\ req' \in [Thread -> Request]
      /\ req'[t] = [req[t] EXCEPT !.at = "loading"]
      /\ \A u \in Thread \ {t} : req'[u] = req[u]
  BY Went DEF Acquire, At
<1>2. /\ req[t].at = "waiting"
      /\ req'[t].at = "loading"
      /\ req'[t].lock = req[t].lock
      /\ req'[t].edit = req[t].edit
      /\ req'[t].session = req[t].session
  BY <1>1 DEF Acquire, TypeOK, Request
<1>3. req[t].lock \in Lock /\ owner[req[t].lock] = NoThread
  BY <1>2 DEF Acquire, RequestOk, Holding, At, TypeOK, Request
<1>4. /\ owner'[req[t].lock] = t
      /\ \A k \in Lock \ {req[t].lock} : owner'[k] = owner[k]
  BY <1>3 DEF Acquire, TypeOK
<1>5. TypeOK'
  BY <1>1, <1>3 DEF Acquire, TypeOK, files
<1>6. RequestOk(t)'
  BY <1>2, <1>4 DEF Acquire, RequestOk, Holding, At, Inside, Written
<1>7. ASSUME NEW u \in Thread \ {t} PROVE RequestOk(u)'
  <2>1. RequestOk(u) /\ req'[u] = req[u] /\ req[u] \in Request
    BY <1>1 DEF TypeOK
  <2>2. ASSUME Inside(u) PROVE owner'[req[u].lock] = u
    <3>1. owner[req[u].lock] = u /\ req[u].lock # NoLock
      BY <2>1, <2>2 DEF RequestOk, Inside, Holding, At
    <3>2. req[u].lock \in Lock \ {req[t].lock}
      BY <1>3, <2>1, <3>1, LocksAssumption DEF Request
    <3>3. QED
      BY <1>4, <3>1, <3>2
  <2>3. QED
    BY <2>1, <2>2 DEF Acquire, RequestOk, Inside, files
<1>8. OneLockEach'
  BY DEF Acquire, OneLockEach, files
<1>9. \A u \in Thread : req'[u].lock = req[u].lock /\ req'[u].session = req[u].session
  BY <1>1, <1>2
<1>10. RegistryActive'
  BY <1>9 DEF Acquire, RegistryActive
<1>11. QED
  BY <1>5, <1>6, <1>7, <1>8, <1>10

-----------------------------------------------------------------------------
(***************************************************************************)
(* Giving it back.                                                         *)
(***************************************************************************)

\* So does giving it back, and dropping it when nobody else refers to it.
LEMMA ReleaseInv ==
    ASSUME LockInv, NEW t \in Thread, Release(t)
    PROVE  LockInv'
<1> USE DEF LockInv
<1> DEFINE l == req[t].lock
           Shared == \E u \in Thread \ {t} : req[u].lock = l
<1>1. /\ req' \in [Thread -> Request] /\ req'[t] = NoRequest
      /\ \A u \in Thread \ {t} : req'[u] = req[u]
  BY Idle DEF Release, TypeOK
<1>2. l # NoLock /\ l = locks[req[t].session] /\ req[t].session \in Session /\ l \in Lock
  BY DEF Release, RequestOk, Holding, At, TypeOK, Request
<1>3. \A u \in Thread \ {t} : Inside(u) => req[u].lock \in Lock \ {l}
  <2> SUFFICES ASSUME NEW u \in Thread \ {t}, Inside(u) PROVE req[u].lock \in Lock \ {l}
    OBVIOUS
  <2>1. owner[req[u].lock] = u /\ req[u].lock # NoLock
    BY DEF RequestOk, Inside, Holding, At
  <2>2. owner[l] = t
    BY DEF Release, RequestOk, Inside
  <2>3. QED
    BY <2>1, <2>2 DEF TypeOK, Request
<1>4. \A k \in Lock \ {l} : owner'[k] = owner[k]
  BY DEF Release, TypeOK
<1>5. /\ locks' \in [Session -> Lock \cup {NoLock}]
      /\ \A s \in Session : locks'[s] = locks[s] \/ (~Shared /\ locks[s] = l /\ locks'[s] = NoLock)
      /\ ~Shared => \A s \in Session : locks[s] = l => locks'[s] = NoLock
  BY DEF Release, Forget, TypeOK
<1>6. TypeOK'
  BY <1>1, <1>2, <1>5 DEF Release, TypeOK, files
<1>7. RequestOk(t)'
  BY <1>1 DEF RequestOk, NoRequest, Holding, Inside, Written
<1>8. ASSUME NEW u \in Thread \ {t} PROVE RequestOk(u)'
  <2>1. RequestOk(u) /\ req'[u] = req[u] /\ req[u] \in Request
    BY <1>1 DEF TypeOK
  <2>2. locks[req[u].session] = NoLock => locks'[req[u].session] = NoLock
    BY <1>2, <1>5, <2>1 DEF Request
  <2>3. req[u].at \in Holding => locks'[req[u].session] = locks[req[u].session]
    BY <1>2, <1>5, <2>1 DEF RequestOk, Request
  <2>4. Inside(u) => owner'[req[u].lock] = owner[req[u].lock]
    BY <1>3, <1>4
  <2>5. QED
    BY <2>1, <2>2, <2>3, <2>4 DEF Release, RequestOk, Inside, files
<1>9. OneLockEach'
  BY <1>5 DEF OneLockEach
<1>10. RegistryActive'
  <2> SUFFICES ASSUME NEW s \in Session, locks'[s] # NoLock
               PROVE  \E u \in Thread : req'[u].lock = locks'[s] /\ req'[u].session = s
    BY DEF RegistryActive
  <2>1. locks'[s] = locks[s]
    BY <1>5
  <2>2. PICK w \in Thread : req[w].lock = locks[s] /\ req[w].session = s
    BY <2>1 DEF RegistryActive
  <2>3. CASE w # t
    BY <1>1, <2>1, <2>2, <2>3
  <2>4. CASE w = t
    <3>1. Shared
      BY <1>5, <2>1, <2>2, <2>4
    <3>2. PICK u \in Thread \ {t} : req[u].lock = l
      BY <3>1
    <3>3. req[u].at \in Holding /\ locks[req[u].session] = l /\ req[u].session \in Session
      BY <1>2, <3>2 DEF RequestOk, TypeOK, Request
    <3>4. req[u].session = s
      BY <1>2, <2>2, <2>4, <3>3 DEF OneLockEach
    <3>5. QED
      BY <1>1, <2>1, <2>2, <2>4, <3>2, <3>4
  <2>5. QED
    BY <2>3, <2>4
<1>11. QED
  BY <1>6, <1>7, <1>8, <1>9, <1>10

\* So does a restart of the server.
LEMMA RestartInv == ASSUME LockInv, Restart PROVE LockInv'
<1> USE DEF LockInv
<1>1. \A t \in Thread : req'[t] = NoRequest
  BY DEF Restart
<1>2. TypeOK'
  BY Idle DEF Restart, TypeOK, files
<1>3. \A t \in Thread : RequestOk(t)'
  BY <1>1 DEF RequestOk, NoRequest, Holding, Inside, Written
<1>4. OneLockEach' /\ RegistryActive'
  BY DEF Restart, OneLockEach, RegistryActive, files
<1>5. QED
  BY <1>2, <1>3, <1>4

-----------------------------------------------------------------------------
(***************************************************************************)
(* The documents.                                                          *)
(***************************************************************************)

\* A step that writes no file, and lets a request begin to serve or to save only
\* where it was, keeps what the requests know of a document.
LEMMA DataStays ==
    ASSUME NEW s \in Session, DataOk(s), UNCHANGED <<answers, acked>>,
           \A u \in Thread : req'[u].at \in {"serving"} \cup Written =>
              /\ req[u].at \in {"serving"} \cup Written
              /\ req'[u].session = req[u].session /\ req'[u].edit = req[u].edit
              /\ req'[u].at = "serving" => req[u].at = "serving" /\ req'[u].copy = req[u].copy
              /\ req'[u].at \in Written => req[u].at \in Written
    PROVE  DataOk(s)'
<1>1. ASSUME NEW u \in Thread, req'[u].session = s
      PROVE  /\ req'[u].at = "serving" => req'[u].copy = answers[s]
             /\ req'[u].at \in Written => req'[u].edit \in answers[s]
  BY <1>1 DEF DataOk
<1> QED
  BY <1>1 DEF DataOk

\* Most steps are of that kind.
LEMMA QuietStep ==
    ASSUME LockInv, NEW s \in Session, DataOk(s), NEW t \in Thread,
           \/ \E r \in Session : Ask(t, r)
           \/ EnterGuard(t) \/ Lookup(t) \/ Create(t) \/ Acquire(t) \/ Read(t)
           \/ OpenSummary(t) \/ WriteSummary(t) \/ Fail(t) \/ Release(t)
    PROVE  DataOk(s)'
<1>1. UNCHANGED <<answers, acked>>
  BY DEF Ask, EnterGuard, Lookup, Create, Acquire, Read, OpenSummary, WriteSummary,
     Fail, Release, files
<1>2. \A u \in Thread \ {t} : req'[u] = req[u]
  BY DEF LockInv, TypeOK, Ask, EnterGuard, Lookup, Refer, Create, Acquire, Read,
     OpenSummary, WriteSummary, Fail, Release, Go
<1>3. \/ req'[t].at \notin {"serving"} \cup Written
      \/ /\ req[t].at \in Written /\ req'[t].at \in Written
         /\ req'[t].session = req[t].session /\ req'[t].edit = req[t].edit
  <2>1. req[t] \in Request
    BY DEF LockInv, TypeOK
  <2>2. CASE OpenSummary(t) \/ WriteSummary(t)
    BY <2>1, <2>2 DEF LockInv, TypeOK, OpenSummary, WriteSummary, Go, Written, Request
  <2>3. CASE \/ \E r \in Session : Ask(t, r)
             \/ EnterGuard(t) \/ Lookup(t) \/ Create(t) \/ Acquire(t) \/ Read(t)
             \/ Fail(t) \/ Release(t)
    BY <2>1, <2>3 DEF LockInv, TypeOK, Ask, EnterGuard, Lookup, Refer, Create, Acquire,
       Read, Fail, Release, NoRequest, Go, Written, Request
  <2> QED
    BY <2>2, <2>3
<1>4. "serving" \notin Written
  BY DEF Written
<1> QED
  BY <1>1, <1>2, <1>3, <1>4, DataStays

\* A request copies the document that is there.
LEMMA LoadData ==
    ASSUME LockInv, NEW s \in Session, DataOk(s), NEW t \in Thread, Load(t)
    PROVE  DataOk(s)'
<1>1. req[t] \in Request /\ UNCHANGED <<answers, acked>>
  BY DEF LockInv, TypeOK, Load, files
<1>2. /\ req'[t].at \in {"serving", "closing"} /\ req'[t].session = req[t].session
      /\ req'[t].copy = answers[req[t].session]
      /\ \A u \in Thread \ {t} : req'[u] = req[u]
  BY <1>1 DEF LockInv, TypeOK, Load, Request
<1> QED
  BY <1>1, <1>2 DEF DataOk, Written

\* What it writes back is what it copied and its edit; no other request of the
\* session is under the lock.
LEMMA SaveData ==
    ASSUME LockInv, NEW s \in Session, DataOk(s), NEW t \in Thread, SaveAnswers(t)
    PROVE  DataOk(s)' /\ answers[s] \subseteq answers'[s]
<1>1. /\ req[t] \in Request /\ req[t].at = "serving" /\ Inside(t)
      /\ req'[t] = [req[t] EXCEPT !.at = "saved"] /\ acked' = acked
      /\ \A u \in Thread \ {t} : req'[u] = req[u]
  BY DEF LockInv, TypeOK, SaveAnswers, Go, Inside
<1>2. req'[t].at = "saved" /\ req'[t].session = req[t].session /\ req'[t].edit = req[t].edit
  BY <1>1 DEF Request
<1>3. CASE req[t].session # s
  <2>1. answers'[s] = answers[s]
    BY <1>3 DEF LockInv, TypeOK, SaveAnswers
  <2> QED
    BY <1>1, <1>2, <1>3, <2>1 DEF DataOk
<1>4. CASE req[t].session = s
  <2>1. answers'[s] = answers[s] \cup {req[t].edit}
    BY <1>1, <1>4 DEF LockInv, TypeOK, SaveAnswers, DataOk
  <2>2. \A u \in Thread \ {t} : req[u].session = s => ~Inside(u)
    BY <1>1, <1>4, Excluded DEF OneInside
  <2>3. \A u \in Thread \ {t} : req[u].session = s => req'[u].at \notin {"serving"} \cup Written
    BY <1>1, <2>2 DEF Inside, Written
  <2> QED
    BY <1>1, <1>2, <2>1, <2>3 DEF DataOk, Written
<1> QED
  BY <1>3, <1>4

\* It tells of an edit that is in the document.
LEMMA ReplyData ==
    ASSUME LockInv, NEW s \in Session, DataOk(s), NEW t \in Thread, Reply(t)
    PROVE  DataOk(s)'
<1>1. /\ req[t] \in Request /\ req[t].at = "replying" /\ answers' = answers
      /\ req'[t] = [req[t] EXCEPT !.at = "closing"]
      /\ \A u \in Thread \ {t} : req'[u] = req[u]
  BY DEF LockInv, TypeOK, Reply, Go
<1>2. req'[t].at = "closing"
  BY <1>1 DEF Request
<1>3. acked'[s] \subseteq answers[s]
  BY <1>1 DEF LockInv, TypeOK, Reply, DataOk, Written
<1> QED
  BY <1>1, <1>2, <1>3 DEF DataOk, Written

\* A restart leaves no request.
LEMMA RestartData ==
    ASSUME NEW s \in Session, DataOk(s), Restart
    PROVE  DataOk(s)'
  BY DataStays DEF Restart, NoRequest, files, Written

-----------------------------------------------------------------------------
\* Every step keeps the order of the requests.
LEMMA StepInv == LockInv /\ [Next]_vars => LockInv'
<1> SUFFICES ASSUME LockInv, [Next]_vars PROVE LockInv'
  OBVIOUS
<1>1. ASSUME NEW t \in Thread, NEW s \in Session, Ask(t, s) PROVE LockInv'
  BY <1>1, AskInv
<1>2. ASSUME NEW t \in Thread, Enter(t) PROVE LockInv'
  BY <1>2, EnterGuardInv, LookupInv, CreateInv, AcquireInv DEF Enter
<1>3. ASSUME NEW t \in Thread, Serve(t) PROVE LockInv'
  BY <1>3, ServeInv, ReleaseInv DEF Serve
<1>4. CASE Restart
  BY <1>4, RestartInv
<1>5. CASE UNCHANGED vars
  BY <1>5 DEF vars, files, LockInv, TypeOK, RequestOk, Inside, OneLockEach, RegistryActive
<1>6. QED
  BY <1>1, <1>2, <1>3, <1>4, <1>5 DEF Next

\* And what they know of each document.
LEMMA StepData ==
    ASSUME LockInv, [Next]_vars, NEW s \in Session, DataOk(s)
    PROVE  DataOk(s)'
<1>1. ASSUME NEW t \in Thread, NEW r \in Session, Ask(t, r) PROVE DataOk(s)'
  BY <1>1, QuietStep
<1>2. ASSUME NEW t \in Thread, Enter(t) PROVE DataOk(s)'
  BY <1>2, QuietStep DEF Enter
<1>3. ASSUME NEW t \in Thread, Serve(t) PROVE DataOk(s)'
  BY <1>3, QuietStep, LoadData, SaveData, ReplyData DEF Serve
<1>4. CASE Restart
  BY <1>4, RestartData
<1>5. CASE UNCHANGED vars
  BY <1>5 DEF vars, files, DataOk
<1>6. QED
  BY <1>1, <1>2, <1>3, <1>4, <1>5 DEF Next

\* Every reachable state satisfies the inductive invariant.
THEOREM Inductive == Spec => []Inv
<1>1. Init => Inv
  BY InitInv DEF Init, Inv, DataOk, NoRequest, Written
<1>2. Inv /\ [Next]_vars => Inv'
  BY StepInv, StepData DEF Inv
<1>3. QED
  BY <1>1, <1>2, PTL DEF Spec

\* Every reachable state of the registry, the requests and the files is well
\* typed (_SESSION_LOCKS and the locals of do_POST).
THEOREM TypeCorrect == Spec => []TypeOK
<1>1. Inv => TypeOK
  BY DEF Inv, LockInv
<1>2. QED
  BY <1>1, Inductive, PTL

\* At most one request of a session is between acquire and release.
THEOREM MutualExclusion == Spec => []OneInside
<1>1. Inv => OneInside
  BY Excluded DEF Inv
<1>2. QED
  BY <1>1, Inductive, PTL

\* No acknowledged edit is ever missing from answers.json.
THEOREM NothingAcknowledgedLost == Spec => []AcknowledgedKept
<1>1. Inv => AcknowledgedKept
  BY DEF Inv, DataOk, AcknowledgedKept
<1>2. QED
  BY <1>1, Inductive, PTL

\* The registry of _session_lock holds no lock of a session that no request
\* is using.
THEOREM RegistryBounded == Spec => []RegistryActive
<1>1. Inv => RegistryActive
  BY DEF Inv, LockInv
<1>2. QED
  BY <1>1, Inductive, PTL

\* No step of any request takes an edit out of answers.json: what a request
\* writes back is what it found there and its own edit.
THEOREM NoLostUpdate == Spec => AnswersGrow
<1>1. Inv /\ [Next]_vars => \A s \in Session : answers[s] \subseteq answers'[s]
  <2> SUFFICES ASSUME Inv, [Next]_vars, NEW s \in Session
               PROVE  answers[s] \subseteq answers'[s]
    OBVIOUS
  <2>1. ASSUME NEW t \in Thread, SaveAnswers(t) PROVE answers[s] \subseteq answers'[s]
    BY <2>1, SaveData DEF Inv
  <2>2. ASSUME NEW t \in Thread, Load(t) \/ Read(t) \/ OpenSummary(t) \/ WriteSummary(t)
                                 \/ Reply(t) \/ Fail(t) \/ Release(t) \/ Enter(t)
        PROVE  answers' = answers
    BY <2>2 DEF Load, Read, OpenSummary, WriteSummary, Reply, Fail, Release, Enter,
                EnterGuard, Lookup, Create, Acquire, files
  <2>3. ASSUME NEW t \in Thread, NEW r \in Session, Ask(t, r) PROVE answers' = answers
    BY <2>3 DEF Ask, files
  <2>4. CASE Restart \/ UNCHANGED vars
    BY <2>4 DEF Restart, vars, files
  <2>5. QED
    BY <2>1, <2>2, <2>3, <2>4 DEF Next, Serve
<1>2. QED
  BY <1>1, Inductive, PTL DEF Spec, AnswersGrow

-----------------------------------------------------------------------------
(***************************************************************************)
(* The uploads.  Whoever is past the move has the session to itself, or    *)
(* the session is nested; and nobody asks for a session before that.       *)
(***************************************************************************)

Placed == {"reading", "opening", "rewriting", "saving", "finishing", "told"}

UploadOk(u) ==
    /\ up[u].at = "moving" => up[u].id \in staged
    /\ up[u].at \in Placed => home[up[u].id] # "absent"
    /\ up[u].at = "told" => home[up[u].id] = "home"
    /\ ~nested[up[u].id] =>
          /\ up[u].at = "rewriting" /\ torn[up[u].id] => u \in open[up[u].id]
          /\ up[u].at \in {"saving", "finishing", "told"} => ~torn[up[u].id]

Apart(u, v) ==
    u # v /\ up[u].id = up[v].id =>
        /\ ~(up[u].at = "moving" /\ up[v].at = "moving")
        /\ up[u].at \in Placed /\ up[v].at \in Placed => nested[up[u].id]

UploadsOk ==
    /\ CreationTypeOK
    /\ \A u \in Upload : UploadOk(u)
    /\ \A u, v \in Upload : Apart(u, v)

Known(s) == \E u \in Upload : up[u].at = "told" /\ up[u].id = s

AskedKnown ==
    /\ \A t \in Thread : req[t].at # "idle" => Known(req[t].session)
    /\ \A s \in Session : acked[s] # {} => Known(s)

\* What is known of a session that was not shared.
Unshared(s) == ~nested[s] => DataOk(s)

CreationInv ==
    /\ LockInv
    /\ UploadsOk
    /\ AskedKnown
    /\ \A s \in Session : Unshared(s)

\* An upload that begins or fails is well formed.
LEMMA BlankTyped == Blank \in Uploading /\ Failed \in Uploading
  BY LocksAssumption DEF Blank, Failed, Uploading, UploadAt, SomeSession, Edit

\* An upload that takes a step is one.
LEMMA StepTyped ==
    ASSUME CreationTypeOK, NEW u \in Upload, NEW here, NEW there \in UploadAt,
           Step(u, here, there)
    PROVE  /\ up' \in [Upload -> Uploading]
           /\ up[u].at = here
           /\ up'[u].at = there /\ up'[u].id = up[u].id
           /\ \A v \in Upload \ {u} : up'[v] = up[v]
<1>1. up[u] \in Uploading
  BY DEF CreationTypeOK
<1>2. [up[u] EXCEPT !.at = there] \in Uploading
  BY <1>1 DEF Uploading
<1>3. up' = [up EXCEPT ![u] = [up[u] EXCEPT !.at = there]]
  BY DEF Step
<1>4. up' \in [Upload -> Uploading] /\ up'[u] = [up[u] EXCEPT !.at = there]
  BY <1>2, <1>3 DEF CreationTypeOK
<1> QED
  BY <1>1, <1>3, <1>4 DEF CreationTypeOK, Step, Uploading

\* A new directory is one that no waiting upload has.
LEMMA MakeDirInv ==
    ASSUME UploadsOk, NEW u \in Upload, MakeDir(u)
    PROVE  UploadsOk'
<1>1. PICK s \in Session \ staged :
          /\ clock' = s
          /\ up' = [up EXCEPT ![u].at = "moving", ![u].id = s]
          /\ staged' = staged \cup {s}
  BY DEF MakeDir
<1>2. up[u] \in Uploading
  BY DEF UploadsOk, CreationTypeOK
<1>3. /\ up'[u] = [up[u] EXCEPT !.at = "moving", !.id = s]
      /\ \A v \in Upload \ {u} : up'[v] = up[v]
  BY <1>1 DEF UploadsOk, CreationTypeOK
<1>4. up'[u] \in Uploading /\ up'[u].at = "moving" /\ up'[u].id = s
  BY <1>2, <1>3 DEF Uploading, UploadAt
<1>5. up' \in [Upload -> Uploading]
  BY <1>1, <1>3, <1>4 DEF UploadsOk, CreationTypeOK
<1>6. CreationTypeOK'
  BY <1>1, <1>5 DEF UploadsOk, CreationTypeOK, MakeDir, vars, files, TypeOK
<1>7. \A v \in Upload : UploadOk(v)'
  BY <1>1, <1>3, <1>4 DEF UploadsOk, UploadOk, MakeDir, Placed
<1>8. ASSUME NEW v \in Upload, NEW w \in Upload PROVE Apart(v, w)'
  <2>1. Apart(v, w) /\ UploadOk(v) /\ UploadOk(w)
    BY DEF UploadsOk
  <2>2. nested' = nested
    BY DEF MakeDir
  <2>3. s \notin staged /\ \A x \in Upload \ {u} : up'[x] = up[x]
    BY <1>1, <1>3
  <2>4. CASE v # u /\ w # u
    BY <2>1, <2>2, <2>3, <2>4 DEF Apart
  <2>5. CASE v = u /\ w # u
    <3>1. up'[w] = up[w] /\ (up[w].at = "moving" => up[w].id # s)
      BY <2>1, <2>3, <2>5 DEF UploadOk
    <3> QED
      BY <1>4, <2>5, <3>1 DEF Apart, Placed
  <2>6. CASE v # u /\ w = u
    <3>1. up'[v] = up[v] /\ (up[v].at = "moving" => up[v].id # s)
      BY <2>1, <2>3, <2>6 DEF UploadOk
    <3> QED
      BY <1>4, <2>6, <3>1 DEF Apart, Placed
  <2>7. CASE v = w
    BY <2>7 DEF Apart
  <2> QED
    BY <2>4, <2>5, <2>6, <2>7
<1> QED
  BY <1>6, <1>7, <1>8 DEF UploadsOk

\* The first to move has the session to itself; the second makes it nested.
LEMMA MoveInv ==
    ASSUME UploadsOk, NEW u \in Upload, Move(u)
    PROVE  UploadsOk'
<1> DEFINE s == up[u].id
<1>1. Step(u, "moving", "reading") /\ s \in Session
  BY DEF Move, UploadsOk, CreationTypeOK, Uploading
<1>2. /\ up' \in [Upload -> Uploading]
      /\ up[u].at = "moving" /\ up'[u].at = "reading" /\ up'[u].id = s
      /\ \A v \in Upload \ {u} : up'[v] = up[v]
  BY <1>1, StepTyped DEF UploadsOk, UploadAt
<1>3. \/ /\ home[s] = "absent" /\ home' = [home EXCEPT ![s] = "staging"] /\ nested' = nested
      \/ /\ home[s] # "absent" /\ nested' = [nested EXCEPT ![s] = TRUE] /\ home' = home
  BY DEF Move
<1>4. CreationTypeOK'
  BY <1>1, <1>2, <1>3 DEF UploadsOk, CreationTypeOK, Move, vars, files, TypeOK
<1>5. /\ home'[s] # "absent"
      /\ home[s] # "absent" => nested'[s]
      /\ \A r \in Session : /\ home[r] # "absent" => home'[r] = home[r]
                            /\ nested[r] => nested'[r]
  BY <1>1, <1>3 DEF UploadsOk, CreationTypeOK
<1>6. staged' = staged \ {s} /\ torn' = torn /\ open' = open
  BY DEF Move
<1>7. \A v \in Upload : up[v].id \in Session
  BY DEF UploadsOk, CreationTypeOK, Uploading
<1>8. ASSUME NEW v \in Upload PROVE UploadOk(v)'
  <2>1. CASE v = u
    BY <1>2, <1>5, <2>1 DEF UploadOk, Placed
  <2>2. CASE v # u
    <3>1. UploadOk(v) /\ up'[v] = up[v] /\ Apart(u, v)
      BY <1>2, <2>2 DEF UploadsOk
    <3>2. up[v].at = "moving" => up[v].id # s
      BY <1>2, <2>2, <3>1 DEF Apart
    <3> QED
      BY <1>5, <1>6, <1>7, <3>1, <3>2 DEF UploadOk, Placed
  <2> QED
    BY <2>1, <2>2
<1>9. ASSUME NEW v \in Upload, NEW w \in Upload PROVE Apart(v, w)'
  <2>1. Apart(v, w) /\ UploadOk(v) /\ UploadOk(w)
    BY DEF UploadsOk
  <2> QED
    BY <1>2, <1>5, <1>7, <2>1 DEF Apart, UploadOk, Placed
<1> QED
  BY <1>4, <1>8, <1>9 DEF UploadsOk

\* An upload that fails leaves what it had made.
LEMMA FailedInv ==
    ASSUME UploadsOk, NEW u \in Upload, up' = [up EXCEPT ![u] = Failed],
           UNCHANGED <<vars, clock, staged, home, nested, torn, open>>
    PROVE  UploadsOk'
<1>1. /\ up' \in [Upload -> Uploading] /\ up'[u] = Failed
      /\ \A v \in Upload \ {u} : up'[v] = up[v]
  BY BlankTyped DEF UploadsOk, CreationTypeOK
<1>2. up'[u].at = "failed"
  BY <1>1 DEF Failed, Blank
<1>3. CreationTypeOK'
  BY <1>1 DEF UploadsOk, CreationTypeOK, vars, files, TypeOK
<1>4. \A v \in Upload : UploadOk(v)'
  BY <1>1, <1>2 DEF UploadsOk, UploadOk, Placed
<1>5. \A v, w \in Upload : Apart(v, w)'
  BY <1>1, <1>2 DEF UploadsOk, Apart, Placed
<1> QED
  BY <1>3, <1>4, <1>5 DEF UploadsOk

\* The steps that rewrite the answers.
LEMMA RewriteInv ==
    ASSUME UploadsOk, NEW u \in Upload,
           ReadAnswers(u) \/ OpenAnswers(u) \/ WriteAnswers(u)
    PROVE  UploadsOk'
<1> DEFINE s == up[u].id
<1>1. up[u] \in Uploading /\ s \in Session
  BY DEF UploadsOk, CreationTypeOK, Uploading
<1>2. CASE ReadAnswers(u) /\ torn[s]
  <2>1. up' = [up EXCEPT ![u] = Failed] /\ UNCHANGED <<vars, clock, staged, home, nested, torn, open>>
    BY <1>2 DEF ReadAnswers
  <2> QED
    BY <2>1, FailedInv
<1>3. CASE ReadAnswers(u) /\ ~torn[s]
  <2>1. up' = [up EXCEPT ![u] = [up[u] EXCEPT !.at = "opening", !.copy = answers[s]]]
    BY <1>3 DEF ReadAnswers
  <2>2. answers[s] \in SUBSET Edit
    BY <1>1 DEF UploadsOk, CreationTypeOK, TypeOK
  <2>3. [up[u] EXCEPT !.at = "opening", !.copy = answers[s]] \in Uploading
    BY <1>1, <2>2 DEF Uploading, UploadAt
  <2>4. /\ up' \in [Upload -> Uploading]
        /\ up'[u] = [up[u] EXCEPT !.at = "opening", !.copy = answers[s]]
        /\ \A v \in Upload \ {u} : up'[v] = up[v]
    BY <2>1, <2>3 DEF UploadsOk, CreationTypeOK
  <2>5. up[u].at = "reading" /\ up'[u].at = "opening" /\ up'[u].id = s
    BY <1>1, <1>3, <2>4 DEF ReadAnswers, Uploading
  <2>6. UNCHANGED <<vars, clock, staged, home, nested, torn, open>>
    BY <1>3 DEF ReadAnswers
  <2>7. CreationTypeOK'
    BY <2>4, <2>6 DEF UploadsOk, CreationTypeOK, vars, files, TypeOK
  <2>8. \A v \in Upload : UploadOk(v)'
    BY <2>4, <2>5, <2>6 DEF UploadsOk, UploadOk, Placed
  <2>9. ASSUME NEW v \in Upload, NEW w \in Upload PROVE Apart(v, w)'
    <3>1. Apart(v, w) /\ Apart(w, v)
      BY DEF UploadsOk
    <3>2. up'[v].id = up[v].id /\ (up'[v].at \in Placed <=> up[v].at \in Placed)
                             /\ (up'[v].at = "moving" => up[v].at = "moving")
      BY <2>4, <2>5 DEF Placed
    <3>3. up'[w].id = up[w].id /\ (up'[w].at \in Placed <=> up[w].at \in Placed)
                             /\ (up'[w].at = "moving" => up[w].at = "moving")
      BY <2>4, <2>5 DEF Placed
    <3> QED
      BY <2>6, <3>1, <3>2, <3>3 DEF Apart
  <2> QED
    BY <2>7, <2>8, <2>9 DEF UploadsOk
<1>4. CASE OpenAnswers(u)
  <2>1. /\ up' \in [Upload -> Uploading]
        /\ up[u].at = "opening" /\ up'[u].at = "rewriting" /\ up'[u].id = s
        /\ \A v \in Upload \ {u} : up'[v] = up[v]
    BY <1>4, StepTyped DEF UploadsOk, UploadAt, OpenAnswers
  <2>2. /\ torn' = [torn EXCEPT ![s] = TRUE] /\ open' = [open EXCEPT ![s] = @ \cup {u}]
        /\ UNCHANGED <<vars, clock, staged, home, nested>>
    BY <1>4 DEF OpenAnswers
  <2>3. CreationTypeOK'
    BY <1>1, <2>1, <2>2 DEF UploadsOk, CreationTypeOK, vars, files, TypeOK
  <2>4. /\ u \in open'[s]
        /\ \A r \in Session \ {s} : torn'[r] = torn[r] /\ open'[r] = open[r]
    BY <1>1, <2>2 DEF UploadsOk, CreationTypeOK
  <2>5. ASSUME NEW v \in Upload PROVE UploadOk(v)'
    <3>1. CASE v = u
      BY <2>1, <2>2, <2>4, <3>1 DEF UploadsOk, UploadOk, Placed
    <3>2. CASE v # u /\ up[v].id # s
      <4>1. up[v].id \in Session
        BY DEF UploadsOk, CreationTypeOK, Uploading
      <4> QED
        BY <2>1, <2>2, <2>4, <3>2, <4>1 DEF UploadsOk, UploadOk, Placed
    <3>3. CASE v # u /\ up[v].id = s
      <4>1. Apart(u, v)
        BY DEF UploadsOk
      <4> QED
        BY <2>1, <2>2, <3>3, <4>1 DEF UploadsOk, UploadOk, Apart, Placed
    <3> QED
      BY <3>1, <3>2, <3>3
  <2>6. \A v, w \in Upload : Apart(v, w)'
    BY <2>1, <2>2 DEF UploadsOk, Apart, Placed
  <2> QED
    BY <2>3, <2>5, <2>6 DEF UploadsOk
<1>5. CASE WriteAnswers(u)
  <2>1. /\ up[u].at = "rewriting"
        /\ up' = [up EXCEPT ![u] = [up[u] EXCEPT !.at = "saving", !.copy = {}]]
    BY <1>5 DEF WriteAnswers
  <2>2. [up[u] EXCEPT !.at = "saving", !.copy = {}] \in Uploading
    BY <1>1 DEF Uploading, UploadAt
  <2>3. /\ up' \in [Upload -> Uploading]
        /\ up'[u] = [up[u] EXCEPT !.at = "saving", !.copy = {}]
        /\ \A v \in Upload \ {u} : up'[v] = up[v]
    BY <2>1, <2>2 DEF UploadsOk, CreationTypeOK
  <2>4. up'[u].at = "saving" /\ up'[u].id = s /\ up[u].copy \in SUBSET Edit
    BY <1>1, <2>3 DEF Uploading
  <2>5. /\ \/ /\ u \in open[s] /\ answers' = [answers EXCEPT ![s] = up[u].copy]
              /\ torn' = [torn EXCEPT ![s] = FALSE] /\ open' = [open EXCEPT ![s] = @ \ {u}]
           \/ u \notin open[s] /\ UNCHANGED <<answers, torn, open>>
        /\ UNCHANGED <<locks, guard, owner, req, requests, summary, acked>>
        /\ UNCHANGED <<clock, staged, home, nested>>
    BY <1>5 DEF WriteAnswers
  <2>6. answers' \in [Session -> SUBSET Edit]
    BY <1>1, <2>4, <2>5 DEF UploadsOk, CreationTypeOK, TypeOK
  <2>7. TypeOK'
    BY <2>5, <2>6 DEF UploadsOk, CreationTypeOK, TypeOK
  <2>8. torn' \in [Session -> BOOLEAN] /\ open' \in [Session -> SUBSET Upload]
    BY <1>1, <2>5 DEF UploadsOk, CreationTypeOK
  <2>9. CreationTypeOK'
    BY <2>3, <2>5, <2>7, <2>8 DEF UploadsOk, CreationTypeOK
  <2>10. /\ \A r \in Session : torn'[r] => torn[r]
         /\ \A r \in Session : torn'[r] => open'[r] = open[r]
         /\ torn'[s] => u \notin open[s]
    BY <1>1, <2>5 DEF UploadsOk, CreationTypeOK
  <2>11. ASSUME NEW v \in Upload PROVE UploadOk(v)'
    <3>1. up[v].id \in Session /\ UploadOk(v) /\ UploadOk(u)
      BY DEF UploadsOk, CreationTypeOK, Uploading
    <3> QED
      BY <2>1, <2>3, <2>4, <2>5, <2>10, <3>1 DEF UploadOk, Placed
  <2>12. \A v, w \in Upload : Apart(v, w)'
    BY <2>1, <2>3, <2>4, <2>5 DEF UploadsOk, Apart, Placed
  <2> QED
    BY <2>9, <2>11, <2>12 DEF UploadsOk
<1> QED
  BY <1>2, <1>3, <1>4, <1>5

\* The steps that rewrite the summary.
LEMMA SummaryInv ==
    ASSUME UploadsOk, NEW u \in Upload, OpenSession(u) \/ WriteSession(u)
    PROVE  UploadsOk'
<1> DEFINE s == up[u].id
<1>1. s \in Session
  BY DEF UploadsOk, CreationTypeOK, Uploading
<1>2. /\ up' \in [Upload -> Uploading]
      /\ \/ up[u].at = "saving" /\ up'[u].at = "finishing"
         \/ up[u].at = "finishing" /\ up'[u].at = "told"
      /\ up'[u].id = s
      /\ \A v \in Upload \ {u} : up'[v] = up[v]
  BY StepTyped DEF UploadsOk, UploadAt, OpenSession, WriteSession
<1>3. /\ \/ home' = home /\ up'[u].at = "finishing"
         \/ home' = [home EXCEPT ![s] = "home"]
      /\ \/ summary' = [summary EXCEPT ![s] = "torn"]
         \/ summary' = [summary EXCEPT ![s] = "whole"]
      /\ UNCHANGED <<locks, guard, owner, req, requests, answers, acked>>
      /\ UNCHANGED <<clock, staged, nested, torn, open>>
  BY <1>2 DEF OpenSession, WriteSession, Step
<1>4. TypeOK'
  BY <1>1, <1>3 DEF UploadsOk, CreationTypeOK, TypeOK
<1>5. CreationTypeOK'
  BY <1>1, <1>2, <1>3, <1>4 DEF UploadsOk, CreationTypeOK
<1>6. /\ \A r \in Session : home[r] # "absent" => home'[r] # "absent"
      /\ \A r \in Session : home[r] = "home" => home'[r] = "home"
      /\ up'[u].at = "told" => home'[s] = "home"
  BY <1>1, <1>2, <1>3 DEF UploadsOk, CreationTypeOK
<1>7. ASSUME NEW v \in Upload PROVE UploadOk(v)'
  <2>1. up[v].id \in Session /\ UploadOk(v)
    BY DEF UploadsOk, CreationTypeOK, Uploading
  <2> QED
    BY <1>2, <1>3, <1>6, <2>1 DEF UploadOk, Placed
<1>8. \A v, w \in Upload : Apart(v, w)'
  BY <1>2, <1>3 DEF UploadsOk, Apart, Placed
<1> QED
  BY <1>5, <1>7, <1>8 DEF UploadsOk

-----------------------------------------------------------------------------
(***************************************************************************)
(* The requests next to the uploads.                                       *)
(***************************************************************************)

\* A step that leaves the uploads alone.
LEMMA SameUploads ==
    ASSUME UploadsOk, TypeOK', UNCHANGED created
    PROVE  UploadsOk'
BY DEF UploadsOk, CreationTypeOK, created, UploadOk, Apart

\* A saved document is whole, whoever had the old one open.
LEMMA ReplaceUploads ==
    ASSUME UploadsOk, TypeOK', NEW t \in Thread, ReplaceAnswers(t)
    PROVE  UploadsOk'
<1>1. req[t].session \in Session
  BY DEF UploadsOk, CreationTypeOK, TypeOK, Request
<1>2. /\ torn' = [torn EXCEPT ![req[t].session] = FALSE]
      /\ open' = [open EXCEPT ![req[t].session] = {}]
      /\ UNCHANGED <<clock, up, staged, home, nested>>
  BY DEF ReplaceAnswers
<1>3. CreationTypeOK'
  BY <1>1, <1>2 DEF UploadsOk, CreationTypeOK
<1>4. \A r \in Session : torn'[r] => torn[r] /\ open'[r] = open[r]
  BY <1>1, <1>2 DEF UploadsOk, CreationTypeOK
<1>5. ASSUME NEW v \in Upload PROVE UploadOk(v)'
  <2>1. up[v].id \in Session /\ UploadOk(v)
    BY DEF UploadsOk, CreationTypeOK, Uploading
  <2> QED
    BY <1>2, <1>4, <2>1 DEF UploadOk, Placed
<1>6. \A v, w \in Upload : Apart(v, w)'
  BY <1>2 DEF UploadsOk, Apart
<1> QED
  BY <1>3, <1>5, <1>6 DEF UploadsOk

\* After a restart an upload has told its owner, or is over, or not begun.
LEMMA RestartUploads ==
    ASSUME UploadsOk, TypeOK', RestartAll
    PROVE  /\ UploadsOk'
           /\ \A v \in Upload : up[v].at = "told" => up'[v] = up[v]
<1>1. /\ up' = [v \in Upload |-> IF up[v].at \in {"new", "told"} THEN up[v] ELSE Failed]
      /\ UNCHANGED <<clock, staged, home, nested, torn, open>>
  BY DEF RestartAll
<1>2. CreationTypeOK'
  BY <1>1, BlankTyped DEF UploadsOk, CreationTypeOK
<1>3. ASSUME NEW v \in Upload
      PROVE  \/ up'[v] = up[v]
             \/ up'[v].at = "failed"
  BY <1>1 DEF Failed, Blank
<1>4. ASSUME NEW v \in Upload PROVE UploadOk(v)'
  <2>1. UploadOk(v)
    BY DEF UploadsOk
  <2> QED
    BY <1>1, <1>3, <2>1 DEF UploadOk, Placed
<1>5. ASSUME NEW v \in Upload, NEW w \in Upload PROVE Apart(v, w)'
  <2>1. Apart(v, w)
    BY DEF UploadsOk
  <2> QED
    BY <1>1, <1>3, <2>1 DEF Apart, Placed
<1> QED
  BY <1>1, <1>2, <1>4, <1>5 DEF UploadsOk

\* Every step of an upload keeps what is known of the uploads, and nobody is
\* untold of a session.
LEMMA CreateUploads ==
    ASSUME UploadsOk, NEW u \in Upload, Create_(u)
    PROVE  /\ UploadsOk'
           /\ \A v \in Upload : up[v].at = "told" => up'[v] = up[v]
<1>1. UploadsOk'
  <2>1. CASE FailUpload(u)
    BY <2>1, FailedInv DEF FailUpload
  <2> QED
    BY <2>1, MakeDirInv, MoveInv, RewriteInv, SummaryInv DEF Create_
<1>2. up[u].at # "told"
  BY DEF Create_, MakeDir, Move, ReadAnswers, OpenAnswers, WriteAnswers, OpenSession,
     WriteSession, FailUpload, Step
<1>3. \A v \in Upload \ {u} : up'[v] = up[v]
  BY DEF UploadsOk, CreationTypeOK, Create_, MakeDir, Move, ReadAnswers, OpenAnswers,
     WriteAnswers, OpenSession, WriteSession, FailUpload, Step
<1> QED
  BY <1>1, <1>2, <1>3

\* An upload leaves the locks and the requests alone.
LEMMA CreateLocks ==
    ASSUME LockInv, NEW u \in Upload, Create_(u), TypeOK'
    PROVE  LockInv' /\ UNCHANGED <<req, acked>>
<1>1. UNCHANGED <<locks, guard, owner, req, acked>>
  BY DEF Create_, MakeDir, Move, ReadAnswers, OpenAnswers, WriteAnswers, OpenSession,
     WriteSession, FailUpload, vars, files
<1> QED
  BY <1>1 DEF LockInv, RequestOk, Inside, OneLockEach, RegistryActive

\* While an upload rewrites the answers, nobody asks for the session: no other
\* upload told of it.
LEMMA CreateData ==
    ASSUME UploadsOk, AskedKnown, NEW u \in Upload, Create_(u),
           UNCHANGED <<req, acked>>, NEW s \in Session, Unshared(s)
    PROVE  Unshared(s)'
<1>1. nested[s] => nested'[s]
  BY DEF Create_, UploadsOk, CreationTypeOK, MakeDir, Move, ReadAnswers, OpenAnswers,
     WriteAnswers, OpenSession, WriteSession, FailUpload
<1>2. CASE answers'[s] = answers[s]
  BY <1>1, <1>2 DEF Unshared, DataOk
<1>3. CASE answers'[s] # answers[s]
  <2>1. WriteAnswers(u)
    BY <1>3 DEF Create_, MakeDir, Move, ReadAnswers, OpenAnswers, OpenSession,
       WriteSession, FailUpload, vars, files
  <2>2. up[u].at = "rewriting" /\ up[u].id = s
    BY <1>3, <2>1 DEF WriteAnswers, UploadsOk, CreationTypeOK, TypeOK
  <2>3. ~nested[s] => ~Known(s)
    BY <2>2 DEF Known, UploadsOk, Apart, Placed
  <2>4. ~nested[s] => acked[s] = {} /\ \A t \in Thread : req[t].session = s => req[t].at = "idle"
    BY <2>3 DEF AskedKnown
  <2> QED
    BY <1>1, <2>4 DEF Unshared, DataOk, Written
<1> QED
  BY <1>2, <1>3

\* What a request does next to the uploads: a step of SessionLocks, or the
\* refusal of a document that is cut off.
Refuse(t) ==
    /\ Go(t, "loading", "closing")
    /\ UNCHANGED <<locks, guard, owner, requests, files>>
Requesting ==
    \/ \E t \in Thread : (\E s \in Session : AskKnown(t, s)) \/ EnterKnown(t) \/ ServeKnown(t)
    \/ RestartAll

\* It is one of the two.
LEMMA RequestingSteps == Requesting => Next \/ \E t \in Thread : Refuse(t)
BY DEF Requesting, AskKnown, EnterKnown, ServeKnown, LoadWhole, ReplaceAnswers, RestartAll,
   Next, Serve, Refuse

\* The refusal keeps the order of the requests and what they know.
LEMMA RefuseInv ==
    ASSUME LockInv, NEW t \in Thread, Refuse(t)
    PROVE  LockInv' /\ \A s \in Session : DataOk(s) => DataOk(s)'
<1>1. /\ req' \in [Thread -> Request] /\ req[t] \in Request
      /\ req'[t] = [req[t] EXCEPT !.at = "closing"] /\ req[t].at = "loading"
      /\ \A u \in Thread \ {t} : req'[u] = req[u]
  BY Went DEF LockInv, TypeOK, Refuse, At
<1>2. /\ req'[t].at = "closing" /\ req'[t].session = req[t].session
      /\ req'[t].edit = req[t].edit /\ req'[t].lock = req[t].lock
  BY <1>1 DEF Request
<1>3. UNCHANGED <<locks, guard, owner, requests, answers, summary, acked>>
  BY DEF Refuse, files
<1>4. LockInv'
  <2>1. /\ answers' \in [Session -> SUBSET Edit] /\ acked' \in [Session -> SUBSET Edit]
        /\ summary' \in [Session -> {"whole", "torn"}]
    BY <1>3 DEF LockInv, TypeOK
  <2>2. Inside(t) /\ "closing" \in Holding \ {"waiting"}
    BY <1>1 DEF Inside, Holding, At
  <2> QED
    BY <1>1, <1>2, <1>3, <2>1, <2>2, StaysInside
<1>5. ASSUME NEW s \in Session, DataOk(s) PROVE DataOk(s)'
  BY <1>1, <1>2, <1>3, <1>5 DEF DataOk, Written
<1> QED
  BY <1>4, <1>5

\* A request is of a session that was told of, and so is what it tells.
LEMMA RequestingKnown ==
    ASSUME LockInv, AskedKnown, Requesting,
           \A v \in Upload : up[v].at = "told" => up'[v] = up[v]
    PROVE  AskedKnown'
<1>1. \A s : Known(s) => Known(s)'
  BY DEF Known
<1>2. ASSUME NEW t \in Thread, req'[t].at # "idle"
      PROVE  Known(req'[t].session)
  <2>1. CASE req'[t] = req[t]
    BY <1>2, <2>1 DEF AskedKnown
  <2>2. CASE \E s \in Session : AskKnown(t, s)
    <3>1. PICK s \in Session : AskKnown(t, s)
      BY <2>2
    <3>2. req'[t].session = s /\ Known(s)
      BY <3>1 DEF LockInv, TypeOK, AskKnown, Ask, Known
    <3> QED
      BY <3>2
  <2>3. CASE /\ req'[t] # req[t]
             /\ EnterKnown(t) \/ ServeKnown(t)
    <3>1. req[t] \in Request /\ req[t].at # "idle"
      BY <2>3 DEF LockInv, TypeOK, EnterKnown, Enter, EnterGuard, Lookup, Create, Acquire, Go,
         ServeKnown, LoadWhole, Load, ReplaceAnswers, SaveAnswers, Read, OpenSummary,
         WriteSummary, Reply, Fail, Release, Inside
    <3>2. req'[t].session = req[t].session \/ req'[t] = NoRequest
      BY <2>3, <3>1 DEF LockInv, TypeOK, Request, EnterKnown, Enter, EnterGuard, Lookup, Refer,
         Create, Acquire, Go, ServeKnown, LoadWhole, Load, ReplaceAnswers, SaveAnswers, Read,
         OpenSummary, WriteSummary, Reply, Fail, Release
    <3> QED
      BY <1>2, <3>1, <3>2 DEF AskedKnown, NoRequest
  <2>4. CASE RestartAll
    BY <1>2, <2>4 DEF RestartAll, Restart, NoRequest
  <2>5. CASE \E u \in Thread \ {t} : (\E s \in Session : AskKnown(u, s)) \/ EnterKnown(u) \/ ServeKnown(u)
    <3>1. req'[t] = req[t]
      BY <2>5 DEF LockInv, TypeOK, AskKnown, Ask, EnterKnown, Enter, EnterGuard, Lookup, Refer,
         Create, Acquire, Go, ServeKnown, LoadWhole, Load, ReplaceAnswers, SaveAnswers, Read,
         OpenSummary, WriteSummary, Reply, Fail, Release
    <3> QED
      BY <2>1, <3>1
  <2> QED
    BY <2>1, <2>2, <2>3, <2>4, <2>5 DEF Requesting
<1>3. ASSUME NEW s \in Session, acked'[s] # {}
      PROVE  Known(s)
  <2>1. CASE acked'[s] = acked[s]
    BY <1>3, <2>1 DEF AskedKnown
  <2>2. CASE acked'[s] # acked[s]
    <3>1. PICK t \in Thread : Reply(t)
      BY <2>2 DEF Requesting, AskKnown, Ask, EnterKnown, Enter, EnterGuard, Lookup, Create,
         Acquire, ServeKnown, LoadWhole, Load, ReplaceAnswers, SaveAnswers, Read, OpenSummary,
         WriteSummary, Fail, Release, RestartAll, Restart, files
    <3>2. req[t].at = "replying" /\ req[t].session = s
      BY <2>2, <3>1 DEF LockInv, TypeOK, Reply, Go
    <3> QED
      BY <3>2 DEF AskedKnown
  <2> QED
    BY <2>1, <2>2
<1> QED
  BY <1>1, <1>2, <1>3 DEF AskedKnown

\* Nor does a request touch what an upload knows.
LEMMA RequestingUploads ==
    ASSUME UploadsOk, TypeOK', Requesting
    PROVE  /\ UploadsOk' /\ nested' = nested
           /\ \A v \in Upload : up[v].at = "told" => up'[v] = up[v]
<1>1. CASE RestartAll
  BY <1>1, RestartUploads DEF RestartAll
<1>2. CASE \E t \in Thread : ReplaceAnswers(t)
  BY <1>2, ReplaceUploads DEF ReplaceAnswers
<1>3. CASE UNCHANGED created
  BY <1>3, SameUploads DEF created
<1> QED
  BY <1>1, <1>2, <1>3 DEF Requesting, AskKnown, EnterKnown, ServeKnown, LoadWhole

-----------------------------------------------------------------------------
\* The initial states satisfy the invariant: no upload has begun.
LEMMA CreationInitInv == CreationInit => CreationInv
<1> SUFFICES ASSUME CreationInit PROVE CreationInv
  OBVIOUS
<1>1. LockInv /\ TypeOK
  BY InitInv DEF CreationInit, LockInv
<1>2. \A u \in Upload : up[u].at = "new"
  BY DEF CreationInit, Blank
<1>3. CreationTypeOK
  BY <1>1, BlankTyped DEF CreationInit, CreationTypeOK
<1>4. UploadsOk
  BY <1>2, <1>3 DEF UploadsOk, UploadOk, Apart, Placed
<1>5. AskedKnown
  BY DEF CreationInit, Init, AskedKnown, NoRequest
<1>6. \A s \in Session : Unshared(s)
  BY DEF CreationInit, Init, Unshared, DataOk, NoRequest, Written
<1> QED
  BY <1>1, <1>4, <1>5, <1>6 DEF CreationInv

\* Every step of an upload, of a request or of the server keeps it.
LEMMA CreationStep == CreationInv /\ [CreationNext]_CreationVars => CreationInv'
<1> SUFFICES ASSUME CreationInv, [CreationNext]_CreationVars PROVE CreationInv'
  OBVIOUS
<1>1. ASSUME NEW u \in Upload, Create_(u) PROVE CreationInv'
  <2>1. UploadsOk' /\ \A v \in Upload : up[v].at = "told" => up'[v] = up[v]
    BY <1>1, CreateUploads DEF CreationInv
  <2>2. LockInv' /\ UNCHANGED <<req, acked>>
    BY <1>1, <2>1, CreateLocks DEF CreationInv, UploadsOk, CreationTypeOK
  <2>3. AskedKnown'
    BY <2>1, <2>2 DEF CreationInv, AskedKnown, Known
  <2>4. \A s \in Session : Unshared(s)'
    BY <1>1, <2>2, CreateData DEF CreationInv
  <2> QED
    BY <2>1, <2>2, <2>3, <2>4 DEF CreationInv
<1>2. CASE Requesting
  <2>1. LockInv' /\ \A s \in Session : DataOk(s) => DataOk(s)'
    BY <1>2, RequestingSteps, StepInv, StepData, RefuseInv DEF CreationInv
  <2>2. /\ UploadsOk' /\ nested' = nested
        /\ \A v \in Upload : up[v].at = "told" => up'[v] = up[v]
    BY <1>2, <2>1, RequestingUploads DEF CreationInv, LockInv
  <2>3. AskedKnown'
    BY <1>2, <2>2, RequestingKnown DEF CreationInv
  <2>4. \A s \in Session : Unshared(s)'
    BY <2>1, <2>2 DEF CreationInv, Unshared
  <2> QED
    BY <2>1, <2>2, <2>3, <2>4 DEF CreationInv
<1>3. CASE UNCHANGED CreationVars
  <2>1. UNCHANGED vars /\ UNCHANGED created
    BY <1>3 DEF CreationVars
  <2>2. LockInv' /\ \A s \in Session : DataOk(s) => DataOk(s)'
    BY <2>1, StepInv, StepData DEF CreationInv
  <2>3. UploadsOk' /\ UNCHANGED <<up, nested, req, acked>>
    BY <2>1, <2>2, SameUploads DEF CreationInv, LockInv, created, vars
  <2> QED
    BY <2>2, <2>3 DEF CreationInv, AskedKnown, Known, Unshared
<1> QED
  BY <1>1, <1>2, <1>3 DEF CreationNext, Requesting

\* Every reachable state satisfies the inductive invariant.
THEOREM CreationInductive == CreationSpec => []CreationInv
  BY CreationInitInv, CreationStep, PTL DEF CreationSpec

\* Every reachable state of the uploads and the requests is well typed
\* (create_intake_session, create_intake_session_for_user, do_POST).
THEOREM CreationTypeCorrect == CreationSpec => []CreationTypeOK
<1>1. CreationInv => CreationTypeOK
  BY DEF CreationInv, UploadsOk
<1> QED
  BY <1>1, CreationInductive, PTL

\* With sessions being made, still one request of a session at a time is
\* between acquire and release (_session_lock).
THEOREM CreationExcludes == CreationSpec => []OneInside
<1>1. CreationInv => OneInside
  BY Excluded DEF CreationInv
<1> QED
  BY <1>1, CreationInductive, PTL

\* The session of an upload that is not done was told of by nobody.
LEMMA NotYetKnown ==
    ASSUME UploadsOk, NEW u \in Upload, up[u].at \in Placed \ {"told"}, ~nested[up[u].id]
    PROVE  ~Known(up[u].id)
  BY DEF UploadsOk, Apart, Placed, Known

\* session.json of a session that was made once has one user at a time: the
\* requests have the lock (_session_lock), and the upload, which has none, is
\* done with the file before it tells anybody of the session.
THEOREM ReadsSettled == CreationSpec => []NoTornRead
<1>1. ASSUME CreationInv, NEW s \in Session, ~nested[s], NEW a \in UsersOf(s), NEW b \in UsersOf(s)
      PROVE  a = b
  <2>1. ASSUME NEW t \in Thread, NEW u \in Upload, req[t].session = s,
               req[t].at \in {"loading", "writing"}, up[u].id = s, up[u].at = "finishing"
        PROVE  FALSE
    <3>1. Known(s)
      BY <1>1, <2>1 DEF CreationInv, AskedKnown
    <3>2. ~Known(s)
      BY <1>1, <2>1, NotYetKnown DEF CreationInv, Placed
    <3> QED
      BY <3>1, <3>2
  <2>2. ASSUME NEW t \in Thread, NEW u \in Thread, req[t].session = s, req[u].session = s,
               req[t].at \in {"loading", "writing"}, req[u].at \in {"loading", "writing"}
        PROVE  t = u
    BY <1>1, <2>2, Excluded DEF CreationInv, OneInside, Inside
  <2>3. ASSUME NEW u \in Upload, NEW v \in Upload, up[u].id = s, up[v].id = s,
               up[u].at = "finishing", up[v].at = "finishing"
        PROVE  u = v
    BY <1>1, <2>3 DEF CreationInv, UploadsOk, Apart, Placed
  <2> QED
    BY <1>1, <2>1, <2>2, <2>3 DEF UsersOf
<1>2. CreationInv => NoTornRead
  BY <1>1 DEF NoTornRead
<1> QED
  BY <1>2, CreationInductive, PTL

\* _relocate_paths, which takes no lock, never takes an acknowledged edit out of
\* a session that was made once.
THEOREM RelocationKeeps == CreationSpec => []KeptUnlessShared
<1>1. ASSUME CreationInv, NEW s \in Session, ~nested[s]
      PROVE  acked[s] \subseteq answers[s] /\ (acked[s] # {} => ~torn[s])
  <2>1. acked[s] \subseteq answers[s]
    BY <1>1 DEF CreationInv, Unshared, DataOk
  <2>2. acked[s] # {} => ~torn[s]
    BY <1>1 DEF CreationInv, AskedKnown, Known, UploadsOk, UploadOk
  <2> QED
    BY <2>1, <2>2
<1>2. CreationInv => KeptUnlessShared
  BY <1>1 DEF KeptUnlessShared
<1> QED
  BY <1>2, CreationInductive, PTL

\* create_intake_session_for_user tells of a session when all of it names its
\* own place.
THEOREM ToldWhenWhole == CreationSpec => []ToldIsWhole
<1>1. CreationInv => ToldIsWhole
  BY DEF CreationInv, UploadsOk, UploadOk, ToldIsWhole
<1> QED
  BY <1>1, CreationInductive, PTL

\* Two uploads have one session only by nesting: shutil.move puts the second
\* directory into the first.
THEOREM SharedMeansNested == CreationSpec => []SharedIsNested
<1>1. CreationInv => SharedIsNested
  BY DEF CreationInv, UploadsOk, Apart, Placed, SharedIsNested
<1> QED
  BY <1>1, CreationInductive, PTL

-----------------------------------------------------------------------------
(***************************************************************************)
(* The requests of a session take turns (SerialSessions).                  *)
(***************************************************************************)

\* What an upload that has not told of its session finds there and puts back:
\* no edit at all, unless the session is shared.
Untouched ==
    /\ \A s \in Session : ~nested[s] /\ ~Known(s) => answers[s] = {}
    /\ \A u \in Upload :
          up[u].at \in {"opening", "rewriting"} /\ ~nested[up[u].id] => up[u].copy = {}

\* An upload finds no edit, and puts back what it found.
LEMMA CreateUntouched ==
    ASSUME UploadsOk, Untouched, NEW u \in Upload, Create_(u),
           \A v \in Upload : up[v].at = "told" => up'[v] = up[v]
    PROVE  Untouched'
<1>1. \A s \in Session : nested[s] => nested'[s]
  BY DEF Create_, UploadsOk, CreationTypeOK, MakeDir, Move, ReadAnswers, OpenAnswers,
     WriteAnswers, OpenSession, WriteSession, FailUpload
<1>2. \A s \in Session : Known(s) => Known(s)'
  BY DEF Known
<1>3. up[u] \in Uploading /\ up[u].id \in Session
  BY DEF UploadsOk, CreationTypeOK, Uploading
<1>4. ASSUME NEW s \in Session, ~nested[s], ~Known(s) PROVE answers'[s] = {}
  <2>1. answers[s] = {}
    BY <1>4 DEF Untouched
  <2>2. CASE WriteAnswers(u)
    <3>1. up[u].id = s => up[u].copy = {}
      BY <1>4, <2>2 DEF WriteAnswers, Untouched
    <3> QED
      BY <2>1, <2>2, <3>1 DEF WriteAnswers, UploadsOk, CreationTypeOK, TypeOK
  <2>3. CASE ~WriteAnswers(u)
    BY <2>1, <2>3 DEF Create_, MakeDir, Move, ReadAnswers, OpenAnswers, OpenSession,
       WriteSession, FailUpload, vars, files
  <2> QED
    BY <2>2, <2>3
<1>5. ASSUME NEW v \in Upload, up'[v].at \in {"opening", "rewriting"}, ~nested'[up'[v].id]
      PROVE  up'[v].copy = {}
  <2>1. CASE up'[v] = up[v]
    BY <1>1, <1>5, <2>1 DEF UploadsOk, CreationTypeOK, Uploading, Untouched
  <2>2. CASE v = u /\ ReadAnswers(u)
    <3>1. up'[u] = Failed \/ up'[u] = [up[u] EXCEPT !.at = "opening", !.copy = answers[up[u].id]]
      BY <2>2 DEF ReadAnswers, UploadsOk, CreationTypeOK
    <3>2. up'[u].id = up[u].id /\ up'[u].copy = answers[up[u].id]
      BY <1>3, <1>5, <2>2, <3>1 DEF Failed, Blank, Uploading
    <3>3. ~nested[up[u].id]
      BY <1>1, <1>3, <1>5, <2>2, <3>2
    <3>4. ~Known(up[u].id)
      BY <2>2, <3>3, NotYetKnown DEF ReadAnswers, Placed
    <3> QED
      BY <1>3, <2>2, <3>2, <3>3, <3>4 DEF Untouched
  <2>3. CASE v = u /\ OpenAnswers(u)
    <3>1. up'[u] = [up[u] EXCEPT !.at = "rewriting"] /\ up[u].at = "opening"
      BY <2>3 DEF OpenAnswers, Step, UploadsOk, CreationTypeOK
    <3>2. up'[u].id = up[u].id /\ up'[u].copy = up[u].copy
      BY <1>3, <3>1 DEF Uploading
    <3> QED
      BY <1>1, <1>3, <1>5, <2>3, <3>1, <3>2 DEF Untouched
  <2>4. CASE v = u /\ ~ReadAnswers(u) /\ ~OpenAnswers(u)
    <3>1. up'[u].at \notin {"opening", "rewriting"}
      BY <1>3, <2>4 DEF Create_, MakeDir, Move, WriteAnswers, OpenSession, WriteSession,
         FailUpload, Step, Failed, Blank, UploadsOk, CreationTypeOK, Uploading
    <3> QED
      BY <1>5, <2>4, <3>1
  <2>5. CASE v # u
    <3>1. up'[v] = up[v]
      BY <2>5 DEF UploadsOk, CreationTypeOK, Create_, MakeDir, Move, ReadAnswers, OpenAnswers,
         WriteAnswers, OpenSession, WriteSession, FailUpload, Step
    <3> QED
      BY <2>1, <3>1
  <2> QED
    BY <2>2, <2>3, <2>4, <2>5
<1> QED
  BY <1>1, <1>2, <1>4, <1>5 DEF Untouched

\* A request is of a session that was told of.
LEMMA RequestingUntouched ==
    ASSUME LockInv, UploadsOk, AskedKnown, Untouched, Requesting, nested' = nested,
           \A v \in Upload : up[v].at = "told" => up'[v] = up[v]
    PROVE  Untouched'
<1>1. \A s \in Session : Known(s) => Known(s)'
  BY DEF Known
<1>2. ASSUME NEW s \in Session, answers'[s] # answers[s] PROVE Known(s)
  <2>1. PICK t \in Thread : SaveAnswers(t)
    BY <1>2 DEF Requesting, AskKnown, Ask, EnterKnown, Enter, EnterGuard, Lookup, Create,
       Acquire, ServeKnown, LoadWhole, Load, ReplaceAnswers, Read, OpenSummary, WriteSummary,
       Reply, Fail, Release, RestartAll, Restart, files
  <2>2. req[t].session = s /\ req[t].at = "serving"
    BY <1>2, <2>1 DEF SaveAnswers, Go, LockInv, TypeOK
  <2> QED
    BY <2>2 DEF AskedKnown
<1>3. \A v \in Upload : up'[v] = up[v] \/ up'[v].at = "failed"
  BY DEF Requesting, AskKnown, EnterKnown, ServeKnown, LoadWhole, ReplaceAnswers, RestartAll,
     created, Failed, Blank
<1> QED
  BY <1>1, <1>2, <1>3 DEF Untouched

\* So it is in every reachable state.
LEMMA UntouchedInvariance == CreationSpec => []Untouched
<1>1. CreationInit => Untouched
  BY DEF CreationInit, Init, Blank, Untouched
<1>2. ASSUME CreationInv, Untouched, [CreationNext]_CreationVars PROVE Untouched'
  <2>1. ASSUME NEW u \in Upload, Create_(u) PROVE Untouched'
    BY <1>2, <2>1, CreateUploads, CreateUntouched DEF CreationInv
  <2>2. CASE Requesting
    <3>1. LockInv'
      BY <1>2, <2>2, RequestingSteps, StepInv, RefuseInv DEF CreationInv
    <3> QED
      BY <1>2, <2>2, <3>1, RequestingUploads, RequestingUntouched DEF CreationInv, LockInv
  <2>3. CASE UNCHANGED CreationVars
    BY <1>2, <2>3 DEF CreationVars, created, vars, files, Untouched, Known
  <2> QED
    BY <1>2, <2>1, <2>2, <2>3 DEF CreationNext, Requesting
<1> QED
  BY <1>1, <1>2, CreationInductive, PTL DEF CreationSpec

-----------------------------------------------------------------------------
TurnOf(t) == [by |-> t, edit |-> req[t].edit]
Turns == [s \in Session |-> TurnsOf(s)]

\* A request that is under its lock has a turn of its own.
LEMMA TurnTyped ==
    ASSUME LockInv, NEW t \in Thread, req[t].at # "idle"
    PROVE  TurnOf(t) \in Serial!Turn
  BY DEF LockInv, RequestOk, TurnOf, Serial!Turn

\* A step in which the same requests stay under their locks changes no turn.
LEMMA TurnsStay ==
    ASSUME \A t \in Thread : Inside(t)' <=> Inside(t),
           \A t \in Thread : Inside(t) =>
               req'[t].session = req[t].session /\ req'[t].edit = req[t].edit
    PROVE  Turns' = Turns
<1>1. ASSUME NEW s \in Session PROVE TurnsOf(s)' = TurnsOf(s)
  BY <1>1 DEF TurnsOf
<1> QED
  BY <1>1 DEF Turns

\* Getting the lock begins a turn: the owner of a lock that every request of the
\* session agrees on has the only one.
LEMMA AcquireBegins ==
    ASSUME LockInv, NEW t \in Thread, Acquire(t), UNCHANGED nested
    PROVE  Serial!Begin(req[t].session, TurnOf(t))
<1> DEFINE s == req[t].session
<1>1. /\ req'[t] = [req[t] EXCEPT !.at = "loading"] /\ req[t].at = "waiting"
      /\ \A u \in Thread \ {t} : req'[u] = req[u]
  BY Went DEF LockInv, Acquire, At, Go
<1>2. /\ req'[t].at = "loading" /\ req'[t].session = s /\ req'[t].edit = req[t].edit
      /\ s \in Session
  BY <1>1 DEF LockInv, TypeOK, Request
<1>3. ASSUME NEW u \in Thread, Inside(u), req[u].session = s PROVE FALSE
  <2>1. req[u].lock = locks[s] /\ owner[req[u].lock] = u
    BY <1>3 DEF LockInv, RequestOk, Inside, Holding, At
  <2>2. req[t].lock = locks[s] /\ owner[req[t].lock] = NoThread
    BY <1>1 DEF LockInv, RequestOk, Holding, At, Acquire
  <2> QED
    BY <2>1, <2>2, LocksAssumption
<1>4. TurnsOf(s) = {}
  BY <1>3 DEF TurnsOf
<1>5. ASSUME NEW r \in Session PROVE TurnsOf(r)' = IF r = s THEN {TurnOf(t)} ELSE TurnsOf(r)
  <2>1. Inside(t)' /\ ~Inside(t) /\ \A u \in Thread \ {t} : Inside(u)' <=> Inside(u)
    BY <1>1, <1>2 DEF Inside
  <2>2. \A u \in Thread : TurnOf(u)' = TurnOf(u) /\ req'[u].session = req[u].session
    BY <1>1, <1>2 DEF TurnOf
  <2>3. CASE r = s
    BY <1>3, <2>1, <2>2, <2>3 DEF TurnsOf, TurnOf
  <2>4. CASE r # s
    BY <2>1, <2>2, <2>4 DEF TurnsOf, TurnOf
  <2> QED
    BY <2>3, <2>4
<1>6. Turns[s] = {} /\ Turns' = [Turns EXCEPT ![s] = {TurnOf(t)}]
  BY <1>2, <1>4, <1>5 DEF Turns
<1> QED
  BY <1>6 DEF Turns, Acquire, files, Serial!Begin

\* Giving it back ends it.
LEMMA ReleaseEnds ==
    ASSUME LockInv, NEW t \in Thread, Release(t), UNCHANGED nested
    PROVE  Serial!End(req[t].session, TurnOf(t))
<1> DEFINE s == req[t].session
<1>1. /\ req'[t] = NoRequest /\ req[t].at = "closing" /\ s \in Session
      /\ \A u \in Thread \ {t} : req'[u] = req[u]
  BY DEF LockInv, TypeOK, Request, Release
<1>2. Inside(t) /\ ~Inside(t)' /\ \A u \in Thread \ {t} : Inside(u)' <=> Inside(u)
  BY <1>1 DEF Inside, NoRequest
<1>3. TurnOf(t) \in TurnsOf(s)
  BY <1>1, <1>2 DEF TurnsOf, TurnOf
<1>4. \A u \in Thread \ {t} : TurnOf(u) # TurnOf(t)
  BY DEF TurnOf
<1>5. ASSUME NEW r \in Session
      PROVE  TurnsOf(r)' = IF r = s THEN TurnsOf(s) \ {TurnOf(t)} ELSE TurnsOf(r)
  <2>1. \A u \in Thread \ {t} : TurnOf(u)' = TurnOf(u)
    BY <1>1 DEF TurnOf
  <2>2. CASE r = s
    BY <1>1, <1>2, <1>4, <2>1, <2>2 DEF TurnsOf, TurnOf
  <2>3. CASE r # s
    BY <1>1, <1>2, <2>1, <2>3 DEF TurnsOf, TurnOf
  <2> QED
    BY <2>2, <2>3
<1>6. Turns' = [Turns EXCEPT ![s] = @ \ {TurnOf(t)}] /\ TurnOf(t) \in Turns[s]
  BY <1>1, <1>3, <1>5 DEF Turns
<1> QED
  BY <1>6 DEF Turns, Release, files, Serial!End

\* A request that goes from one step under its lock to another keeps its turn.
LEMMA StepsStay ==
    ASSUME LockInv, NEW t \in Thread, Inside(t),
           \A u \in Thread \ {t} : req'[u] = req[u],
           req'[t].at \in {"loading", "serving", "saved", "writing", "replying", "closing"},
           req'[t].session = req[t].session, req'[t].edit = req[t].edit
    PROVE  Turns' = Turns
<1>1. \A u \in Thread : Inside(u)' <=> Inside(u)
  BY DEF Inside
<1>2. \A u \in Thread : req'[u].session = req[u].session /\ req'[u].edit = req[u].edit
  OBVIOUS
<1> QED
  BY <1>1, <1>2, TurnsStay

\* What a request puts into the answers: its edit, next to all that was there;
\* in a shared session what it found when it loaded may be gone by now.
LEMMA SaveKeeps ==
    ASSUME LockInv, NEW t \in Thread, SaveAnswers(t), Unshared(req[t].session),
           nested \in [Session -> BOOLEAN], UNCHANGED nested
    PROVE  Serial!Keep(req[t].session, TurnOf(t)) \/ Serial!Disturb(req[t].session)
<1> DEFINE s == req[t].session
<1>1. /\ req[t].at = "serving" /\ req[t] \in Request /\ s \in Session
      /\ req'[t] = [req[t] EXCEPT !.at = "saved"]
      /\ \A u \in Thread \ {t} : req'[u] = req[u]
  BY DEF LockInv, TypeOK, Request, SaveAnswers, Go
<1>2. Inside(t) /\ req'[t].at = "saved" /\ req'[t].session = s /\ req'[t].edit = req[t].edit
  BY <1>1 DEF Inside, Request
<1>3. Turns' = Turns
  BY <1>1, <1>2, StepsStay
<1>4. /\ answers' = [answers EXCEPT ![s] = req[t].copy \cup {req[t].edit}]
      /\ acked' = acked
  BY DEF SaveAnswers
<1>5. CASE ~nested[s]
  <2>1. req[t].copy = answers[s]
    BY <1>1, <1>5 DEF Unshared, DataOk
  <2>2. TurnOf(t) \in Turns[s] /\ TurnOf(t).edit = req[t].edit
    BY <1>1, <1>2 DEF Turns, TurnsOf, TurnOf
  <2> QED
    BY <1>3, <1>4, <2>1, <2>2 DEF Turns, Serial!Keep
<1>6. CASE nested[s]
  <2>1. req[t].copy \cup {req[t].edit} \in SUBSET Edit
    BY <1>1 DEF LockInv, RequestOk, Request
  <2> QED
    BY <1>3, <1>4, <1>6, <2>1 DEF Turns, Serial!Disturb
<1> QED
  BY <1>5, <1>6

\* What it tells: its edit, when that is in there.
LEMMA ReplyTells ==
    ASSUME LockInv, NEW t \in Thread, Reply(t), Unshared(req[t].session),
           nested \in [Session -> BOOLEAN], UNCHANGED nested
    PROVE  Serial!Tell(req[t].session, TurnOf(t))
<1> DEFINE s == req[t].session
<1>1. /\ req[t].at = "replying" /\ req[t] \in Request /\ s \in Session
      /\ req'[t] = [req[t] EXCEPT !.at = "closing"]
      /\ \A u \in Thread \ {t} : req'[u] = req[u]
  BY DEF LockInv, TypeOK, Request, Reply, Go
<1>2. Inside(t) /\ req'[t].at = "closing" /\ req'[t].session = s /\ req'[t].edit = req[t].edit
  BY <1>1 DEF Inside, Request
<1>3. Turns' = Turns
  BY <1>1, <1>2, StepsStay
<1>4. TurnOf(t) \in Turns[s] /\ TurnOf(t).edit = req[t].edit
  BY <1>1, <1>2 DEF Turns, TurnsOf, TurnOf
<1>5. nested[s] \/ req[t].edit \in answers[s]
  BY <1>1 DEF Unshared, DataOk, Written
<1> QED
  BY <1>3, <1>4, <1>5 DEF Turns, Reply, Serial!Tell

\* The other steps of a request change no turn, no answers and nothing told.
LEMMA QuietTurns ==
    ASSUME LockInv, NEW t \in Thread,
           \/ \E s \in Session : Ask(t, s)
           \/ EnterGuard(t) \/ Lookup(t) \/ Create(t) \/ Load(t) \/ Read(t)
           \/ OpenSummary(t) \/ WriteSummary(t) \/ Fail(t) \/ Refuse(t)
    PROVE  Turns' = Turns /\ UNCHANGED <<answers, acked>>
<1>1. UNCHANGED <<answers, acked>>
  BY DEF Ask, EnterGuard, Lookup, Create, Load, Read, OpenSummary, WriteSummary, Fail,
     Refuse, files
<1>2. req[t] \in Request /\ \A u \in Thread \ {t} : req'[u] = req[u]
  BY DEF LockInv, TypeOK, Ask, EnterGuard, Lookup, Refer, Create, Load, Read,
     OpenSummary, WriteSummary, Fail, Refuse, Go
<1>3. CASE (\E s \in Session : Ask(t, s)) \/ EnterGuard(t) \/ Lookup(t) \/ Create(t)
  <2>1. ~Inside(t)
    BY <1>3 DEF Ask, EnterGuard, Lookup, Create, Go, Inside
  <2>2. ~Inside(t)'
    BY <1>2, <1>3 DEF LockInv, TypeOK, Ask, EnterGuard, Lookup, Refer, Create, Go,
       Inside, Request
  <2> QED
    BY <1>1, <1>2, <2>1, <2>2, TurnsStay DEF Inside
<1>4. CASE \/ Load(t) \/ Read(t) \/ OpenSummary(t) \/ WriteSummary(t) \/ Fail(t) \/ Refuse(t)
  <2>1. Inside(t)
    BY <1>4 DEF Load, Read, OpenSummary, WriteSummary, Fail, Refuse, Go, Inside
  <2>2. /\ req'[t].at \in {"loading", "serving", "saved", "writing", "replying", "closing"}
        /\ req'[t].session = req[t].session /\ req'[t].edit = req[t].edit
    BY <1>2, <1>4 DEF LockInv, TypeOK, Load, Read, OpenSummary, WriteSummary, Fail,
       Refuse, Go, Request
  <2> QED
    BY <1>1, <1>2, <2>1, <2>2, StepsStay
<1> QED
  BY <1>3, <1>4

\* An upload shares a session, puts its answers back, or shows in none.
LEMMA CreateShows ==
    ASSUME UploadsOk, Untouched, NEW u \in Upload, Create_(u), UNCHANGED <<req, acked>>
    PROVE  \/ Serial!Share(up[u].id)
           \/ Serial!Disturb(up[u].id)
           \/ UNCHANGED <<Turns, answers, acked, nested>>
<1> DEFINE s == up[u].id
<1>1. s \in Session /\ up[u] \in Uploading
  BY DEF UploadsOk, CreationTypeOK, Uploading
<1>2. Turns' = Turns
  BY TurnsStay DEF Inside
<1>3. CASE Move(u)
  <2>1. answers' = answers /\ (nested' = nested \/ nested' = [nested EXCEPT ![s] = TRUE])
    BY <1>3 DEF Move, vars, files
  <2> QED
    BY <1>2, <2>1 DEF Turns, Serial!Share
<1>4. CASE WriteAnswers(u)
  <2>1. nested' = nested
    BY <1>4 DEF WriteAnswers
  <2>2. CASE u \notin open[s]
    BY <1>2, <1>4, <2>1, <2>2 DEF WriteAnswers
  <2>3. CASE u \in open[s] /\ nested[s]
    <3>1. answers' = [answers EXCEPT ![s] = up[u].copy] /\ up[u].copy \in SUBSET Edit
      BY <1>1, <1>4, <2>3 DEF WriteAnswers, Uploading
    <3> QED
      BY <1>2, <2>1, <2>3, <3>1 DEF Turns, Serial!Disturb
  <2>4. CASE u \in open[s] /\ ~nested[s]
    <3>1. up[u].copy = {} /\ ~Known(s)
      BY <1>4, <2>4, NotYetKnown DEF WriteAnswers, Untouched, Placed
    <3>2. answers[s] = {} /\ answers' = [answers EXCEPT ![s] = {}]
      BY <1>1, <1>4, <2>4, <3>1 DEF WriteAnswers, Untouched
    <3>3. answers' = answers
      BY <3>2 DEF UploadsOk, CreationTypeOK, TypeOK
    <3> QED
      BY <1>2, <2>1, <3>3
  <2> QED
    BY <2>2, <2>3, <2>4
<1>5. CASE ~Move(u) /\ ~WriteAnswers(u)
  BY <1>2, <1>5 DEF Create_, MakeDir, ReadAnswers, OpenAnswers, OpenSession, WriteSession,
     FailUpload, vars, files
<1> QED
  BY <1>3, <1>4, <1>5

\* A restart ends every turn.
LEMMA RestartEnds == ASSUME Restart, UNCHANGED nested PROVE Serial!EndAll
<1>1. \A t \in Thread : ~Inside(t)'
  BY DEF Restart, NoRequest, Inside
<1>2. ASSUME NEW s \in Session PROVE TurnsOf(s)' = {}
  BY <1>1 DEF TurnsOf
<1>3. Turns' = [s \in Session |-> {}]
  BY <1>2 DEF Turns
<1> QED
  BY <1>3 DEF Turns, Restart, files, Serial!EndAll

\* Every step of a request is a step of its turn, or shows in none.
LEMMA RequestingShows ==
    ASSUME CreationInv, Requesting
    PROVE  Serial!Next \/ UNCHANGED <<Turns, answers, acked, nested>>
<1>1. /\ LockInv /\ nested \in [Session -> BOOLEAN] /\ nested' = nested
      /\ \A t \in Thread : req[t].session \in Session /\ Unshared(req[t].session)
  <2>1. LockInv /\ nested \in [Session -> BOOLEAN] /\ \A s \in Session : Unshared(s)
    BY DEF CreationInv, UploadsOk, CreationTypeOK
  <2>2. nested' = nested
    BY DEF Requesting, AskKnown, EnterKnown, ServeKnown, LoadWhole, ReplaceAnswers,
       RestartAll, created
  <2> QED
    BY <2>1, <2>2 DEF LockInv, TypeOK, Request
<1>2. CASE Restart
  BY <1>1, <1>2, RestartEnds DEF Serial!Next
<1>3. ASSUME NEW t \in Thread, Acquire(t) \/ SaveAnswers(t) \/ Reply(t) \/ Release(t)
      PROVE  Serial!Next
  <2>1. TurnOf(t) \in Serial!Turn
    <3>1. req[t].at # "idle"
      BY <1>3 DEF Acquire, SaveAnswers, Reply, Release, Go
    <3> QED
      BY <1>1, <3>1, TurnTyped
  <2>2. \/ Serial!Begin(req[t].session, TurnOf(t)) \/ Serial!Keep(req[t].session, TurnOf(t))
        \/ Serial!Tell(req[t].session, TurnOf(t)) \/ Serial!End(req[t].session, TurnOf(t))
        \/ Serial!Disturb(req[t].session)
    BY <1>1, <1>3, AcquireBegins, SaveKeeps, ReplyTells, ReleaseEnds
  <2> QED
    BY <1>1, <2>1, <2>2 DEF Serial!Next
<1>4. ASSUME NEW t \in Thread,
             \/ \E s \in Session : Ask(t, s)
             \/ EnterGuard(t) \/ Lookup(t) \/ Create(t) \/ Load(t) \/ Read(t)
             \/ OpenSummary(t) \/ WriteSummary(t) \/ Fail(t) \/ Refuse(t)
      PROVE  UNCHANGED <<Turns, answers, acked, nested>>
  BY <1>1, <1>4, QuietTurns
<1> QED
  BY <1>2, <1>3, <1>4, RequestingSteps DEF Next, Enter, Serve

\* The requests of a session take turns, in which each adds its own edit and
\* tells of it when it is in the answers: the server implements SerialSessions
\* (_session_lock, do_POST, create_intake_session_for_user).
THEOREM Implementation == CreationSpec => ImplementsSerialSessions
<1>1. CreationInit => Serial!Init
  <2> SUFFICES ASSUME CreationInit PROVE Serial!Init
    OBVIOUS
  <2>1. \A s \in Session : TurnsOf(s) = {}
    BY DEF CreationInit, Init, NoRequest, TurnsOf, Inside
  <2> QED
    BY <2>1 DEF CreationInit, Init, Serial!Init
<1>2. ASSUME CreationInv, Untouched, [CreationNext]_CreationVars
      PROVE  [Serial!Next]_(Serial!vars)
  <2>1. ASSUME UNCHANGED <<Turns, answers, acked, nested>> PROVE UNCHANGED Serial!vars
    BY <2>1 DEF Turns, Serial!vars
  <2>2. ASSUME NEW u \in Upload, Create_(u) PROVE [Serial!Next]_(Serial!vars)
    <3>1. UNCHANGED <<req, acked>> /\ up[u].id \in Session
      BY <1>2, <2>2 DEF Create_, MakeDir, Move, ReadAnswers, OpenAnswers, WriteAnswers,
         OpenSession, WriteSession, FailUpload, vars, files, CreationInv, UploadsOk, CreationTypeOK, Uploading
    <3>2. \/ Serial!Share(up[u].id) \/ Serial!Disturb(up[u].id)
          \/ UNCHANGED <<Turns, answers, acked, nested>>
      BY <1>2, <2>2, <3>1, CreateShows DEF CreationInv
    <3> QED
      BY <2>1, <3>1, <3>2 DEF Serial!Next
  <2>3. CASE Requesting
    BY <1>2, <2>1, <2>3, RequestingShows
  <2>4. CASE UNCHANGED CreationVars
    <3>1. Turns' = Turns /\ UNCHANGED <<answers, acked, nested>>
      BY <2>4, TurnsStay DEF CreationVars, created, vars, files, Inside
    <3> QED
      BY <2>1, <3>1
  <2> QED
    BY <1>2, <2>2, <2>3, <2>4 DEF CreationNext, Requesting
<1> QED
  BY <1>1, <1>2, CreationInductive, UntouchedInvariance, PTL
  DEF CreationSpec, ImplementsSerialSessions, Serial!Spec
=============================================================================
