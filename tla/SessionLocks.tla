---------------------------- MODULE SessionLocks ----------------------------
(***************************************************************************)
(* The per-session locks of the intake server and the requests they order  *)
(* (artpkg_intake_server._session_lock and do_POST / do_GET around         *)
(* artpkg_intake.load_intake_session and _refresh_session).                *)
(*                                                                         *)
(* Locks are objects made on demand.  The registry refers to them weakly:  *)
(* a lock lives as long as some request has it in a local variable, and    *)
(* goes, with its entry, when the last such request returns.  A request    *)
(* works on its own copy of the document and writes all of it back, so two *)
(* requests of one session that ran side by side would lose an edit.       *)
(***************************************************************************)
EXTENDS Naturals, FiniteSets

CONSTANTS
    Thread,       \* request threads of the server process
    NoThread,     \* the owner of a free lock
    Session,      \* canonical session directories
    Lock,         \* lock objects
    NoLock,       \* no entry
    MaxRequests   \* bound: requests served; the edit of a request is its number

ASSUME LocksAssumption ==
    /\ NoThread \notin Thread
    /\ NoLock \notin Lock
    /\ Session # {}
    /\ MaxRequests \in Nat

VARIABLES
    locks,      \* _SESSION_LOCKS
    guard,      \* the thread that holds _SESSION_LOCKS_GUARD
    owner,      \* the thread that holds each lock
    req,        \* the request each thread is serving
    requests,   \* requests begun so far
    answers,    \* answers.json: the edits in it
    summary,    \* session.json: "whole", or "torn" while and after a broken write
    acked       \* the edits that were answered with 200

vars == <<locks, guard, owner, req, requests, answers, summary, acked>>
files == <<answers, summary, acked>>

-----------------------------------------------------------------------------
Edit == 1..MaxRequests
At == {"idle", "entering", "looking", "creating", "waiting", "loading", "serving",
       "saved", "writing", "replying", "closing"}
Request == [at : At, session : Session, edit : 0..MaxRequests,
            lock : Lock \cup {NoLock}, copy : SUBSET Edit]

SomeSession == CHOOSE s \in Session : TRUE
NoRequest == [at |-> "idle", session |-> SomeSession, edit |-> 0,
              lock |-> NoLock, copy |-> {}]

TypeOK ==
    /\ locks \in [Session -> Lock \cup {NoLock}]
    /\ guard \in Thread \cup {NoThread}
    /\ owner \in [Lock -> Thread \cup {NoThread}]
    /\ req \in [Thread -> Request]
    /\ requests \in 0..MaxRequests
    /\ answers \in [Session -> SUBSET Edit]
    /\ summary \in [Session -> {"whole", "torn"}]
    /\ acked \in [Session -> SUBSET Edit]

Init ==
    /\ locks = [s \in Session |-> NoLock]
    /\ guard = NoThread
    /\ owner = [l \in Lock |-> NoThread]
    /\ req = [t \in Thread |-> NoRequest]
    /\ requests = 0
    /\ answers = [s \in Session |-> {}]
    /\ summary = [s \in Session |-> "whole"]
    /\ acked = [s \in Session |-> {}]

Go(t, here, there) ==
    /\ req[t].at = here
    /\ req' = [req EXCEPT ![t].at = there]

\* From acquire to release.
Inside(t) ==
    req[t].at \in {"loading", "serving", "saved", "writing", "replying", "closing"}

-----------------------------------------------------------------------------
(***************************************************************************)
(* _session_lock.                                                          *)
(***************************************************************************)

Ask(t, s) ==
    /\ req[t].at = "idle"
    /\ requests < MaxRequests
    /\ requests' = requests + 1
    /\ req' = [req EXCEPT ![t] = [at |-> "entering", session |-> s,
                                  edit |-> requests + 1, lock |-> NoLock, copy |-> {}]]
    /\ UNCHANGED <<locks, guard, owner, files>>

NoGuard(t) ==
    /\ Go(t, "entering", "looking")
    /\ guard' = t
    /\ UNCHANGED <<locks, owner, requests, files>>
EnterGuard(t) ==
    /\ guard = NoThread
    /\ Go(t, "entering", "looking")
    /\ guard' = t
    /\ UNCHANGED <<locks, owner, requests, files>>

\* Leaving the guard with a reference of its own to the lock.
Refer(t, l) ==
    /\ req' = [req EXCEPT ![t].at = "waiting", ![t].lock = l]
    /\ guard' = NoThread

Lookup(t) ==
    /\ req[t].at = "looking"
    /\ \/ /\ locks[req[t].session] # NoLock
          /\ Refer(t, locks[req[t].session])
       \/ /\ locks[req[t].session] = NoLock
          /\ Go(t, "looking", "creating")
          /\ UNCHANGED guard
    /\ UNCHANGED <<locks, owner, requests, files>>

\* RLock() makes an object that nothing refers to yet.
New(l) ==
    /\ \A s \in Session : locks[s] # l
    /\ \A t \in Thread : req[t].lock # l

Create(t) ==
    /\ req[t].at = "creating"
    /\ \E l \in Lock :
          /\ New(l)
          /\ locks' = [locks EXCEPT ![req[t].session] = l]
          /\ owner' = [owner EXCEPT ![l] = NoThread]
          /\ Refer(t, l)
    /\ UNCHANGED <<requests, files>>

Acquire(t) ==
    /\ req[t].at = "waiting"
    /\ owner[req[t].lock] = NoThread
    /\ Go(t, "waiting", "loading")
    /\ owner' = [owner EXCEPT ![req[t].lock] = t]
    /\ UNCHANGED <<locks, guard, requests, files>>

\* The thread drops its reference; with the last one the entry goes too.
Forget(t) ==
    LET l == req[t].lock IN
    IF \E u \in Thread \ {t} : req[u].lock = l THEN locks
    ELSE [s \in Session |-> IF locks[s] = l THEN NoLock ELSE locks[s]]

-----------------------------------------------------------------------------
(***************************************************************************)
(* The request under its lock.                                             *)
(***************************************************************************)

\* A session.json that does not parse is answered with 403.
Load(t) ==
    /\ req[t].at = "loading"
    /\ req' = [req EXCEPT ![t].copy = answers[req[t].session],
                          ![t].at = IF summary[req[t].session] = "whole"
                                    THEN "serving" ELSE "closing"]
    /\ UNCHANGED <<locks, guard, owner, requests, files>>

\* A route that only reads or refuses.
Read(t) ==
    /\ Go(t, "serving", "closing")
    /\ UNCHANGED <<locks, guard, owner, requests, files>>

\* _refresh_session: save_answers replaces answers.json atomically, and
\* save_intake_session rewrites session.json in place.
SaveAnswers(t) ==
    /\ Go(t, "serving", "saved")
    /\ answers' = [answers EXCEPT ![req[t].session] = req[t].copy \cup {req[t].edit}]
    /\ UNCHANGED <<locks, guard, owner, requests, summary, acked>>

OpenSummary(t) ==
    /\ Go(t, "saved", "writing")
    /\ summary' = [summary EXCEPT ![req[t].session] = "torn"]
    /\ UNCHANGED <<locks, guard, owner, requests, answers, acked>>

WriteSummary(t) ==
    /\ Go(t, "writing", "replying")
    /\ summary' = [summary EXCEPT ![req[t].session] = "whole"]
    /\ UNCHANGED <<locks, guard, owner, requests, answers, acked>>

Reply(t) ==
    /\ Go(t, "replying", "closing")
    /\ acked' = [acked EXCEPT ![req[t].session] = @ \cup {req[t].edit}]
    /\ UNCHANGED <<locks, guard, owner, requests, answers, summary>>

\* An exception in the handler is answered with 400, in the same try.
SkipFinally(t) ==
    /\ Inside(t)
    /\ req' = [req EXCEPT ![t] = NoRequest]
    /\ locks' = Forget(t)
    /\ UNCHANGED <<guard, owner, requests, files>>
Fail(t) ==
    /\ Inside(t)
    /\ req[t].at # "closing"
    /\ req' = [req EXCEPT ![t].at = "closing"]
    /\ UNCHANGED <<locks, guard, owner, requests, files>>

\* The finally clause, and the return that drops the local variable.
Release(t) ==
    /\ req[t].at = "closing"
    /\ owner' = [owner EXCEPT ![req[t].lock] = NoThread]
    /\ locks' = Forget(t)
    /\ req' = [req EXCEPT ![t] = NoRequest]
    /\ UNCHANGED <<guard, requests, files>>

\* The server process dies and is started again: only the files remain.
Restart ==
    /\ locks' = [s \in Session |-> NoLock]
    /\ guard' = NoThread
    /\ owner' = [l \in Lock |-> NoThread]
    /\ req' = [t \in Thread |-> NoRequest]
    /\ UNCHANGED <<requests, files>>

-----------------------------------------------------------------------------
Enter(t) == EnterGuard(t) \/ Lookup(t) \/ Create(t) \/ Acquire(t)

Serve(t) ==
    \/ Load(t)
    \/ Read(t)
    \/ SaveAnswers(t)
    \/ OpenSummary(t)
    \/ WriteSummary(t)
    \/ Reply(t)
    \/ Fail(t)
    \/ Release(t)

Next ==
    \/ \E t \in Thread : (\E s \in Session : Ask(t, s)) \/ Enter(t) \/ Serve(t)
    \/ Restart

Spec == Init /\ [][Next]_vars

-----------------------------------------------------------------------------
\* Two requests of one session are never under their locks at the same time,
\* although each lock is made on demand and thrown away when it is idle.
OneInside ==
    \A t, u \in Thread :
        Inside(t) /\ Inside(u) /\ req[t].session = req[u].session => t = u

\* An edit that was acknowledged stays in answers.json, across every other
\* request, failure and restart (test_concurrent_answers_preserve_both_
\* acknowledged_edits).
AcknowledgedKept == \A s \in Session : acked[s] \subseteq answers[s]

\* An entry belongs to a request that is still being served: the registry is
\* "bound to active requests".
RegistryActive ==
    \A s \in Session :
        locks[s] # NoLock =>
            \E t \in Thread : req[t].lock = locks[s] /\ req[t].session = s

\* No step takes an edit out of answers.json.
AnswersGrow == [][\A s \in Session : answers[s] \subseteq answers'[s]]_vars

\* Whatever the handler raises, a session lock is given back, and so is the
\* guard (test_lock_released_after_dispatch_errors_and_early_returns).  Which of
\* the waiting requests gets the lock then, threading.RLock does not say.
LockReleased ==
    \A t \in Thread :
        /\ guard = t ~> guard # t
        /\ \A l \in Lock : owner[l] = t ~> owner[l] # t
=============================================================================
