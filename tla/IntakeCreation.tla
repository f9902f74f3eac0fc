--------------------------- MODULE IntakeCreation ---------------------------
(***************************************************************************)
(* The making of a session (artpkg_intake.create_intake_session and        *)
(* create_intake_session_for_user of the server), next to the requests of  *)
(* SessionLocks on the sessions that were made.                            *)
(*                                                                         *)
(* A session is built in .artpkg/intake_sessions, moved to its owner, and  *)
(* its files are then rewritten where they are, all without a session      *)
(* lock.  Its id is the second of the upload, the name of the file and its *)
(* digest; the module follows the uploads of one file by one owner, so     *)
(* that a session is the second it was made in.  Two uploads in a second   *)
(* meet: the directory of the later one is moved INTO the earlier one, and *)
(* the files it goes on to rewrite are the earlier one's.                  *)
(***************************************************************************)
EXTENDS SessionLocks

CONSTANTS
    Upload     \* requests to make a session of that file

ASSUME CreationAssumption == Session \subseteq Nat

VARIABLES
    clock,     \* the second of the latest session
    up,        \* each upload
    staged,    \* intake_sessions/<id>
    home,      \* users/<owner>/sessions/<id>, by the place its session.json names
    nested,    \* <id>/<id> in there
    torn,      \* its answers.json or seed.json is cut off
    open       \* the uploads that have the answers.json that is there open

created == <<clock, up, staged, home, nested, torn, open>>

-----------------------------------------------------------------------------
UploadAt == {"new", "moving", "reading", "opening", "rewriting",
             "saving", "finishing", "told", "failed"}
Uploading == [at : UploadAt, id : Session, copy : SUBSET Edit]
Blank == [at |-> "new", id |-> SomeSession, copy |-> {}]
Failed == [Blank EXCEPT !.at = "failed"]

CreationTypeOK ==
    /\ TypeOK
    /\ clock \in Session
    /\ up \in [Upload -> Uploading]
    /\ staged \subseteq Session
    /\ home \in [Session -> {"absent", "staging", "home"}]
    /\ nested \in [Session -> BOOLEAN]
    /\ torn \in [Session -> BOOLEAN]
    /\ open \in [Session -> SUBSET Upload]

CreationInit ==
    /\ Init
    /\ clock \in Session /\ \A s \in Session : clock <= s
    /\ up = [u \in Upload |-> Blank]
    /\ staged = {}
    /\ home = [s \in Session |-> "absent"]
    /\ nested = [s \in Session |-> FALSE]
    /\ torn = [s \in Session |-> FALSE]
    /\ open = [s \in Session |-> {}]

Step(u, here, there) ==
    /\ up[u].at = here
    /\ up' = [up EXCEPT ![u].at = there]

-----------------------------------------------------------------------------
(***************************************************************************)
(* create_intake_session: private to the upload until the move.            *)
(***************************************************************************)

\* mkdir with exist_ok=False, then the source, answers.json, seed.json and
\* session.json.  A directory of this second that waits to be moved refuses the
\* upload (FailUpload); one that was moved is not looked for.
MakeDir(u) ==
    /\ up[u].at = "new"
    /\ \E s \in Session \ staged :
          /\ s >= clock
          /\ clock' = s
          /\ up' = [up EXCEPT ![u].at = "moving", ![u].id = s]
          /\ staged' = staged \cup {s}
    /\ UNCHANGED <<vars, home, nested, torn, open>>

-----------------------------------------------------------------------------
(***************************************************************************)
(* create_intake_session_for_user.                                         *)
(***************************************************************************)

\* shutil.move: into a destination that is a directory, unless something of
\* the name is in there as well (FailUpload).
ReplaceHome(u) ==
    LET s == up[u].id IN
    /\ Step(u, "moving", "reading")
    /\ home' = [home EXCEPT ![s] = "staging"]
    /\ staged' = staged \ {s}
    /\ answers' = [answers EXCEPT ![s] = {}]
    /\ UNCHANGED <<locks, guard, owner, req, requests, summary, acked, clock, nested, torn, open>>
Move(u) ==
    LET s == up[u].id IN
    /\ \/ /\ home[s] = "absent"
          /\ home' = [home EXCEPT ![s] = "staging"]
          /\ UNCHANGED nested
       \/ /\ home[s] # "absent" /\ ~nested[s]
          /\ nested' = [nested EXCEPT ![s] = TRUE]
          /\ UNCHANGED home
    /\ Step(u, "moving", "reading")
    /\ staged' = staged \ {s}
    /\ UNCHANGED <<vars, clock, torn, open>>

\* _relocate_paths over answers.json, and in the same way over seed.json, which
\* nobody edits: read, truncated, written.
ReplyBeforeRelocation(u) ==
    /\ Step(u, "reading", "told")
    /\ UNCHANGED <<vars, clock, staged, home, nested, torn, open>>
ReadAnswers(u) ==
    /\ up[u].at = "reading"
    /\ up' = [up EXCEPT ![u] = IF torn[up[u].id] THEN Failed
                               ELSE [up[u] EXCEPT !.at = "opening", !.copy = answers[up[u].id]]]
    /\ UNCHANGED <<vars, clock, staged, home, nested, torn, open>>

OpenAnswers(u) ==
    /\ Step(u, "opening", "rewriting")
    /\ torn' = [torn EXCEPT ![up[u].id] = TRUE]
    /\ open' = [open EXCEPT ![up[u].id] = @ \cup {u}]
    /\ UNCHANGED <<vars, clock, staged, home, nested>>

\* A file that save_answers has replaced since is written in vain.
WriteAnswers(u) ==
    LET s == up[u].id IN
    /\ up[u].at = "rewriting"
    /\ up' = [up EXCEPT ![u].at = "saving", ![u].copy = {}]
    /\ IF u \in open[s]
       THEN /\ answers' = [answers EXCEPT ![s] = up[u].copy]
            /\ torn' = [torn EXCEPT ![s] = FALSE]
            /\ open' = [open EXCEPT ![s] = @ \ {u}]
       ELSE UNCHANGED <<answers, torn, open>>
    /\ UNCHANGED <<locks, guard, owner, req, requests, summary, acked, clock, staged, home, nested>>

\* save_intake_session of the session in memory, which names the new place; the
\* answer that tells of the directory, as no other route does, comes after it.
OpenSession(u) ==
    /\ Step(u, "saving", "finishing")
    /\ summary' = [summary EXCEPT ![up[u].id] = "torn"]
    /\ UNCHANGED <<locks, guard, owner, req, requests, answers, acked, clock,
                   staged, home, nested, torn, open>>
WriteSession(u) ==
    /\ Step(u, "finishing", "told")
    /\ summary' = [summary EXCEPT ![up[u].id] = "whole"]
    /\ home' = [home EXCEPT ![up[u].id] = "home"]
    /\ UNCHANGED <<locks, guard, owner, req, requests, answers, acked, clock,
                   staged, nested, torn, open>>

\* An exception at any step, answered with 400.
FailUpload(u) ==
    /\ up[u].at \notin {"told", "failed"}
    /\ up' = [up EXCEPT ![u] = Failed]
    /\ UNCHANGED <<vars, clock, staged, home, nested, torn, open>>

Create_(u) ==
    \/ MakeDir(u) \/ Move(u) \/ ReadAnswers(u) \/ OpenAnswers(u)
    \/ WriteAnswers(u) \/ OpenSession(u) \/ WriteSession(u) \/ FailUpload(u)

-----------------------------------------------------------------------------
(***************************************************************************)
(* The requests of SessionLocks, on sessions that were told of.            *)
(***************************************************************************)

AskMoved(t, s) ==
    /\ home[s] # "absent"
    /\ Ask(t, s)
    /\ UNCHANGED created
AskKnown(t, s) ==
    /\ \E u \in Upload : up[u].at = "told" /\ up[u].id = s
    /\ Ask(t, s)
    /\ UNCHANGED created

\* load_answers refuses a file that is cut off.
LoadWhole(t) ==
    /\ IF torn[req[t].session]
       THEN Go(t, "loading", "closing") /\ UNCHANGED <<locks, guard, owner, requests, files>>
       ELSE Load(t)
    /\ UNCHANGED created

\* os.replace puts a whole file in the place of whatever was there.
ReplaceAnswers(t) ==
    /\ SaveAnswers(t)
    /\ torn' = [torn EXCEPT ![req[t].session] = FALSE]
    /\ open' = [open EXCEPT ![req[t].session] = {}]
    /\ UNCHANGED <<clock, up, staged, home, nested>>

ServeKnown(t) ==
    \/ LoadWhole(t)
    \/ ReplaceAnswers(t)
    \/ (Read(t) \/ OpenSummary(t) \/ WriteSummary(t) \/ Reply(t) \/ Fail(t) \/ Release(t))
       /\ UNCHANGED created

EnterKnown(t) == Enter(t) /\ UNCHANGED created

RestartAll ==
    /\ Restart
    /\ up' = [u \in Upload |-> IF up[u].at \in {"new", "told"} THEN up[u]
                               ELSE Failed]
    /\ UNCHANGED <<clock, staged, home, nested, torn, open>>

CreationNext ==
    \/ \E u \in Upload : Create_(u)
    \/ \E t \in Thread : (\E s \in Session : AskKnown(t, s)) \/ EnterKnown(t) \/ ServeKnown(t)
    \/ RestartAll

CreationVars == <<vars, created>>

\* Every thread is scheduled; nothing says in which order waiters get a lock.
CreationSpec ==
    /\ CreationInit /\ [][CreationNext]_CreationVars
    /\ \A t \in Thread : WF_CreationVars(EnterKnown(t)) /\ WF_CreationVars(ServeKnown(t))

-----------------------------------------------------------------------------
\* An acknowledged edit stays in an answers.json that can be read, although the
\* upload rewrites that file without the lock: it is done before it tells of
\* the session.  Only a session whose second was shared is not kept.
KeptUnlessShared ==
    \A s \in Session :
        ~nested[s] => acked[s] \subseteq answers[s] /\ (acked[s] # {} => ~torn[s])

\* A session that the owner was told of names its own place, and is read: the
\* uploads that failed between the move and the last write, whose session
\* would be refused by every projection, told nobody.
ToldIsWhole ==
    \A u \in Upload :
        up[u].at = "told" /\ ~nested[up[u].id] =>
            home[up[u].id] = "home" /\ ~torn[up[u].id]

\* Who is about to read session.json or has it truncated for writing.
UsersOf(s) ==
    {t \in Thread : req[t].session = s /\ req[t].at \in {"loading", "writing"}}
    \cup {u \in Upload : up[u].id = s /\ up[u].at = "finishing"}

\* session.json is rewritten in place, by requests and, without a lock, by the
\* upload; still nobody reads it in mid-write and no two writes overlap, unless
\* the session is shared.  A request on any other session that is refused
\* because the file is cut off met the trace of a failure or a restart.
NoTornRead == \A s \in Session : ~nested[s] => \A a, b \in UsersOf(s) : a = b

\* Two uploads are told of one session only when it was made twice in one
\* second and the later directory lies in the earlier one; no directory is
\* moved over another.
SharedIsNested ==
    \A u, v \in Upload :
        u # v /\ up[u].at = "told" /\ up[v].at = "told" /\ up[u].id = up[v].id
            => nested[up[u].id]

\* The requests of a session take turns, as SerialSessions.tla says: the locks
\* that are made on demand, the restarts and the uploads that rewrite the
\* answers without a lock show in no session but a shared one.
TurnsOf(s) ==
    {[by |-> t, edit |-> req[t].edit] : t \in {u \in Thread : Inside(u) /\ req[u].session = s}}

Serial == INSTANCE SerialSessions WITH
    Client <- Thread,
    turns <- [s \in Session |-> TurnsOf(s)],
    kept <- answers,
    told <- acked,
    shared <- nested

ImplementsSerialSessions == Serial!Spec
=============================================================================
