--------------------------- MODULE CodingHandoff ---------------------------
(***************************************************************************)
(* Preparing the coding workspace of one admitted package and its blank    *)
(* DSH session (artpkg_coding_handoff.prepare).                            *)
(*                                                                         *)
(* A preparation works under a nonblocking flock on the coding directory   *)
(* of the binding.  It puts the workspace in place with one rename, then   *)
(* records that it is preparing, then has DSH create the session and       *)
(* select the model, then records READY.  It can stop after any of these   *)
(* and is repeated by the owner; meanwhile the owner and the coding agent  *)
(* work in the workspace and in the session, and calls that were given up  *)
(* may still be served.                                                    *)
(***************************************************************************)
EXTENDS Naturals

CONSTANTS
    Proc,      \* server processes that may serve a preparation
    NoProc,    \* the holder of a lock nobody holds
    Config,    \* provider and model configurations
    MaxPreps   \* bound: preparations begun

ASSUME CodingAssumption ==
    /\ NoProc \notin Proc
    /\ Config # {}
    /\ MaxPreps \in Nat

VARIABLES
    config,      \* the provider and model configured now
    workspace,   \* the workspace directory
    record,      \* coding/DSH_HANDOFF.json
    flock,       \* the process that holds coding/.lock
    prep,        \* the preparation each process is serving
    preps,       \* preparations begun so far
    calls,       \* calls made to the DSH server
    served,      \* calls the DSH server has carried out
    session,     \* the DSH session with the id of this binding
    model,       \* the model selected in it
    blank,       \* no message in it yet
    interfered   \* the owner deleted or changed files, or used the session

vars == <<config, workspace, record, flock, prep, preps, calls, served, session,
          model, blank, interfered>>

local == <<workspace, record, flock, prep, preps, calls>>
remote == <<served, session, model, blank>>

-----------------------------------------------------------------------------
SomeConfig == CHOOSE c \in Config : TRUE

\* "fresh" is what companion_files gives, and no more; "used" has work in
\* project/ besides; "changed" has other companion files.
Workspace == {"absent", "fresh", "used", "changed"}

\* _verify_files looks at the companion files and not at what else is in project/.
Verifies == workspace \in {"fresh", "used"}

Record == [status : {"NONE", "PREPARING", "READY"}, config : Config]
NoRecord == [status |-> "NONE", config |-> SomeConfig]

Kind == {"create", "select"}
Call == [kind : Kind, by : 1..MaxPreps, config : Config]

At == {"idle", "open", "reading", "looking", "staging", "listing", "recording",
       "creating", "created", "checking", "selecting", "selected", "finishing"}
Preparation == [at : At, by : 0..MaxPreps, config : Config, used : BOOLEAN]
NotPreparing == [at |-> "idle", by |-> 0, config |-> SomeConfig, used |-> FALSE]

TypeOK ==
    /\ config \in Config
    /\ workspace \in Workspace
    /\ record \in Record
    /\ flock \in Proc \cup {NoProc}
    /\ prep \in [Proc -> Preparation]
    /\ preps \in 0..MaxPreps
    /\ calls \subseteq Call
    /\ served \subseteq calls
    /\ session \in {"absent", "foreign", "ours"}
    /\ model \in Config
    /\ blank \in BOOLEAN
    /\ interfered \in BOOLEAN

Init ==
    /\ config \in Config
    /\ workspace = "absent"
    /\ record = NoRecord
    /\ flock = NoProc
    /\ prep = [p \in Proc |-> NotPreparing]
    /\ preps = 0
    /\ calls = {}
    /\ served = {}
    /\ session \in {"absent", "foreign"}
    /\ model = SomeConfig
    /\ blank = TRUE
    /\ interfered = FALSE

Go(p, here, there) ==
    /\ prep[p].at = here
    /\ prep' = [prep EXCEPT ![p].at = there]

End(p) ==
    /\ prep' = [prep EXCEPT ![p] = NotPreparing]
    /\ flock' = IF flock = p THEN NoProc ELSE flock

-----------------------------------------------------------------------------
(***************************************************************************)
(* The preparation.                                                        *)
(***************************************************************************)

Start(p) ==
    /\ prep[p].at = "idle"
    /\ preps < MaxPreps
    /\ preps' = preps + 1
    /\ prep' = [prep EXCEPT ![p] = [at |-> "open", by |-> preps + 1,
                                    config |-> config, used |-> ~blank]]
    /\ UNCHANGED <<config, workspace, record, flock, calls, remote, interfered>>

\* "Coding handoff is already being prepared" does not wait.
IgnoreLock(p) ==
    /\ Go(p, "open", "reading")
    /\ flock' = p
    /\ UNCHANGED <<config, workspace, record, preps, calls, remote, interfered>>
Lock(p) ==
    /\ \/ /\ flock = NoProc
          /\ Go(p, "open", "reading")
          /\ flock' = p
       \/ /\ flock # NoProc
          /\ prep[p].at = "open"
          /\ End(p)
    /\ UNCHANGED <<config, workspace, record, preps, calls, remote, interfered>>

\* A record of another configuration is refused.
AnyConfiguration(p) ==
    /\ Go(p, "reading", "looking")
    /\ UNCHANGED <<config, workspace, record, flock, preps, calls, remote, interfered>>
ReadRecord(p) ==
    /\ prep[p].at = "reading"
    /\ \/ /\ record.status = "NONE" \/ record.config = prep[p].config
          /\ Go(p, "reading", "looking")
          /\ UNCHANGED flock
       \/ /\ record.status # "NONE" /\ record.config # prep[p].config
          /\ End(p)
    /\ UNCHANGED <<config, workspace, record, preps, calls, remote, interfered>>

\* Where a preparation goes on whose workspace is there and verifies.
Resume(p) ==
    CASE record.status = "NONE" -> "listing"
      [] record.status = "PREPARING" -> "creating"
      [] OTHER -> "idle"

\* A workspace that does not verify, or is missing although it was recorded, is
\* refused; for READY there is nothing left to do.
Restore(p) ==
    /\ Go(p, "looking", "staging")
    /\ workspace' = "absent"
    /\ UNCHANGED <<config, record, flock, preps, calls, remote, interfered>>
CheckWorkspace(p) ==
    /\ prep[p].at = "looking"
    /\ \/ /\ Verifies
          /\ IF Resume(p) = "idle" THEN End(p)
             ELSE Go(p, "looking", Resume(p)) /\ UNCHANGED flock
       \/ /\ workspace = "absent" /\ record.status = "NONE"
          /\ Go(p, "looking", "staging")
          /\ UNCHANGED flock
       \/ /\ workspace = "changed" \/ (workspace = "absent" /\ record.status # "NONE")
          /\ End(p)
    /\ UNCHANGED <<config, workspace, record, preps, calls, remote, interfered>>

\* os.rename of the staged bundle replaces nothing that has files in it.
PlaceWorkspace(p) ==
    /\ prep[p].at = "staging"
    /\ \/ /\ workspace = "absent"
          /\ Go(p, "staging", "listing")
          /\ workspace' = "fresh"
          /\ UNCHANGED flock
       \/ /\ workspace # "absent"
          /\ End(p)
          /\ UNCHANGED workspace
    /\ UNCHANGED <<config, record, preps, calls, remote, interfered>>

ListSessions(p) ==
    /\ prep[p].at = "listing"
    /\ \/ /\ session = "absent"
          /\ Go(p, "listing", "recording")
          /\ UNCHANGED flock
       \/ /\ session # "absent"
          /\ End(p)
    /\ UNCHANGED <<config, workspace, record, preps, calls, remote, interfered>>

SkipRecord(p) ==
    /\ Go(p, "recording", "creating")
    /\ UNCHANGED <<config, workspace, record, flock, preps, calls, remote, interfered>>
SavePreparing(p) ==
    /\ Go(p, "recording", "creating")
    /\ record' = [status |-> "PREPARING", config |-> prep[p].config]
    /\ UNCHANGED <<config, workspace, flock, preps, calls, remote, interfered>>

\* bridge.rpc
CallOut(p, here, kind, there) ==
    /\ Go(p, here, there)
    /\ calls' = calls \cup {[kind |-> kind, by |-> prep[p].by, config |-> prep[p].config]}
    /\ UNCHANGED <<config, workspace, record, flock, preps, remote, interfered>>

Answered(p, kind) ==
    \E c \in served : c.kind = kind /\ c.by = prep[p].by

CreateSession(p) == CallOut(p, "creating", "create", "created")

Created(p) ==
    /\ Answered(p, "create")
    /\ Go(p, "created", "checking")
    /\ UNCHANGED <<config, workspace, record, flock, preps, calls, remote, interfered>>

SkipBlankCheck(p) ==
    /\ Go(p, "checking", "selecting")
    /\ UNCHANGED <<config, workspace, record, flock, preps, calls, remote, interfered>>
CheckBlank(p) ==
    /\ prep[p].at = "checking"
    /\ \/ /\ session # "absent" /\ blank
          /\ Go(p, "checking", "selecting")
          /\ UNCHANGED flock
       \/ /\ ~(session # "absent" /\ blank)
          /\ End(p)
    /\ UNCHANGED <<config, workspace, record, preps, calls, remote, interfered>>

SelectModel(p) == CallOut(p, "selecting", "select", "selected")

Selected(p) ==
    /\ Answered(p, "select")
    /\ Go(p, "selected", "finishing")
    /\ UNCHANGED <<config, workspace, record, flock, preps, calls, remote, interfered>>

SaveReady(p) ==
    /\ prep[p].at = "finishing"
    /\ record' = [record EXCEPT !.status = "READY"]
    /\ End(p)
    /\ UNCHANGED <<config, workspace, preps, calls, remote, interfered>>

\* 20 seconds without an answer.
TimeOut(p) ==
    /\ prep[p].at \in {"created", "selected"}
    /\ End(p)
    /\ UNCHANGED <<config, workspace, record, preps, calls, remote, interfered>>

\* A crash of the process, or any other exception.
Crash(p) ==
    /\ prep[p].at # "idle"
    /\ End(p)
    /\ UNCHANGED <<config, workspace, record, preps, calls, remote, interfered>>

-----------------------------------------------------------------------------
(***************************************************************************)
(* The DSH server, the configuration, and the owner at work.               *)
(***************************************************************************)

ServeCreate(c) ==
    /\ c.kind = "create"
    /\ session' = IF session = "absent" THEN "ours" ELSE session
    /\ UNCHANGED model

ServeSelect(c) ==
    /\ c.kind = "select"
    /\ model' = c.config
    /\ UNCHANGED session

Serve(c) ==
    /\ c \notin served
    /\ ServeCreate(c) \/ ServeSelect(c)
    /\ served' = served \cup {c}
    /\ UNCHANGED <<config, local, blank, interfered>>

Reconfigure(c) ==
    /\ c # config
    /\ config' = c
    /\ UNCHANGED <<local, remote, interfered>>

\* The owner or the agent adds files, changes the companion, deletes it all,
\* or writes in the session.
Work ==
    /\ workspace = "fresh"
    /\ workspace' = "used"
    /\ UNCHANGED <<config, record, flock, prep, preps, calls, remote, interfered>>

Spoil(condition) ==
    /\ workspace \notin {"absent", condition}
    /\ workspace' = condition
    /\ interfered' = TRUE
    /\ UNCHANGED <<config, record, flock, prep, preps, calls, remote>>

NativeMessage ==
    /\ session # "absent"
    /\ blank
    /\ blank' = FALSE
    /\ interfered' = TRUE
    /\ UNCHANGED <<config, local, served, session, model>>

-----------------------------------------------------------------------------
Advance(p) ==
    \/ Lock(p)
    \/ ReadRecord(p)
    \/ CheckWorkspace(p)
    \/ PlaceWorkspace(p)
    \/ ListSessions(p)
    \/ SavePreparing(p)
    \/ CreateSession(p)
    \/ Created(p)
    \/ CheckBlank(p)
    \/ SelectModel(p)
    \/ Selected(p)
    \/ SaveReady(p)
    \/ TimeOut(p)

Next ==
    \/ \E p \in Proc : Start(p) \/ Advance(p) \/ Crash(p)
    \/ \E c \in calls : Serve(c)
    \/ \E c \in Config : Reconfigure(c)
    \/ Work
    \/ \E condition \in {"absent", "changed"} : Spoil(condition)
    \/ NativeMessage

Spec == Init /\ [][Next]_vars

-----------------------------------------------------------------------------
\* No preparation changes a workspace that is in place: what the owner and the
\* agent did in it is kept ("refusing to overwrite or reuse it").
WorkKept == [][workspace # "absent" /\ prep' # prep => workspace' = workspace]_vars

\* A session that has no creation record gets no record and no call
\* ("refusing adoption").
ForeignUntouched == session = "foreign" => record.status = "NONE" /\ calls = {}

\* "A READY session is never reconfigured by repeat preparation": once READY
\* is recorded no call is made at all, and the record stays as it is.
ReadyQuiet == [][record.status = "READY" => calls' = calls /\ record' = record]_vars

\* READY is recorded only of a session of this binding's own, on the recorded
\* model, whatever older calls are served later.
ReadyIsTrue == record.status = "READY" => session = "ours" /\ model = record.config

\* "Partial preparation may resume only while blank and idle": a preparation
\* that begins after the session was used selects no model in it.
UsedNotConfigured ==
    \A p \in Proc :
        prep[p].used => \A c \in calls : c.kind = "select" => c.by # prep[p].by

\* After whatever crash or timeout, and unless somebody interfered, the record,
\* the session and the workspace that a preparation left behind fit together: a
\* workspace without a record means no session, and a record means a workspace
\* that verifies and a session nobody used.  So nothing left behind refuses the
\* next preparation under the same configuration.  After a change of the
\* configuration a record of the old one does ("Coding handoff binding changed;
\* refusing session reuse", ReadRecord), until the old one is set again.
Resumable ==
    (/\ ~interfered
     /\ session # "foreign"
     /\ \A p \in Proc : prep[p].at = "idle")
        => IF record.status = "NONE" THEN session = "absent" /\ workspace # "changed"
           ELSE Verifies /\ blank

\* The preparations, the crashes and the calls that are served late show nothing
\* but the one handoff of OneHandoff.tla.
Promise == INSTANCE OneHandoff WITH
    status <- record.status,
    chosen <- record.config

ImplementsOneHandoff == Promise!Spec
=============================================================================
