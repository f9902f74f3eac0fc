----------------------------- MODULE DshBridge -----------------------------
(***************************************************************************)
(* Sending one admitted package to the DSH model for review                *)
(* (artpkg_dsh_bridge.send).                                               *)
(*                                                                         *)
(* A send works under a nonblocking flock on the directory of the binding  *)
(* and records its progress in DSH_HANDOFF.json, each status on disk       *)
(* before the step it announces.  The DSH server is external: a call may   *)
(* be served late, after the send that made it has timed out or died, or   *)
(* never; its native chat writes to the same session.                      *)
(*                                                                         *)
(* The module follows one binding (owner, session, sealed id, receipt);    *)
(* another binding has another directory, lock, record and DSH session.    *)
(***************************************************************************)
EXTENDS Naturals, FiniteSets

CONSTANTS
    Proc,      \* server processes that may serve a send
    NoProc,    \* the holder of a lock nobody holds
    Config,    \* provider and model configurations
    MaxSends   \* bound: sends that get as far as the lock

ASSUME DshAssumption ==
    /\ NoProc \notin Proc
    /\ Config # {}
    /\ MaxSends \in Nat

VARIABLES
    config,    \* the provider and model configured now
    record,    \* DSH_HANDOFF.json
    staged,    \* the review workspace holds the sealed files
    flock,     \* the process that holds .lock
    send,      \* the send each process is serving
    sends,     \* sends begun so far
    calls,     \* calls made to the DSH server
    served,    \* calls the DSH server has carried out
    session,   \* the DSH session with the id of this binding
    model,     \* the model selected in that session
    blank,     \* no message in that session yet
    reviews    \* review prompts in that session

vars == <<config, record, staged, flock, send, sends, calls, served, session,
          model, blank, reviews>>

local == <<record, staged, flock, send, sends, calls>>
remote == <<served, session, model, blank, reviews>>

-----------------------------------------------------------------------------
Preparing == {"SESSION_PREPARING", "SESSION_CREATED"}
Settled == {"PROMPT_DISPATCHING", "PROMPT_ACCEPTED", "DELIVERY_UNCERTAIN"}
States == Preparing \cup Settled

SomeConfig == CHOOSE c \in Config : TRUE

Record == [status : States \cup {"NONE"}, config : Config]
NoRecord == [status |-> "NONE", config |-> SomeConfig]

\* A call is known by its kind and the number of the send that made it.
Kind == {"create", "select", "prompt"}
Call == [kind : Kind, by : 1..MaxSends, config : Config]

At == {"idle", "open", "reading", "listing", "recording", "staging", "creating",
       "created", "checking", "selecting", "selected", "acknowledging",
       "announcing", "dispatching", "dispatched", "accepted", "uncertain"}
Sending == [at : At, by : 0..MaxSends, config : Config, used : BOOLEAN]
NotSending == [at |-> "idle", by |-> 0, config |-> SomeConfig, used |-> FALSE]

TypeOK ==
    /\ config \in Config
    /\ record \in Record
    /\ staged \in BOOLEAN
    /\ flock \in Proc \cup {NoProc}
    /\ send \in [Proc -> Sending]
    /\ sends \in 0..MaxSends
    /\ calls \subseteq Call
    /\ served \subseteq calls
    /\ session \in {"absent", "foreign", "ours"}
    /\ model \in Config
    /\ blank \in BOOLEAN
    /\ reviews \in Nat

\* The session may stand there from an earlier, lost state directory.
Init ==
    /\ config \in Config
    /\ record = NoRecord
    /\ staged = FALSE
    /\ flock = NoProc
    /\ send = [p \in Proc |-> NotSending]
    /\ sends = 0
    /\ calls = {}
    /\ served = {}
    /\ session \in {"absent", "foreign"}
    /\ model = SomeConfig
    /\ blank = TRUE
    /\ reviews = 0

Go(p, here, there) ==
    /\ send[p].at = here
    /\ send' = [send EXCEPT ![p].at = there]

\* Every way out closes the descriptor, and the lock goes with it.
End(p) ==
    /\ send' = [send EXCEPT ![p] = NotSending]
    /\ flock' = IF flock = p THEN NoProc ELSE flock

-----------------------------------------------------------------------------
(***************************************************************************)
(* The send.                                                               *)
(***************************************************************************)

\* The configuration is read once.  `used` remembers for the properties
\* whether the session had messages by then.
Start(p) ==
    /\ send[p].at = "idle"
    /\ sends < MaxSends
    /\ sends' = sends + 1
    /\ send' = [send EXCEPT ![p] = [at |-> "open", by |-> sends + 1,
                                    config |-> config, used |-> ~blank]]
    /\ UNCHANGED <<config, record, staged, flock, calls, remote>>

\* "DSH handoff is already in progress" does not wait.
IgnoreLock(p) ==
    /\ Go(p, "open", "reading")
    /\ flock' = p
    /\ UNCHANGED <<config, record, staged, sends, calls, remote>>
Lock(p) ==
    /\ \/ /\ flock = NoProc
          /\ Go(p, "open", "reading")
          /\ flock' = p
       \/ /\ flock # NoProc
          /\ send[p].at = "open"
          /\ End(p)
    /\ UNCHANGED <<config, record, staged, sends, calls, remote>>

\* read_record refuses a record of another configuration; a settled one is
\* the answer, and nothing is sent.
AnyConfiguration(p) ==
    /\ send[p].at = "reading"
    /\ \/ /\ record.status = "NONE"
          /\ Go(p, "reading", "listing")
          /\ UNCHANGED flock
       \/ /\ record.status \in Preparing
          /\ Go(p, "reading", "staging")
          /\ UNCHANGED flock
       \/ /\ record.status \in Settled
          /\ End(p)
    /\ UNCHANGED <<config, record, staged, sends, calls, remote>>
ReadRecord(p) ==
    /\ send[p].at = "reading"
    /\ \/ /\ record.status = "NONE"
          /\ Go(p, "reading", "listing")
          /\ UNCHANGED flock
       \/ /\ record.status \in Preparing
          /\ record.config = send[p].config
          /\ Go(p, "reading", "staging")
          /\ UNCHANGED flock
       \/ /\ record.status # "NONE"
          /\ record.config # send[p].config \/ record.status \in Settled
          /\ End(p)
    /\ UNCHANGED <<config, record, staged, sends, calls, remote>>

\* Without a record a session that is already there is never adopted.
AdoptSession(p) ==
    /\ Go(p, "listing", "recording")
    /\ UNCHANGED <<config, record, staged, flock, sends, calls, remote>>
ListSessions(p) ==
    /\ send[p].at = "listing"
    /\ \/ /\ session = "absent"
          /\ Go(p, "listing", "recording")
          /\ UNCHANGED flock
       \/ /\ session # "absent"
          /\ End(p)
    /\ UNCHANGED <<config, record, staged, sends, calls, remote>>

SavePreparing(p) ==
    /\ Go(p, "recording", "staging")
    /\ record' = [status |-> "SESSION_PREPARING", config |-> send[p].config]
    /\ UNCHANGED <<config, staged, flock, sends, calls, remote>>

\* save_record of a record read or made before, with a new status: one atomic,
\* fsynced replacement.
Save(p, here, status, there) ==
    /\ Go(p, here, there)
    /\ record' = [record EXCEPT !.status = status]
    /\ UNCHANGED <<config, staged, flock, sends, calls, remote>>

\* seal_to_history into the directory of the binding.
Stage(p) ==
    /\ Go(p, "staging", "creating")
    /\ staged' = TRUE
    /\ UNCHANGED <<config, record, flock, sends, calls, remote>>

\* rpc: the call leaves, and the send waits for its answer.
CallOut(p, here, kind, there) ==
    /\ Go(p, here, there)
    /\ calls' = calls \cup {[kind |-> kind, by |-> send[p].by, config |-> send[p].config]}
    /\ UNCHANGED <<config, record, staged, flock, sends, remote>>

Answered(p, kind) ==
    \E c \in served : c.kind = kind /\ c.by = send[p].by

CreateSession(p) == CallOut(p, "creating", "create", "created")

Created(p) ==
    /\ Answered(p, "create")
    /\ Go(p, "created", "checking")
    /\ UNCHANGED <<config, record, staged, flock, sends, calls, remote>>

\* Listed again, the session must be there, blank and idle.
SkipBlankCheck(p) ==
    /\ Go(p, "checking", "selecting")
    /\ UNCHANGED <<config, record, staged, flock, sends, calls, remote>>
CheckBlank(p) ==
    /\ send[p].at = "checking"
    /\ \/ /\ session # "absent" /\ blank
          /\ Go(p, "checking", "selecting")
          /\ UNCHANGED flock
       \/ /\ ~(session # "absent" /\ blank)
          /\ End(p)
    /\ UNCHANGED <<config, record, staged, sends, calls, remote>>

SelectModel(p) == CallOut(p, "selecting", "select", "selected")

\* The answer to the renaming that follows changes nothing here.
Selected(p) ==
    /\ Answered(p, "select")
    /\ Go(p, "selected", "acknowledging")
    /\ UNCHANGED <<config, record, staged, flock, sends, calls, remote>>

SaveCreated(p) == Save(p, "acknowledging", "SESSION_CREATED", "announcing")

SkipAnnounce(p) ==
    /\ Go(p, "announcing", "dispatching")
    /\ UNCHANGED <<config, record, staged, flock, sends, calls, remote>>
SaveDispatching(p) == Save(p, "announcing", "PROMPT_DISPATCHING", "dispatching")

Prompt(p) == CallOut(p, "dispatching", "prompt", "dispatched")

Accepted(p) ==
    /\ Answered(p, "prompt")
    /\ Go(p, "dispatched", "accepted")
    /\ UNCHANGED <<config, record, staged, flock, sends, calls, remote>>

\* A refusal, a broken answer, or 20 seconds without one.
Uncertain(p) ==
    /\ Go(p, "dispatched", "uncertain")
    /\ UNCHANGED <<config, record, staged, flock, sends, calls, remote>>

Outcome(p) ==
    IF send[p].at = "accepted" THEN "PROMPT_ACCEPTED" ELSE "DELIVERY_UNCERTAIN"

SaveOutcome(p) ==
    /\ send[p].at \in {"accepted", "uncertain"}
    /\ record' = [record EXCEPT !.status = Outcome(p)]
    /\ End(p)
    /\ UNCHANGED <<config, staged, sends, calls, remote>>

\* The same 20 seconds for the calls that prepare the session.
WaitForever(p) == FALSE
TimeOut(p) ==
    /\ send[p].at \in {"created", "selected"}
    /\ End(p)
    /\ UNCHANGED <<config, record, staged, sends, calls, remote>>

\* Any other exception, and a crash of the process.
Crash(p) ==
    /\ send[p].at # "idle"
    /\ End(p)
    /\ UNCHANGED <<config, record, staged, sends, calls, remote>>

-----------------------------------------------------------------------------
(***************************************************************************)
(* Outside the bridge: the configuration file, and the DSH server with the *)
(* owner's native chat.                                                    *)
(***************************************************************************)

Reconfigure(c) ==
    /\ c # config
    /\ config' = c
    /\ UNCHANGED <<local, remote>>

\* Creating a session that is there already answers like the first time.
ServeCreate(c) ==
    /\ c.kind = "create"
    /\ session' = IF session = "absent" THEN "ours" ELSE session
    /\ UNCHANGED <<model, blank, reviews>>

ServeSelect(c) ==
    /\ c.kind = "select"
    /\ model' = c.config
    /\ UNCHANGED <<session, blank, reviews>>

ServePrompt(c) ==
    /\ c.kind = "prompt"
    /\ blank' = FALSE
    /\ reviews' = reviews + 1
    /\ UNCHANGED <<session, model>>

Serve(c) ==
    /\ c \notin served
    /\ ServeCreate(c) \/ ServeSelect(c) \/ ServePrompt(c)
    /\ served' = served \cup {c}
    /\ UNCHANGED <<config, local>>

NativeMessage ==
    /\ session # "absent"
    /\ blank
    /\ blank' = FALSE
    /\ UNCHANGED <<config, local, served, session, model, reviews>>

-----------------------------------------------------------------------------
Advance(p) ==
    \/ Lock(p)
    \/ ReadRecord(p)
    \/ ListSessions(p)
    \/ SavePreparing(p)
    \/ Stage(p)
    \/ CreateSession(p)
    \/ Created(p)
    \/ CheckBlank(p)
    \/ SelectModel(p)
    \/ Selected(p)
    \/ SaveCreated(p)
    \/ SaveDispatching(p)
    \/ Prompt(p)
    \/ Accepted(p)
    \/ Uncertain(p)
    \/ SaveOutcome(p)
    \/ TimeOut(p)

Next ==
    \/ \E p \in Proc : Start(p) \/ Advance(p) \/ Crash(p)
    \/ \E c \in Config : Reconfigure(c)
    \/ \E c \in calls : Serve(c)
    \/ NativeMessage

Spec == Init /\ [][Next]_vars

\* A send goes on by itself: no step of it waits longer than a timeout.
FairSpec == Spec /\ \A p \in Proc : WF_vars(Advance(p))

-----------------------------------------------------------------------------
PromptCalls == {c \in calls : c.kind = "prompt"}

\* The review prompt goes to DSH at most once, whatever crashes, times out or
\* is sent again, by however many processes ("NEVER silently resend").
OnePromptCall == Cardinality(PromptCalls) <= 1 /\ reviews <= 1

\* The record says so before the prompt can be on its way, and the creation
\* of the session is recorded, with its workspace in place, before it is asked
\* for (the order of save_record, seal_to_history and rpc in send).
AnnouncedFirst ==
    /\ PromptCalls # {} => record.status \in Settled
    /\ calls # {} => record.status # "NONE" /\ staged

\* "Accepted" is recorded only of a prompt that stands in the session.
AcceptedIsQueued == record.status = "PROMPT_ACCEPTED" => reviews = 1

\* A send that began after the session was used adds no review prompt to it,
\* although it creates and checks the session anew ("refusing to add a review
\* prompt").
UsedSessionRefused ==
    \A p \in Proc : send[p].used => \A c \in PromptCalls : c.by # send[p].by

\* A session that was there before any record gets no record and no call.
ForeignUntouched == session = "foreign" => record.status = "NONE" /\ calls = {}

\* The review runs on the model that the record names, also when earlier
\* sends left a selection on its way and the configuration changed since.
ReviewedAsRecorded == reviews > 0 => model = record.config

\* The record only moves forward, and keeps its configuration: no send, crash or
\* late answer takes a binding back behind a status it has told of.
Rank(status) ==
    CASE status = "NONE" -> 0
      [] status = "SESSION_PREPARING" -> 1
      [] status = "SESSION_CREATED" -> 2
      [] status = "PROMPT_DISPATCHING" -> 3
      [] OTHER -> 4
RecordForward ==
    [][record' # record =>
          /\ Rank(record'.status) > Rank(record.status)
          /\ record.status # "NONE" => record'.config = record.config]_vars

\* The bridge implements OnePrompt.tla.
Promise == INSTANCE OnePrompt WITH
    decided <- record.status \in Settled,
    queued <- reviews > 0,
    outcome <- CASE record.status = "PROMPT_ACCEPTED" -> "accepted"
                 [] record.status = "DELIVERY_UNCERTAIN" -> "uncertain"
                 [] OTHER -> "none"

ImplementsOnePrompt == Promise!Spec

\* A send always ends, and so no send finds "already in progress" for ever.
SendEnds == \A p \in Proc : send[p].at # "idle" ~> send[p].at = "idle"
=============================================================================
