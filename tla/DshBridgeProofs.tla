-------------------------- MODULE DshBridgeProofs --------------------------
(***************************************************************************)
(* Proofs about DshBridge, for any number of processes, configurations and *)
(* sends.  That the prompt is called for once rests on the flock, on the   *)
(* record of the send that holds it, and on a settled record never being   *)
(* resumed.                                                                *)
(***************************************************************************)
EXTENDS DshBridge, FiniteSetTheorems, TLAPS

Inside == At \ {"idle", "open"}
Prepared == {"staging", "creating", "created", "checking", "selecting", "selected",
             "acknowledging", "announcing"}
Chosen == {"acknowledging", "announcing", "dispatching", "dispatched", "accepted",
           "uncertain"}
Checked == Chosen \cup {"selecting", "selected"}

SelectServed == \E c \in served : c.kind = "select"

\* What the record says while a send is at work on it.
SendOk(p) ==
    /\ send[p].at \in Inside => flock = p
    /\ send[p].at \in {"listing", "recording"} => record.status = "NONE"
    /\ send[p].at = "recording" => session # "foreign"
    /\ send[p].at \in Prepared =>
          record.status \in Preparing /\ record.config = send[p].config
    /\ send[p].at \in Prepared \ {"staging"} => staged
    /\ send[p].at = "dispatching" => PromptCalls = {}
    /\ send[p].at \in {"dispatching", "dispatched", "accepted", "uncertain"} =>
          /\ record.status = "PROMPT_DISPATCHING"
          /\ record.config = send[p].config
          /\ staged
    /\ send[p].at = "accepted" => reviews = 1
    /\ send[p].at \in Chosen => SelectServed
    /\ send[p].at \in Checked => ~send[p].used
    /\ send[p].used => ~blank
    /\ send[p].at # "idle" => send[p].by \in 1..sends
    /\ send[p].at = "idle" => send[p].by = 0

SendsDiffer ==
    \A p, q \in Proc : p # q /\ send[p].at # "idle" => send[p].by # send[q].by

CallsOk ==
    /\ \A c \in calls : c.by \in 1..sends /\ c.config = record.config
    /\ \A c, d \in PromptCalls : c = d
    /\ PromptCalls # {} => SelectServed
    /\ SelectServed => model = record.config
    /\ reviews = IF PromptCalls \cap served = {} THEN 0 ELSE 1

Inv ==
    /\ TypeOK
    /\ \A p \in Proc : SendOk(p)
    /\ SendsDiffer
    /\ CallsOk
    /\ AnnouncedFirst
    /\ AcceptedIsQueued
    /\ UsedSessionRefused
    /\ ForeignUntouched

-----------------------------------------------------------------------------
\* The initial states satisfy the invariant.
LEMMA InitInv == Init => Inv
<1> SUFFICES ASSUME Init PROVE Inv
  OBVIOUS
<1>1. SomeConfig \in Config
  BY DshAssumption DEF SomeConfig
<1>2. TypeOK
  <2>1. NoRecord \in Record
    BY <1>1 DEF NoRecord, Record
  <2>2. NotSending \in Sending
    BY <1>1, DshAssumption DEF NotSending, Sending, At
  <2>3. send \in [Proc -> Sending]
    BY <2>2 DEF Init
  <2>4. sends \in 0..MaxSends /\ reviews \in Nat
    BY DshAssumption DEF Init
  <2>5. staged \in BOOLEAN /\ blank \in BOOLEAN /\ session \in {"absent", "foreign", "ours"}
    BY DEF Init
  <2>6. QED
    BY <1>1, <2>1, <2>3, <2>4, <2>5 DEF Init, TypeOK
<1>3. calls = {} /\ served = {} /\ PromptCalls = {} /\ ~SelectServed
  BY DEF Init, PromptCalls, SelectServed
<1>4. \A p \in Proc : send[p] = NotSending
  BY DEF Init
<1>5. \A p \in Proc : SendOk(p)
  BY <1>4 DEF SendOk, NotSending, Inside, Prepared, Chosen, Checked
<1>6. CallsOk
  BY <1>3 DEF CallsOk, Init
<1>7. SendsDiffer /\ UsedSessionRefused
  BY <1>4 DEF SendsDiffer, UsedSessionRefused, NotSending
<1>8. AnnouncedFirst /\ AcceptedIsQueued /\ ForeignUntouched
  BY <1>3 DEF Init, AnnouncedFirst, AcceptedIsQueued, ForeignUntouched, NoRecord
<1>9. QED
  BY <1>2, <1>5, <1>6, <1>7, <1>8 DEF Inv

-----------------------------------------------------------------------------
(***************************************************************************)
(* Types.                                                                  *)
(***************************************************************************)

\* A process that only moves on stays well typed.
LEMMA GoType ==
    ASSUME TypeOK, NEW p \in Proc, NEW here, NEW there \in At, Go(p, here, there)
    PROVE  /\ send' \in [Proc -> Sending]
           /\ send'[p] = [send[p] EXCEPT !.at = there]
BY DEF TypeOK, Go, Sending

\* A move changes the place of a process and nothing else about it.
LEMMA Went ==
    ASSUME TypeOK, NEW p \in Proc, NEW here, NEW there, Go(p, here, there)
    PROVE  /\ send[p].at = here
           /\ send'[p].at = there
           /\ send'[p].by = send[p].by
           /\ send'[p].config = send[p].config
           /\ send'[p].used = send[p].used
BY DEF TypeOK, Go, Sending

\* A send that ends leaves its process idle, and the flock well typed.
LEMMA EndType ==
    ASSUME TypeOK, NEW p \in Proc, End(p)
    PROVE  /\ send' \in [Proc -> Sending]
           /\ flock' \in Proc \cup {NoProc}
           /\ send'[p] = NotSending
<1>1. NotSending \in Sending
  BY DshAssumption DEF NotSending, Sending, At, SomeConfig
<1>2. QED
  BY <1>1 DEF TypeOK, End

\* Writing the record keeps the types.
LEMMA SaveType ==
    ASSUME TypeOK, NEW p \in Proc, NEW here, NEW there \in At, NEW status \in States,
           Save(p, here, status, there)
    PROVE  TypeOK'
BY GoType DEF TypeOK, Save, Record, remote

\* Sending a call keeps the types.
LEMMA CallOutType ==
    ASSUME TypeOK, NEW p \in Proc, NEW here \in At \ {"idle"}, NEW there \in At,
           NEW kind \in Kind, send[p].by \in 1..MaxSends, CallOut(p, here, kind, there)
    PROVE  TypeOK'
<1>1. send[p] \in Sending
  BY DEF TypeOK
<1>2. calls' \subseteq Call
  BY <1>1 DEF TypeOK, CallOut, Call, Sending
<1>3. QED
  BY <1>2, GoType DEF TypeOK, CallOut, remote

\* Every step keeps the types.
LEMMA TypeStep ==
    ASSUME Inv, [Next]_vars
    PROVE  TypeOK'
<1>0. TypeOK /\ \A p \in Proc : SendOk(p)
  BY DEF Inv
<1> USE DEF local, remote
<1>1. ASSUME NEW p \in Proc, Start(p) PROVE TypeOK'
  <2>1. sends' = sends + 1 /\ sends' \in 0..MaxSends
    BY <1>0, <1>1, DshAssumption DEF TypeOK, Start
  <2>2. [at |-> "open", by |-> sends + 1, config |-> config, used |-> ~blank] \in Sending
    BY <1>0, <2>1, DshAssumption DEF TypeOK, Sending, At
  <2>3. send' \in [Proc -> Sending]
    BY <1>0, <1>1, <2>2 DEF TypeOK, Start
  <2>4. QED
    BY <1>0, <1>1, <2>1, <2>3 DEF TypeOK, Start
<1>2. ASSUME NEW p \in Proc, Crash(p) PROVE TypeOK'
  BY <1>0, <1>2, EndType DEF TypeOK, Crash
<1>3. ASSUME NEW p \in Proc, Advance(p) PROVE TypeOK'
  <2>0. send[p].at # "idle" => send[p].by \in 1..MaxSends
    BY <1>0, DshAssumption DEF SendOk, TypeOK
  <2>1. CASE Lock(p)
    BY <1>0, <2>1, GoType, EndType DEF TypeOK, Lock, At
  <2>2. CASE ReadRecord(p)
    BY <1>0, <2>2, GoType, EndType DEF TypeOK, ReadRecord, At
  <2>3. CASE ListSessions(p)
    BY <1>0, <2>3, GoType, EndType DEF TypeOK, ListSessions, At
  <2>4. CASE SavePreparing(p)
    <3>1. send'  \in [Proc -> Sending]
      BY <1>0, <2>4, GoType DEF SavePreparing, At
    <3>2. record' \in Record
      BY <1>0, <2>4 DEF TypeOK, SavePreparing, Record, Sending, States, Preparing
    <3>3. QED
      BY <1>0, <2>4, <3>1, <3>2 DEF TypeOK, SavePreparing
  <2>5. CASE Stage(p)
    BY <1>0, <2>5, GoType DEF TypeOK, Stage, At
  <2>6. CASE CreateSession(p)
    BY <1>0, <2>0, <2>6, CallOutType DEF CreateSession, CallOut, Go, At, Kind
  <2>7. CASE Created(p)
    BY <1>0, <2>7, GoType DEF TypeOK, Created, At
  <2>8. CASE CheckBlank(p)
    BY <1>0, <2>8, GoType, EndType DEF TypeOK, CheckBlank, At
  <2>9. CASE SelectModel(p)
    BY <1>0, <2>0, <2>9, CallOutType DEF SelectModel, CallOut, Go, At, Kind
  <2>10. CASE Selected(p)
    BY <1>0, <2>10, GoType DEF TypeOK, Selected, At
  <2>11. CASE SaveCreated(p)
    BY <1>0, <2>11, SaveType DEF SaveCreated, At, States, Preparing
  <2>12. CASE SaveDispatching(p)
    BY <1>0, <2>12, SaveType DEF SaveDispatching, At, States, Settled
  <2>13. CASE Prompt(p)
    BY <1>0, <2>0, <2>13, CallOutType DEF Prompt, CallOut, Go, At, Kind
  <2>14. CASE Accepted(p) \/ Uncertain(p)
    BY <1>0, <2>14, GoType DEF TypeOK, Accepted, Uncertain, At
  <2>15. CASE SaveOutcome(p)
    BY <1>0, <2>15, EndType DEF TypeOK, SaveOutcome, Outcome, Record, States, Settled
  <2>16. CASE TimeOut(p)
    BY <1>0, <2>16, EndType DEF TypeOK, TimeOut
  <2>17. QED
    BY <1>3, <2>1, <2>2, <2>3, <2>4, <2>5, <2>6, <2>7, <2>8, <2>9, <2>10, <2>11,
       <2>12, <2>13, <2>14, <2>15, <2>16 DEF Advance
<1>4. ASSUME NEW c \in calls, Serve(c) PROVE TypeOK'
  <2>1. /\ session' \in {"absent", "foreign", "ours"}
        /\ model' \in Config
        /\ reviews' \in Nat
    BY <1>0, <1>4 DEF TypeOK, Serve, ServeCreate, ServeSelect, ServePrompt, Call
  <2>2. blank' \in BOOLEAN
    BY <1>0, <1>4 DEF TypeOK, Serve, ServeCreate, ServeSelect, ServePrompt
  <2>3. served' \subseteq calls
    BY <1>0, <1>4 DEF TypeOK, Serve
  <2>4. QED
    BY <1>0, <1>4, <2>1, <2>2, <2>3 DEF TypeOK, Serve
<1>5. ASSUME NEW c \in Config, Reconfigure(c) PROVE TypeOK'
  BY <1>0, <1>5 DEF TypeOK, Reconfigure
<1>6. CASE NativeMessage
  BY <1>0, <1>6 DEF TypeOK, NativeMessage
<1>7. CASE UNCHANGED vars
  BY <1>0, <1>7 DEF TypeOK, vars
<1>8. QED
  BY <1>1, <1>2, <1>3, <1>4, <1>5, <1>6, <1>7 DEF Next

-----------------------------------------------------------------------------
(***************************************************************************)
(* A send and the others.                                                  *)
(***************************************************************************)

Steps(p) == Start(p) \/ Advance(p) \/ Crash(p)

\* A step of one process does not touch another's send.
LEMMA OthersStay ==
    ASSUME NEW p \in Proc, NEW q \in Proc, q # p, Steps(p), TypeOK
    PROVE  send'[q] = send[q]
BY DEF TypeOK, Steps, Start, Advance, Crash, Lock, ReadRecord, ListSessions, SavePreparing,
       Stage, CreateSession, Created, CheckBlank, SelectModel, Selected, SaveCreated,
       SaveDispatching, Prompt, Accepted, Uncertain, SaveOutcome, TimeOut, Save, CallOut, Go, End

\* A send changes nothing of the DSH server, and the count of sends only by one.
LEMMA StepsLeave ==
    ASSUME NEW p \in Proc, Steps(p), TypeOK
    PROVE  /\ UNCHANGED remote
           /\ sends' = sends \/ sends' = sends + 1
BY DEF Steps, Start, Advance, Crash, Lock, ReadRecord, ListSessions, SavePreparing,
       Stage, CreateSession, Created, CheckBlank, SelectModel, Selected, SaveCreated,
       SaveDispatching, Prompt, Accepted, Uncertain, SaveOutcome, TimeOut, Save, CallOut, remote

\* Outside the lock a send touches neither the record nor the workspace, makes
\* no call, and takes the lock only from nobody.
LEMMA OutsideSteps ==
    ASSUME NEW p \in Proc, Steps(p), send[p].at \in {"idle", "open"}
    PROVE  /\ UNCHANGED <<record, staged, calls>>
           /\ flock # NoProc /\ flock # p => flock' = flock
<1>1. Advance(p) => Lock(p)
  BY DEF Advance, ReadRecord, ListSessions, SavePreparing,
       Stage, CreateSession, Created, CheckBlank, SelectModel, Selected, SaveCreated,
       SaveDispatching, Prompt, Accepted, Uncertain, SaveOutcome, TimeOut, Save, CallOut, Go
<1>2. QED
  BY <1>1 DEF Steps, Start, Crash, Lock, End

\* What holds of a send goes on holding when another process steps: both cannot
\* be under the flock.
LEMMA OthersUndisturbed ==
    ASSUME Inv, NEW p \in Proc, NEW q \in Proc, q # p, Steps(p)
    PROVE  SendOk(q)'
<1>1. TypeOK /\ SendOk(p) /\ SendOk(q)
  BY DEF Inv
<1>2. send'[q] = send[q]
  BY <1>1, OthersStay
<1>3. UNCHANGED remote /\ (sends' = sends \/ sends' = sends + 1) /\ sends \in Nat
  BY <1>1, StepsLeave, DshAssumption DEF TypeOK
<1>4. CASE send[q].at \in Inside
  <2>1. flock = q /\ q # NoProc
    BY <1>1, <1>4, DshAssumption DEF SendOk
  <2>2. send[p].at \in {"idle", "open"}
    BY <1>1, <2>1 DEF SendOk, Inside, TypeOK, Sending
  <2>3. UNCHANGED <<record, staged, calls>> /\ flock' = q
    BY <2>1, <2>2, OutsideSteps
  <2>4. QED
    BY <1>1, <1>2, <1>3, <1>4, <2>3
    DEF SendOk, remote, PromptCalls, SelectServed
<1>5. CASE send[q].at \notin Inside
  <2>1. send[q].at \in {"idle", "open"}
    BY <1>1, <1>5 DEF Inside, TypeOK, Sending
  <2>2. QED
    BY <1>1, <1>2, <1>3, <1>5, <2>1 DEF SendOk, remote, Inside, Prepared, Chosen, Checked
<1>6. QED
  BY <1>4, <1>5

\* What a send that leaves satisfies.
LEMMA EndedOk ==
    ASSUME TypeOK, NEW p \in Proc, End(p)
    PROVE  SendOk(p)'
BY EndType DEF SendOk, NotSending, Inside, Prepared, Chosen, Checked

\* What holds of a send goes on holding when it steps itself.
LEMMA OwnOk ==
    ASSUME Inv, NEW p \in Proc, Steps(p)
    PROVE  SendOk(p)'
<1>0. TypeOK /\ SendOk(p) /\ send[p] \in Sending
  BY DEF Inv, TypeOK
<1>1. UNCHANGED remote /\ (sends' = sends \/ sends' = sends + 1) /\ sends \in Nat
  BY <1>0, StepsLeave, DshAssumption DEF TypeOK
<1> USE DEF At, Inside, Prepared, Chosen, Checked
<1>2. CASE End(p)
  BY <1>0, <1>2, EndedOk
<1>3. CASE Start(p)
  BY <1>0, <1>1, <1>3 DEF Start, SendOk, remote, TypeOK, Sending
<1>4. CASE Lock(p) /\ ~End(p)
  BY <1>0, <1>1, <1>4, Went DEF Lock, SendOk, remote
<1>5. CASE ReadRecord(p) /\ ~End(p)
  BY <1>0, <1>1, <1>5, Went DEF ReadRecord, SendOk, remote
<1>6. CASE ListSessions(p) /\ ~End(p)
  BY <1>0, <1>1, <1>6, Went DEF ListSessions, SendOk, remote
<1>7. CASE SavePreparing(p)
  BY <1>0, <1>1, <1>7, Went DEF SavePreparing, SendOk, remote, Preparing
<1>8. CASE Stage(p)
  BY <1>0, <1>1, <1>8, Went DEF Stage, SendOk, remote
<1>9. CASE CreateSession(p) \/ SelectModel(p)
  BY <1>0, <1>1, <1>9, Went DEF CreateSession, SelectModel, CallOut, SendOk, remote
<1>10. CASE Created(p)
  BY <1>0, <1>1, <1>10, Went DEF Created, SendOk, remote
<1>11. CASE CheckBlank(p) /\ ~End(p)
  BY <1>0, <1>1, <1>11, Went DEF CheckBlank, SendOk, remote
<1>12. CASE Selected(p)
  BY <1>0, <1>1, <1>12, Went DEF Selected, SendOk, remote, Answered, SelectServed
<1>13. CASE SaveCreated(p)
  BY <1>0, <1>1, <1>13, Went
  DEF SaveCreated, Save, SendOk, remote, Preparing, SelectServed, TypeOK, Record
<1>14. CASE SaveDispatching(p)
  <2>1. PromptCalls = {} /\ record \in Record
    BY <1>0, <1>14, Went DEF SaveDispatching, Save, SendOk, Inv, AnnouncedFirst, Preparing,
                       Settled, TypeOK
  <2>2. QED
    BY <1>0, <1>1, <1>14, <2>1, Went
    DEF SaveDispatching, Save, SendOk, remote, SelectServed, PromptCalls, Record
<1>15. CASE Prompt(p)
  BY <1>0, <1>1, <1>15, Went DEF Prompt, CallOut, SendOk, remote, SelectServed
<1>16. CASE Accepted(p)
  <2>1. PromptCalls \cap served # {}
    BY <1>0, <1>16 DEF Accepted, Answered, PromptCalls, TypeOK
  <2>2. reviews = 1
    BY <2>1 DEF Inv, CallsOk
  <2>3. QED
    BY <1>0, <1>1, <1>16, <2>2, Went
    DEF Accepted, SendOk, remote, SelectServed, PromptCalls
<1>17. CASE Uncertain(p)
  BY <1>0, <1>1, <1>17, Went DEF Uncertain, SendOk, remote, SelectServed, PromptCalls
<1>18. QED
  BY <1>2, <1>3, <1>4, <1>5, <1>6, <1>7, <1>8, <1>9, <1>10, <1>11, <1>12, <1>13, <1>14,
     <1>15, <1>16, <1>17 DEF Steps, Advance, SaveOutcome, TimeOut, Crash

-----------------------------------------------------------------------------
(***************************************************************************)
(* The calls, the record and the session.                                  *)
(***************************************************************************)

Shared == CallsOk /\ AnnouncedFirst /\ AcceptedIsQueued /\ ForeignUntouched

\* Only these steps of a send touch what Shared speaks of.
LEMMA SharedUntouched ==
    ASSUME TypeOK, NEW p \in Proc, Steps(p)
    PROVE  \/ UNCHANGED <<record, calls, remote>> /\ (staged => staged')
           \/ SavePreparing(p) \/ SaveCreated(p) \/ SaveDispatching(p) \/ SaveOutcome(p)
           \/ CreateSession(p) \/ SelectModel(p) \/ Prompt(p)
BY DEF Steps, Start, Advance, Crash, Lock, ReadRecord, ListSessions,
       Stage, Created, CheckBlank, Selected, Accepted, Uncertain, TimeOut, remote

\* A call that does not prompt.
LEMMA CallAdds ==
    ASSUME Inv, NEW p \in Proc, NEW here \in Prepared \ {"staging"}, NEW there,
           NEW kind \in {"create", "select"}, CallOut(p, here, kind, there)
    PROVE  Shared'
<1>1. /\ record.status \in Preparing
      /\ record.config = send[p].config
      /\ staged
      /\ send[p].by \in 1..sends
  BY DEF Inv, SendOk, CallOut, Go, Prepared
<1>2. PromptCalls' = PromptCalls
  BY DEF CallOut, PromptCalls
<1>3. UNCHANGED <<record, staged, remote, sends>> /\ calls \subseteq calls' /\ calls' # {}
  BY DEF CallOut
<1>4. SelectServed' <=> SelectServed
  BY <1>3 DEF SelectServed, remote
<1>5. \A c \in calls' : c.by \in 1..sends /\ c.config = record.config
  BY <1>1 DEF CallOut, Inv, CallsOk
<1>6. CallsOk'
  BY <1>2, <1>3, <1>4, <1>5 DEF Inv, CallsOk, remote
<1>7. AnnouncedFirst'
  BY <1>1, <1>2, <1>3 DEF Inv, AnnouncedFirst, Preparing, remote
<1>8. AcceptedIsQueued' /\ ForeignUntouched'
  BY <1>1, <1>3 DEF Inv, AcceptedIsQueued, ForeignUntouched, Preparing, remote
<1>9. QED
  BY <1>6, <1>7, <1>8 DEF Shared

\* The prompt: nobody has called for it before, and the record is settled.
LEMMA PromptAdds ==
    ASSUME Inv, NEW p \in Proc, Prompt(p)
    PROVE  Shared'
<1> DEFINE call == [kind |-> "prompt", by |-> send[p].by, config |-> send[p].config]
<1>1. /\ record.status = "PROMPT_DISPATCHING"
      /\ record.config = send[p].config
      /\ staged
      /\ PromptCalls = {}
      /\ SelectServed
      /\ send[p].by \in 1..sends
  BY DEF Inv, SendOk, Prompt, CallOut, Go, Chosen
<1>2. UNCHANGED <<record, staged, remote, sends>> /\ calls' = calls \cup {call}
  BY DEF Prompt, CallOut
<1>3. PromptCalls' = {call}
  BY <1>1, <1>2 DEF PromptCalls
<1>4. call \notin served
  BY <1>1 DEF Inv, TypeOK, PromptCalls
<1>5. SelectServed' /\ model = record.config /\ reviews = 0
  BY <1>1, <1>2 DEF SelectServed, remote, Inv, CallsOk
<1>6. CallsOk'
  <2>1. \A c \in calls' : c.by \in 1..sends /\ c.config = record.config
    BY <1>1, <1>2 DEF Inv, CallsOk
  <2>2. PromptCalls' \cap served' = {}
    BY <1>2, <1>3, <1>4 DEF remote
  <2>3. QED
    BY <1>2, <1>3, <1>5, <2>1, <2>2 DEF CallsOk, remote
<1>7. AnnouncedFirst'
  BY <1>1, <1>2 DEF AnnouncedFirst, Settled
<1>8. AcceptedIsQueued' /\ ForeignUntouched'
  BY <1>1, <1>2 DEF Inv, AcceptedIsQueued, ForeignUntouched, remote
<1>9. QED
  BY <1>6, <1>7, <1>8 DEF Shared

\* Saving the record.
LEMMA SaveKeeps ==
    ASSUME Inv, NEW p \in Proc,
           SavePreparing(p) \/ SaveCreated(p) \/ SaveDispatching(p) \/ SaveOutcome(p)
    PROVE  Shared'
<1>0. TypeOK /\ SendOk(p) /\ record \in Record
  BY DEF Inv, TypeOK
<1>1. UNCHANGED <<staged, calls, remote, sends>>
  BY DEF SavePreparing, SaveCreated, SaveDispatching, SaveOutcome, Save
<1>2. PromptCalls' = PromptCalls /\ (SelectServed' <=> SelectServed)
  BY <1>1 DEF PromptCalls, SelectServed, remote
<1>3. CASE SavePreparing(p)
  <2>1. record.status = "NONE" /\ record'.status = "SESSION_PREPARING" /\ session # "foreign"
    BY <1>0, <1>3, Went DEF SavePreparing, SendOk
  <2>2. calls = {} /\ served = {}
    BY <2>1 DEF Inv, AnnouncedFirst, TypeOK
  <2>3. QED
    BY <1>1, <1>2, <2>1, <2>2
    DEF Inv, Shared, CallsOk, AnnouncedFirst, AcceptedIsQueued, ForeignUntouched, PromptCalls,
        SelectServed, remote
<1>4. CASE SaveCreated(p) \/ SaveDispatching(p) \/ SaveOutcome(p)
  <2>1. /\ record'.config = record.config
        /\ record.status # "NONE" /\ record'.status # "NONE"
        /\ PromptCalls # {} => record'.status \in Settled
        /\ record'.status = "PROMPT_ACCEPTED" => reviews = 1
    <3>1. CASE SaveCreated(p)
      BY <1>0, <3>1, Went
      DEF SaveCreated, Save, SendOk, Prepared, Preparing, Settled, Record, Inv, AnnouncedFirst
    <3>2. CASE SaveDispatching(p)
      BY <1>0, <3>2, Went
      DEF SaveDispatching, Save, SendOk, Prepared, Preparing, Settled, Record
    <3>3. CASE SaveOutcome(p)
      BY <1>0, <3>3 DEF SaveOutcome, Outcome, SendOk, Settled, Record
    <3>4. QED
      BY <1>4, <3>1, <3>2, <3>3
  <2>2. QED
    BY <1>1, <1>2, <2>1
    DEF Inv, Shared, CallsOk, AnnouncedFirst, AcceptedIsQueued, ForeignUntouched, remote
<1>5. QED
  BY <1>3, <1>4

\* Steps of a process keep the part of the invariant about record and calls.
LEMMA SharedStep ==
    ASSUME Inv, NEW p \in Proc, Steps(p)
    PROVE  Shared'
<1>1. TypeOK /\ sends \in Nat /\ sends' \in {sends, sends + 1}
  BY StepsLeave, DshAssumption DEF Inv, TypeOK
<1>2. CASE UNCHANGED <<record, calls, remote>> /\ (staged => staged')
  <2>1. PromptCalls' = PromptCalls /\ (SelectServed' <=> SelectServed)
    BY <1>2 DEF PromptCalls, SelectServed, remote
  <2>2. QED
    BY <1>1, <1>2, <2>1
    DEF Inv, Shared, CallsOk, AnnouncedFirst, AcceptedIsQueued, ForeignUntouched, remote
<1>3. CASE CreateSession(p)
  BY <1>3, CallAdds DEF CreateSession, Prepared
<1>4. CASE SelectModel(p)
  BY <1>4, CallAdds DEF SelectModel, Prepared
<1>5. QED
  BY <1>1, <1>2, <1>3, <1>4, PromptAdds, SaveKeeps, SharedUntouched

\* The numbers of the sends, and what a used session is spared.
LEMMA NumbersStep ==
    ASSUME Inv, NEW p \in Proc, Steps(p)
    PROVE  SendsDiffer' /\ UsedSessionRefused'
<1>0. TypeOK /\ SendsDiffer /\ UsedSessionRefused /\ \A q \in Proc : SendOk(q)
  BY DEF Inv
<1>1. \A q \in Proc : q # p => send'[q] = send[q]
  BY <1>0, OthersStay
<1>2. send[p] \in Sending /\ sends \in Nat
  BY <1>0, DshAssumption DEF TypeOK
<1>3. \/ send'[p].at = "idle" /\ send'[p].by = 0 /\ ~send'[p].used
      \/ send'[p].by = sends + 1 /\ send[p].at = "idle" /\ calls' = calls
      \/ send'[p].by = send[p].by /\ send'[p].used = send[p].used /\ send[p].at # "idle"
  <2>1. CASE End(p)
    BY <1>0, <2>1, EndType DEF NotSending
  <2>2. CASE Start(p)
    BY <1>0, <2>2 DEF Start, TypeOK
  <2>3. CASE ~End(p) /\ ~Start(p)
    BY <1>0, <2>3, Went
    DEF Steps, Advance, Crash, Lock, ReadRecord, ListSessions, SavePreparing,
       Stage, CreateSession, Created, CheckBlank, SelectModel, Selected, SaveCreated,
       SaveDispatching, Prompt, Accepted, Uncertain, SaveOutcome, TimeOut, Save, CallOut
  <2>4. QED
    BY <2>1, <2>2, <2>3
<1>4. \A q \in Proc : send[q].by \in 0..sends
  BY <1>0, <1>2 DEF SendOk
<1>5. SendsDiffer'
  BY <1>0, <1>1, <1>2, <1>3, <1>4 DEF SendsDiffer, SendOk
<1>6. \A c \in PromptCalls' : c \in PromptCalls \/ (c.by = send[p].by /\ ~send[p].used
                                                    /\ send[p].at # "idle")
  <2>1. CASE calls' = calls
    BY <2>1 DEF PromptCalls
  <2>2. CASE CreateSession(p) \/ SelectModel(p)
    BY <2>2 DEF CreateSession, SelectModel, CallOut, PromptCalls
  <2>3. CASE Prompt(p)
    BY <1>0, <2>3 DEF Prompt, CallOut, Go, PromptCalls, SendOk, Checked, Chosen
  <2>4. QED
    BY <1>0, <2>1, <2>2, <2>3, SharedUntouched
    DEF SavePreparing, SaveCreated, SaveDispatching, SaveOutcome, Save
<1>7. \A c \in PromptCalls : c.by \in 1..sends
  BY DEF Inv, CallsOk, PromptCalls
<1>8. UsedSessionRefused'
  <2> SUFFICES ASSUME NEW q \in Proc, send'[q].used, NEW c \in PromptCalls'
               PROVE  c.by # send'[q].by
    BY DEF UsedSessionRefused
  <2>1. CASE q = p
    BY <1>0, <1>2, <1>3, <1>6, <1>7, <2>1 DEF UsedSessionRefused, PromptCalls
  <2>2. CASE q # p
    BY <1>0, <1>1, <1>6, <2>2 DEF UsedSessionRefused, SendsDiffer
  <2>3. QED
    BY <2>1, <2>2
<1>9. QED
  BY <1>5, <1>8

-----------------------------------------------------------------------------
(***************************************************************************)
(* The DSH server and the configuration.                                   *)
(***************************************************************************)

\* DSH serving a call keeps the invariant.
LEMMA ServeKeeps ==
    ASSUME Inv, NEW c \in calls, Serve(c)
    PROVE  (\A p \in Proc : SendOk(p)') /\ Shared'
<1>0. TypeOK /\ CallsOk /\ \A p \in Proc : SendOk(p)
  BY DEF Inv
<1>1. /\ c \notin served /\ served' = served \cup {c}
      /\ UNCHANGED <<config, record, staged, flock, send, sends, calls>>
      /\ blank' => blank
  BY DEF Serve, ServeCreate, ServeSelect, ServePrompt, local
<1>2. PromptCalls' = PromptCalls /\ (SelectServed => SelectServed')
  BY <1>1 DEF PromptCalls, SelectServed
<1>3. session' = "foreign" => session = "foreign"
  BY DEF Serve, ServeCreate, ServeSelect, ServePrompt
<1>4. reviews' = IF PromptCalls \cap served' = {} THEN 0 ELSE 1
  <2>1. CASE c \in PromptCalls
    <3>1. PromptCalls \cap served = {} /\ c \in PromptCalls \cap served'
      BY <1>0, <1>1, <2>1 DEF CallsOk
    <3>2. reviews' = reviews + 1
      BY <2>1 DEF PromptCalls, Serve, ServeCreate, ServeSelect, ServePrompt
    <3>3. QED
      BY <1>0, <3>1, <3>2 DEF CallsOk
  <2>2. CASE c \notin PromptCalls
    <3>1. PromptCalls \cap served' = PromptCalls \cap served
      BY <1>1, <2>2
    <3>2. reviews' = reviews
      BY <2>2 DEF PromptCalls, Serve, ServeCreate, ServeSelect, ServePrompt
    <3>3. QED
      BY <1>0, <3>1, <3>2 DEF CallsOk
  <2>3. QED
    BY <2>1, <2>2
<1>5. reviews = 1 => reviews' = 1
  <2>1. reviews = 1 => PromptCalls \cap served # {}
    BY <1>0 DEF CallsOk
  <2>2. QED
    BY <1>1, <1>4, <2>1
<1>6. SelectServed' => model' = record.config
  <2>1. CASE c.kind = "select"
    BY <1>0, <2>1 DEF CallsOk, Serve, ServeCreate, ServeSelect, ServePrompt
  <2>2. CASE c.kind # "select"
    <3>1. model' = model /\ (SelectServed' => SelectServed)
      BY <1>1, <2>2 DEF SelectServed, Serve, ServeCreate, ServeSelect, ServePrompt
    <3>2. QED
      BY <1>0, <3>1 DEF CallsOk
  <2>3. QED
    BY <2>1, <2>2
<1>7. ASSUME NEW p \in Proc PROVE SendOk(p)'
  BY <1>0, <1>1, <1>2, <1>3, <1>5 DEF SendOk
<1>8. CallsOk'
  BY <1>0, <1>1, <1>2, <1>4, <1>6 DEF CallsOk
<1>9. AnnouncedFirst' /\ AcceptedIsQueued' /\ ForeignUntouched'
  BY <1>1, <1>2, <1>3, <1>5 DEF Inv, AnnouncedFirst, AcceptedIsQueued, ForeignUntouched
<1>10. QED
  BY <1>7, <1>8, <1>9 DEF Shared

\* So does what happens in DSH between calls.
LEMMA StaysPut ==
    ASSUME Inv, UNCHANGED <<local, served, session, model, reviews>>, blank' => blank
    PROVE  (\A p \in Proc : SendOk(p)') /\ Shared'
<1>1. PromptCalls' = PromptCalls /\ (SelectServed' <=> SelectServed)
  BY DEF PromptCalls, SelectServed, local
<1>2. ASSUME NEW p \in Proc PROVE SendOk(p)'
  BY <1>1 DEF Inv, SendOk, local
<1>3. Shared'
  BY <1>1
  DEF Inv, Shared, CallsOk, AnnouncedFirst, AcceptedIsQueued, ForeignUntouched, local
<1>4. QED
  BY <1>2, <1>3

\* Every reachable state satisfies the invariant.
LEMMA Invariance == Spec => []Inv
<1>1. ASSUME Inv, [Next]_vars PROVE Inv'
  <2>1. ASSUME NEW p \in Proc, Steps(p) PROVE Inv'
    <3>1. \A q \in Proc : SendOk(q)'
      BY <1>1, <2>1, OwnOk, OthersUndisturbed
    <3>2. QED
      BY <1>1, <2>1, <3>1, TypeStep, SharedStep, NumbersStep DEF Inv, Shared
  <2>2. ASSUME UNCHANGED <<send, calls>>,
               (\A p \in Proc : SendOk(p)') /\ Shared'
        PROVE  Inv'
    <3>1. SendsDiffer' /\ UsedSessionRefused'
      BY <1>1, <2>2 DEF Inv, SendsDiffer, UsedSessionRefused, PromptCalls
    <3>2. QED
      BY <1>1, <2>2, <3>1, TypeStep DEF Inv, Shared
  <2>3. ASSUME NEW c \in calls, Serve(c) PROVE Inv'
    BY <1>1, <2>2, <2>3, ServeKeeps DEF Serve, local
  <2>4. CASE \/ \E c \in Config : Reconfigure(c)
             \/ NativeMessage
             \/ UNCHANGED vars
    <3>1. UNCHANGED <<local, served, session, model, reviews>> /\ (blank' => blank)
      BY <2>4 DEF Reconfigure, NativeMessage, vars, local, remote
    <3>2. QED
      BY <1>1, <2>2, <3>1, StaysPut DEF local
  <2>5. QED
    BY <1>1, <2>1, <2>3, <2>4 DEF Next, Steps
<1>2. QED
  BY InitInv, <1>1, PTL DEF Spec

-----------------------------------------------------------------------------
\* The state keeps its types.
THEOREM TypeCorrect == Spec => []TypeOK
<1>1. Inv => TypeOK
  BY DEF Inv
<1>2. QED
  BY <1>1, Invariance, PTL

\* send calls session/prompt at most once for a binding, over all processes,
\* crashes, timeouts and retries, and DSH queues at most one review prompt.
THEOREM AtMostOnePrompt == Spec => []OnePromptCall
<1>1. ASSUME Inv PROVE OnePromptCall
  <2>1. Cardinality(PromptCalls) <= 1
    <3>1. CASE PromptCalls = {}
      BY <3>1, FS_EmptySet
    <3>2. CASE PromptCalls # {}
      <4>1. PICK c \in PromptCalls : TRUE
        BY <3>2
      <4>2. PromptCalls = {c}
        BY <1>1 DEF Inv, CallsOk
      <4>3. QED
        BY <4>2, FS_Singleton
    <3>3. QED
      BY <3>1, <3>2
  <2>2. QED
    BY <1>1, <2>1 DEF OnePromptCall, Inv, CallsOk
<1>2. QED
  BY <1>1, Invariance, PTL

\* Each durable status is on disk before the step it announces: no prompt is
\* called for before PROMPT_DISPATCHING, nothing at all before
\* SESSION_PREPARING and the staged workspace.
THEOREM RecordedBeforeDone == Spec => []AnnouncedFirst
<1>1. Inv => AnnouncedFirst
  BY DEF Inv
<1>2. QED
  BY <1>1, Invariance, PTL

\* A session with messages gets no review prompt from a send that began later.
THEOREM NoPromptIntoUsed == Spec => []UsedSessionRefused
<1>1. Inv => UsedSessionRefused
  BY DEF Inv
<1>2. QED
  BY <1>1, Invariance, PTL

\* A session without a local record is never adopted.
THEOREM NeverAdopted == Spec => []ForeignUntouched
<1>1. Inv => ForeignUntouched
  BY DEF Inv
<1>2. QED
  BY <1>1, Invariance, PTL

\* The review ran on the model that the record names.
THEOREM ModelAsRecorded == Spec => []ReviewedAsRecorded
<1>1. Inv => ReviewedAsRecorded
  BY DEF Inv, CallsOk, ReviewedAsRecorded
<1>2. QED
  BY <1>1, Invariance, PTL

\* The bridge implements the abstract promise: one prompt, decided on first,
\* with one final outcome.
THEOREM Implementation == Spec => ImplementsOnePrompt
<1>1. Init => Promise!Init
  BY DEF Init, Promise!Init, NoRecord, Settled
<1>2. ASSUME Inv, [Next]_vars PROVE [Promise!Next]_(Promise!vars)
  <2>0. TypeOK /\ CallsOk /\ record \in Record
    BY <1>2 DEF Inv, TypeOK
  <2>1. CASE UNCHANGED <<record, reviews>>
    BY <2>1 DEF Promise!vars
  <2>2. ASSUME NEW p \in Proc, Steps(p), ~UNCHANGED <<record, reviews>>
        PROVE  [Promise!Next]_(Promise!vars)
    <3>0. reviews' = reviews /\ SendOk(p) /\ AnnouncedFirst
      BY <1>2, <2>0, <2>2, StepsLeave DEF remote, Inv
    <3>1. CASE SavePreparing(p) \/ SaveCreated(p)
      <4>1. record.status \notin Settled /\ record'.status \notin Settled
        BY <2>0, <3>0, <3>1, Went
        DEF SavePreparing, SaveCreated, Save, SendOk, Prepared, Preparing, Settled, Record
      <4>2. QED
        BY <3>0, <4>1 DEF Promise!vars, Settled
    <3>2. CASE SaveDispatching(p)
      <4>1. record.status \notin Settled /\ record'.status = "PROMPT_DISPATCHING"
        BY <2>0, <3>0, <3>2, Went
        DEF SaveDispatching, Save, SendOk, Prepared, Preparing, Settled, Record
      <4>2. QED
        BY <3>0, <4>1 DEF Promise!Next, Promise!Decide, Settled
    <3>3. CASE SaveOutcome(p)
      <4>1. /\ record.status = "PROMPT_DISPATCHING"
            /\ \/ record'.status = "PROMPT_ACCEPTED" /\ reviews > 0
               \/ record'.status = "DELIVERY_UNCERTAIN"
        BY <2>0, <3>0, <3>3 DEF SaveOutcome, Outcome, SendOk, Record
      <4>2. QED
        BY <3>0, <4>1 DEF Promise!Next, Promise!Conclude, Settled
    <3>4. QED
      BY <2>0, <2>2, <3>0, <3>1, <3>2, <3>3, SharedUntouched
      DEF CreateSession, SelectModel, Prompt, CallOut
  <2>3. ASSUME NEW c \in calls, Serve(c), ~UNCHANGED <<record, reviews>>
        PROVE  [Promise!Next]_(Promise!vars)
    <3>1. c \in PromptCalls /\ record' = record /\ reviews' = reviews + 1 /\ c \notin served
      BY <2>3 DEF Serve, ServeCreate, ServeSelect, ServePrompt, PromptCalls, local
    <3>2. record.status \in Settled
      BY <1>2, <3>1 DEF Inv, AnnouncedFirst
    <3>3. reviews = 0
      BY <2>0, <3>1 DEF CallsOk
    <3>4. QED
      BY <3>1, <3>2, <3>3 DEF Promise!Next, Promise!Queue
  <2>4. QED
    BY <1>2, <2>1, <2>2, <2>3
    DEF Next, Steps, Reconfigure, NativeMessage, vars, local, remote
<1>3. QED
  BY <1>1, <1>2, Invariance, PTL DEF Spec, ImplementsOnePrompt, Promise!Spec

-----------------------------------------------------------------------------
(***************************************************************************)
(* Nothing goes back.                                                      *)
(***************************************************************************)

\* A status that was told of is never taken back, and the configuration that is
\* recorded with the first one stays, over all sends and crashes.
THEOREM StatusForward == Spec => RecordForward
<1>1. ASSUME Inv, [Next]_vars, record' # record
      PROVE  /\ Rank(record'.status) > Rank(record.status)
             /\ record.status # "NONE" => record'.config = record.config
  <2>1. TypeOK /\ record \in Record
    BY <1>1 DEF Inv, TypeOK
  <2>2. PICK p \in Proc : Steps(p)
    BY <1>1 DEF Next, Steps, Serve, Reconfigure, NativeMessage, vars, local
  <2>3. SendOk(p)
    BY <1>1 DEF Inv
  <2>4. SavePreparing(p) \/ SaveCreated(p) \/ SaveDispatching(p) \/ SaveOutcome(p)
    BY <1>1, <2>1, <2>2, SharedUntouched
    DEF Steps, Advance, Start, Crash, Lock, ReadRecord, ListSessions, Stage, CreateSession,
        Created, CheckBlank, SelectModel, Selected, Prompt, Accepted, Uncertain, TimeOut, CallOut
  <2>5. CASE SavePreparing(p)
    BY <2>1, <2>3, <2>5 DEF SavePreparing, Go, SendOk, Rank
  <2>6. CASE SaveCreated(p)
    <3>1. record.status \in Preparing /\ record' = [record EXCEPT !.status = "SESSION_CREATED"]
      BY <2>3, <2>6 DEF SaveCreated, Save, Go, SendOk, Prepared
    <3>2. record.status # "SESSION_CREATED"
      BY <1>1, <2>1, <3>1 DEF Record
    <3> QED
      BY <2>1, <3>1, <3>2 DEF Rank, Preparing, Record
  <2>7. CASE SaveDispatching(p)
    BY <2>1, <2>3, <2>7 DEF SaveDispatching, Save, Go, SendOk, Prepared, Preparing, Rank, Record
  <2>8. CASE SaveOutcome(p)
    BY <2>1, <2>3, <2>8 DEF SaveOutcome, Outcome, SendOk, Rank, Record
  <2> QED
    BY <2>4, <2>5, <2>6, <2>7, <2>8
<1>2. Inv /\ [Next]_vars =>
         [record' # record =>
             /\ Rank(record'.status) > Rank(record.status)
             /\ record.status # "NONE" => record'.config = record.config]_vars
  BY <1>1
<1> QED
  BY <1>2, Invariance, PTL DEF Spec, RecordForward

Progress(at) ==
    CASE at = "open" -> 1
      [] at = "reading" -> 2
      [] at = "listing" -> 3
      [] at = "recording" -> 4
      [] at = "staging" -> 5
      [] at = "creating" -> 6
      [] at = "created" -> 7
      [] at = "checking" -> 8
      [] at = "selecting" -> 9
      [] at = "selected" -> 10
      [] at = "acknowledging" -> 11
      [] at = "announcing" -> 12
      [] at = "dispatching" -> 13
      [] at = "dispatched" -> 14
      [] at \in {"accepted", "uncertain"} -> 15
      [] OTHER -> 0

\* The safety half of SendEnds: a send never does a step again, waits in no loop
\* for DSH, and so ends after at most fifteen steps of its own.
THEOREM SendsGoForward ==
    Spec => [][\A p \in Proc :
                  send[p].at # "idle" /\ send'[p] # send[p] =>
                      send'[p].at = "idle" \/ Progress(send'[p].at) > Progress(send[p].at)]_vars
<1>1. ASSUME TypeOK, [Next]_vars, NEW p \in Proc, send[p].at # "idle", send'[p] # send[p]
      PROVE  send'[p].at = "idle" \/ Progress(send'[p].at) > Progress(send[p].at)
  <2>1. Steps(p)
    <3>1. \E q \in Proc : Steps(q)
      BY <1>1 DEF Next, Steps, Serve, Reconfigure, NativeMessage, vars, local
    <3> QED
      BY <1>1, <3>1, OthersStay
  <2>2. CASE End(p)
    BY <1>1, <2>2, EndType DEF NotSending
  <2>3. ASSUME NEW here, NEW there, Go(p, here, there)
        PROVE  send[p].at = here /\ send'[p].at = there
    BY <1>1, <2>3, Went
  <2>4. ASSUME ~End(p) PROVE Progress(send'[p].at) > Progress(send[p].at)
    <3>1. Advance(p) /\ ~Crash(p) /\ ~TimeOut(p) /\ ~SaveOutcome(p)
      BY <1>1, <2>1, <2>4 DEF Steps, Start, Crash, TimeOut, SaveOutcome
    <3>2. \/ Go(p, "open", "reading") \/ Go(p, "reading", "listing")
          \/ Go(p, "reading", "staging") \/ Go(p, "listing", "recording")
          \/ Go(p, "recording", "staging") \/ Go(p, "staging", "creating")
          \/ Go(p, "creating", "created") \/ Go(p, "created", "checking")
          \/ Go(p, "checking", "selecting") \/ Go(p, "selecting", "selected")
          \/ Go(p, "selected", "acknowledging") \/ Go(p, "acknowledging", "announcing")
          \/ Go(p, "announcing", "dispatching") \/ Go(p, "dispatching", "dispatched")
          \/ Go(p, "dispatched", "accepted") \/ Go(p, "dispatched", "uncertain")
      BY <2>4, <3>1
      DEF Advance, Lock, ReadRecord, ListSessions, SavePreparing, Stage, CreateSession, Created,
          CheckBlank, SelectModel, Selected, SaveCreated, SaveDispatching, Prompt, Accepted,
          Uncertain, Save, CallOut
    <3> QED
      BY <2>3, <3>2 DEF Progress
  <2> QED
    BY <2>2, <2>4
<1>2. TypeOK /\ [Next]_vars =>
         [\A p \in Proc :
             send[p].at # "idle" /\ send'[p] # send[p] =>
                 send'[p].at = "idle" \/ Progress(send'[p].at) > Progress(send[p].at)]_vars
  BY <1>1
<1> QED
  BY <1>2, TypeCorrect, PTL DEF Spec
=============================================================================
