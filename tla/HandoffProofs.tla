--------------------------- MODULE HandoffProofs ---------------------------
(***************************************************************************)
(* Proofs about what is handed to the implementing side: CodingHandoff,    *)
(* for any number of processes, configurations and preparations, and       *)
(* V03Gateway, for any contents and any number of revisions.               *)
(*                                                                         *)
(* The flock makes the preparation that is past it the only one that       *)
(* writes the record, so that what it read there stays true; every call    *)
(* carries the recorded configuration, so that a call that is served late  *)
(* changes nothing.  The lineage makes every revision of a requirement one *)
(* that was never there before.                                            *)
(***************************************************************************)
EXTENDS CodingHandoff, V03Gateway, TLAPS

Working == {"reading", "looking", "staging", "listing", "recording", "creating",
            "created", "checking", "selecting", "selected", "finishing"}

\* Who is past the lock holds it, and each preparation has a number.
Exclusive ==
    /\ \A p \in Proc : prep[p].at \in Working => flock = p
    /\ flock # NoProc => prep[flock].at \in Working
    /\ \A p \in Proc : /\ prep[p].by <= preps
                       /\ prep[p].at # "idle" => prep[p].by # 0
                       /\ prep[p].at = "idle" => ~prep[p].used
    /\ \A p, q \in Proc : p # q /\ prep[p].at # "idle" => prep[p].by # prep[q].by

\* What a preparation has found and done by the step it is at.
Reached(p) ==
    LET at == prep[p].at IN
    /\ at = "looking" => record.status = "NONE" \/ record.config = prep[p].config
    /\ at \in {"staging", "listing", "recording"} => record.status = "NONE"
    /\ at \in {"listing", "recording"} /\ ~interfered => Verifies
    /\ at = "recording" => session = "absent"
    /\ at \in {"creating", "created", "checking", "selecting", "selected", "finishing"} =>
          record.status = "PREPARING" /\ record.config = prep[p].config
    /\ at \in {"checking", "selecting", "selected", "finishing"} => session = "ours"
    /\ at = "finishing" => model = record.config
    /\ at \in {"selecting", "selected", "finishing"} => ~prep[p].used
    /\ prep[p].used => ~blank

\* The calls, and what became of them.
Called ==
    /\ \A c \in calls : c.by <= preps /\ c.config = record.config /\ record.status # "NONE"
    /\ \A c \in served : IF c.kind = "create" THEN session # "absent" ELSE model = record.config
    /\ \A p \in Proc : \A c \in calls :
          c.kind = "select" /\ c.by = prep[p].by => prep[p].at \in {"selected", "finishing"}

Recorded ==
    /\ session = "foreign" => record.status = "NONE"
    /\ session = "ours" => record.status # "NONE"
    /\ ~interfered => workspace # "changed" /\ blank
    /\ ~interfered /\ record.status # "NONE" => Verifies
    /\ ReadyIsTrue

Inv == TypeOK /\ Exclusive /\ (\A p \in Proc : Reached(p)) /\ Called /\ Recorded

\* Moving to another step of the code leaves every preparation well formed.
LEMMA GoTyped ==
    ASSUME TypeOK, NEW p \in Proc, NEW here, NEW there \in At, Go(p, here, there)
    PROVE  prep' \in [Proc -> Preparation]
<1>1. [prep[p] EXCEPT !.at = there] \in Preparation
  BY DEF TypeOK, Preparation
<1> QED
  BY <1>1 DEF TypeOK, Go

\* So does ending one, whether it ends by itself or by a crash.
LEMMA EndTyped ==
    ASSUME TypeOK, NEW p \in Proc, End(p)
    PROVE  prep' \in [Proc -> Preparation]
<1>1. NotPreparing \in Preparation
  BY CodingAssumption DEF NotPreparing, Preparation, At, SomeConfig
<1> QED
  BY <1>1 DEF TypeOK, End

\* A preparation at work makes a call that is one.
LEMMA CallTyped ==
    ASSUME TypeOK, Exclusive, NEW p \in Proc, prep[p].at # "idle", NEW kind \in Kind
    PROVE  [kind |-> kind, by |-> prep[p].by, config |-> prep[p].config] \in Call
  BY CodingAssumption DEF TypeOK, Exclusive, Preparation, Call

\* A preparation begins: the owner asks for the handoff.
LEMMA StartInv ==
    ASSUME Inv, NEW p \in Proc, Start(p)
    PROVE  Inv'
<1>1. TypeOK'
  BY CodingAssumption DEF Inv, TypeOK, Preparation, NotPreparing, At, Record,
     Call, Kind, Workspace, Start, remote
<1>2. Exclusive'
  BY CodingAssumption DEF Inv, TypeOK, Preparation, NotPreparing, At, Record,
     Call, Kind, Workspace, Exclusive, Working, Start, remote, local
<1>3. \A q \in Proc : Reached(q)'
  BY CodingAssumption DEF Inv, TypeOK, Preparation, NotPreparing, At, Record,
     Call, Kind, Workspace, Exclusive, Working, Reached, Called, Recorded,
     Start, remote, local, Verifies
<1>4. Called'
  BY CodingAssumption DEF Inv, TypeOK, Preparation, NotPreparing, At, Record,
     Call, Kind, Workspace, Exclusive, Working, Reached, Called, Start,
     remote, local
<1>5. Recorded'
  BY CodingAssumption DEF Inv, TypeOK, Preparation, NotPreparing, At, Record,
     Call, Kind, Workspace, Exclusive, Working, Reached, Called, Recorded,
     ReadyIsTrue, Start, remote, local, Verifies
<1> QED
  BY <1>1, <1>2, <1>3, <1>4, <1>5 DEF Inv

\* It gets the lock, or is refused.
LEMMA LockInv ==
    ASSUME Inv, NEW p \in Proc, Lock(p)
    PROVE  Inv'
<1>1. TypeOK'
  <2>1. prep' \in [Proc -> Preparation]
    BY GoTyped, EndTyped DEF Inv, At, Lock
  <2> QED
    BY <2>1, CodingAssumption DEF Inv, TypeOK, Record, Call, Kind, Workspace,
       Preparation, At, Lock, Go, End, remote
<1>2. Exclusive'
  BY CodingAssumption DEF Inv, TypeOK, Preparation, NotPreparing, At, Record,
     Call, Kind, Workspace, Exclusive, Working, Lock, Go, End, remote, local
<1>3. \A q \in Proc : Reached(q)'
  BY CodingAssumption DEF Inv, TypeOK, Preparation, NotPreparing, At, Record,
     Call, Kind, Workspace, Exclusive, Working, Reached, Called, Recorded,
     Lock, Go, End, remote, local, Verifies
<1>4. Called'
  BY CodingAssumption DEF Inv, TypeOK, Preparation, NotPreparing, At, Record,
     Call, Kind, Workspace, Exclusive, Working, Reached, Called, Lock, Go,
     End, remote, local
<1>5. Recorded'
  BY CodingAssumption DEF Inv, TypeOK, Preparation, NotPreparing, At, Record,
     Call, Kind, Workspace, Exclusive, Working, Reached, Called, Recorded,
     ReadyIsTrue, Lock, Go, End, remote, local, Verifies
<1> QED
  BY <1>1, <1>2, <1>3, <1>4, <1>5 DEF Inv

\* It compares the record with the configuration.
LEMMA ReadRecordInv ==
    ASSUME Inv, NEW p \in Proc, ReadRecord(p)
    PROVE  Inv'
<1>1. TypeOK'
  <2>1. prep' \in [Proc -> Preparation]
    BY GoTyped, EndTyped DEF Inv, At, ReadRecord
  <2> QED
    BY <2>1, CodingAssumption DEF Inv, TypeOK, Record, Call, Kind, Workspace,
       Preparation, At, ReadRecord, Go, End, remote
<1>2. Exclusive'
  BY CodingAssumption DEF Inv, TypeOK, Preparation, NotPreparing, At, Record,
     Call, Kind, Workspace, Exclusive, Working, ReadRecord, Go, End, remote,
     local
<1>3. \A q \in Proc : Reached(q)'
  BY CodingAssumption DEF Inv, TypeOK, Preparation, NotPreparing, At, Record,
     Call, Kind, Workspace, Exclusive, Working, Reached, Called, Recorded,
     ReadRecord, Go, End, remote, local, Verifies
<1>4. Called'
  BY CodingAssumption DEF Inv, TypeOK, Preparation, NotPreparing, At, Record,
     Call, Kind, Workspace, Exclusive, Working, Reached, Called, ReadRecord,
     Go, End, remote, local
<1>5. Recorded'
  BY CodingAssumption DEF Inv, TypeOK, Preparation, NotPreparing, At, Record,
     Call, Kind, Workspace, Exclusive, Working, Reached, Called, Recorded,
     ReadyIsTrue, ReadRecord, Go, End, remote, local, Verifies
<1> QED
  BY <1>1, <1>2, <1>3, <1>4, <1>5 DEF Inv

\* It looks at the workspace and finds where to go on.
LEMMA CheckWorkspaceInv ==
    ASSUME Inv, NEW p \in Proc, CheckWorkspace(p)
    PROVE  Inv'
<1>1. TypeOK'
  <2>1. prep' \in [Proc -> Preparation]
    BY GoTyped, EndTyped DEF Inv, At, CheckWorkspace, Resume, Verifies
  <2> QED
    BY <2>1, CodingAssumption DEF Inv, TypeOK, Record, Call, Kind, Workspace,
       Preparation, At, CheckWorkspace, Go, End, Resume, Verifies, remote
<1>2. Exclusive'
  BY CodingAssumption DEF Inv, TypeOK, Preparation, NotPreparing, At, Record,
     Call, Kind, Workspace, Exclusive, Working, CheckWorkspace, Go, End,
     Resume, Verifies, remote, local
<1>3. \A q \in Proc : Reached(q)'
  BY CodingAssumption DEF Inv, TypeOK, Preparation, NotPreparing, At, Record,
     Call, Kind, Workspace, Exclusive, Working, Reached, Called, Recorded,
     CheckWorkspace, Go, End, Resume, Verifies, remote, local
<1>4. Called'
  BY CodingAssumption DEF Inv, TypeOK, Preparation, NotPreparing, At, Record,
     Call, Kind, Workspace, Exclusive, Working, Reached, Called,
     CheckWorkspace, Go, End, Resume, Verifies, remote, local
<1>5. Recorded'
  BY CodingAssumption DEF Inv, TypeOK, Preparation, NotPreparing, At, Record,
     Call, Kind, Workspace, Exclusive, Working, Reached, Called, Recorded,
     ReadyIsTrue, CheckWorkspace, Go, End, Resume, Verifies, remote, local
<1> QED
  BY <1>1, <1>2, <1>3, <1>4, <1>5 DEF Inv

\* It renames the staged bundle into place.
LEMMA PlaceWorkspaceInv ==
    ASSUME Inv, NEW p \in Proc, PlaceWorkspace(p)
    PROVE  Inv'
<1>1. TypeOK'
  <2>1. prep' \in [Proc -> Preparation]
    BY GoTyped, EndTyped DEF Inv, At, PlaceWorkspace, Verifies
  <2> QED
    BY <2>1, CodingAssumption DEF Inv, TypeOK, Record, Call, Kind, Workspace,
       Preparation, At, PlaceWorkspace, Go, End, Verifies, remote
<1>2. Exclusive'
  BY CodingAssumption DEF Inv, TypeOK, Preparation, NotPreparing, At, Record,
     Call, Kind, Workspace, Exclusive, Working, PlaceWorkspace, Go, End,
     Verifies, remote, local
<1>3. \A q \in Proc : Reached(q)'
  BY CodingAssumption DEF Inv, TypeOK, Preparation, NotPreparing, At, Record,
     Call, Kind, Workspace, Exclusive, Working, Reached, Called, Recorded,
     PlaceWorkspace, Go, End, Verifies, remote, local
<1>4. Called'
  BY CodingAssumption DEF Inv, TypeOK, Preparation, NotPreparing, At, Record,
     Call, Kind, Workspace, Exclusive, Working, Reached, Called,
     PlaceWorkspace, Go, End, Verifies, remote, local
<1>5. Recorded'
  BY CodingAssumption DEF Inv, TypeOK, Preparation, NotPreparing, At, Record,
     Call, Kind, Workspace, Exclusive, Working, Reached, Called, Recorded,
     ReadyIsTrue, PlaceWorkspace, Go, End, Verifies, remote, local
<1> QED
  BY <1>1, <1>2, <1>3, <1>4, <1>5 DEF Inv

\* It looks for a session that is already there.
LEMMA ListSessionsInv ==
    ASSUME Inv, NEW p \in Proc, ListSessions(p)
    PROVE  Inv'
<1>1. TypeOK'
  <2>1. prep' \in [Proc -> Preparation]
    BY GoTyped, EndTyped DEF Inv, At, ListSessions, Verifies
  <2> QED
    BY <2>1, CodingAssumption DEF Inv, TypeOK, Record, Call, Kind, Workspace,
       Preparation, At, ListSessions, Go, End, Verifies, remote
<1>2. Exclusive'
  BY CodingAssumption DEF Inv, TypeOK, Preparation, NotPreparing, At, Record,
     Call, Kind, Workspace, Exclusive, Working, ListSessions, Go, End,
     Verifies, remote, local
<1>3. \A q \in Proc : Reached(q)'
  BY CodingAssumption DEF Inv, TypeOK, Preparation, NotPreparing, At, Record,
     Call, Kind, Workspace, Exclusive, Working, Reached, Called, Recorded,
     ListSessions, Go, End, Verifies, remote, local
<1>4. Called'
  BY CodingAssumption DEF Inv, TypeOK, Preparation, NotPreparing, At, Record,
     Call, Kind, Workspace, Exclusive, Working, Reached, Called, ListSessions,
     Go, End, Verifies, remote, local
<1>5. Recorded'
  BY CodingAssumption DEF Inv, TypeOK, Preparation, NotPreparing, At, Record,
     Call, Kind, Workspace, Exclusive, Working, Reached, Called, Recorded,
     ReadyIsTrue, ListSessions, Go, End, Verifies, remote, local
<1> QED
  BY <1>1, <1>2, <1>3, <1>4, <1>5 DEF Inv

\* It records PREPARING.
LEMMA SavePreparingInv ==
    ASSUME Inv, NEW p \in Proc, SavePreparing(p)
    PROVE  Inv'
<1>1. TypeOK'
  <2>1. prep' \in [Proc -> Preparation]
    BY GoTyped, EndTyped DEF Inv, At, SavePreparing, Verifies
  <2> QED
    BY <2>1, CodingAssumption DEF Inv, TypeOK, Record, Call, Kind, Workspace,
       Preparation, At, SavePreparing, Go, Verifies, remote
<1>2. Exclusive'
  BY CodingAssumption DEF Inv, TypeOK, Preparation, NotPreparing, At, Record,
     Call, Kind, Workspace, Exclusive, Working, SavePreparing, Go, Verifies,
     remote, local
<1>3. \A q \in Proc : Reached(q)'
  BY CodingAssumption DEF Inv, TypeOK, Preparation, NotPreparing, At, Record,
     Call, Kind, Workspace, Exclusive, Working, Reached, Called, Recorded,
     SavePreparing, Go, Verifies, remote, local
<1>4. Called'
  BY CodingAssumption DEF Inv, TypeOK, Preparation, NotPreparing, At, Record,
     Call, Kind, Workspace, Exclusive, Working, Reached, Called,
     SavePreparing, Go, Verifies, remote, local
<1>5. Recorded'
  BY CodingAssumption DEF Inv, TypeOK, Preparation, NotPreparing, At, Record,
     Call, Kind, Workspace, Exclusive, Working, Reached, Called, Recorded,
     ReadyIsTrue, SavePreparing, Go, Verifies, remote, local
<1> QED
  BY <1>1, <1>2, <1>3, <1>4, <1>5 DEF Inv

\* It asks DSH for the session.
LEMMA CreateSessionInv ==
    ASSUME Inv, NEW p \in Proc, CreateSession(p)
    PROVE  Inv'
<1>1. TypeOK'
  <2>1. prep' \in [Proc -> Preparation]
    BY GoTyped, EndTyped DEF Inv, At, CreateSession, CallOut
  <2> QED
    BY <2>1, CodingAssumption, CallTyped DEF Inv, TypeOK, Record, Call, Kind,
       Workspace, Preparation, At, CreateSession, CallOut, Go, remote
<1>2. Exclusive'
  BY CodingAssumption DEF Inv, TypeOK, Preparation, NotPreparing, At, Record,
     Call, Kind, Workspace, Exclusive, Working, CreateSession, CallOut, Go,
     remote, local
<1>3. \A q \in Proc : Reached(q)'
  BY CodingAssumption DEF Inv, TypeOK, Preparation, NotPreparing, At, Record,
     Call, Kind, Workspace, Exclusive, Working, Reached, Called, Recorded,
     CreateSession, CallOut, Go, remote, local, Verifies
<1>4. Called'
  BY CodingAssumption DEF Inv, TypeOK, Preparation, NotPreparing, At, Record,
     Call, Kind, Workspace, Exclusive, Working, Reached, Called,
     CreateSession, CallOut, Go, remote, local
<1>5. Recorded'
  BY CodingAssumption DEF Inv, TypeOK, Preparation, NotPreparing, At, Record,
     Call, Kind, Workspace, Exclusive, Working, Reached, Called, Recorded,
     ReadyIsTrue, CreateSession, CallOut, Go, remote, local, Verifies
<1> QED
  BY <1>1, <1>2, <1>3, <1>4, <1>5 DEF Inv

\* DSH has answered that call.
LEMMA CreatedInv ==
    ASSUME Inv, NEW p \in Proc, Created(p)
    PROVE  Inv'
<1>1. TypeOK'
  <2>1. prep' \in [Proc -> Preparation]
    BY GoTyped, EndTyped DEF Inv, At, Created, Answered
  <2> QED
    BY <2>1, CodingAssumption DEF Inv, TypeOK, Record, Call, Kind, Workspace,
       Preparation, At, Created, Go, Answered, remote
<1>2. Exclusive'
  BY CodingAssumption DEF Inv, TypeOK, Preparation, NotPreparing, At, Record,
     Call, Kind, Workspace, Exclusive, Working, Created, Go, Answered, remote,
     local
<1>3. \A q \in Proc : Reached(q)'
  BY CodingAssumption DEF Inv, TypeOK, Preparation, NotPreparing, At, Record,
     Call, Kind, Workspace, Exclusive, Working, Reached, Called, Recorded,
     Created, Go, Answered, remote, local, Verifies
<1>4. Called'
  BY CodingAssumption DEF Inv, TypeOK, Preparation, NotPreparing, At, Record,
     Call, Kind, Workspace, Exclusive, Working, Reached, Called, Created, Go,
     Answered, remote, local
<1>5. Recorded'
  BY CodingAssumption DEF Inv, TypeOK, Preparation, NotPreparing, At, Record,
     Call, Kind, Workspace, Exclusive, Working, Reached, Called, Recorded,
     ReadyIsTrue, Created, Go, Answered, remote, local, Verifies
<1> QED
  BY <1>1, <1>2, <1>3, <1>4, <1>5 DEF Inv

\* It refuses a session in which somebody wrote.
LEMMA CheckBlankInv ==
    ASSUME Inv, NEW p \in Proc, CheckBlank(p)
    PROVE  Inv'
<1>1. TypeOK'
  <2>1. prep' \in [Proc -> Preparation]
    BY GoTyped, EndTyped DEF Inv, At, CheckBlank
  <2> QED
    BY <2>1, CodingAssumption DEF Inv, TypeOK, Record, Call, Kind, Workspace,
       Preparation, At, CheckBlank, Go, End, remote
<1>2. Exclusive'
  BY CodingAssumption DEF Inv, TypeOK, Preparation, NotPreparing, At, Record,
     Call, Kind, Workspace, Exclusive, Working, CheckBlank, Go, End, remote,
     local
<1>3. \A q \in Proc : Reached(q)'
  BY CodingAssumption DEF Inv, TypeOK, Preparation, NotPreparing, At, Record,
     Call, Kind, Workspace, Exclusive, Working, Reached, Called, Recorded,
     CheckBlank, Go, End, remote, local, Verifies
<1>4. Called'
  BY CodingAssumption DEF Inv, TypeOK, Preparation, NotPreparing, At, Record,
     Call, Kind, Workspace, Exclusive, Working, Reached, Called, CheckBlank,
     Go, End, remote, local
<1>5. Recorded'
  BY CodingAssumption DEF Inv, TypeOK, Preparation, NotPreparing, At, Record,
     Call, Kind, Workspace, Exclusive, Working, Reached, Called, Recorded,
     ReadyIsTrue, CheckBlank, Go, End, remote, local, Verifies
<1> QED
  BY <1>1, <1>2, <1>3, <1>4, <1>5 DEF Inv

\* It asks DSH to select the model.
LEMMA SelectModelInv ==
    ASSUME Inv, NEW p \in Proc, SelectModel(p)
    PROVE  Inv'
<1>1. TypeOK'
  <2>1. prep' \in [Proc -> Preparation]
    BY GoTyped, EndTyped DEF Inv, At, SelectModel, CallOut
  <2> QED
    BY <2>1, CodingAssumption, CallTyped DEF Inv, TypeOK, Record, Call, Kind,
       Workspace, Preparation, At, SelectModel, CallOut, Go, remote
<1>2. Exclusive'
  BY CodingAssumption DEF Inv, TypeOK, Preparation, NotPreparing, At, Record,
     Call, Kind, Workspace, Exclusive, Working, SelectModel, CallOut, Go,
     remote, local
<1>3. \A q \in Proc : Reached(q)'
  BY CodingAssumption DEF Inv, TypeOK, Preparation, NotPreparing, At, Record,
     Call, Kind, Workspace, Exclusive, Working, Reached, Called, Recorded,
     SelectModel, CallOut, Go, remote, local, Verifies
<1>4. Called'
  BY CodingAssumption DEF Inv, TypeOK, Preparation, NotPreparing, At, Record,
     Call, Kind, Workspace, Exclusive, Working, Reached, Called, SelectModel,
     CallOut, Go, remote, local
<1>5. Recorded'
  BY CodingAssumption DEF Inv, TypeOK, Preparation, NotPreparing, At, Record,
     Call, Kind, Workspace, Exclusive, Working, Reached, Called, Recorded,
     ReadyIsTrue, SelectModel, CallOut, Go, remote, local, Verifies
<1> QED
  BY <1>1, <1>2, <1>3, <1>4, <1>5 DEF Inv

\* DSH has answered that call.
LEMMA SelectedInv ==
    ASSUME Inv, NEW p \in Proc, Selected(p)
    PROVE  Inv'
<1>1. TypeOK'
  <2>1. prep' \in [Proc -> Preparation]
    BY GoTyped, EndTyped DEF Inv, At, Selected, Answered
  <2> QED
    BY <2>1, CodingAssumption DEF Inv, TypeOK, Record, Call, Kind, Workspace,
       Preparation, At, Selected, Go, Answered, remote
<1>2. Exclusive'
  BY CodingAssumption DEF Inv, TypeOK, Preparation, NotPreparing, At, Record,
     Call, Kind, Workspace, Exclusive, Working, Selected, Go, Answered,
     remote, local
<1>3. \A q \in Proc : Reached(q)'
  BY CodingAssumption DEF Inv, TypeOK, Preparation, NotPreparing, At, Record,
     Call, Kind, Workspace, Exclusive, Working, Reached, Called, Recorded,
     Selected, Go, Answered, remote, local, Verifies
<1>4. Called'
  BY CodingAssumption DEF Inv, TypeOK, Preparation, NotPreparing, At, Record,
     Call, Kind, Workspace, Exclusive, Working, Reached, Called, Selected, Go,
     Answered, remote, local
<1>5. Recorded'
  BY CodingAssumption DEF Inv, TypeOK, Preparation, NotPreparing, At, Record,
     Call, Kind, Workspace, Exclusive, Working, Reached, Called, Recorded,
     ReadyIsTrue, Selected, Go, Answered, remote, local, Verifies
<1> QED
  BY <1>1, <1>2, <1>3, <1>4, <1>5 DEF Inv

\* It records READY.
LEMMA SaveReadyInv ==
    ASSUME Inv, NEW p \in Proc, SaveReady(p)
    PROVE  Inv'
<1>1. TypeOK'
  <2>1. prep' \in [Proc -> Preparation]
    BY GoTyped, EndTyped DEF Inv, At, SaveReady
  <2> QED
    BY <2>1, CodingAssumption DEF Inv, TypeOK, Record, Call, Kind, Workspace,
       Preparation, At, SaveReady, End, remote
<1>2. Exclusive'
  BY CodingAssumption DEF Inv, TypeOK, Preparation, NotPreparing, At, Record,
     Call, Kind, Workspace, Exclusive, Working, SaveReady, End, remote, local
<1>3. \A q \in Proc : Reached(q)'
  BY CodingAssumption DEF Inv, TypeOK, Preparation, NotPreparing, At, Record,
     Call, Kind, Workspace, Exclusive, Working, Reached, Called, Recorded,
     SaveReady, End, remote, local, Verifies
<1>4. Called'
  BY CodingAssumption DEF Inv, TypeOK, Preparation, NotPreparing, At, Record,
     Call, Kind, Workspace, Exclusive, Working, Reached, Called, SaveReady,
     End, remote, local
<1>5. Recorded'
  BY CodingAssumption DEF Inv, TypeOK, Preparation, NotPreparing, At, Record,
     Call, Kind, Workspace, Exclusive, Working, Reached, Called, Recorded,
     ReadyIsTrue, SaveReady, End, remote, local, Verifies
<1> QED
  BY <1>1, <1>2, <1>3, <1>4, <1>5 DEF Inv

\* It gives up waiting for DSH.
LEMMA TimeOutInv ==
    ASSUME Inv, NEW p \in Proc, TimeOut(p)
    PROVE  Inv'
<1>1. TypeOK'
  <2>1. prep' \in [Proc -> Preparation]
    BY GoTyped, EndTyped DEF Inv, At, TimeOut
  <2> QED
    BY <2>1, CodingAssumption DEF Inv, TypeOK, Record, Call, Kind, Workspace,
       Preparation, At, TimeOut, End, remote
<1>2. Exclusive'
  BY CodingAssumption DEF Inv, TypeOK, Preparation, NotPreparing, At, Record,
     Call, Kind, Workspace, Exclusive, Working, TimeOut, End, remote, local
<1>3. \A q \in Proc : Reached(q)'
  BY CodingAssumption DEF Inv, TypeOK, Preparation, NotPreparing, At, Record,
     Call, Kind, Workspace, Exclusive, Working, Reached, Called, Recorded,
     TimeOut, End, remote, local, Verifies
<1>4. Called'
  BY CodingAssumption DEF Inv, TypeOK, Preparation, NotPreparing, At, Record,
     Call, Kind, Workspace, Exclusive, Working, Reached, Called, TimeOut, End,
     remote, local
<1>5. Recorded'
  BY CodingAssumption DEF Inv, TypeOK, Preparation, NotPreparing, At, Record,
     Call, Kind, Workspace, Exclusive, Working, Reached, Called, Recorded,
     ReadyIsTrue, TimeOut, End, remote, local, Verifies
<1> QED
  BY <1>1, <1>2, <1>3, <1>4, <1>5 DEF Inv

\* It stops wherever it is.
LEMMA CrashInv ==
    ASSUME Inv, NEW p \in Proc, Crash(p)
    PROVE  Inv'
<1>1. TypeOK'
  <2>1. prep' \in [Proc -> Preparation]
    BY GoTyped, EndTyped DEF Inv, At, Crash
  <2> QED
    BY <2>1, CodingAssumption DEF Inv, TypeOK, Record, Call, Kind, Workspace,
       Preparation, At, Crash, End, remote
<1>2. Exclusive'
  BY CodingAssumption DEF Inv, TypeOK, Preparation, NotPreparing, At, Record,
     Call, Kind, Workspace, Exclusive, Working, Crash, End, remote, local
<1>3. \A q \in Proc : Reached(q)'
  BY CodingAssumption DEF Inv, TypeOK, Preparation, NotPreparing, At, Record,
     Call, Kind, Workspace, Exclusive, Working, Reached, Called, Recorded,
     Crash, End, remote, local, Verifies
<1>4. Called'
  BY CodingAssumption DEF Inv, TypeOK, Preparation, NotPreparing, At, Record,
     Call, Kind, Workspace, Exclusive, Working, Reached, Called, Crash, End,
     remote, local
<1>5. Recorded'
  BY CodingAssumption DEF Inv, TypeOK, Preparation, NotPreparing, At, Record,
     Call, Kind, Workspace, Exclusive, Working, Reached, Called, Recorded,
     ReadyIsTrue, Crash, End, remote, local, Verifies
<1> QED
  BY <1>1, <1>2, <1>3, <1>4, <1>5 DEF Inv

\* DSH carries a call out, perhaps long after it was given up.
LEMMA ServeInv ==
    ASSUME Inv, NEW c \in calls, Serve(c)
    PROVE  Inv'
<1>1. TypeOK'
  BY CodingAssumption DEF Inv, TypeOK, Workspace, Call, Serve, ServeCreate,
     ServeSelect, remote, local
<1>2. Exclusive'
  BY CodingAssumption DEF Inv, TypeOK, Preparation, NotPreparing, At, Record,
     Call, Kind, Workspace, Exclusive, Working, Serve, ServeCreate,
     ServeSelect, remote, local
<1>3. \A q \in Proc : Reached(q)'
  BY CodingAssumption DEF Inv, TypeOK, Preparation, NotPreparing, At, Record,
     Call, Kind, Workspace, Exclusive, Working, Reached, Called, Recorded,
     Serve, ServeCreate, ServeSelect, remote, local, Verifies
<1>4. Called'
  BY CodingAssumption DEF Inv, TypeOK, Preparation, NotPreparing, At, Record,
     Call, Kind, Workspace, Exclusive, Working, Reached, Called, Serve,
     ServeCreate, ServeSelect, remote, local
<1>5. Recorded'
  BY CodingAssumption DEF Inv, TypeOK, Preparation, NotPreparing, At, Record,
     Call, Kind, Workspace, Exclusive, Working, Reached, Called, Recorded,
     ReadyIsTrue, Serve, ServeCreate, ServeSelect, remote, local, Verifies
<1> QED
  BY <1>1, <1>2, <1>3, <1>4, <1>5 DEF Inv

\* The provider or the model is configured anew.
LEMMA ReconfigureInv ==
    ASSUME Inv, NEW c \in Config, Reconfigure(c)
    PROVE  Inv'
<1>1. TypeOK'
  BY CodingAssumption DEF Inv, TypeOK, Workspace, Reconfigure, remote, local
<1>2. Exclusive'
  BY CodingAssumption DEF Inv, TypeOK, Preparation, NotPreparing, At, Record,
     Call, Kind, Workspace, Exclusive, Working, Reconfigure, remote, local
<1>3. \A q \in Proc : Reached(q)'
  BY CodingAssumption DEF Inv, TypeOK, Preparation, NotPreparing, At, Record,
     Call, Kind, Workspace, Exclusive, Working, Reached, Called, Recorded,
     Reconfigure, remote, local, Verifies
<1>4. Called'
  BY CodingAssumption DEF Inv, TypeOK, Preparation, NotPreparing, At, Record,
     Call, Kind, Workspace, Exclusive, Working, Reached, Called, Reconfigure,
     remote, local
<1>5. Recorded'
  BY CodingAssumption DEF Inv, TypeOK, Preparation, NotPreparing, At, Record,
     Call, Kind, Workspace, Exclusive, Working, Reached, Called, Recorded,
     ReadyIsTrue, Reconfigure, remote, local, Verifies
<1> QED
  BY <1>1, <1>2, <1>3, <1>4, <1>5 DEF Inv

\* The agent works in project/.
LEMMA WorkInv ==
    ASSUME Inv, Work
    PROVE  Inv'
<1>1. TypeOK'
  BY CodingAssumption DEF Inv, TypeOK, Workspace, Work, Verifies, remote,
     local
<1>2. Exclusive'
  BY CodingAssumption DEF Inv, TypeOK, Preparation, NotPreparing, At, Record,
     Call, Kind, Workspace, Exclusive, Working, Work, Verifies, remote, local
<1>3. \A q \in Proc : Reached(q)'
  BY CodingAssumption DEF Inv, TypeOK, Preparation, NotPreparing, At, Record,
     Call, Kind, Workspace, Exclusive, Working, Reached, Called, Recorded,
     Work, Verifies, remote, local
<1>4. Called'
  BY CodingAssumption DEF Inv, TypeOK, Preparation, NotPreparing, At, Record,
     Call, Kind, Workspace, Exclusive, Working, Reached, Called, Work,
     Verifies, remote, local
<1>5. Recorded'
  BY CodingAssumption DEF Inv, TypeOK, Preparation, NotPreparing, At, Record,
     Call, Kind, Workspace, Exclusive, Working, Reached, Called, Recorded,
     ReadyIsTrue, Work, Verifies, remote, local
<1> QED
  BY <1>1, <1>2, <1>3, <1>4, <1>5 DEF Inv

\* Somebody deletes or changes the workspace.
LEMMA SpoilInv ==
    ASSUME Inv, NEW condition \in {"absent", "changed"}, Spoil(condition)
    PROVE  Inv'
<1>1. TypeOK'
  BY CodingAssumption DEF Inv, TypeOK, Workspace, Spoil, Verifies, remote,
     local
<1>2. Exclusive'
  BY CodingAssumption DEF Inv, TypeOK, Preparation, NotPreparing, At, Record,
     Call, Kind, Workspace, Exclusive, Working, Spoil, Verifies, remote, local
<1>3. \A q \in Proc : Reached(q)'
  BY CodingAssumption DEF Inv, TypeOK, Preparation, NotPreparing, At, Record,
     Call, Kind, Workspace, Exclusive, Working, Reached, Called, Recorded,
     Spoil, Verifies, remote, local
<1>4. Called'
  BY CodingAssumption DEF Inv, TypeOK, Preparation, NotPreparing, At, Record,
     Call, Kind, Workspace, Exclusive, Working, Reached, Called, Spoil,
     Verifies, remote, local
<1>5. Recorded'
  BY CodingAssumption DEF Inv, TypeOK, Preparation, NotPreparing, At, Record,
     Call, Kind, Workspace, Exclusive, Working, Reached, Called, Recorded,
     ReadyIsTrue, Spoil, Verifies, remote, local
<1> QED
  BY <1>1, <1>2, <1>3, <1>4, <1>5 DEF Inv

\* Somebody writes in the session.
LEMMA NativeMessageInv ==
    ASSUME Inv, NativeMessage
    PROVE  Inv'
<1>1. TypeOK'
  BY CodingAssumption DEF Inv, TypeOK, Workspace, NativeMessage, remote, local
<1>2. Exclusive'
  BY CodingAssumption DEF Inv, TypeOK, Preparation, NotPreparing, At, Record,
     Call, Kind, Workspace, Exclusive, Working, NativeMessage, remote, local
<1>3. \A q \in Proc : Reached(q)'
  BY CodingAssumption DEF Inv, TypeOK, Preparation, NotPreparing, At, Record,
     Call, Kind, Workspace, Exclusive, Working, Reached, Called, Recorded,
     NativeMessage, remote, local, Verifies
<1>4. Called'
  BY CodingAssumption DEF Inv, TypeOK, Preparation, NotPreparing, At, Record,
     Call, Kind, Workspace, Exclusive, Working, Reached, Called,
     NativeMessage, remote, local
<1>5. Recorded'
  BY CodingAssumption DEF Inv, TypeOK, Preparation, NotPreparing, At, Record,
     Call, Kind, Workspace, Exclusive, Working, Reached, Called, Recorded,
     ReadyIsTrue, NativeMessage, remote, local, Verifies
<1> QED
  BY <1>1, <1>2, <1>3, <1>4, <1>5 DEF Inv

-----------------------------------------------------------------------------
\* The invariant holds before the first preparation,
LEMMA InitInv == Init => Inv
<1>1. SomeConfig \in Config
  BY CodingAssumption DEF SomeConfig
<1> SUFFICES ASSUME Init PROVE Inv
  OBVIOUS
<1>2. NotPreparing \in Preparation
  BY <1>1, CodingAssumption DEF NotPreparing, Preparation, At
<1>3. NoRecord \in Record
  BY <1>1 DEF NoRecord, Record
<1>4. prep \in [Proc -> Preparation]
  BY <1>2 DEF Init
<1>5. TypeOK
  <2>1. /\ config \in Config /\ workspace \in Workspace /\ record \in Record
        /\ flock \in Proc \cup {NoProc} /\ preps \in 0..MaxPreps /\ calls \subseteq Call
        /\ served \subseteq calls /\ session \in {"absent", "foreign", "ours"}
        /\ model \in Config
    BY <1>1, <1>3, CodingAssumption DEF Init, Workspace
  <2>2. blank \in BOOLEAN /\ interfered \in BOOLEAN
    BY Zenon DEF Init
  <2> QED
    BY <1>4, <2>1, <2>2 DEF TypeOK
<1>6. Exclusive /\ \A p \in Proc : Reached(p)
  BY DEF Init, NotPreparing, NoRecord, Exclusive, Working, Reached
<1>7. Called /\ Recorded
  BY DEF Init, NoRecord, Called, Recorded, ReadyIsTrue
<1> QED
  BY <1>5, <1>6, <1>7 DEF Inv

\* and every step keeps it.
LEMMA NextInv ==
    ASSUME Inv, [Next]_vars
    PROVE  Inv'
<1>1. ASSUME NEW p \in Proc, Start(p) \/ Advance(p) \/ Crash(p) PROVE Inv'
  BY <1>1, StartInv, LockInv, ReadRecordInv, CheckWorkspaceInv, PlaceWorkspaceInv,
     ListSessionsInv, SavePreparingInv, CreateSessionInv, CreatedInv, CheckBlankInv,
     SelectModelInv, SelectedInv, SaveReadyInv, TimeOutInv, CrashInv DEF Advance
<1>2. ASSUME NEW c \in calls, Serve(c) PROVE Inv'
  BY <1>2, ServeInv
<1>3. ASSUME NEW c \in Config, Reconfigure(c) PROVE Inv'
  BY <1>3, ReconfigureInv
<1>4. CASE Work
  BY <1>4, WorkInv
<1>5. ASSUME NEW condition \in {"absent", "changed"}, Spoil(condition) PROVE Inv'
  BY <1>5, SpoilInv
<1>6. CASE NativeMessage
  BY <1>6, NativeMessageInv
<1>7. CASE UNCHANGED vars
  BY <1>7 DEF vars, Inv, TypeOK, Exclusive, Reached, Called, Recorded, ReadyIsTrue,
     Verifies
<1> QED
  BY <1>1, <1>2, <1>3, <1>4, <1>5, <1>6, <1>7 DEF Next

\* So it holds in every state of every behaviour.
LEMMA Invariance == Spec => []Inv
  BY InitInv, NextInv, PTL DEF Spec

-----------------------------------------------------------------------------
\* The type invariant of the coding handoff.
THEOREM TypeCorrect == Spec => []TypeOK
<1>1. Inv => TypeOK
  BY DEF Inv
<1> QED
  BY <1>1, Invariance, PTL

\* READY is recorded only of a session of this binding's own on the recorded
\* model, however many calls were given up and served late.
THEOREM ReadyMeansReady == Spec => []ReadyIsTrue
<1>1. Inv => ReadyIsTrue
  BY DEF Inv, Recorded
<1> QED
  BY <1>1, Invariance, PTL

\* A preparation that begins after somebody wrote in the session selects no
\* model in it.
THEOREM UsedSessionKept == Spec => []UsedNotConfigured
<1>1. Inv => UsedNotConfigured
  BY DEF Inv, UsedNotConfigured, Called, Reached
<1> QED
  BY <1>1, Invariance, PTL

\* Whatever step a preparation stopped at, the next one under the configuration
\* that was recorded can go on from what it left behind, unless somebody
\* interfered.
THEOREM NeverStuck == Spec => []Resumable
<1>1. Inv => Resumable
  BY DEF Inv, TypeOK, Resumable, Recorded
<1> QED
  BY <1>1, Invariance, PTL

\* No preparation adopts a session it has no creation record of.
THEOREM NoAdoption == Spec => []ForeignUntouched
<1>1. Inv => ForeignUntouched
  BY DEF Inv, TypeOK, ForeignUntouched, Recorded, Called
<1> QED
  BY <1>1, Invariance, PTL

\* No preparation changes a workspace that is in place.
THEOREM WorkSurvives == Spec => WorkKept
<1>1. Inv /\ [Next]_vars => [workspace # "absent" /\ prep' # prep => workspace' = workspace]_vars
  BY DEF Next, vars, Advance, Start, Lock, ReadRecord, CheckWorkspace, PlaceWorkspace,
     ListSessions, SavePreparing, CallOut, CreateSession, Created, CheckBlank,
     SelectModel, Selected, SaveReady, TimeOut, Crash, Serve, Reconfigure, Work,
     Spoil, NativeMessage, local
<1> QED
  BY <1>1, Invariance, PTL DEF Spec, WorkKept

\* Once READY is recorded no call is made and the record stays as it is.
THEOREM ReadyStays == Spec => ReadyQuiet
<1>1. ASSUME Inv, [Next]_vars
      PROVE  [record.status = "READY" => calls' = calls /\ record' = record]_vars
  BY <1>1 DEF Inv, TypeOK, Reached, Next, vars, Advance, Start, Lock, ReadRecord,
     CheckWorkspace, PlaceWorkspace, ListSessions, SavePreparing, CallOut,
     CreateSession, Created, CheckBlank, SelectModel, Selected, SaveReady, TimeOut,
     Crash, Serve, Reconfigure, Work, Spoil, NativeMessage, local, Go
<1> QED
  BY <1>1, Invariance, PTL DEF Spec, ReadyQuiet

-----------------------------------------------------------------------------
(***************************************************************************)
(* CodingHandoff implements OneHandoff: what the record and the session    *)
(* show changes in four steps only.                                        *)
(***************************************************************************)

\* A model is selected in the handoff's own session only, whenever the call is
\* carried out.
SelectsOurs == \A c \in calls : c.kind = "select" => session = "ours"

\* The call is made after the session was found to be there, and it stays.
LEMMA SelectsInvariance == Spec => []SelectsOurs
<1>1. Init => SelectsOurs
  BY DEF Init, SelectsOurs
<1>2. ASSUME Inv, SelectsOurs, [Next]_vars PROVE SelectsOurs'
  <2>1. ASSUME NEW p \in Proc, CreateSession(p) \/ SelectModel(p) PROVE SelectsOurs'
    <3>1. UNCHANGED session
      BY <2>1 DEF CreateSession, SelectModel, CallOut, remote
    <3>2. CASE CreateSession(p)
      BY <1>2, <3>1, <3>2 DEF CreateSession, CallOut, SelectsOurs
    <3>3. CASE SelectModel(p)
      BY <1>2, <3>1, <3>3 DEF SelectModel, CallOut, Go, SelectsOurs, Inv, Reached
    <3> QED
      BY <2>1, <3>2, <3>3
  <2>2. CASE calls' = calls /\ (session = "ours" => session' = "ours")
    BY <1>2, <2>2 DEF SelectsOurs
  <2>3. ASSUME NEW p \in Proc, Start(p) \/ Advance(p) \/ Crash(p),
               ~CreateSession(p), ~SelectModel(p)
        PROVE  calls' = calls /\ session' = session
    BY <2>3 DEF Advance, Start, Lock, ReadRecord, CheckWorkspace, PlaceWorkspace,
       ListSessions, SavePreparing, Created, CheckBlank, Selected, SaveReady, TimeOut,
       Crash, remote
  <2>4. ASSUME NEW c \in calls, Serve(c)
        PROVE  calls' = calls /\ (session = "ours" => session' = "ours")
    BY <2>4 DEF Serve, ServeCreate, ServeSelect, local
  <2> QED
    BY <1>2, <2>1, <2>2, <2>3, <2>4
    DEF Next, Reconfigure, Work, Spoil, NativeMessage, vars, local, remote
<1> QED
  BY <1>1, <1>2, Invariance, PTL DEF Spec

\* Recording PREPARING is the choice, made while there is no session.
LEMMA ChoosesOnce ==
    ASSUME Inv, NEW p \in Proc, SavePreparing(p)
    PROVE  \E c \in Config : Promise!Choose(c)
<1>1. /\ record.status = "NONE" /\ session = "absent"
      /\ prep[p].config \in Config
  BY DEF Inv, TypeOK, Preparation, Reached, SavePreparing, Go
<1>2. /\ record' = [status |-> "PREPARING", config |-> prep[p].config]
      /\ UNCHANGED <<session, model>>
  BY DEF SavePreparing, remote
<1> QED
  BY <1>1, <1>2 DEF Promise!Choose

\* Recording READY is the end, on the session and the model that were recorded.
LEMMA FinishesOnce ==
    ASSUME Inv, NEW p \in Proc, SaveReady(p)
    PROVE  Promise!Finish
<1>1. /\ record.status = "PREPARING" /\ session = "ours" /\ model = record.config
      /\ record \in Record
  BY DEF Inv, TypeOK, Reached, SaveReady
<1>2. record' = [record EXCEPT !.status = "READY"] /\ UNCHANGED <<session, model>>
  BY DEF SaveReady, remote
<1>3. record'.status = "READY" /\ record'.config = record.config
  BY <1>1, <1>2 DEF Record
<1> QED
  BY <1>1, <1>2, <1>3 DEF Promise!Finish

\* A call makes the session or selects the recorded model; one that is served
\* late finds that done, and changes nothing.
LEMMA ServesOnce ==
    ASSUME Inv, SelectsOurs, NEW c \in calls, Serve(c)
    PROVE  Promise!Create \/ Promise!Select \/ UNCHANGED Promise!vars
<1>1. /\ c.config = record.config /\ record.status \in {"PREPARING", "READY"}
      /\ session # "foreign" /\ session \in {"absent", "foreign", "ours"}
      /\ record' = record
  BY DEF Inv, TypeOK, Record, Called, Recorded, Serve, local
<1>2. CASE c.kind = "create"
  <2>1. CASE session = "absent"
    <3>1. record.status = "PREPARING"
      BY <1>1, <2>1 DEF Inv, Recorded, ReadyIsTrue
    <3> QED
      BY <1>1, <1>2, <2>1, <3>1 DEF Serve, ServeCreate, ServeSelect, Promise!Create
  <2>2. CASE session # "absent"
    BY <1>1, <1>2, <2>2 DEF Serve, ServeCreate, ServeSelect, Promise!vars
  <2> QED
    BY <2>1, <2>2
<1>3. CASE c.kind = "select"
  <2>1. model' = record.config /\ session' = session
    BY <1>1, <1>3 DEF Serve, ServeCreate, ServeSelect
  <2>2. CASE record.status = "READY"
    BY <1>1, <2>1, <2>2 DEF Inv, Recorded, ReadyIsTrue, Promise!vars
  <2>3. CASE record.status = "PREPARING"
    BY <1>1, <1>3, <2>1, <2>3 DEF SelectsOurs, Promise!Select
  <2> QED
    BY <1>1, <2>2, <2>3
<1> QED
  BY <1>2, <1>3 DEF Serve, ServeCreate, ServeSelect

\* No step of a preparation but those two writes the record, and none the session.
LEMMA PreparesQuietly ==
    ASSUME NEW p \in Proc,
           \/ Start(p) \/ Lock(p) \/ ReadRecord(p) \/ CheckWorkspace(p)
           \/ PlaceWorkspace(p) \/ ListSessions(p) \/ CreateSession(p) \/ Created(p)
           \/ CheckBlank(p) \/ SelectModel(p) \/ Selected(p) \/ TimeOut(p) \/ Crash(p)
    PROVE  UNCHANGED <<record, session, model>>
  BY DEF Start, Lock, ReadRecord, CheckWorkspace, PlaceWorkspace, ListSessions,
     CreateSession, SelectModel, CallOut, Created, CheckBlank, Selected, TimeOut,
     Crash, remote

\* Every behaviour of the preparations is one of the single handoff that was
\* promised (prepare of artpkg_coding_handoff.py).
THEOREM Implementation == Spec => ImplementsOneHandoff
<1>1. Init => Promise!Init
  <2>1. SomeConfig \in Config
    BY CodingAssumption DEF SomeConfig
  <2> QED
    BY <2>1 DEF Init, NoRecord, Promise!Init
<1>2. ASSUME Inv, SelectsOurs, [Next]_vars PROVE [Promise!Next]_(Promise!vars)
  <2>1. CASE UNCHANGED <<record, session, model>>
    BY <2>1 DEF Promise!vars
  <2>2. ASSUME NEW p \in Proc, SavePreparing(p) PROVE Promise!Next
    BY <1>2, <2>2, ChoosesOnce DEF Promise!Next
  <2>3. ASSUME NEW p \in Proc, SaveReady(p) PROVE Promise!Next
    BY <1>2, <2>3, FinishesOnce DEF Promise!Next
  <2>4. ASSUME NEW c \in calls, Serve(c) PROVE [Promise!Next]_(Promise!vars)
    BY <1>2, <2>4, ServesOnce DEF Promise!Next
  <2>5. ASSUME NEW p \in Proc, Start(p) \/ Advance(p) \/ Crash(p),
               ~SavePreparing(p), ~SaveReady(p)
        PROVE  UNCHANGED <<record, session, model>>
    BY <2>5, PreparesQuietly DEF Advance
  <2>6. CASE \/ \E c \in Config : Reconfigure(c)
             \/ Work
             \/ \E condition \in {"absent", "changed"} : Spoil(condition)
             \/ NativeMessage
             \/ UNCHANGED vars
    BY <2>1, <2>6 DEF Reconfigure, Work, Spoil, NativeMessage, vars, local, remote
  <2> QED
    BY <1>2, <2>1, <2>2, <2>3, <2>4, <2>5, <2>6 DEF Next
<1>3. QED
  BY <1>1, <1>2, Invariance, SelectsInvariance, PTL DEF Spec, ImplementsOneHandoff, Promise!Spec

-----------------------------------------------------------------------------
(***************************************************************************)
(* Preparations come to an end.                                            *)
(***************************************************************************)

Progress(at) ==
    CASE at = "open" -> 1
      [] at = "reading" -> 2
      [] at = "looking" -> 3
      [] at = "staging" -> 4
      [] at = "listing" -> 5
      [] at = "recording" -> 6
      [] at = "creating" -> 7
      [] at = "created" -> 8
      [] at = "checking" -> 9
      [] at = "selecting" -> 10
      [] at = "selected" -> 11
      [] at = "finishing" -> 12
      [] OTHER -> 0

\* Where a preparation is, after it moved on or ended.
LEMMA Moved ==
    ASSUME TypeOK, NEW p \in Proc
    PROVE  /\ \A here, there : Go(p, here, there) => prep[p].at = here /\ prep'[p].at = there
           /\ End(p) => prep'[p].at = "idle"
<1>1. prep \in [Proc -> Preparation]
  BY DEF TypeOK
<1>2. ASSUME NEW here, NEW there, Go(p, here, there)
      PROVE  prep[p].at = here /\ prep'[p].at = there
  BY <1>1, <1>2 DEF Go, Preparation
<1>3. End(p) => prep'[p].at = "idle"
  BY <1>1 DEF End, NotPreparing
<1> QED
  BY <1>2, <1>3

\* A preparation does no step again, whether it resumes an earlier one or places the
\* workspace itself, and so ends after at most twelve steps of its own; the only
\* thing it may do for long is to await an answer, which it does for 20 seconds.
THEOREM PreparationsGoForward ==
    Spec => [][\A p \in Proc :
                  prep[p].at # "idle" /\ prep'[p] # prep[p] =>
                      prep'[p].at = "idle" \/ Progress(prep'[p].at) > Progress(prep[p].at)]_vars
<1>1. ASSUME TypeOK, [Next]_vars, NEW p \in Proc, prep[p].at # "idle", prep'[p] # prep[p]
      PROVE  prep'[p].at = "idle" \/ Progress(prep'[p].at) > Progress(prep[p].at)
  <2>1. ASSUME NEW q \in Proc, q # p, Start(q) \/ Advance(q) \/ Crash(q)
        PROVE  prep'[p] = prep[p]
    BY <1>1, <2>1
    DEF TypeOK, Start, Advance, Crash, Lock, ReadRecord, CheckWorkspace, PlaceWorkspace,
        ListSessions, SavePreparing, CreateSession, CallOut, Created, CheckBlank, SelectModel,
        Selected, SaveReady, TimeOut, Go, End
  <2>2. Advance(p) \/ Crash(p)
    <3>1. \E q \in Proc : Start(q) \/ Advance(q) \/ Crash(q)
      BY <1>1 DEF Next, Serve, Reconfigure, Work, Spoil, NativeMessage, vars, local
    <3> QED
      BY <1>1, <2>1, <3>1 DEF Start
  <2>3. CASE End(p)
    BY <1>1, <2>3, Moved
  <2>4. CASE ~End(p)
    <3>1. \/ Go(p, "open", "reading") \/ Go(p, "reading", "looking")
          \/ Go(p, "looking", "listing") \/ Go(p, "looking", "creating")
          \/ Go(p, "looking", "staging") \/ Go(p, "staging", "listing")
          \/ Go(p, "listing", "recording") \/ Go(p, "recording", "creating")
          \/ Go(p, "creating", "created") \/ Go(p, "created", "checking")
          \/ Go(p, "checking", "selecting") \/ Go(p, "selecting", "selected")
          \/ Go(p, "selected", "finishing")
      <4>1. CASE CheckWorkspace(p)
        BY <2>4, <4>1 DEF CheckWorkspace, Resume
      <4> QED
        BY <2>2, <2>4, <4>1
        DEF Advance, Crash, Lock, ReadRecord, PlaceWorkspace, ListSessions, SavePreparing,
            CreateSession, CallOut, Created, CheckBlank, SelectModel, Selected, SaveReady, TimeOut
    <3> QED
      BY <1>1, <3>1, Moved DEF Progress
  <2> QED
    BY <2>3, <2>4
<1>2. TypeOK /\ [Next]_vars =>
         [\A p \in Proc :
             prep[p].at # "idle" /\ prep'[p] # prep[p] =>
                 prep'[p].at = "idle" \/ Progress(prep'[p].at) > Progress(prep[p].at)]_vars
  BY <1>1
<1> QED
  BY <1>2, TypeCorrect, PTL DEF Spec

-----------------------------------------------------------------------------
(***************************************************************************)
(* The requirements gateway.                                               *)
(***************************************************************************)

Earlier == {NoDigest} \cup {Digest(a) : a \in superseded}

\* Every revision names one before it, and none of those is in force.
Lineage ==
    /\ current \notin superseded
    /\ \A a \in superseded \cup {current} : a.supersedes \in Earlier

\* Digests tell authorities apart.
LEMMA DigestInjective ==
    ASSUME NEW a, NEW b
    PROVE  Digest(a) # NoDigest /\ (Digest(a) = Digest(b) => a = b)
  BY DEF Digest, NoDigest

\* A revision is a new one: only the one that was just superseded is named in
\* its lineage, and nothing before could name that.
LEMMA ReviseNew ==
    ASSUME Lineage, NEW c, NEW s, NEW n, Revise(c, s, n)
    PROVE  Lineage'
<1>1. current'.supersedes = Digest(current)
  BY DEF Revise
<1>2. Digest(current) \notin Earlier
  BY DigestInjective DEF Lineage, Earlier
<1>3. current' \notin superseded \cup {current}
  BY <1>1, <1>2 DEF Lineage
<1>4. superseded' = superseded \cup {current}
  BY DEF Revise
<1>5. Earlier' = Earlier \cup {Digest(current)}
  BY <1>4 DEF Earlier
<1> QED
  BY <1>1, <1>3, <1>4, <1>5 DEF Lineage

\* So no authority is ever in force again.
LEMMA LineageInvariance == GatewaySpec => []Lineage
<1>1. GatewayInit => Lineage
  BY DEF GatewayInit, Lineage, Earlier
<1>2. Lineage /\ [GatewayNext]_gatewayVars => Lineage'
  <2> SUFFICES ASSUME Lineage, [GatewayNext]_gatewayVars PROVE Lineage'
    OBVIOUS
  <2>1. ASSUME NEW c \in Content, NEW s \in Status, NEW n \in 1..package, Revise(c, s, n)
        PROVE  Lineage'
    BY <2>1, ReviseNew
  <2>2. CASE UNCHANGED <<current, superseded>>
    BY <2>2 DEF Lineage, Earlier
  <2> QED
    BY <2>1, <2>2 DEF GatewayNext, gatewayVars, UpdateMetadata, ExportDwo, NewScope,
       ApproveScope
<1> QED
  BY <1>1, <1>2, PTL DEF GatewaySpec

\* A scope whose requirement was superseded stays stale through every later
\* revision, and one with a superseded work order never passes.
THEOREM StaleForGood == GatewaySpec => []SupersededStaysStale
<1>1. ASSUME Lineage, NEW a \in superseded
      PROVE  ~Bound(a, current)
  BY <1>1, DigestInjective DEF Lineage, Bound
<1>2. Lineage => SupersededStaysStale
  BY <1>1 DEF SupersededStaysStale, Disposition
<1> QED
  BY <1>2, LineageInvariance, PTL
=============================================================================
