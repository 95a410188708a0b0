---------------------------- MODULE DaemonProofs ----------------------------
(***************************************************************************)
(* What WriteAtomically keeps of state.json, which daemon ctl reaches and  *)
(* what ctl is told, proved for any number of daemons, scripts, clients,   *)
(* records, failures and kills.                                            *)
(***************************************************************************)
EXTENDS Daemon, LoggingProofs, FiniteSetTheorems, SequenceTheorems, TLAPS

\* Data that were written are still in the writer's own temporary file.
WrittenKept ==
    \A p \in Processes : phase[p] \in {"written", "closed", "chmodded"} => temp[p] = p

FileInv ==
    /\ State!FileTypeOK
    /\ stage \in [Processes -> Stages]
    /\ StateFileWhole
    /\ TempsAccounted
    /\ WrittenKept

-----------------------------------------------------------------------------
(* The actions, by what they do to the file and to the processes. *)

\* A step that neither writes nor ends a process.
LEMMA NoWrite ==
    ASSUME FileInv, UNCHANGED file,
           stage' \in [Processes -> Stages],
           \A p \in Processes : stage[p] = "ended" => stage'[p] = "ended"
    PROVE  FileInv'
  BY DEF FileInv, file, State!FileTypeOK, StateFileWhole, TempsAccounted, WrittenKept

\* Processes end in the middle of whatever they were writing (End).
LEMMA Deaths ==
    ASSUME FileInv, NEW dead \in SUBSET Processes,
           stage' = [p \in Processes |-> IF p \in dead THEN "ended" ELSE stage[p]],
           State!WritersDie(dead)
    PROVE  FileInv'
  BY DEF FileInv, State!FileTypeOK, State!Phases, State!WritersDie, StateFileWhole,
         TempsAccounted, WrittenKept, Stages

\* A call of WriteAtomically goes one step on.
LEMMA Writes ==
    ASSUME FileInv, NEW p \in Processes,
           State!CreateTemp(p) \/ State!Writing(p),
           stage' \in [Processes -> Stages],
           \A q \in Processes : stage[q] = "ended" => stage'[q] = "ended"
    PROVE  FileInv'
<1>1. CASE State!CreateTemp(p)
  BY <1>1 DEF FileInv, State!FileTypeOK, State!Phases, State!CreateTemp, State!Advance,
              State!Content, State!TempName, StateFileWhole, TempsAccounted, WrittenKept
<1>2. CASE State!WriteData(p)
  BY <1>2 DEF FileInv, State!FileTypeOK, State!Phases, State!WriteData, State!Advance,
              State!Content, State!TempName, StateFileWhole, TempsAccounted, WrittenKept
<1>3. CASE State!CloseTemp(p) \/ State!ChmodTemp(p)
  BY <1>3 DEF FileInv, State!FileTypeOK, State!Phases, State!CloseTemp, State!ChmodTemp,
              State!Advance, StateFileWhole, TempsAccounted, WrittenKept
<1> QED BY <1>1, <1>2, <1>3 DEF State!Writing

\* A call of WriteAtomically ends, by its rename or by an error.
LEMMA WriteEnds ==
    ASSUME FileInv, NEW p \in Processes,
           State!Rename(p) \/ State!WriteFails(p),
           stage' \in [Processes -> Stages],
           \A q \in Processes : stage[q] = "ended" => stage'[q] = "ended"
    PROVE  FileInv'
<1>1. CASE State!Rename(p)
  BY <1>1, DaemonAssumption
     DEF FileInv, State!FileTypeOK, State!Phases, State!Rename, State!Advance,
         State!Content, State!TempName, StateFileWhole, TempsAccounted, WrittenKept
<1>2. CASE State!WriteFails(p)
  BY <1>2 DEF FileInv, State!FileTypeOK, State!Phases, State!WriteFails,
              State!Content, State!TempName, StateFileWhole, TempsAccounted, WrittenKept
<1> QED BY <1>1, <1>2

\* What a step of runServe does to the stages.
LEMMA GotoStage ==
    ASSUME stage \in [Processes -> Stages], NEW p \in Processes,
           NEW from \in Stages \ {"ended"}, NEW to \in Stages, Goto(p, from, to)
    PROVE  /\ stage' \in [Processes -> Stages]
           /\ \A q \in Processes : stage[q] = "ended" => stage'[q] = "ended"
  BY DEF Goto

\* What the end of a save does to them.
LEMMA AfterSaveStage ==
    ASSUME stage \in [Processes -> Stages], NEW p \in Processes, AfterSave(p)
    PROVE  /\ stage' \in [Processes -> Stages]
           /\ \A q \in Processes : stage[q] = "ended" => stage'[q] = "ended"
  BY DEF AfterSave, Stages

-----------------------------------------------------------------------------
\* The scripts only start and kill processes.
LEMMA ScriptInv ==
    ASSUME FileInv, NEW s \in Scripts, BootCheck(s) \/ InstallKill(s) \/ Spawn(s)
    PROVE  FileInv'
<1>1. CASE BootCheck(s)
  BY <1>1, NoWrite DEF BootCheck, life, FileInv
<1>2. CASE InstallKill(s)
  <2>1. Alive \in SUBSET Processes
    BY DEF Alive
  <2> QED BY <1>2, <2>1, Deaths DEF InstallKill, End
<1>3. CASE Spawn(s)
  <2> DEFINE p == CHOOSE q \in Processes : stage[q] = "none"
  <2>1. p \in Processes /\ stage[p] = "none"
    BY <1>3 DEF Spawn
  <2>2. stage' = [stage EXCEPT ![p] = "rotate"] /\ UNCHANGED file
    BY <1>3 DEF Spawn
  <2> HIDE DEF p
  <2>3. /\ stage' \in [Processes -> Stages]
        /\ \A q \in Processes : stage[q] = "ended" => stage'[q] = "ended"
    BY <2>1, <2>2 DEF FileInv, Stages
  <2> QED BY <2>2, <2>3, NoWrite
<1> QED BY <1>1, <1>2, <1>3

\* Between its start and its sockets a daemon writes nothing but its state.
LEMMA StartInv ==
    ASSUME FileInv, NEW p \in Processes, Starting(p)
    PROVE  FileInv'
<1>1. CASE BindInUse(p) \/ PortTaken(p)
  <2>1. {p} \in SUBSET Processes
    OBVIOUS
  <2>2. PICK why : End({p}, why)
    BY <1>1 DEF BindInUse, PortTaken
  <2> QED BY <2>1, <2>2, Deaths DEF End
<1>2. ASSUME NEW from \in Stages \ {"ended"}, NEW to \in Stages, Goto(p, from, to),
             UNCHANGED file
      PROVE  FileInv'
  BY <1>2, GotoStage, NoWrite DEF FileInv
<1>3. CASE Rotate(p)
  BY <1>2, <1>3 DEF Rotate, Stages
<1>4. CASE Open(p)
  BY <1>2, <1>4 DEF Open, Stages
<1>5. CASE Load(p)
  <2>1. CASE StateUnreadable
    BY <1>5, <2>1 DEF Load, StateUnreadable, FileInv, StateFileWhole
  <2>2. CASE ~StateUnreadable
    BY <1>2, <1>5, <2>2 DEF Load, Goto, Stages
  <2> QED BY <2>1, <2>2
<1>6. CASE Unlink(p)
  BY <1>2, <1>6 DEF Unlink, Stages
<1>7. CASE Bind(p)
  BY <1>2, <1>7 DEF Bind, Stages
<1>8. CASE Chmod(p)
  BY <1>2, <1>8 DEF Chmod, Stages
<1>9. CASE ListenAndServe(p)
  BY <1>2, <1>9 DEF ListenAndServe, Stages
<1> QED BY <1>1, <1>3, <1>4, <1>5, <1>6, <1>7, <1>8, <1>9 DEF Starting

\* A save of state.json.
LEMMA SavingInv ==
    ASSUME FileInv, NEW p \in Processes, Saving(p)
    PROVE  FileInv'
<1>1. CASE BeginSave(p)
  <2>1. CASE Goto(p, "start", "saving")
    BY <1>1, <2>1, GotoStage, Writes DEF BeginSave, FileInv, Stages
  <2>2. CASE UNCHANGED stage
    BY <1>1, <2>2, Writes DEF BeginSave, FileInv
  <2> QED BY <1>1, <2>1, <2>2 DEF BeginSave
<1>2. CASE SaveStep(p)
  BY <1>2, Writes DEF SaveStep, FileInv
<1>3. CASE EndSave(p)
  BY <1>3, AfterSaveStage, WriteEnds DEF EndSave, FileInv
<1> QED BY <1>1, <1>2, <1>3 DEF Saving

\* System calls that fail, and kills.
LEMMA FaultInv ==
    ASSUME FileInv, NEW p \in Processes, Fail(p) \/ Kill(p)
    PROVE  FileInv'
<1> {p} \in SUBSET Processes
  OBVIOUS
<1>1. CASE \E why : End({p}, why)
  BY <1>1, Deaths DEF End
<1>2. CASE State!WriteFails(p) /\ AfterSave(p)
  BY <1>2, AfterSaveStage, WriteEnds DEF FileInv
<1>3. CASE Goto(p, "start", "unlink") /\ UNCHANGED file
  BY <1>3, GotoStage, NoWrite DEF FileInv, Stages
<1>4. CASE stage' = [stage EXCEPT ![p] = "ended"] /\ State!WritersDie({p})
  <2>1. stage' = [q \in Processes |-> IF q \in {p} THEN "ended" ELSE stage[q]]
    BY <1>4 DEF FileInv
  <2> QED BY <1>4, <2>1, Deaths
<1> QED BY <1>1, <1>2, <1>3, <1>4 DEF Fail, Kill

\* Every step of the daemons, the scripts and the clients keeps the file whole.
LEMMA NextFile == ASSUME FileInv, [Next]_vars PROVE FileInv'
<1>1. CASE \E s \in Scripts : BootCheck(s) \/ InstallKill(s) \/ Spawn(s)
  BY <1>1, ScriptInv
<1>2. CASE \E p \in Processes : Starting(p) \/ Saving(p) \/ Fail(p) \/ Kill(p)
  BY <1>2, StartInv, SavingInv, FaultInv
<1>3. CASE \E p \in Processes : LogRecord(p)
  BY <1>3, NoWrite DEF LogRecord, life, FileInv
<1>4. CASE \E c \in Clients : Connect(c) \/ Handle(c) \/ Answer(c) \/ GiveUp(c)
  BY <1>4, NoWrite DEF Connect, Handle, Answer, GiveUp, Processing, life, FileInv
<1>5. CASE UNCHANGED vars
  BY <1>5, NoWrite DEF vars, life, FileInv
<1> QED BY <1>1, <1>2, <1>3, <1>4, <1>5 DEF Next

\* There is no state.json on a router that has just been installed.
LEMMA InitFile == Init => FileInv
  BY DaemonAssumption
     DEF Init, FileInv, State!FileInit, State!FileTypeOK, State!Phases, Stages,
         StateFileWhole, TempsAccounted, WrittenKept

\* state.json is never half written (WriteAtomically).
THEOREM FileWhole == Spec => []StateFileWhole
<1>1. FileInv => StateFileWhole
  BY DEF FileInv
<1> QED BY <1>1, InitFile, NextFile, PTL DEF Spec

\* Only a process that died may leave a temporary file (WriteAtomically).
THEOREM TempsCleaned == Spec => []TempsAccounted
<1>1. FileInv => TempsAccounted
  BY DEF FileInv
<1> QED BY <1>1, InitFile, NextFile, PTL DEF Spec
-----------------------------------------------------------------------------
(***************************************************************************)
(* Types and the bound on the log: every record that is not a daemon's     *)
(* first one was written within the bound.                                 *)
(***************************************************************************)
ProcessTypeOK ==
    /\ stage \in [Processes -> Stages]
    /\ ending \in [Processes -> {"none", "killed", "fault", "torn", "in use", "port"}]
    /\ socket \in Processes \union {None} /\ port \in Processes \union {None}
    /\ crowded \subseteq Processes

ClientTypeOK ==
    /\ script \in [Scripts -> {"idle", "spawn", "done"}]
    /\ ctl \in [Clients -> {"idle", "waiting", "ok", "error", "refused", "lost"}]
    /\ server \in [Clients -> Processes \union {None}]
    /\ handled \in [Clients -> {"no", "done", "failed"}]
    /\ faults \in 0..MaxFaults

\* The daemons that may have opened the log.
Opened == {p \in Processes : stage[p] \notin {"none", "rotate", "open"}}

LogInv ==
    /\ logPath \in Files /\ backup \in Files
    /\ bytes \in [Processes -> Seq(Nat)]
    /\ handle \in [Processes -> Files]
    /\ records \in Nat /\ records <= MaxRecords + Cardinality(Opened)

TypeInv == ProcessTypeOK /\ ClientTypeOK /\ LogInv

\* The ends a process can come to.
LEMMA EndType ==
    ASSUME ProcessTypeOK, NEW dead \in SUBSET Processes,
           NEW why \in {"killed", "fault", "torn", "in use", "port"}, End(dead, why)
    PROVE  ProcessTypeOK'
  BY DEF ProcessTypeOK, End, Stages

\* Processes and sockets keep their types.
LEMMA NextProcess == ASSUME TypeInv, [Next]_vars PROVE ProcessTypeOK'
<1>. ProcessTypeOK
  BY DEF TypeInv
<1>1. CASE \E s \in Scripts : BootCheck(s) \/ InstallKill(s)
  <2>1. Alive \in SUBSET Processes
    BY DEF Alive
  <2>2. CASE \E s \in Scripts : InstallKill(s)
    BY <2>1, <2>2, EndType DEF InstallKill
  <2>. QED BY <1>1, <2>2 DEF BootCheck, life, sockets, ProcessTypeOK
<1>2. ASSUME NEW s \in Scripts, Spawn(s) PROVE ProcessTypeOK'
  <2>1. PICK p \in Processes :
          /\ stage' = [stage EXCEPT ![p] = "rotate"]
          /\ crowded' \in {crowded, crowded \union Alive \union {p}}
    BY <1>2 DEF Spawn
  <2>. QED BY <1>2, <2>1 DEF Spawn, ProcessTypeOK, Stages, sockets, Alive
<1>3. ASSUME NEW p \in Processes, Starting(p) PROVE ProcessTypeOK'
  <2>1. CASE BindInUse(p) \/ PortTaken(p) \/ (Load(p) /\ StateUnreadable)
    BY <2>1, EndType DEF BindInUse, PortTaken, Load
  <2>2. CASE Rotate(p) \/ Open(p) \/ Chmod(p) \/ (Load(p) /\ ~StateUnreadable)
    BY <2>2 DEF Rotate, Open, Chmod, Load, Goto, Others, sockets, ProcessTypeOK, Stages
  <2>3. CASE Unlink(p) \/ Bind(p) \/ ListenAndServe(p)
    BY <2>3 DEF Unlink, Bind, ListenAndServe, Goto, Others, ProcessTypeOK, Stages
  <2>. QED BY <1>3, <2>1, <2>2, <2>3 DEF Starting
<1>4. ASSUME NEW p \in Processes, Saving(p) PROVE ProcessTypeOK'
  BY <1>4 DEF Saving, BeginSave, SaveStep, EndSave, AfterSave, Goto, Others, sockets,
              ProcessTypeOK, Stages
<1>5. ASSUME NEW p \in Processes, Fail(p) PROVE ProcessTypeOK'
  <2>1. CASE End({p}, "fault")
    BY <2>1, EndType
  <2>. QED BY <1>5, <2>1 DEF Fail, AfterSave, Goto, sockets, ProcessTypeOK, Stages
<1>6. CASE \E p \in Processes : Kill(p)
  BY <1>6, EndType DEF Kill
<1>7. CASE \E p \in Processes : LogRecord(p)
  BY <1>7 DEF LogRecord, life, sockets, ProcessTypeOK
<1>8. CASE \E c \in Clients : Connect(c) \/ Handle(c) \/ Answer(c) \/ GiveUp(c)
  BY <1>8 DEF Connect, Handle, Answer, GiveUp, Processing, life, sockets, ProcessTypeOK
<1>9. CASE UNCHANGED vars
  BY <1>9 DEF vars, life, sockets, ProcessTypeOK
<1>. QED BY <1>1, <1>2, <1>3, <1>4, <1>5, <1>6, <1>7, <1>8, <1>9 DEF Next

\* Scripts, clients and the budget keep theirs.
LEMMA NextClient == ASSUME TypeInv, [Next]_vars PROVE ClientTypeOK'
<1>. ClientTypeOK /\ socket \in Processes \union {None}
  BY DEF TypeInv, ProcessTypeOK
<1>. USE DEF ClientTypeOK
<1>1. CASE \E s \in Scripts : BootCheck(s) \/ InstallKill(s) \/ Spawn(s)
  BY <1>1 DEF BootCheck, InstallKill, Spawn, client
<1>2. CASE UNCHANGED <<script, client, faults>>
  BY <1>2 DEF client
<1>3. ASSUME NEW p \in Processes, Starting(p) \/ Saving(p)
      PROVE  UNCHANGED <<script, client, faults>>
  BY <1>3 DEF Starting, Saving, Rotate, Open, Load, Unlink, Bind, BindInUse, Chmod,
              ListenAndServe, PortTaken, BeginSave, SaveStep, EndSave, Others
<1>4. CASE \E p \in Processes : LogRecord(p)
  BY <1>2, <1>4 DEF LogRecord
<1>5. CASE \E p \in Processes : Fail(p) \/ Kill(p)
  <2>1. /\ UNCHANGED <<script, client>> /\ faults < MaxFaults /\ faults' = faults + 1
    BY <1>5 DEF Fail, Kill
  <2>. QED BY <2>1, DaemonAssumption DEF client
<1>6. ASSUME NEW c \in Clients, Connect(c) \/ Handle(c) \/ Answer(c) \/ GiveUp(c)
      PROVE  ClientTypeOK'
  BY <1>6 DEF Connect, Handle, Answer, GiveUp, Processing
<1>7. CASE UNCHANGED vars
  BY <1>2, <1>7 DEF vars
<1>. QED BY <1>1, <1>2, <1>3, <1>4, <1>5, <1>6, <1>7 DEF Next

\* One line of the log is a sequence of bytes.
LEMMA RecordType ==
    ASSUME NEW id \in Nat, NEW len \in Lengths
    PROVE  Record(id, len) \in Seq(Nat)
<1>1. len + 1 \in Nat
  BY LogAssumption
<1>2. \A n \in 1..(len + 1) : (IF n <= len THEN id ELSE NL) \in Nat
  BY DEF NL
<1>. QED BY <1>1, <1>2, IsASeq DEF Record

\* A step that writes no record and takes no daemon back to before its log.
LEMMA LogKept ==
    ASSUME LogInv, UNCHANGED <<bytes, records>>, Opened \subseteq Opened',
           logPath' \in Files, backup' \in Files, handle' \in [Processes -> Files]
    PROVE  LogInv'
<1>1. Opened' \in SUBSET Processes /\ Opened \in SUBSET Opened'
  BY DEF Opened
<1>2. IsFiniteSet(Opened')
  BY <1>1, FS_Subset, DaemonAssumption
<1>3. Cardinality(Opened) <= Cardinality(Opened')
  BY <1>1, <1>2, FS_Subset
<1>4. Cardinality(Opened) \in Nat /\ Cardinality(Opened') \in Nat
  BY <1>1, <1>2, FS_Subset, FS_CardinalityType
<1>. QED BY <1>3, <1>4, DaemonAssumption DEF LogInv

\* A daemon writes its first record when it opens the log, and is counted.
LEMMA OpenLogInv ==
    ASSUME TypeInv, NEW p \in Processes, Open(p)
    PROVE  LogInv'
<1>1. PICK len \in Lengths : OpenLog(p, len)
  BY DEF Open
<1>2. Opened' = Opened \union {p} /\ p \notin Opened
  BY DEF Open, Goto, Opened, TypeInv, ProcessTypeOK
<1>3. IsFiniteSet(Opened)
  BY FS_Subset, DaemonAssumption DEF Opened
<1>4. Cardinality(Opened') = Cardinality(Opened) + 1 /\ Cardinality(Opened) \in Nat
  BY <1>2, <1>3, FS_AddElement, FS_CardinalityType
<1>. DEFINE f == IF logPath = None THEN p ELSE logPath
<1>5. f \in Processes
  BY DEF TypeInv, LogInv, Files
<1>6. Record(records + 1, len) \in Seq(Nat)
  BY RecordType DEF TypeInv, LogInv
<1>7. bytes[f] \o Record(records + 1, len) \in Seq(Nat)
  BY <1>5, <1>6, ConcatProperties DEF TypeInv, LogInv
<1>8. /\ logPath' = f /\ handle' = [handle EXCEPT ![p] = f]
      /\ bytes' = [bytes EXCEPT ![f] = bytes[f] \o Record(records + 1, len)]
      /\ records' = records + 1 /\ backup' = backup
  BY <1>1 DEF OpenLog
<1>. HIDE DEF f
<1>. QED BY <1>4, <1>5, <1>7, <1>8, DaemonAssumption DEF TypeInv, LogInv, Files

\* Another record is written within the bound.
LEMMA LogRecordInv ==
    ASSUME TypeInv, NEW p \in Processes, LogRecord(p)
    PROVE  LogInv'
<1>1. PICK len \in Lengths : Log(p, len) /\ records < MaxRecords /\ stage' = stage
  BY DEF LogRecord, life
<1>2. Opened' = Opened /\ Cardinality(Opened) \in Nat
  BY <1>1, FS_Subset, FS_CardinalityType, DaemonAssumption DEF Opened
<1>3. handle[p] \in Processes
  BY <1>1 DEF Log, TypeInv, LogInv, Files
<1>4. Record(records + 1, len) \in Seq(Nat)
  BY RecordType DEF TypeInv, LogInv
<1>5. bytes[handle[p]] \o Record(records + 1, len) \in Seq(Nat)
  BY <1>3, <1>4, ConcatProperties DEF TypeInv, LogInv
<1>6. /\ bytes' = [bytes EXCEPT ![handle[p]] = bytes[handle[p]] \o Record(records + 1, len)]
      /\ records' = records + 1 /\ UNCHANGED <<logPath, backup, handle>>
  BY <1>1 DEF Log
<1>. QED BY <1>1, <1>2, <1>3, <1>5, <1>6, DaemonAssumption DEF TypeInv, LogInv

\* What a process that ends does to the log: nothing but its descriptor goes.
LEMMA EndLog ==
    ASSUME TypeInv, NEW dead \in SUBSET Processes, LogDies(dead),
           stage' = [q \in Processes |-> IF q \in dead THEN "ended" ELSE stage[q]]
    PROVE  LogInv'
<1>1. Opened \subseteq Opened'
  BY DEF Opened
<1>. QED BY <1>1, LogKept DEF TypeInv, LogDies, LogInv, Files

\* Every step keeps the log and its bound.
LEMMA NextLog == ASSUME TypeInv, [Next]_vars PROVE LogInv'
<1>. LogInv /\ stage \in [Processes -> Stages]
  BY DEF TypeInv, ProcessTypeOK
<1>1. ASSUME UNCHANGED <<logVars, stage>> PROVE LogInv'
  BY <1>1, LogKept DEF logVars, LogInv, Opened
<1>2. CASE \E s \in Scripts : BootCheck(s) \/ InstallKill(s)
  <2>1. Alive \in SUBSET Processes
    BY DEF Alive
  <2>2. CASE \E s \in Scripts : InstallKill(s)
    BY <2>1, <2>2, EndLog DEF InstallKill, End
  <2>. QED BY <1>1, <1>2, <2>2 DEF BootCheck, life
<1>3. ASSUME NEW s \in Scripts, Spawn(s) PROVE LogInv'
  <2>1. PICK p \in Processes : stage[p] = "none" /\ stage' = [stage EXCEPT ![p] = "rotate"]
    BY <1>3 DEF Spawn
  <2>2. Opened \subseteq Opened'
    BY <2>1 DEF Opened
  <2>. QED BY <1>3, <2>2, LogKept DEF Spawn, logVars, LogInv
<1>4. ASSUME NEW p \in Processes, Starting(p) PROVE LogInv'
  <2>. {p} \in SUBSET Processes
    OBVIOUS
  <2>1. CASE BindInUse(p) \/ PortTaken(p) \/ (Load(p) /\ StateUnreadable)
    BY <2>1, EndLog DEF BindInUse, PortTaken, Load, End
  <2>2. CASE Rotate(p)
    <3>1. Opened \subseteq Opened'
      BY <2>2 DEF Rotate, Goto, Opened
    <3>. QED BY <2>2, <3>1, LogKept DEF Rotate, RotateIfLarge, LogInv, Files
  <2>3. CASE Open(p)
    BY <2>3, OpenLogInv
  <2>4. CASE \/ Unlink(p) \/ Bind(p) \/ Chmod(p) \/ ListenAndServe(p)
             \/ (Load(p) /\ ~StateUnreadable)
    <3>1. Opened \subseteq Opened' /\ UNCHANGED logVars
      BY <2>4 DEF Unlink, Bind, Chmod, ListenAndServe, Load, Goto, Opened
    <3>. QED BY <3>1, LogKept DEF logVars, LogInv
  <2>. QED BY <1>4, <2>1, <2>2, <2>3, <2>4 DEF Starting
<1>5. ASSUME NEW p \in Processes, Saving(p) PROVE LogInv'
  <2>1. Opened \subseteq Opened' /\ UNCHANGED logVars
    BY <1>5 DEF Saving, BeginSave, SaveStep, EndSave, AfterSave, Goto, Opened
  <2>. QED BY <2>1, LogKept DEF logVars, LogInv
<1>6. ASSUME NEW p \in Processes, Fail(p) \/ Kill(p) PROVE LogInv'
  <2>. {p} \in SUBSET Processes
    OBVIOUS
  <2>1. CASE \E why : End({p}, why)
    BY <2>1, EndLog DEF End
  <2>3. CASE LogDies({p}) /\ stage' = [stage EXCEPT ![p] = "ended"]
    <3>1. stage' = [q \in Processes |-> IF q \in {p} THEN "ended" ELSE stage[q]]
      BY <2>3
    <3>. QED BY <2>3, <3>1, EndLog
  <2>2. CASE UNCHANGED logVars /\ (AfterSave(p) \/ Goto(p, "start", "unlink"))
    <3>1. Opened \subseteq Opened'
      BY <2>2 DEF AfterSave, Goto, Opened
    <3>. QED BY <2>2, <3>1, LogKept DEF logVars, LogInv
  <2>. QED BY <1>6, <2>1, <2>2, <2>3 DEF Fail, Kill
<1>7. CASE \E p \in Processes : LogRecord(p)
  BY <1>7, LogRecordInv
<1>8. CASE \E c \in Clients : Connect(c) \/ Handle(c) \/ Answer(c) \/ GiveUp(c)
  BY <1>1, <1>8 DEF Connect, Handle, Answer, GiveUp, Processing, life
<1>9. CASE UNCHANGED vars
  BY <1>1, <1>9 DEF vars, life
<1>. QED BY <1>2, <1>3, <1>4, <1>5, <1>6, <1>7, <1>8, <1>9 DEF Next

\* No daemon has been started yet.
LEMMA InitType == Init => TypeInv
<1>. SUFFICES ASSUME Init PROVE TypeInv
  OBVIOUS
<1>1. ProcessTypeOK /\ ClientTypeOK
  BY DaemonAssumption DEF Init, ProcessTypeOK, ClientTypeOK, Stages
<1>2. Opened = {}
  BY DEF Init, Opened
<1>3. Cardinality(Opened) = 0
  BY <1>2, FS_EmptySet
<1>4. LogInv
  BY <1>3, DaemonAssumption DEF Init, LogInit, LogInv, Files
<1>. QED BY <1>1, <1>4 DEF TypeInv

\* The types hold in every order of starts, failures and kills, and the log
\* has as many records as were allowed (runServe).
THEOREM DaemonTypes == Spec => []DaemonTypeOK
<1>1. TypeInv /\ [Next]_vars => TypeInv'
  BY NextProcess, NextClient, NextLog DEF TypeInv
<1>2. ASSUME TypeInv, FileInv PROVE DaemonTypeOK
  <2>1. Cardinality(Opened) \in Nat /\ Cardinality(Opened) <= Cardinality(Processes)
    BY FS_Subset, FS_CardinalityType, DaemonAssumption DEF Opened
  <2>2. Cardinality(Processes) \in Nat
    BY FS_CardinalityType, DaemonAssumption
  <2>3. records <= MaxRecords + Cardinality(Processes)
    BY <1>2, <2>1, <2>2, DaemonAssumption DEF TypeInv, LogInv
  <2>4. \A p \in Processes : \A n \in DOMAIN bytes[p] : bytes[p][n] \in Nat
    BY <1>2, LenProperties, ElementOfSeq DEF TypeInv, LogInv
  <2>. QED BY <1>2, <2>3, <2>4
       DEF TypeInv, LogInv, FileInv, DaemonTypeOK, ProcessTypeOK, ClientTypeOK, LogTypeOK
<1>. QED BY <1>1, <1>2, InitType, InitFile, NextFile, PTL DEF Spec

-----------------------------------------------------------------------------
(***************************************************************************)
(* The daemon that is alone.  It is the only process there is, so nobody   *)
(* else moves the socket, the port or the log between two of its steps.    *)
(***************************************************************************)
Reached(p) ==
    /\ stage[p] \in {"chmod", "port", "serving"} => socket = p
    /\ stage[p] = "serving" => port = p
    /\ stage[p] \notin {"rotate", "open"} => handle[p] = logPath

AloneInv ==
    \A p \in Alive \ crowded : Alive \subseteq {p} /\ Reached(p)

\* Processes end, and the others stay as they were.
LEMMA EndAlone ==
    ASSUME TypeInv, AloneInv, NEW dead \in SUBSET Processes, LogDies(dead),
           stage' = [q \in Processes |-> IF q \in dead THEN "ended" ELSE stage[q]],
           port' = port \/ port \in dead, socket' = socket \/ dead # {},
           dead \subseteq Alive, crowded' = crowded
    PROVE  AloneInv'
<1>. SUFFICES ASSUME NEW p \in Alive' \ crowded' PROVE Alive' \subseteq {p} /\ Reached(p)'
  BY DEF AloneInv
<1>1. p \in Processes /\ p \in Alive \ crowded /\ p \notin dead /\ Alive' \subseteq Alive
  BY DEF Alive
<1>2. Alive \subseteq {p} /\ Reached(p)
  BY <1>1 DEF AloneInv
<1>3. dead = {}
  BY <1>1, <1>2
<1>4. stage'[p] = stage[p] /\ handle'[p] = handle[p] /\ logPath' = logPath
  BY <1>1 DEF LogDies
<1>. QED BY <1>1, <1>2, <1>3, <1>4 DEF Reached

\* Nobody but p is there beside a process that is alone.
LEMMA AloneStep ==
    ASSUME TypeInv, AloneInv, NEW p \in Alive, NEW to \in Stages \ {"none", "ended"},
           stage' = [stage EXCEPT ![p] = to], crowded' = crowded,
           p \notin crowded => Reached(p)'
    PROVE  AloneInv'
<1>1. Alive' = Alive /\ p \in Processes
  BY DEF TypeInv, ProcessTypeOK, Alive, Stages
<1>2. ASSUME NEW q \in Alive \ crowded PROVE q = p /\ Alive \subseteq {p}
  BY <1>2 DEF AloneInv
<1>. QED BY <1>1, <1>2 DEF AloneInv

\* A step that moves neither the processes nor what they hold.
LEMMA AloneStays ==
    ASSUME AloneInv, UNCHANGED <<stage, crowded, sockets, handle, logPath>>
    PROVE  AloneInv'
  BY DEF AloneInv, Alive, Reached, sockets

\* The steps of runServe: p's own, so p is the one that is alone.
LEMMA StartAlone ==
    ASSUME TypeInv, FileInv, AloneInv, NEW p \in Processes, Starting(p)
    PROVE  AloneInv'
<1>. USE DEF Stages
<1>0. p \in Alive /\ (p \notin crowded => Reached(p))
  BY DEF Starting, Rotate, Open, Load, Unlink, Bind, BindInUse, Chmod, ListenAndServe,
         PortTaken, Goto, Alive, AloneInv
<1>1. CASE BindInUse(p) \/ PortTaken(p)
  <2>. {p} \in SUBSET Processes
    OBVIOUS
  <2>. QED BY <1>0, <1>1, EndAlone DEF BindInUse, PortTaken, End
<1>2. CASE Rotate(p)
  BY <1>0, <1>2, AloneStep DEF Rotate, Goto, Others, Reached, sockets, TypeInv, ProcessTypeOK
<1>3. CASE Open(p)
  BY <1>0, <1>3, AloneStep
     DEF Open, Goto, Others, OpenLog, Reached, sockets, TypeInv, ProcessTypeOK, LogInv
<1>4. CASE Load(p)
  BY <1>0, <1>4, AloneStep
     DEF Load, StateUnreadable, FileInv, StateFileWhole, Reached, sockets, TypeInv,
         ProcessTypeOK, logVars
<1>5. CASE Unlink(p) \/ Bind(p)
  BY <1>0, <1>5, AloneStep
     DEF Unlink, Bind, Goto, Others, Reached, TypeInv, ProcessTypeOK, logVars
<1>6. CASE Chmod(p) \/ ListenAndServe(p)
  BY <1>0, <1>6, AloneStep
     DEF Chmod, ListenAndServe, Goto, Others, Reached, TypeInv, ProcessTypeOK, logVars, sockets
<1>. QED BY <1>1, <1>2, <1>3, <1>4, <1>5, <1>6 DEF Starting

\* A save moves no socket.
LEMMA SavingAlone ==
    ASSUME TypeInv, AloneInv, NEW p \in Processes, Saving(p)
    PROVE  AloneInv'
<1>. USE DEF Stages
<1>1. UNCHANGED <<crowded, sockets, handle, logPath>>
  BY DEF Saving, BeginSave, SaveStep, EndSave, Others, logVars
<1>2. CASE UNCHANGED stage
  BY <1>1, <1>2, AloneStays
<1>3. CASE stage[p] \in {"start", "saving"}
           /\ \E to \in {"saving", "unlink"} : stage' = [stage EXCEPT ![p] = to]
  <2>1. p \in Alive /\ (p \notin crowded => Reached(p))
    BY <1>3 DEF Alive, AloneInv
  <2>. QED BY <1>1, <1>3, <2>1, AloneStep DEF Reached, sockets, TypeInv, ProcessTypeOK
<1>. QED BY <1>2, <1>3
     DEF Saving, BeginSave, SaveStep, EndSave, AfterSave, Goto, TypeInv, ProcessTypeOK

\* A failure or a kill ends one process at most.
LEMMA FaultAlone ==
    ASSUME TypeInv, AloneInv, NEW p \in Processes, Fail(p) \/ Kill(p)
    PROVE  AloneInv'
<1>. {p} \in SUBSET Processes
  OBVIOUS
<1>1. CASE p \in Alive /\ \E why : End({p}, why)
  BY <1>1, EndAlone DEF End
<1>2. CASE AfterSave(p) /\ UNCHANGED <<crowded, sockets, logVars>>
  <2>1. CASE stage[p] = "saving"
    <3>1. p \in Alive /\ (p \notin crowded => Reached(p))
      BY <2>1 DEF Alive, AloneInv
    <3>. QED BY <1>2, <2>1, <3>1, AloneStep
         DEF AfterSave, Reached, sockets, TypeInv, ProcessTypeOK, Stages, logVars
  <2>2. CASE stage[p] # "saving"
    BY <1>2, <2>2, AloneStays DEF AfterSave, TypeInv, ProcessTypeOK, logVars
  <2>. QED BY <2>1, <2>2
<1>3. CASE Goto(p, "start", "unlink") /\ UNCHANGED <<crowded, sockets, logVars>>
  <2>1. p \in Alive /\ (p \notin crowded => Reached(p))
    BY <1>3 DEF Goto, Alive, AloneInv
  <2>. QED BY <1>3, <2>1, AloneStep
       DEF Goto, Reached, sockets, TypeInv, ProcessTypeOK, Stages, logVars
<1>4. CASE /\ stage[p] = "chmod" /\ stage' = [stage EXCEPT ![p] = "ended"]
           /\ LogDies({p}) /\ UNCHANGED <<port, crowded>>
  <2>1. p \in Alive
    BY <1>4 DEF Alive
  <2>2. stage' = [q \in Processes |-> IF q \in {p} THEN "ended" ELSE stage[q]]
    BY <1>4 DEF TypeInv, ProcessTypeOK
  <2>. QED BY <1>4, <2>1, <2>2, EndAlone
<1>. QED BY <1>1, <1>2, <1>3, <1>4 DEF Fail, Kill, Alive

\* A daemon that is started beside another makes both crowded.
LEMMA ScriptAlone ==
    ASSUME TypeInv, AloneInv, NEW s \in Scripts, BootCheck(s) \/ InstallKill(s) \/ Spawn(s)
    PROVE  AloneInv'
<1>1. CASE BootCheck(s)
  BY <1>1, AloneStays DEF BootCheck, life, logVars
<1>2. CASE InstallKill(s)
  <2>1. Alive \in SUBSET Processes
    BY DEF Alive
  <2>. QED BY <1>2, <2>1, EndAlone DEF InstallKill, End
<1>3. CASE Spawn(s)
  <2>1. PICK p \in Processes :
          /\ stage[p] = "none" /\ stage' = [stage EXCEPT ![p] = "rotate"]
          /\ crowded' = IF Alive = {} THEN crowded ELSE crowded \union Alive \union {p}
    BY <1>3 DEF Spawn
  <2>2. Alive' = Alive \union {p} /\ stage'[p] = "rotate"
    BY <2>1 DEF Alive, TypeInv, ProcessTypeOK
  <2>3. CASE Alive = {}
    BY <2>2, <2>3 DEF AloneInv, Reached
  <2>4. CASE Alive # {}
    BY <2>1, <2>2, <2>4 DEF AloneInv
  <2>. QED BY <2>3, <2>4
<1>. QED BY <1>1, <1>2, <1>3

\* Every step keeps a lone daemon reachable.
LEMMA NextAlone == ASSUME TypeInv, FileInv, AloneInv, [Next]_vars PROVE AloneInv'
<1>1. CASE \E s \in Scripts : BootCheck(s) \/ InstallKill(s) \/ Spawn(s)
  BY <1>1, ScriptAlone
<1>2. CASE \E p \in Processes : Starting(p) \/ Saving(p) \/ Fail(p) \/ Kill(p)
  BY <1>2, StartAlone, SavingAlone, FaultAlone
<1>3. CASE \E p \in Processes : LogRecord(p)
  BY <1>3, AloneStays DEF LogRecord, Log, life
<1>4. CASE \E c \in Clients : Connect(c) \/ Handle(c) \/ Answer(c) \/ GiveUp(c)
  BY <1>4, AloneStays DEF Connect, Handle, Answer, GiveUp, Processing, life, logVars
<1>5. CASE UNCHANGED vars
  BY <1>5, AloneStays DEF vars, life, logVars
<1>. QED BY <1>1, <1>2, <1>3, <1>4, <1>5 DEF Next

\* A daemon that never had another beside it and serves is the one ctl reaches,
\* whatever its predecessors left behind (runServe, listenUnixSocket).
THEOREM AloneAlwaysReached == Spec => []AloneIsReached
<1>1. Init => AloneInv
  BY DEF Init, AloneInv, Alive
<1>2. TypeInv /\ [Next]_vars => TypeInv'
  BY NextProcess, NextClient, NextLog DEF TypeInv
<1>3. AloneInv => AloneIsReached
  BY DEF AloneInv, AloneIsReached, Reached, Alive
<1>. QED BY <1>1, <1>2, <1>3, InitType, InitFile, NextFile, NextAlone, PTL DEF Spec

-----------------------------------------------------------------------------
\* A request that has no server was not handled, and the client's answer is
\* what the handler said.
AnswerInv ==
    /\ AnswersAreTrue
    /\ \A c \in Clients : ctl[c] \in {"idle", "refused"} => server[c] = None

\* Only Connect gives a request a server, and only Answer reads its result.
LEMMA NextAnswer == ASSUME TypeInv, AnswerInv, [Next]_vars PROVE AnswerInv'
<1>. ClientTypeOK
  BY DEF TypeInv
<1>. USE DEF AnswerInv, AnswersAreTrue
<1>1. CASE UNCHANGED client
  BY <1>1 DEF client
<1>2. CASE \E s \in Scripts : BootCheck(s) \/ Spawn(s)
  BY <1>1, <1>2 DEF BootCheck, Spawn
<1>3. CASE \E s \in Scripts : InstallKill(s)
  BY <1>3 DEF InstallKill, ClientTypeOK
<1>4. CASE \E p \in Processes : LogRecord(p) \/ Fail(p) \/ Kill(p)
  BY <1>1, <1>4 DEF LogRecord, Fail, Kill
<1>5. ASSUME NEW p \in Processes, Starting(p) \/ Saving(p) PROVE UNCHANGED client
  BY <1>5 DEF Starting, Saving, Rotate, Open, Load, Unlink, Bind, BindInUse, Chmod,
              ListenAndServe, PortTaken, BeginSave, SaveStep, EndSave, Others
<1>6. ASSUME NEW c \in Clients, Connect(c) PROVE AnswerInv'
  BY <1>6 DEF Connect, ClientTypeOK
<1>7. ASSUME NEW c \in Clients, Handle(c) PROVE AnswerInv'
  BY <1>7 DEF Handle, ClientTypeOK
<1>8. ASSUME NEW c \in Clients, Answer(c) \/ GiveUp(c) PROVE AnswerInv'
  BY <1>8 DEF Answer, GiveUp, ClientTypeOK
<1>9. CASE UNCHANGED vars
  BY <1>1, <1>9 DEF vars
<1>. QED BY <1>1, <1>2, <1>3, <1>4, <1>5, <1>6, <1>7, <1>8, <1>9 DEF Next

\* ctl says "ok" only of a command that was carried out (requestJSON).
THEOREM AnswersAlwaysTrue == Spec => []AnswersAreTrue
<1>1. Init => AnswerInv
  BY DEF Init, AnswerInv, AnswersAreTrue
<1>2. TypeInv /\ [Next]_vars => TypeInv'
  BY NextProcess, NextClient, NextLog DEF TypeInv
<1>3. AnswerInv => AnswersAreTrue
  BY DEF AnswerInv
<1>. QED BY <1>1, <1>2, <1>3, InitType, NextAnswer, PTL DEF Spec

-----------------------------------------------------------------------------
(***************************************************************************)
(* Tail.  A log is whole lines at all times: whoever has it open appends a *)
(* record with its newline in one write, also after the file was renamed.  *)
(***************************************************************************)
WholeLines == \A p \in Processes : Lines(bytes[p])

\* A record is one more line.
LEMMA OneMoreLine ==
    ASSUME NEW s, Lines(s), NEW id \in Nat \ {0}, NEW len \in Lengths
    PROVE  Lines(s \o Record(id, len))
<1>. DEFINE r == Record(id, len)
            t == s \o r
<1>1. len \in Nat \ {0} /\ s \in Seq(Nat)
  BY LogAssumption DEF Lines
<1>2. r \in Seq(Nat) /\ Len(r) = len + 1
  BY <1>1 DEF Record, NL
<1>3. \A n \in 1..(len + 1) : r[n] = NL <=> n = len + 1
  BY <1>1 DEF Record, NL
<1>. HIDE DEF r
<1>4. PICK m \in Nat : m = Len(s)
  BY <1>1, LenProperties
<1>5. /\ t \in Seq(Nat) /\ Len(t) = m + (len + 1)
      /\ \A n \in 1..(m + (len + 1)) : t[n] = IF n <= m THEN s[n] ELSE r[n - m]
  <2>1. /\ t \in Seq(Nat) /\ Len(t) = Len(s) + Len(r)
        /\ \A n \in 1..(Len(s) + Len(r)) : t[n] = IF n <= Len(s) THEN s[n] ELSE r[n - Len(s)]
    BY <1>1, <1>2, ConcatProperties
  <2>. HIDE DEF t
  <2>. QED  BY <1>1, <1>2, <1>4, <2>1
<1>. HIDE DEF t
<1>6. ASSUME NEW n \in 1..Len(t), t[n] = NL PROVE n > 1 /\ t[n - 1] # NL
  <2>1. CASE n <= m
    <3>1. n \in 1..m /\ s[n] = NL
      BY <1>4, <1>5, <1>6, <2>1
    <3>2. n > 1 /\ s[n - 1] # NL
      BY <1>4, <3>1 DEF Lines
    <3>3. n - 1 \in 1..(m + (len + 1)) /\ n - 1 <= m
      BY <1>1, <3>1, <3>2
    <3>4. t[n - 1] = s[n - 1]
      BY <1>5, <3>3
    <3>. QED  BY <3>2, <3>4
  <2>2. CASE ~(n <= m)
    <3>1. n - m \in 1..(len + 1) /\ r[n - m] = NL
      BY <1>1, <1>4, <1>5, <1>6, <2>2
    <3>2. n - m = len + 1
      BY <1>3, <3>1
    <3>3. n - 1 \in 1..(m + (len + 1)) /\ ~(n - 1 <= m) /\ (n - 1) - m = len /\ n > 1
      BY <1>1, <1>4, <3>2
    <3>4. len \in 1..(len + 1) /\ len # len + 1
      BY <1>1
    <3>5. t[n - 1] = r[len]
      BY <1>5, <3>3
    <3>6. r[len] # NL
      BY <1>3, <3>4
    <3>. QED  BY <3>3, <3>5, <3>6
  <2>. QED  BY <2>1, <2>2
<1>. QED  BY <1>5, <1>6 DEF t, r, Lines

\* One log gets a record.
LEMMA AppendLines ==
    ASSUME TypeInv, WholeLines, NEW f \in Processes, NEW len \in Lengths,
           bytes' = [bytes EXCEPT ![f] = @ \o Record(records + 1, len)]
    PROVE  WholeLines'
<1>1. records + 1 \in Nat \ {0}
  BY DEF TypeInv, LogInv
<1>2. Lines(bytes[f]) /\ Lines(bytes[f] \o Record(records + 1, len))
  BY <1>1, OneMoreLine DEF WholeLines
<1>3. bytes'[f] = bytes[f] \o Record(records + 1, len)
      /\ \A q \in Processes \ {f} : bytes'[q] = bytes[q]
  BY DEF TypeInv, LogInv
<1>4. ASSUME NEW q \in Processes PROVE Lines(bytes'[q])
  <2>1. CASE q = f
    BY <1>2, <1>3, <2>1
  <2>2. CASE q # f
    BY <1>3, <2>2 DEF WholeLines
  <2>. QED  BY <2>1, <2>2
<1>5. \A q \in Processes : Lines(bytes'[q])
  BY <1>4
<1>. QED  BY <1>5 DEF WholeLines, Lines

\* Only Open and Log write to a log; a rotation renames it.
LEMMA NextLines == ASSUME TypeInv, WholeLines, [Next]_vars PROVE WholeLines'
<1>1. CASE UNCHANGED bytes
  BY <1>1 DEF WholeLines, Lines
<1>2. CASE \E s \in Scripts : BootCheck(s) \/ InstallKill(s) \/ Spawn(s)
  BY <1>1, <1>2 DEF BootCheck, InstallKill, Spawn, End, LogDies, logVars
<1>3. ASSUME NEW p \in Processes, Open(p) PROVE WholeLines'
  <2>1. PICK len \in Lengths : OpenLog(p, len)
    BY <1>3 DEF Open
  <2>2. PICK f \in Processes :
          bytes' = [bytes EXCEPT ![f] = @ \o Record(records + 1, len)]
    BY <2>1 DEF OpenLog, TypeInv, LogInv, Files
  <2>. QED  BY <2>2, AppendLines
<1>4. ASSUME NEW p \in Processes, LogRecord(p) PROVE WholeLines'
  <2>1. PICK len \in Lengths : Log(p, len)
    BY <1>4 DEF LogRecord
  <2>2. handle[p] \in Processes
    BY <2>1 DEF Log, TypeInv, LogInv, Files
  <2>3. bytes' = [bytes EXCEPT ![handle[p]] = @ \o Record(records + 1, len)]
    BY <2>1 DEF Log
  <2>. QED  BY <2>2, <2>3, AppendLines
<1>5. ASSUME NEW p \in Processes, Starting(p), ~Open(p) PROVE UNCHANGED bytes
  BY <1>5 DEF Starting, Rotate, RotateIfLarge, Load, Unlink, Bind, BindInUse, Chmod,
              ListenAndServe, PortTaken, End, LogDies, logVars
<1>6. ASSUME NEW p \in Processes, Saving(p) \/ Fail(p) \/ Kill(p) PROVE UNCHANGED bytes
  BY <1>6 DEF Saving, BeginSave, SaveStep, EndSave, Fail, Kill, End, LogDies, logVars
<1>7. CASE \E c \in Clients : Connect(c) \/ Handle(c) \/ Answer(c) \/ GiveUp(c)
  BY <1>1, <1>7 DEF Connect, Handle, Answer, GiveUp, Processing, logVars
<1>8. CASE UNCHANGED vars
  BY <1>1, <1>8 DEF vars, logVars
<1>. QED  BY <1>1, <1>2, <1>3, <1>4, <1>5, <1>6, <1>7, <1>8 DEF Next

\* /api/logs returns the last lines of the log, for every size of a chunk,
\* every number of lines and every length of the records (tailFile).
THEOREM TailAlwaysLast == Spec => []TailIsLastLines
<1>1. ASSUME Init PROVE WholeLines
  <2>1. Lines(<<>>)
    BY DEF Lines
  <2>. QED  BY <1>1, <2>1 DEF Init, LogInit, WholeLines
<1>2. TypeInv /\ [Next]_vars => TypeInv'
  BY NextProcess, NextClient, NextLog DEF TypeInv
<1>3. ASSUME TypeInv, WholeLines PROVE TailIsLastLines
  <2>. SUFFICES ASSUME logPath # None, NEW asked \in 1..(MaxTailLines + 1)
                PROVE  TailFile(bytes[logPath], TailLimit(asked, MaxTailLines))
                         = LastOf(SplitLines(bytes[logPath]), TailLimit(asked, MaxTailLines))
    BY Zenon DEF TailIsLastLines
  <2>1. TailLimit(asked, MaxTailLines) \in Nat
    BY DaemonAssumption DEF TailLimit
  <2>2. Lines(bytes[logPath])
    BY <1>3 DEF TypeInv, LogInv, Files, WholeLines
  <2>. QED  BY <2>1, <2>2, TailOfLines
<1>. QED BY <1>1, <1>2, <1>3, InitType, NextLines, PTL DEF Spec
=============================================================================
