------------------------- MODULE DesiredStoreProofs -------------------------
(***************************************************************************)
(* ControlService implements DesiredStore.  The register is config.json:   *)
(* by IndInv it is also what memory holds when the mutex is free.  What is *)
(* needed besides IndInv is ProposalInv, that the document an update saves *)
(* is the one its client proposed and that only such a call answers for a  *)
(* proposal.                                                               *)
(***************************************************************************)
EXTENDS ControlServiceProofs

\* What a reader of the configuration gets is what config.json holds.
LEMMA DesiredIsFile ==
    ASSUME IndInv
    PROVE  (IF lock = None THEN document ELSE configFile) = configFile
BY DEF IndInv, DesiredInv

-----------------------------------------------------------------------------
(***************************************************************************)
(* Every step keeps proposals with the calls that answer them.             *)
(***************************************************************************)
\* No proposal is made before the first request.
LEMMA InitProposal == Init => ProposalInv
BY ThreadAssumption DEF Init, ProposalInv, NoFrame, Threads

\* Starting, stopping and losing the process keep ProposalInv.
LEMMA ProcessProposal ==
    ASSUME IndInv, ProposalInv,
           Boot \/ Crash \/ StopBegin \/ Stopping
    PROVE  ProposalInv'
<1>. USE ThreadAssumption DEF IndInv, ProposalInv, Threads
<1>1. CASE Boot
    BY <1>1 DEF memory, disk, outside, request, budgets, Goto, Boot, Labels,
           LockedLabels, BuildLabels, TypeOK, CallInv, DesiredInv
<1>2. CASE Crash
    BY <1>2 DEF memory, disk, outside, request, budgets, Goto, Crash, NoFrame, Labels,
           LockedLabels, BuildLabels, TypeOK, CallInv, DesiredInv
<1>3. CASE StopBegin
    BY <1>3 DEF memory, disk, outside, request, budgets, Goto, StopBegin, Labels,
           LockedLabels, BuildLabels, TypeOK, CallInv, DesiredInv
<1>4. CASE StopAdvertiser
    BY <1>4 DEF memory, disk, outside, request, budgets, Goto, StopAdvertiser, Labels,
           LockedLabels, BuildLabels, TypeOK, CallInv, DesiredInv
<1>5. CASE StopDone
    BY <1>5 DEF memory, disk, outside, request, budgets, Goto, StopDone, Labels,
           LockedLabels, BuildLabels, TypeOK, CallInv, DesiredInv
<1>. QED  BY <1>1, <1>2, <1>3, <1>4, <1>5 DEF Stopping

\* A request and its decision keep ProposalInv.
LEMMA RequestProposal ==
    ASSUME IndInv, ProposalInv,
           NEW c \in Clients,
           Requests(c) \/ Deciding(c)
    PROVE  ProposalInv'
<1>. USE ThreadAssumption DEF IndInv, ProposalInv, Threads
<1>1. CASE MutateDocument(c)
    BY <1>1 DEF memory, disk, outside, request, budgets, Goto, MutateDocument, Submit,
           Begin, Document, Labels, LockedLabels, BuildLabels, TypeOK, CallInv,
           DesiredInv
<1>2. CASE PutLegacy(c)
    BY <1>2 DEF memory, disk, outside, request, budgets, Goto, PutLegacy, Submit, Begin,
           Document, Labels, LockedLabels, BuildLabels, TypeOK, CallInv, DesiredInv
<1>3. CASE PutProfiles(c)
    BY <1>3 DEF memory, disk, outside, request, budgets, Goto, PutProfiles, Submit,
           Begin, Document, Labels, LockedLabels, BuildLabels, TypeOK, CallInv,
           DesiredInv
<1>4. CASE Restart(c)
    BY <1>4 DEF memory, disk, outside, request, budgets, Goto, Restart, Begin, Labels,
           LockedLabels, BuildLabels, TypeOK, CallInv, DesiredInv
<1>5. CASE Health(c)
    BY <1>5 DEF memory, disk, outside, request, budgets, Goto, Health, Begin, Labels,
           LockedLabels, BuildLabels, TypeOK, CallInv, DesiredInv
<1>6. CASE RejectUpdate(c)
    BY <1>6 DEF memory, disk, outside, request, budgets, Goto, RejectUpdate, Return,
           NoFrame, Labels, LockedLabels, BuildLabels, TypeOK, CallInv, DesiredInv
<1>7. CASE AcceptUpdate(c)
    BY <1>7 DEF memory, disk, outside, request, budgets, Goto, AcceptUpdate, NoFrame,
           Labels, LockedLabels, BuildLabels, TypeOK, CallInv, DesiredInv
<1>. QED  BY <1>1, <1>2, <1>3, <1>4, <1>5, <1>6, <1>7 DEF Requests, Deciding

\* A step of the mutex holder that builds keeps ProposalInv.
LEMMA BuildProposal ==
    ASSUME IndInv, ProposalInv,
           NEW t \in Threads,
           \/ AcquireReconcile(t) \/ TeardownStep(t) \/ ReadWan(t) \/ BuildRoute(t)
           \/ BuildTunnel(t) \/ BuildLink(t) \/ BuildAddr(t) \/ BuildLan(t)
           \/ BuildDefault(t) \/ BuildFails(t) \/ StartAdvertiser(t)
    PROVE  ProposalInv'
<1>. USE ThreadAssumption DEF IndInv, ProposalInv, Threads
<1>1. CASE AcquireReconcile(t)
    BY <1>1 DEF memory, disk, outside, request, budgets, Goto, AcquireReconcile,
           NoFrame, Labels, LockedLabels, BuildLabels, TypeOK, CallInv, DesiredInv
<1>2. CASE TeardownStep(t)
    BY <1>2 DEF memory, disk, outside, request, budgets, Goto, TeardownStep, Holds,
           Labels, LockedLabels, BuildLabels, TypeOK, CallInv, DesiredInv
<1>3. CASE ReadWan(t)
    BY <1>3 DEF memory, disk, outside, request, budgets, Goto, ReadWan, BuildStep,
           Holds, Labels, LockedLabels, BuildLabels, TypeOK, CallInv, DesiredInv
<1>4. CASE BuildRoute(t)
    BY <1>4 DEF memory, disk, outside, request, budgets, Goto, BuildRoute, BuildStep,
           Holds, Labels, LockedLabels, BuildLabels, TypeOK, CallInv, DesiredInv
<1>5. CASE BuildTunnel(t)
    BY <1>5 DEF memory, disk, outside, request, budgets, Goto, BuildTunnel, BuildStep,
           Holds, Labels, LockedLabels, BuildLabels, TypeOK, CallInv, DesiredInv
<1>6. CASE BuildLink(t)
    BY <1>6 DEF memory, disk, outside, request, budgets, Goto, BuildLink, BuildStep,
           Holds, Labels, LockedLabels, BuildLabels, TypeOK, CallInv, DesiredInv
<1>7. CASE BuildAddr(t)
    BY <1>7 DEF memory, disk, outside, request, budgets, Goto, BuildAddr, BuildStep,
           Holds, Labels, LockedLabels, BuildLabels, TypeOK, CallInv, DesiredInv
<1>8. CASE BuildLan(t)
    BY <1>8 DEF memory, disk, outside, request, budgets, Goto, BuildLan, BuildStep,
           Holds, Labels, LockedLabels, BuildLabels, TypeOK, CallInv, DesiredInv
<1>9. CASE BuildDefault(t)
    BY <1>9 DEF memory, disk, outside, request, budgets, Goto, BuildDefault, BuildStep,
           Holds, Labels, LockedLabels, BuildLabels, TypeOK, CallInv, DesiredInv
<1>10. CASE BuildFails(t)
    BY <1>10 DEF memory, disk, outside, request, budgets, Goto, BuildFails, Holds,
           Failing, Frame, Labels, LockedLabels, BuildLabels, TypeOK, CallInv,
           DesiredInv
<1>11. CASE StartAdvertiser(t)
    BY <1>11 DEF memory, disk, outside, request, budgets, Goto, StartAdvertiser, Holds,
           Failing, Frame, Labels, LockedLabels, BuildLabels, TypeOK, CallInv,
           DesiredInv
<1>. QED  BY <1>1, <1>2, <1>3, <1>4, <1>5, <1>6, <1>7, <1>8, <1>9, <1>10, <1>11

\* The end of a reconcile, an update or a rollback keeps ProposalInv.
LEMMA FinishProposal ==
    ASSUME IndInv, ProposalInv,
           NEW t \in Threads,
           FinishPlain(t) \/ FinishUpdate(t) \/ FinishRollback(t) \/ Restore(t) \/ Save(t)
    PROVE  ProposalInv'
<1>. USE ThreadAssumption DEF IndInv, ProposalInv, Threads
<1>1. CASE FinishPlain(t)
    BY <1>1 DEF memory, disk, outside, request, budgets, Goto, FinishPlain, Finish,
           Return, Holds, NoFrame, Labels, LockedLabels, BuildLabels, TypeOK, CallInv,
           DesiredInv
<1>2. CASE FinishUpdate(t)
  <2>1. lock = t /\ pc[t] = "finish" /\ frame.mode = "update" /\ UNCHANGED <<proc, next, lock>>
    BY <1>2 DEF FinishUpdate, Finish, Holds, BeginRollback, request
  <2>2. CASE pc' = [pc EXCEPT ![t] = "save"] /\ UNCHANGED <<document, frame>>
    BY <2>1, <2>2 DEF Frame, Labels, LockedLabels, BuildLabels,
           TypeOK, CallInv, DesiredInv
  <2>3. CASE /\ pc' = [pc EXCEPT ![t] = "teardown"]
             /\ frame' = [frame EXCEPT !.mode = "rollback", !.errs = {}, !.wanIP = None]
    BY <2>1, <2>3 DEF Frame, Labels, LockedLabels, BuildLabels,
           TypeOK, CallInv, DesiredInv
  <2>. QED  BY <1>2, <2>2, <2>3 DEF FinishUpdate, Finish, BeginRollback, Goto
<1>3. CASE FinishRollback(t)
  <2>1. lock = t /\ pc[t] = "finish" /\ frame.mode = "rollback"
    BY <1>3 DEF FinishRollback, Finish, Holds
  <2>2. CASE Return(t, "error")
    BY <2>1, <2>2 DEF Return, Goto, NoFrame, Frame, Labels, LockedLabels, BuildLabels,
           TypeOK, CallInv, DesiredInv
  <2>3. CASE pc' = [pc EXCEPT ![t] = "restore"] /\ UNCHANGED <<proc, next, lock, frame>>
    BY <2>1, <2>3 DEF Frame, Labels, LockedLabels, BuildLabels,
           TypeOK, CallInv, DesiredInv
  <2>. QED  BY <1>3, <2>2, <2>3 DEF FinishRollback, Goto, request
<1>4. CASE Restore(t)
    BY <1>4 DEF memory, disk, outside, request, budgets, Goto, Restore, Return, Holds,
           NoFrame, Labels, LockedLabels, BuildLabels, TypeOK, CallInv, DesiredInv
<1>5. CASE Save(t)
  <2>1. lock = t /\ pc[t] = "save" /\ frame.mode = "update"
    BY <1>5, ThreadAssumption DEF Save, Holds, DesiredInv
  <2>2. CASE Return(t, "ok")
    BY <2>1, <2>2 DEF Return, Goto, NoFrame, Frame, Labels, LockedLabels, BuildLabels,
           TypeOK, CallInv, DesiredInv
  <2>3. CASE /\ pc' = [pc EXCEPT ![t] = "teardown"] /\ UNCHANGED <<proc, next, lock>>
             /\ frame' = [frame EXCEPT !.mode = "rollback", !.errs = {}, !.wanIP = None]
    BY <2>1, <2>3 DEF Frame, Labels, LockedLabels, BuildLabels,
           TypeOK, CallInv, DesiredInv
  <2>. QED  BY <1>5, <2>2, <2>3 DEF Save, BeginRollback, Goto, request
<1>. QED  BY <1>1, <1>2, <1>3, <1>4, <1>5

\* A health check keeps ProposalInv.
LEMMA CheckProposal ==
    ASSUME IndInv, ProposalInv,
           NEW t \in Threads,
           HcSnapshot(t) \/ HcObserve(t) \/ HcProbe(t) \/ HcApply(t)
    PROVE  ProposalInv'
<1>. USE ThreadAssumption DEF IndInv, ProposalInv, Threads
<1>1. CASE HcSnapshot(t)
    BY <1>1 DEF memory, disk, outside, request, budgets, Goto, HcSnapshot, Labels,
           LockedLabels, BuildLabels, TypeOK, CallInv, DesiredInv
<1>2. CASE HcObserve(t)
    BY <1>2 DEF memory, disk, outside, request, budgets, Goto, HcObserve, Failing,
           Labels, LockedLabels, BuildLabels, TypeOK, CallInv, DesiredInv
<1>3. CASE HcProbe(t)
    BY <1>3 DEF memory, disk, outside, request, budgets, Goto, HcProbe, Failing, Labels,
           LockedLabels, BuildLabels, TypeOK, CallInv, DesiredInv
<1>4. CASE HcApply(t)
    BY <1>4 DEF memory, disk, outside, request, budgets, Goto, HcApply, Failing,
           Recovery, Labels, LockedLabels, BuildLabels, TypeOK, CallInv, DesiredInv
<1>. QED  BY <1>1, <1>2, <1>3, <1>4

\* The health loop and its repair keep ProposalInv.
LEMMA LoopProposal ==
    ASSUME IndInv, ProposalInv,
           Loop \/ RepairStep
    PROVE  ProposalInv'
<1>. USE ThreadAssumption DEF IndInv, ProposalInv, Threads
<1>1. CASE Tick
    BY <1>1 DEF memory, disk, outside, request, budgets, Goto, Tick, Labels,
           LockedLabels, BuildLabels, TypeOK, CallInv, DesiredInv
<1>2. CASE LoopExit
    BY <1>2 DEF memory, disk, outside, request, budgets, Goto, LoopExit, Labels,
           LockedLabels, BuildLabels, TypeOK, CallInv, DesiredInv
<1>3. CASE AcquireRepair("loop")
    BY <1>3 DEF memory, disk, outside, request, budgets, Goto, AcquireRepair, NoFrame,
           Labels, LockedLabels, BuildLabels, TypeOK, CallInv, DesiredInv
<1>4. CASE Repair("loop")
    BY <1>4 DEF memory, disk, outside, request, budgets, Goto, Repair, Holds, Labels,
           LockedLabels, BuildLabels, TypeOK, CallInv, DesiredInv
<1>5. CASE RepairFails("loop")
    BY <1>5 DEF memory, disk, outside, request, budgets, Goto, RepairFails, Holds,
           Failing, Frame, Labels, LockedLabels, BuildLabels, TypeOK, CallInv,
           DesiredInv
<1>6. CASE RepairFinish("loop")
    BY <1>6 DEF memory, disk, outside, request, budgets, Goto, RepairFinish, Holds,
           Failing, NoFrame, Labels, LockedLabels, BuildLabels, TypeOK, CallInv,
           DesiredInv
<1>. QED  BY <1>1, <1>2, <1>3, <1>4, <1>5, <1>6 DEF Loop, RepairStep

\* A change from outside keeps ProposalInv.
LEMMA OutsideProposal ==
    ASSUME IndInv, ProposalInv,
           Environment
    PROVE  ProposalInv'
<1>. USE ThreadAssumption DEF IndInv, ProposalInv, Threads
<1>1. UNCHANGED <<proc, document, frame, lock, pc, next>>
    BY DEF Environment, LoseTunnel, LoseAddress, WanChange, Disturb, memory, request
<1>. QED  BY <1>1

\* Every step of the service keeps ProposalInv.
LEMMA NextProposal == IndInv /\ ProposalInv /\ [Next]_vars => ProposalInv'
<1>. SUFFICES ASSUME IndInv, ProposalInv, [Next]_vars PROVE ProposalInv'
  OBVIOUS
<1>1. CASE Next
  BY <1>1, ProcessProposal, RequestProposal, BuildProposal, FinishProposal, CheckProposal,
     LoopProposal, OutsideProposal
     DEF Next, Locking, Working, Reconciling
<1>2. CASE UNCHANGED vars
  BY <1>2 DEF ProposalInv, vars, memory, disk, outside, request, budgets
<1>. QED  BY <1>1, <1>2

-----------------------------------------------------------------------------
(***************************************************************************)
(* The five kinds of steps that the register sees.                         *)
(***************************************************************************)
\* A step that leaves config.json, the proposals and the replies alone is a
\* stutter of the register.
LEMMA Stutters ==
    ASSUME IndInv, IndInv', UNCHANGED <<configFile, next, reply>>
    PROVE  UNCHANGED Store!vars
BY DesiredIsFile DEF Store!vars, IndInv, DesiredInv

\* A request with a document proposes it (Up, Down, PUT).
LEMMA Proposes ==
    ASSUME IndInv, IndInv', NEW c \in Clients, NEW d \in Document, next[c] = None,
           next' = [next EXCEPT ![c] = d], reply' = [reply EXCEPT ![c] = "none"],
           UNCHANGED configFile
    PROVE  Store!Next
<1>1. Store!Propose(c, d)
  BY DEF Store!Propose, IndInv, DesiredInv
<1>. QED  BY <1>1 DEF Store!Next

\* A request without a document is asked and answered (Restart, health).
LEMMA Answers ==
    ASSUME IndInv, IndInv', NEW c \in Clients, NEW r \in {"none", "ok", "error"},
           next[c] = None, reply' = [reply EXCEPT ![c] = r], UNCHANGED <<configFile, next>>
    PROVE  Store!Next
<1>1. Store!Answer(c, r)
  BY DEF Store!Answer, IndInv, DesiredInv
<1>. QED  BY <1>1 DEF Store!Next

\* A proposal that is answered with an error changes nothing.
LEMMA Aborts ==
    ASSUME IndInv, IndInv', NEW c \in Clients, next[c] # None, Return(c, "error"),
           UNCHANGED configFile
    PROVE  Store!Next
<1>1. /\ next' = [next EXCEPT ![c] = None]
      /\ reply' = [reply EXCEPT ![c] = "error"]
  BY DEF Return, IndInv, TypeOK
<1>2. Store!Abort(c)
  BY <1>1 DEF Store!Abort, IndInv, DesiredInv
<1>. QED  BY <1>2 DEF Store!Next

\* A proposal that is answered with "ok" is in config.json.
LEMMA Commits ==
    ASSUME IndInv, IndInv', NEW c \in Clients, next[c] # None, Return(c, "ok"),
           configFile' = next[c]
    PROVE  Store!Next
<1>1. /\ next' = [next EXCEPT ![c] = None]
      /\ reply' = [reply EXCEPT ![c] = "ok"]
  BY DEF Return, IndInv, TypeOK
<1>2. Store!Commit(c)
  BY <1>1 DEF Store!Commit, IndInv, DesiredInv
<1>. QED  BY <1>2 DEF Store!Next

-----------------------------------------------------------------------------
(***************************************************************************)
(* Every step of the service is one of them.                               *)
(***************************************************************************)
\* Of the process's steps only a crash is seen by the register.
LEMMA ProcessStore ==
    ASSUME IndInv, IndInv', Boot \/ Crash \/ StopBegin \/ Stopping
    PROVE  [Store!Next]_(Store!vars)
<1>1. CASE Crash
  <2>1. Store!Crash
    BY <1>1 DEF Store!Crash, Crash, disk, IndInv, DesiredInv
  <2>. QED  BY <2>1 DEF Store!Next
<1>2. CASE Boot \/ StopBegin \/ Stopping
  BY <1>2, Stutters DEF Boot, StopBegin, Stopping, StopAdvertiser, StopDone, disk, request
<1>. QED  BY <1>1, <1>2

\* Requests propose or ask; a refused document is aborted.
LEMMA RequestStore ==
    ASSUME IndInv, IndInv', ProposalInv, NEW c \in Clients, Requests(c) \/ Deciding(c)
    PROVE  [Store!Next]_(Store!vars)
<1>1. ASSUME Begin(c)
      PROVE  /\ next[c] = None /\ UNCHANGED configFile
             /\ reply' = [reply EXCEPT ![c] = "none"]
  BY <1>1 DEF Begin, ProposalInv, LockedLabels, BuildLabels, disk
<1>2. ASSUME NEW d \in Document, Submit(c, d)
      PROVE  Store!Next
  BY <1>1, <1>2, Proposes DEF Submit
<1>3. CASE MutateDocument(c) \/ PutLegacy(c) \/ PutProfiles(c)
  <2>1. document \in Document
    BY DEF IndInv, TypeOK
  <2>. QED  BY <1>2, <1>3, <2>1 DEF MutateDocument, PutLegacy, PutProfiles, Document
<1>4. CASE Restart(c) \/ Health(c)
  BY <1>1, <1>4, Answers DEF Restart, Health
<1>5. CASE RejectUpdate(c)
  <2>1. next[c] # None
    BY <1>5, ThreadAssumption DEF RejectUpdate, IndInv, CallInv
  <2>. QED  BY <1>5, <2>1, Aborts DEF RejectUpdate, disk
<1>6. CASE AcceptUpdate(c)
  BY <1>6, Stutters DEF AcceptUpdate, disk, request
<1>. QED  BY <1>3, <1>4, <1>5, <1>6 DEF Requests, Deciding

\* Taking the mutex and building are invisible to the register.
LEMMA BuildStore ==
    ASSUME IndInv, IndInv', NEW t \in Threads,
           \/ AcquireReconcile(t) \/ TeardownStep(t) \/ ReadWan(t) \/ BuildRoute(t)
           \/ BuildTunnel(t) \/ BuildLink(t) \/ BuildAddr(t) \/ BuildLan(t)
           \/ BuildDefault(t) \/ BuildFails(t) \/ StartAdvertiser(t)
    PROVE  UNCHANGED Store!vars
BY Stutters DEF AcquireReconcile, TeardownStep, ReadWan, BuildRoute, BuildTunnel, BuildLink,
   BuildAddr, BuildLan, BuildDefault, BuildStep, BuildFails, StartAdvertiser, disk, request

\* The call that ends with the mutex released answers its client, and an
\* update does so with "ok" exactly when it wrote the proposal.
LEMMA FinishStore ==
    ASSUME IndInv, IndInv', ProposalInv, NEW t \in Threads,
           FinishPlain(t) \/ FinishUpdate(t) \/ FinishRollback(t) \/ Restore(t) \/ Save(t)
    PROVE  [Store!Next]_(Store!vars)
<1>1. ASSUME lock = t, frame.mode \in {"update", "rollback"}
      PROVE  t \in Clients /\ next[t] # None
  BY <1>1, ThreadAssumption DEF ProposalInv
<1>2. CASE FinishPlain(t)
  <2>1. PICK r \in {"ok", "error"} : Return(t, r)
    BY <1>2 DEF FinishPlain
  <2>2. lock = t /\ pc[t] = "finish" /\ frame.mode = "plain" /\ UNCHANGED configFile
    BY <1>2 DEF FinishPlain, Finish, Holds
  <2>3. CASE t \in Clients
    <3>1. next[t] = None
      BY <2>2, <2>3 DEF ProposalInv
    <3>2. next' = next /\ reply' = [reply EXCEPT ![t] = r]
      BY <2>1, <2>3, <3>1 DEF Return, IndInv, TypeOK
    <3>. QED  BY <2>2, <2>3, <3>1, <3>2, Answers
  <2>4. CASE t \notin Clients
    <3>1. next' = next /\ reply' = reply
      BY <2>1, <2>4 DEF Return, IndInv, TypeOK
    <3>. QED  BY <2>2, <3>1, Stutters
  <2>. QED  BY <2>3, <2>4
<1>3. CASE FinishUpdate(t)
  BY <1>3, Stutters DEF FinishUpdate, Finish, BeginRollback, request
<1>4. CASE FinishRollback(t)
  <2>1. lock = t /\ frame.mode = "rollback" /\ UNCHANGED configFile
    BY <1>4 DEF FinishRollback, Finish, Holds
  <2>2. Return(t, "error") \/ UNCHANGED <<next, reply>>
    BY <1>4 DEF FinishRollback, request
  <2>. QED  BY <1>1, <2>1, <2>2, Aborts, Stutters
<1>5. CASE Restore(t)
  <2>1. lock = t /\ frame.mode = "rollback"
    BY <1>5, ThreadAssumption DEF Restore, Holds, IndInv, DesiredInv, Threads
  <2>. QED  BY <1>1, <1>5, <2>1, Aborts DEF Restore
<1>6. CASE Save(t)
  <2>1. lock = t /\ frame.mode = "update"
    BY <1>6, ThreadAssumption DEF Save, Holds, IndInv, DesiredInv, Threads
  <2>2. next[t] = document
    BY <2>1 DEF ProposalInv
  <2>3. \/ Return(t, "ok") /\ configFile' = document
        \/ UNCHANGED <<configFile, next, reply>>
    BY <1>6 DEF Save, BeginRollback, request
  <2>. QED  BY <1>1, <2>1, <2>2, <2>3, Commits, Stutters
<1>. QED  BY <1>2, <1>3, <1>4, <1>5, <1>6

\* A health check answers its client and changes no document.
LEMMA CheckStore ==
    ASSUME IndInv, IndInv', ProposalInv, NEW t \in Threads,
           HcSnapshot(t) \/ HcObserve(t) \/ HcProbe(t) \/ HcApply(t)
    PROVE  [Store!Next]_(Store!vars)
<1>1. CASE HcSnapshot(t) \/ HcObserve(t) \/ HcProbe(t)
  BY <1>1, Stutters DEF HcSnapshot, HcObserve, HcProbe, disk, request
<1>2. CASE HcApply(t)
  <2>1. PICK r \in {"ok", "error"} :
            reply' = [c \in Clients |-> IF c = t THEN r ELSE reply[c]]
    BY <1>2 DEF HcApply
  <2>2. lock = None /\ pc[t] = "hcApply" /\ UNCHANGED <<configFile, next>>
    BY <1>2 DEF HcApply
  <2>3. CASE t \in Clients
    <3>1. next[t] = None
      BY <2>2, <2>3, ThreadAssumption DEF ProposalInv
    <3>2. reply' = [reply EXCEPT ![t] = r]
      BY <2>1, <2>3 DEF IndInv, TypeOK
    <3>. QED  BY <2>2, <2>3, <3>1, <3>2, Answers
  <2>4. CASE t \notin Clients
    <3>1. reply' = reply
      BY <2>1, <2>4 DEF IndInv, TypeOK
    <3>. QED  BY <2>2, <3>1, Stutters
  <2>. QED  BY <2>3, <2>4
<1>. QED  BY <1>1, <1>2

\* The loop, its repairs and changes from outside are invisible.
LEMMA LoopStore ==
    ASSUME IndInv, IndInv', Loop \/ RepairStep \/ Environment
    PROVE  UNCHANGED Store!vars
BY Stutters DEF Loop, RepairStep, Environment, Tick, LoopExit, AcquireRepair, Repair,
   RepairFails, RepairFinish, LoseTunnel, LoseAddress, WanChange, Disturb, disk, request

\* Every step of the service is a step of the register or leaves it alone.
LEMMA NextStore ==
    ASSUME IndInv, IndInv', ProposalInv, [Next]_vars
    PROVE  [Store!Next]_(Store!vars)
<1>1. CASE Next
  BY <1>1, ProcessStore, RequestStore, BuildStore, FinishStore, CheckStore, LoopStore
     DEF Next, Locking, Working, Reconciling
<1>2. CASE UNCHANGED vars
  BY <1>2, Stutters DEF vars, disk, request
<1>. QED  BY <1>1, <1>2

\* For any number of clients, failures and crashes, the service is a durable
\* atomic register of the desired document: a client is told "ok" at the step
\* that makes its document the desired one, in memory and on disk, and no
\* other step changes it (UpdateConfigDocument, rollbackConfigUpdateLocked).
THEOREM StoreImplemented == Spec => ImplementsStore
<1>1. Init => Store!Init
  BY DEF Init, Store!Init
<1>2. Spec => []ProposalInv
  BY InitProposal, NextProposal, Inductive, PTL DEF Spec
<1>3. IndInv /\ IndInv' /\ ProposalInv /\ [Next]_vars => [Store!Next]_(Store!vars)
  BY NextStore
<1>. QED  BY <1>1, <1>2, <1>3, Inductive, PTL DEF Spec, ImplementsStore, Store!Spec
=============================================================================
