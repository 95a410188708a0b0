------------------------ MODULE ControlServiceProofs ------------------------
(***************************************************************************)
(* Theorems about ControlService for every set of profiles, clients and    *)
(* addresses and every value of the budgets.                               *)
(***************************************************************************)
EXTENDS ControlService, TLAPS

(***************************************************************************)
(* The kernel operators map kernels to kernels.                            *)
(***************************************************************************)
\* Changing the state of some addresses yields a kernel (ip -6 addr add/del).
LEMMA SetAddrsType ==
    ASSUME NEW k \in Kernel, NEW A, NEW s \in AddrState
    PROVE  SetAddrs(k, A, s) \in Kernel
BY DEF Kernel, SetAddrs, AddrState

\* A failing ensureIPv6AddressPresent leaves a kernel.
LEMMA PartlyEnsuredType ==
    ASSUME NEW k \in Kernel, NEW A, NEW k2 \in PartlyEnsured(k, A)
    PROVE  k2 \in Kernel
<1>1. PICK done \in SUBSET A,
           gone \in {{}} \union {{a} : a \in {b \in A : k.addr[b] = "unhealthy"}} :
        k2 = SetAddrs(EnsureAddresses(k, done), gone, "missing")
  BY DEF PartlyEnsured
<1>2. EnsureAddresses(k, done) \in Kernel
  BY SetAddrsType DEF EnsureAddresses, AddrState
<1>. QED  BY <1>1, <1>2, SetAddrsType DEF AddrState

\* Deleting the tunnel interface yields a kernel (ip tunnel del).
LEMMA DropTunnelType ==
    ASSUME NEW k \in Kernel
    PROVE  DropTunnel(k) \in Kernel
<1>1. SetAddrs(k, TunnelAddrs, "missing") \in Kernel
  BY SetAddrsType DEF AddrState
<1>. QED  BY <1>1 DEF DropTunnel, Kernel

\* Tearing down what was applied yields a kernel (SystemBackend.teardown).
LEMMA TeardownType ==
    ASSUME NEW k \in Kernel, NEW applied \in Applied, NEW left \in Leftover
    PROVE  Teardown(k, applied, left) \in Kernel
<1>1. SetAddrs(k, applied.networks \ left.addrs, "missing") \in Kernel
  BY SetAddrsType DEF AddrState
<1>2. DropRecorded(k, applied, left) \in Kernel
  BY <1>1 DEF DropRecorded, Kernel, Leftover
<1>3. [DropRecorded(k, applied, left) EXCEPT !.defaultRoute = left.defaultRoute] \in Kernel
  BY <1>2 DEF Kernel, Leftover
<1>. QED  BY <1>2, <1>3, DropTunnelType DEF Teardown

\* The history keeps its type over a teardown, whichever deletion failed.
LEMMA LostInTeardownType ==
    ASSUME lost \in Lost, NEW applied \in Applied, NEW left \in Leftover
    PROVE  LostInTeardown(applied, left) \in Lost
BY DEF Lost, Leftover, LostInTeardown

\* The history keeps its type when an older record comes back, after a failed
\* update or a crash (rollbackConfigUpdateLocked).
LEMMA LostFromRecordType ==
    ASSUME lost \in Lost, kernel \in Kernel, NEW applied
    PROVE  LostFromRecord(applied) \in Lost
BY DEF Lost, Kernel, OnLan, LostFromRecord

\* The history keeps its type when others delete something.
LEMMA LostOutsideType ==
    ASSUME lost \in Lost, NEW k
    PROVE  LostOutside(k) \in Lost
BY DEF Lost, Leftover, LostOutside

\* Nothing is lost when the kernel forgets everything.
LEMMA NothingLostType == NothingLost \in Lost
BY DEF NothingLost, NoLeftover, Lost, Leftover

\* The empty kernel of a fresh boot is a kernel.
LEMMA EmptyKernelType == EmptyKernel \in Kernel
BY DEF EmptyKernel, Kernel, AddrState

\* A profile's fields have their types.
LEMMA ConfigType ==
    ASSUME NEW d \in Document
    PROVE  Config(d) \in ProfileConfigs
BY ProfileAssumption DEF Config, Document

\* The record of what was applied is well formed (buildAppliedState).
LEMMA BuildAppliedType ==
    ASSUME NEW d \in Document
    PROVE  BuildApplied(d) \in Applied
BY ConfigType DEF BuildApplied, Applied, ProfileConfigs

-----------------------------------------------------------------------------
(***************************************************************************)
(* The state document stays well formed.                                   *)
(***************************************************************************)
\* What a reconcile leaves in the state is well formed (reconcileLocked).
LEMMA FinalStateType ==
    ASSUME TypeOK, NEW bad
    PROVE  FinalState(bad) \in StateDocument
<1>1. FinalApplied(document, state, frame.errs) \in Applied
  BY BuildAppliedType DEF TypeOK, FinalApplied, StateDocument, Applied, EmptyApplied
<1>2. \A addrs, ping : FinalReasons(document, frame.errs, addrs, ping) \in SUBSET Reasons
  BY DEF TypeOK, Frame, FinalReasons, ReportReasons, Reasons
<1>3. \A addrs, up : FinalReconcile(document, frame.errs, addrs, up)
                        \in {"down", "ready", "degraded"}
  BY DEF FinalReconcile
<1>4. LinkSeen(bad) \in BOOLEAN
  BY DEF LinkSeen, TunnelExists
<1>. QED  BY <1>1, <1>2, <1>3, <1>4 DEF TypeOK, FinalState, StateDocument

\* What a health check leaves in the state is well formed (runHealthCheck).
LEMMA CheckedStateType ==
    ASSUME NEW h \in HealthCheck, NEW s \in StateDocument
    PROVE  CheckedState(h, s) \in StateDocument
<1>1. CheckedReasons(h, s) \in SUBSET Reasons
  BY DEF CheckedReasons, ReportReasons, Reasons, StateDocument
<1>. QED  BY <1>1 DEF CheckedState, StateDocument, HealthCheck

\* What a repair leaves in the state is well formed (repairManagedAddresses).
LEMMA RepairedStateType ==
    ASSUME NEW s \in StateDocument, NEW addrs, NEW up,
           NEW errs \in SUBSET {"backend", "advertiser", "repair"}
    PROVE  RepairedState(s, errs, addrs, up) \in StateDocument
BY DEF RepairedState, ReportReasons, Reasons, StateDocument

\* Every address report is one of the three (Observe).
LEMMA AddrsOfType ==
    ASSUME NEW d, NEW bad
    PROVE  AddrsOf(d, bad) \in AddrReport
BY DEF AddrsOf, ObserveAddrs, AddrReport

-----------------------------------------------------------------------------
(* INDUCTION: one lemma per group of actions. *)

\* The initial states satisfy the inductive invariant (NewService).
LEMMA InitInd == Init => IndInv
<1>. SUFFICES ASSUME Init PROVE IndInv
  OBVIOUS
<1>1. TypeOK
  <2>1. DefaultState \in StateDocument /\ NoHealthCheck \in HealthCheck /\ NoFrame \in Frame
    BY DEF DefaultState, StateDocument, NoHealthCheck, HealthCheck, AddrReport,
           NoFrame, Frame, EmptyApplied, Applied
  <2>2. configFile \in Document /\ document \in Document
    BY DocumentAssumption DEF Init
  <2>3. pc \in [Threads -> Labels] /\ lock \in Threads \union {None}
    BY DEF Init, Labels
  <2>4. faults \in 0..MaxFaults /\ ops \in 0..MaxOps /\ crashes \in 0..MaxCrashes
    BY BudgetAssumption DEF Init
  <2>. QED  BY <2>1, <2>2, <2>3, <2>4, EmptyKernelType, NothingLostType, WanAssumption DEF Init, TypeOK
<1>2. CallInv /\ DesiredInv
  BY DEF Init, CallInv, DesiredInv, NoFrame, Threads
<1>. QED  BY <1>1, <1>2 DEF IndInv

\* Boot, Crash and Stop preserve the inductive invariant.
LEMMA ProcessInd ==
    ASSUME IndInv,
           Boot \/ Crash \/ StopBegin \/ Stopping
    PROVE  IndInv'
<1>. USE BudgetAssumption, ThreadAssumption DEF IndInv, Threads
<1>1. CASE Boot
  <2>1. TypeOK'
    BY <1>1 DEF memory, disk, outside, request, budgets, Goto, Boot, LockedLabels,
           Labels, BuildLabels, TypeOK, CallInv, DesiredInv
  <2>2. CallInv'
    BY <1>1 DEF memory, disk, outside, request, budgets, Goto, Boot, LockedLabels,
           Labels, BuildLabels, TypeOK, CallInv, DesiredInv
  <2>3. DesiredInv'
    BY <1>1 DEF memory, disk, outside, request, budgets, Goto, Boot, LockedLabels,
           Labels, BuildLabels, TypeOK, CallInv, DesiredInv
  <2>. QED  BY <2>1, <2>2, <2>3
<1>2. CASE Crash
  <2>0. lost' \in Lost
    BY <1>2, LostFromRecordType, NothingLostType DEF Crash, TypeOK
  <2>1. TypeOK'
    BY <1>2, <2>0, EmptyKernelType DEF memory, disk, outside, request, budgets, Goto, Crash,
           NoFrame, Frame, NoHealthCheck, HealthCheck, AddrReport, Labels, LockedLabels,
           BuildLabels, TypeOK, CallInv, DesiredInv
  <2>2. CallInv'
    BY <1>2, EmptyKernelType DEF memory, disk, outside, request, budgets, Goto, Crash,
           NoFrame, Frame, NoHealthCheck, HealthCheck, AddrReport, Labels, LockedLabels,
           BuildLabels, TypeOK, CallInv, DesiredInv
  <2>3. DesiredInv'
    BY <1>2 DEF memory, disk, outside, request, budgets, Goto, Crash, NoFrame, Frame,
           NoHealthCheck, HealthCheck, AddrReport, Labels, LockedLabels, BuildLabels,
           TypeOK, CallInv, DesiredInv
  <2>. QED  BY <2>1, <2>2, <2>3
<1>3. CASE StopBegin
  <2>1. TypeOK'
    BY <1>3 DEF memory, disk, outside, request, budgets, Goto, StopBegin, Labels,
           LockedLabels, BuildLabels, TypeOK, CallInv, DesiredInv
  <2>2. CallInv'
    BY <1>3 DEF memory, disk, outside, request, budgets, Goto, StopBegin, Labels,
           LockedLabels, BuildLabels, TypeOK, CallInv, DesiredInv
  <2>3. DesiredInv'
    BY <1>3 DEF memory, disk, outside, request, budgets, Goto, StopBegin, Labels,
           LockedLabels, BuildLabels, TypeOK, CallInv, DesiredInv
  <2>. QED  BY <2>1, <2>2, <2>3
<1>4. CASE Stopping
  <2>1. TypeOK'
    BY <1>4 DEF memory, disk, outside, request, budgets, Goto, Stopping, StopAdvertiser,
           StopDone, Labels, LockedLabels, BuildLabels, TypeOK, CallInv, DesiredInv
  <2>2. CallInv'
    BY <1>4 DEF memory, disk, outside, request, budgets, Goto, Stopping, StopAdvertiser,
           StopDone, Labels, LockedLabels, BuildLabels, TypeOK, CallInv, DesiredInv
  <2>3. DesiredInv'
    BY <1>4 DEF memory, disk, outside, request, budgets, Goto, Stopping, StopAdvertiser,
           StopDone, Labels, LockedLabels, BuildLabels, TypeOK, CallInv, DesiredInv
  <2>. QED  BY <2>1, <2>2, <2>3
<1>. QED  BY <1>1, <1>2, <1>3, <1>4

\* The requests of a client preserve the inductive invariant.
LEMMA RequestInd ==
    ASSUME IndInv, NEW c \in Clients,
           Requests(c) \/ Deciding(c)
    PROVE  IndInv'
<1>. USE BudgetAssumption, ThreadAssumption DEF IndInv, Threads
<1>1. CASE MutateDocument(c)
  <2>1. TypeOK'
    BY <1>1 DEF memory, disk, outside, request, budgets, Goto, MutateDocument, Submit,
           Begin, Document, Labels, LockedLabels, BuildLabels, TypeOK, CallInv,
           DesiredInv
  <2>2. CallInv'
    BY <1>1 DEF memory, disk, outside, request, budgets, Goto, MutateDocument, Submit,
           Begin, Document, Labels, LockedLabels, BuildLabels, TypeOK, CallInv,
           DesiredInv
  <2>3. DesiredInv'
    BY <1>1 DEF memory, disk, outside, request, budgets, Goto, MutateDocument, Submit,
           Begin, Document, Labels, LockedLabels, BuildLabels, TypeOK, CallInv,
           DesiredInv
  <2>. QED  BY <2>1, <2>2, <2>3
<1>2. CASE PutLegacy(c)
  <2>1. PICK e \in BOOLEAN, p \in Profiles :
            Submit(c, [document EXCEPT !.enabled = e, !.profile = p])
    BY <1>2 DEF PutLegacy
  <2>2. [document EXCEPT !.enabled = e, !.profile = p] \in Document
    BY DEF TypeOK, Document
  <2>3. TypeOK'
    BY <2>1, <2>2 DEF Submit, Begin, Goto, TypeOK, Labels, memory, disk, outside, request
  <2>4. CallInv' /\ DesiredInv'
    BY <2>1, <2>2 DEF Submit, Begin, Goto, TypeOK, CallInv, DesiredInv, memory, disk, outside
  <2>. QED  BY <2>3, <2>4
<1>3. CASE PutProfiles(c)
  <2>1. TypeOK'
    BY <1>3 DEF memory, disk, outside, request, budgets, Goto, PutProfiles, Submit,
           Begin, Document, Labels, LockedLabels, BuildLabels, TypeOK, CallInv,
           DesiredInv
  <2>2. CallInv'
    BY <1>3 DEF memory, disk, outside, request, budgets, Goto, PutProfiles, Submit,
           Begin, Document, Labels, LockedLabels, BuildLabels, TypeOK, CallInv,
           DesiredInv
  <2>3. DesiredInv'
    BY <1>3 DEF memory, disk, outside, request, budgets, Goto, PutProfiles, Submit,
           Begin, Document, Labels, LockedLabels, BuildLabels, TypeOK, CallInv,
           DesiredInv
  <2>. QED  BY <2>1, <2>2, <2>3
<1>4. CASE Restart(c)
  <2>1. TypeOK'
    BY <1>4 DEF memory, disk, outside, request, budgets, Goto, Restart, Begin, Labels,
           LockedLabels, BuildLabels, TypeOK, CallInv, DesiredInv
  <2>2. CallInv'
    BY <1>4 DEF memory, disk, outside, request, budgets, Goto, Restart, Begin, Labels,
           LockedLabels, BuildLabels, TypeOK, CallInv, DesiredInv
  <2>3. DesiredInv'
    BY <1>4 DEF memory, disk, outside, request, budgets, Goto, Restart, Begin, Labels,
           LockedLabels, BuildLabels, TypeOK, CallInv, DesiredInv
  <2>. QED  BY <2>1, <2>2, <2>3
<1>5. CASE Health(c)
  <2>1. TypeOK'
    BY <1>5 DEF memory, disk, outside, request, budgets, Goto, Health, Begin, Labels,
           LockedLabels, BuildLabels, TypeOK, CallInv, DesiredInv
  <2>2. CallInv'
    BY <1>5 DEF memory, disk, outside, request, budgets, Goto, Health, Begin, Labels,
           LockedLabels, BuildLabels, TypeOK, CallInv, DesiredInv
  <2>3. DesiredInv'
    BY <1>5 DEF memory, disk, outside, request, budgets, Goto, Health, Begin, Labels,
           LockedLabels, BuildLabels, TypeOK, CallInv, DesiredInv
  <2>. QED  BY <2>1, <2>2, <2>3
<1>6. CASE RejectUpdate(c)
  <2>1. TypeOK'
    BY <1>6 DEF memory, disk, outside, request, budgets, Goto, RejectUpdate, Return,
           NoFrame, Frame, Labels, LockedLabels, BuildLabels, TypeOK, CallInv,
           DesiredInv
  <2>2. CallInv'
    BY <1>6 DEF memory, disk, outside, request, budgets, Goto, RejectUpdate, Return,
           NoFrame, Frame, Labels, LockedLabels, BuildLabels, TypeOK, CallInv,
           DesiredInv
  <2>3. DesiredInv'
    BY <1>6 DEF memory, disk, outside, request, budgets, Goto, RejectUpdate, Return,
           NoFrame, Frame, Labels, LockedLabels, BuildLabels, TypeOK, CallInv,
           DesiredInv
  <2>. QED  BY <2>1, <2>2, <2>3
<1>7. CASE AcceptUpdate(c)
  <2>1. TypeOK'
    BY <1>7 DEF memory, disk, outside, request, budgets, Goto, AcceptUpdate, NoFrame,
           Frame, Labels, LockedLabels, BuildLabels, TypeOK, CallInv, DesiredInv
  <2>2. CallInv'
    BY <1>7 DEF memory, disk, outside, request, budgets, Goto, AcceptUpdate, NoFrame,
           Frame, Labels, LockedLabels, BuildLabels, TypeOK, CallInv, DesiredInv
  <2>3. DesiredInv'
    BY <1>7 DEF memory, disk, outside, request, budgets, Goto, AcceptUpdate, NoFrame,
           Frame, Labels, LockedLabels, BuildLabels, TypeOK, CallInv, DesiredInv
  <2>. QED  BY <2>1, <2>2, <2>3
<1>. QED  BY <1>1, <1>2, <1>3, <1>4, <1>5, <1>6, <1>7 DEF Requests, Deciding

\* The steps of SystemBackend.Reconcile preserve the inductive invariant.
LEMMA BuildInd ==
    ASSUME IndInv, NEW t \in Threads,
           \/ AcquireReconcile(t) \/ TeardownStep(t) \/ ReadWan(t) \/ BuildRoute(t) \/ BuildTunnel(t)
           \/ BuildLink(t) \/ BuildAddr(t) \/ BuildLan(t) \/ BuildDefault(t) \/ BuildFails(t)
           \/ StartAdvertiser(t)
    PROVE  IndInv'
<1>. USE BudgetAssumption, ThreadAssumption DEF IndInv, Threads
<1>1. CASE AcquireReconcile(t)
  <2>1. TypeOK'
    BY <1>1 DEF memory, disk, outside, request, budgets, Goto, AcquireReconcile,
           NoFrame, Frame, Labels, LockedLabels, BuildLabels, TypeOK, CallInv,
           DesiredInv
  <2>2. CallInv'
    BY <1>1 DEF memory, disk, outside, request, budgets, Goto, AcquireReconcile,
           NoFrame, Frame, Labels, LockedLabels, BuildLabels, TypeOK, CallInv,
           DesiredInv
  <2>3. DesiredInv'
    BY <1>1 DEF memory, disk, outside, request, budgets, Goto, AcquireReconcile,
           NoFrame, Frame, Labels, LockedLabels, BuildLabels, TypeOK, CallInv,
           DesiredInv
  <2>. QED  BY <2>1, <2>2, <2>3
<1>2. CASE TeardownStep(t)
  <2>1. state' \in StateDocument
    BY <1>2 DEF TeardownStep, ReconcilingState, TypeOK, StateDocument, Document
  <2>2. kernel' \in Kernel /\ lost' \in Lost /\ faults' \in 0..MaxFaults
    <3>1. PICK left \in Leftover :
            /\ Failing(IF left = NoLeftover THEN {} ELSE {"delete"})
            /\ kernel' = Teardown(kernel, state.applied, left)
            /\ lost' = LostInTeardown(state.applied, left)
      BY <1>2 DEF TeardownStep, Undeletable
    <3>2. state.applied \in Applied
      BY DEF TypeOK, StateDocument
    <3>3. faults' \in 0..MaxFaults
      BY <3>1 DEF Failing, TypeOK
    <3>. QED  BY <3>1, <3>2, <3>3, TeardownType, LostInTeardownType DEF TypeOK
  <2>3. TypeOK'
    BY <1>2, <2>1, <2>2 DEF TeardownStep, Goto, TypeOK, Labels, LockedLabels, BuildLabels,
       disk, request, budgets
  <2>4. CallInv' /\ DesiredInv'
    BY <1>2 DEF TeardownStep, Holds, Goto, TypeOK, CallInv, DesiredInv, disk, request
  <2>. QED  BY <2>3, <2>4
<1>3. CASE ReadWan(t)
  <2>1. TypeOK'
    BY <1>3 DEF memory, disk, outside, request, budgets, Goto, ReadWan, BuildStep,
           Holds, Frame, Labels, LockedLabels, BuildLabels, TypeOK, CallInv, DesiredInv
  <2>2. CallInv'
    BY <1>3 DEF memory, disk, outside, request, budgets, Goto, ReadWan, BuildStep,
           Holds, Frame, Labels, LockedLabels, BuildLabels, TypeOK, CallInv, DesiredInv
  <2>3. DesiredInv'
    BY <1>3 DEF memory, disk, outside, request, budgets, Goto, ReadWan, BuildStep,
           Holds, Frame, Labels, LockedLabels, BuildLabels, TypeOK, CallInv, DesiredInv
  <2>. QED  BY <2>1, <2>2, <2>3
<1>4. CASE BuildRoute(t)
  <2>1. TypeOK'
    BY <1>4, ConfigType DEF memory, disk, outside, request, budgets, Goto, BuildRoute,
           BuildStep, Holds, AddRoute, Kernel, ProfileConfigs, Labels, LockedLabels,
           BuildLabels, TypeOK, CallInv, DesiredInv
  <2>2. CallInv'
    BY <1>4, ConfigType DEF memory, disk, outside, request, budgets, Goto, BuildRoute,
           BuildStep, Holds, AddRoute, Kernel, ProfileConfigs, Labels, LockedLabels,
           BuildLabels, TypeOK, CallInv, DesiredInv
  <2>3. DesiredInv'
    BY <1>4 DEF memory, disk, outside, request, budgets, Goto, BuildRoute, BuildStep,
           Holds, AddRoute, Kernel, ProfileConfigs, Labels, LockedLabels, BuildLabels,
           TypeOK, CallInv, DesiredInv
  <2>. QED  BY <2>1, <2>2, <2>3
<1>5. CASE BuildTunnel(t)
  <2>1. TypeOK'
    BY <1>5, ConfigType DEF memory, disk, outside, request, budgets, Goto, BuildTunnel,
           BuildStep, Holds, AddTunnel, Kernel, Tunnel, ProfileConfigs, Labels,
           LockedLabels, BuildLabels, TypeOK, CallInv, DesiredInv
  <2>2. CallInv'
    BY <1>5, ConfigType DEF memory, disk, outside, request, budgets, Goto, BuildTunnel,
           BuildStep, Holds, AddTunnel, Kernel, Tunnel, ProfileConfigs, Labels,
           LockedLabels, BuildLabels, TypeOK, CallInv, DesiredInv
  <2>3. DesiredInv'
    BY <1>5 DEF memory, disk, outside, request, budgets, Goto, BuildTunnel, BuildStep,
           Holds, AddTunnel, Kernel, Tunnel, ProfileConfigs, Labels, LockedLabels,
           BuildLabels, TypeOK, CallInv, DesiredInv
  <2>. QED  BY <2>1, <2>2, <2>3
<1>6. CASE BuildLink(t)
  <2>1. TypeOK'
    BY <1>6 DEF memory, disk, outside, request, budgets, Goto, BuildLink, BuildStep,
           Holds, LinkUp, Kernel, Labels, LockedLabels, BuildLabels, TypeOK, CallInv,
           DesiredInv
  <2>2. CallInv'
    BY <1>6 DEF memory, disk, outside, request, budgets, Goto, BuildLink, BuildStep,
           Holds, LinkUp, Kernel, Labels, LockedLabels, BuildLabels, TypeOK, CallInv,
           DesiredInv
  <2>3. DesiredInv'
    BY <1>6 DEF memory, disk, outside, request, budgets, Goto, BuildLink, BuildStep,
           Holds, LinkUp, Kernel, Labels, LockedLabels, BuildLabels, TypeOK, CallInv,
           DesiredInv
  <2>. QED  BY <2>1, <2>2, <2>3
<1>7. CASE BuildAddr(t)
  <2>1. TypeOK'
    BY <1>7, SetAddrsType DEF memory, disk, outside, request, budgets, Goto, BuildAddr,
           BuildStep, Holds, EnsureAddresses, AddrState, Labels, LockedLabels,
           BuildLabels, TypeOK, CallInv, DesiredInv
  <2>2. CallInv'
    BY <1>7, SetAddrsType DEF memory, disk, outside, request, budgets, Goto, BuildAddr,
           BuildStep, Holds, EnsureAddresses, AddrState, Labels, LockedLabels,
           BuildLabels, TypeOK, CallInv, DesiredInv
  <2>3. DesiredInv'
    BY <1>7 DEF memory, disk, outside, request, budgets, Goto, BuildAddr, BuildStep,
           Holds, EnsureAddresses, AddrState, Labels, LockedLabels, BuildLabels, TypeOK,
           CallInv, DesiredInv
  <2>. QED  BY <2>1, <2>2, <2>3
<1>8. CASE BuildLan(t)
  <2>1. TypeOK'
    BY <1>8, SetAddrsType DEF memory, disk, outside, request, budgets, Goto, BuildLan,
           BuildStep, Holds, EnsureAddresses, AddrState, Labels, LockedLabels,
           BuildLabels, TypeOK, CallInv, DesiredInv
  <2>2. CallInv'
    BY <1>8, SetAddrsType DEF memory, disk, outside, request, budgets, Goto, BuildLan,
           BuildStep, Holds, EnsureAddresses, AddrState, Labels, LockedLabels,
           BuildLabels, TypeOK, CallInv, DesiredInv
  <2>3. DesiredInv'
    BY <1>8 DEF memory, disk, outside, request, budgets, Goto, BuildLan, BuildStep,
           Holds, EnsureAddresses, AddrState, Labels, LockedLabels, BuildLabels, TypeOK,
           CallInv, DesiredInv
  <2>. QED  BY <2>1, <2>2, <2>3
<1>9. CASE BuildDefault(t)
  <2>1. TypeOK'
    BY <1>9 DEF memory, disk, outside, request, budgets, Goto, BuildDefault, BuildStep,
           Holds, AddDefaultRoute, Kernel, Labels, LockedLabels, BuildLabels, TypeOK,
           CallInv, DesiredInv
  <2>2. CallInv'
    BY <1>9 DEF memory, disk, outside, request, budgets, Goto, BuildDefault, BuildStep,
           Holds, AddDefaultRoute, Kernel, Labels, LockedLabels, BuildLabels, TypeOK,
           CallInv, DesiredInv
  <2>3. DesiredInv'
    BY <1>9 DEF memory, disk, outside, request, budgets, Goto, BuildDefault, BuildStep,
           Holds, AddDefaultRoute, Kernel, Labels, LockedLabels, BuildLabels, TypeOK,
           CallInv, DesiredInv
  <2>. QED  BY <2>1, <2>2, <2>3
<1>10. CASE BuildFails(t)
  <2>1. kernel' \in Kernel
    BY <1>10, PartlyEnsuredType DEF BuildFails, PartlyBuilt, TypeOK
  <2>2. TypeOK'
    BY <1>10, <2>1 DEF memory, disk, outside, request, budgets, Goto, BuildFails,
           Failing, Holds, Frame, BuildLabels, Labels, LockedLabels, TypeOK, CallInv,
           DesiredInv
  <2>3. CallInv'
    BY <1>10 DEF memory, disk, outside, request, budgets, Goto, BuildFails, Failing,
           Holds, Frame, BuildLabels, Labels, LockedLabels, TypeOK, CallInv, DesiredInv
  <2>4. DesiredInv'
    BY <1>10 DEF memory, disk, outside, request, budgets, Goto, BuildFails, Failing,
           Holds, Frame, BuildLabels, Labels, LockedLabels, TypeOK, CallInv, DesiredInv
  <2>. QED  BY <2>2, <2>3, <2>4
<1>11. CASE StartAdvertiser(t)
  <2>1. TypeOK'
    BY <1>11 DEF memory, disk, outside, request, budgets, Goto, StartAdvertiser,
           Failing, Holds, Frame, Document, Labels, LockedLabels, BuildLabels, TypeOK,
           CallInv, DesiredInv
  <2>2. CallInv'
    BY <1>11 DEF memory, disk, outside, request, budgets, Goto, StartAdvertiser,
           Failing, Holds, Frame, Document, Labels, LockedLabels, BuildLabels, TypeOK,
           CallInv, DesiredInv
  <2>3. DesiredInv'
    BY <1>11 DEF memory, disk, outside, request, budgets, Goto, StartAdvertiser,
           Failing, Holds, Frame, Document, Labels, LockedLabels, BuildLabels, TypeOK,
           CallInv, DesiredInv
  <2>. QED  BY <2>1, <2>2, <2>3
<1>. QED  BY <1>1, <1>2, <1>3, <1>4, <1>5, <1>6, <1>7, <1>8, <1>9, <1>10, <1>11

\* The ends of reconciles, updates and rollbacks preserve the inductive invariant.
LEMMA FinishInd ==
    ASSUME IndInv, NEW t \in Threads,
           FinishPlain(t) \/ FinishUpdate(t) \/ FinishRollback(t) \/ Restore(t) \/ Save(t)
    PROVE  IndInv'
<1>. USE BudgetAssumption, ThreadAssumption DEF IndInv, Threads
<1>1. CASE FinishPlain(t)
  <2>1. TypeOK'
    BY <1>1, FinalStateType DEF memory, disk, outside, request, budgets, Goto,
           FinishPlain, Finish, Failing, Holds, Return, NoFrame, Frame, Labels,
           LockedLabels, BuildLabels, TypeOK, CallInv, DesiredInv
  <2>2. CallInv'
    BY <1>1, FinalStateType DEF memory, disk, outside, request, budgets, Goto,
           FinishPlain, Finish, Failing, Holds, Return, NoFrame, Frame, Labels,
           LockedLabels, BuildLabels, TypeOK, CallInv, DesiredInv
  <2>3. DesiredInv'
    BY <1>1 DEF memory, disk, outside, request, budgets, Goto, FinishPlain, Finish,
           Failing, Holds, Return, NoFrame, Frame, Labels, LockedLabels, BuildLabels,
           TypeOK, CallInv, DesiredInv
  <2>. QED  BY <2>1, <2>2, <2>3
<1>2. CASE FinishUpdate(t)
  <2>1. PICK bad \in SUBSET FinishFailures :
            /\ Finish(t, "update", bad)
            /\ \/ /\ state' = FinalState(bad)
                  /\ Goto(t, "save")
                  /\ UNCHANGED <<proc, document, lock, request, frame, lost>>
               \/ BeginRollback(t)
    BY <1>2 DEF FinishUpdate
  <2>2. stateFile' \in StateDocument /\ faults' \in 0..MaxFaults
    BY <2>1, FinalStateType DEF Finish, Failing, TypeOK
  <2>3. CASE BeginRollback(t)
    <3>1. frame' \in Frame /\ lost' \in Lost
      BY <2>3, LostFromRecordType DEF BeginRollback, TypeOK, Frame
    <3>2. TypeOK'
      BY <2>1, <2>2, <2>3, <3>1 DEF Finish, BeginRollback, Goto, TypeOK, CallInv, Labels,
         LockedLabels, outside, request
    <3>3. CallInv' /\ DesiredInv'
      BY <2>1, <2>3 DEF Finish, Holds, BeginRollback, Goto, TypeOK, CallInv, DesiredInv,
         request, Frame
    <3>. QED  BY <3>2, <3>3
  <2>4. CASE ~BeginRollback(t)
    <3>1. state' \in StateDocument
      BY <2>1, <2>4, FinalStateType
    <3>2. TypeOK'
      BY <2>1, <2>2, <2>4, <3>1 DEF Finish, Goto, TypeOK, Labels, LockedLabels, outside, request
    <3>3. CallInv' /\ DesiredInv'
      BY <2>1, <2>4 DEF Finish, Holds, Goto, TypeOK, CallInv, DesiredInv, request
    <3>. QED  BY <3>2, <3>3
  <2>. QED  BY <2>3, <2>4
<1>3. CASE FinishRollback(t)
  <2>1. PICK bad \in SUBSET FinishFailures :
            /\ Finish(t, "rollback", bad)
            /\ UNCHANGED <<document, lost>>
            /\ \/ state' = FinalState(bad) /\ Return(t, "error")
               \/ /\ state' = frame.prevState
                  /\ Goto(t, "restore")
                  /\ UNCHANGED <<proc, lock, request, frame>>
    BY <1>3 DEF FinishRollback
  <2>2. stateFile' \in StateDocument /\ faults' \in 0..MaxFaults
    BY <2>1, FinalStateType DEF Finish, Failing, TypeOK
  <2>3. state' \in StateDocument
    BY <2>1, FinalStateType DEF Finish, CallInv
  <2>4. CASE Return(t, "error")
    <3>1. TypeOK'
      BY <2>1, <2>2, <2>3, <2>4 DEF Finish, Return, Goto, TypeOK, Labels, NoFrame, Frame,
         outside
    <3>2. CallInv' /\ DesiredInv'
      BY <2>1, <2>4 DEF Finish, Return, Goto, TypeOK, CallInv, DesiredInv, NoFrame
    <3>. QED  BY <3>1, <3>2
  <2>5. CASE ~Return(t, "error")
    <3>1. TypeOK'
      BY <2>1, <2>2, <2>3, <2>5 DEF Finish, Goto, TypeOK, Labels, LockedLabels, outside,
         request
    <3>2. CallInv' /\ DesiredInv'
      BY <2>1, <2>5 DEF Finish, Holds, Goto, TypeOK, CallInv, DesiredInv, request
    <3>. QED  BY <3>1, <3>2
  <2>. QED  BY <2>4, <2>5
<1>4. CASE Restore(t)
  <2>1. TypeOK'
    BY <1>4 DEF memory, disk, outside, request, budgets, Goto, Restore, Failing, Holds,
           Return, NoFrame, Frame, Labels, LockedLabels, BuildLabels, TypeOK, CallInv,
           DesiredInv
  <2>2. CallInv'
    BY <1>4 DEF memory, disk, outside, request, budgets, Goto, Restore, Failing, Holds,
           Return, NoFrame, Frame, Labels, LockedLabels, BuildLabels, TypeOK, CallInv,
           DesiredInv
  <2>3. DesiredInv'
    BY <1>4 DEF memory, disk, outside, request, budgets, Goto, Restore, Failing, Holds,
           Return, NoFrame, Frame, Labels, LockedLabels, BuildLabels, TypeOK, CallInv,
           DesiredInv
  <2>. QED  BY <2>1, <2>2, <2>3
<1>5. CASE Save(t)
  <2>1. PICK bad \in SUBSET {"disk"} :
            /\ Holds(t, "save")
            /\ Failing(bad)
            /\ UNCHANGED <<advertiser, stateFile, outside, hc, ops, crashes>>
            /\ \/ /\ configFile' = document
                  /\ Return(t, "ok")
                  /\ UNCHANGED <<document, state, lost>>
               \/ BeginRollback(t) /\ UNCHANGED configFile
    BY <1>5 DEF Save
  <2>2. frame.mode = "update"
    BY <2>1 DEF Holds, DesiredInv
  <2>3. faults' \in 0..MaxFaults
    BY <2>1 DEF Failing, TypeOK
  <2>4. CASE BeginRollback(t) /\ UNCHANGED configFile
    <3>1. frame' \in Frame /\ lost' \in Lost
      BY <2>4, LostFromRecordType DEF BeginRollback, TypeOK, Frame
    <3>2. TypeOK'
      BY <2>1, <2>2, <2>3, <2>4, <3>1 DEF BeginRollback, Goto, TypeOK, CallInv, Labels,
         LockedLabels, outside, request
    <3>3. CallInv' /\ DesiredInv'
      BY <2>1, <2>2, <2>4 DEF Holds, BeginRollback, Goto, TypeOK, CallInv, DesiredInv,
         request, Frame
    <3>. QED  BY <3>2, <3>3
  <2>5. CASE ~(BeginRollback(t) /\ UNCHANGED configFile)
    <3>1. Return(t, "ok") /\ configFile' = document /\ UNCHANGED <<document, state, lost>>
      BY <2>1, <2>5
    <3>2. TypeOK'
      BY <2>1, <2>3, <3>1 DEF Return, Goto, TypeOK, Labels, NoFrame, Frame, outside
    <3>3. CallInv'
      BY <3>1 DEF Return, Goto, TypeOK, CallInv, NoFrame
    <3>4. DesiredInv'
      BY <3>1 DEF Return, DesiredInv, NoFrame
    <3>. QED  BY <3>2, <3>3, <3>4
  <2>. QED  BY <2>4, <2>5
<1>. QED  BY <1>1, <1>2, <1>3, <1>4, <1>5

\* The health check preserves the inductive invariant.
LEMMA CheckInd ==
    ASSUME IndInv, NEW t \in Threads,
           HcSnapshot(t) \/ HcApply(t) \/ HcObserve(t) \/ HcProbe(t)
    PROVE  IndInv'
<1>. USE BudgetAssumption, ThreadAssumption DEF IndInv, Threads
<1>1. CASE HcSnapshot(t)
  <2>1. TypeOK'
    BY <1>1 DEF memory, disk, outside, request, budgets, Goto, HcSnapshot,
           NoHealthCheck, HealthCheck, AddrReport, Labels, LockedLabels, BuildLabels,
           TypeOK, CallInv, DesiredInv
  <2>2. CallInv'
    BY <1>1 DEF memory, disk, outside, request, budgets, Goto, HcSnapshot,
           NoHealthCheck, HealthCheck, AddrReport, Labels, LockedLabels, BuildLabels,
           TypeOK, CallInv, DesiredInv
  <2>3. DesiredInv'
    BY <1>1 DEF memory, disk, outside, request, budgets, Goto, HcSnapshot,
           NoHealthCheck, HealthCheck, AddrReport, Labels, LockedLabels, BuildLabels,
           TypeOK, CallInv, DesiredInv
  <2>. QED  BY <2>1, <2>2, <2>3
<1>2. CASE HcObserve(t)
  <2>1. PICK bad \in SUBSET {"link", "query"} :
            /\ Failing(bad)
            /\ hc' = [hc EXCEPT ![t].up = LinkSeen(bad), ![t].addrs = AddrsOf(hc[t].doc, bad)]
            /\ Goto(t, "hcProbe")
    BY <1>2 DEF HcObserve
  <2>2. LinkSeen(bad) \in BOOLEAN
    BY DEF LinkSeen, TunnelExists
  <2>3. hc' \in [Threads -> HealthCheck]
    BY <2>1, <2>2, AddrsOfType DEF TypeOK, HealthCheck
  <2>4. TypeOK'
    BY <1>2, <2>1, <2>3 DEF HcObserve, Failing, Goto, TypeOK, Labels, memory, disk, outside, request
  <2>5. CallInv' /\ DesiredInv'
    BY <1>2 DEF HcObserve, Goto, TypeOK, CallInv, DesiredInv, memory, disk, outside, request
  <2>. QED  BY <2>4, <2>5
<1>3. CASE HcProbe(t)
  <2>1. PICK bad \in SUBSET {"probe"} :
            /\ Failing(bad)
            /\ hc' = [hc EXCEPT ![t].ping = Config(hc[t].doc).health /\ Ping(bad)]
            /\ Goto(t, "hcApply")
    BY <1>3 DEF HcProbe
  <2>2. PICK ok \in BOOLEAN : hc' = [hc EXCEPT ![t].ping = ok]
    BY <2>1
  <2>3. hc' \in [Threads -> HealthCheck]
    BY <2>2 DEF TypeOK, HealthCheck
  <2>4. TypeOK'
    BY <1>3, <2>1, <2>3 DEF HcProbe, Failing, Goto, TypeOK, Labels, memory, disk, outside, request
  <2>5. CallInv' /\ DesiredInv'
    BY <1>3 DEF HcProbe, Goto, TypeOK, CallInv, DesiredInv, memory, disk, outside, request
  <2>. QED  BY <2>4, <2>5
<1>4. CASE HcApply(t)
  <2>1. TypeOK'
    BY <1>4, CheckedStateType DEF memory, disk, outside, request, budgets, Goto,
           HcApply, Failing, NoHealthCheck, HealthCheck, AddrReport, Recovery, Labels,
           LockedLabels, BuildLabels, TypeOK, CallInv, DesiredInv
  <2>2. CallInv'
    BY <1>4, CheckedStateType DEF memory, disk, outside, request, budgets, Goto,
           HcApply, Failing, NoHealthCheck, HealthCheck, AddrReport, Recovery, Labels,
           LockedLabels, BuildLabels, TypeOK, CallInv, DesiredInv
  <2>3. DesiredInv'
    BY <1>4 DEF memory, disk, outside, request, budgets, Goto, HcApply, Failing,
           NoHealthCheck, HealthCheck, AddrReport, Recovery, Labels, LockedLabels,
           BuildLabels, TypeOK, CallInv, DesiredInv
  <2>. QED  BY <2>1, <2>2, <2>3
<1>. QED  BY <1>1, <1>2, <1>3, <1>4

\* The health loop and its repairs preserve the inductive invariant.
LEMMA LoopInd ==
    ASSUME IndInv,
           Loop \/ RepairStep
    PROVE  IndInv'
<1>. USE BudgetAssumption, ThreadAssumption DEF IndInv, Threads
<1>1. CASE Tick
  <2>1. TypeOK'
    BY <1>1 DEF memory, disk, outside, request, budgets, Goto, Tick, Labels,
           LockedLabels, BuildLabels, TypeOK, CallInv, DesiredInv
  <2>2. CallInv'
    BY <1>1 DEF memory, disk, outside, request, budgets, Goto, Tick, Labels,
           LockedLabels, BuildLabels, TypeOK, CallInv, DesiredInv
  <2>3. DesiredInv'
    BY <1>1 DEF memory, disk, outside, request, budgets, Goto, Tick, Labels,
           LockedLabels, BuildLabels, TypeOK, CallInv, DesiredInv
  <2>. QED  BY <2>1, <2>2, <2>3
<1>2. CASE LoopExit
  <2>1. TypeOK'
    BY <1>2 DEF memory, disk, outside, request, budgets, Goto, LoopExit, Labels,
           LockedLabels, BuildLabels, TypeOK, CallInv, DesiredInv
  <2>2. CallInv'
    BY <1>2 DEF memory, disk, outside, request, budgets, Goto, LoopExit, Labels,
           LockedLabels, BuildLabels, TypeOK, CallInv, DesiredInv
  <2>3. DesiredInv'
    BY <1>2 DEF memory, disk, outside, request, budgets, Goto, LoopExit, Labels,
           LockedLabels, BuildLabels, TypeOK, CallInv, DesiredInv
  <2>. QED  BY <2>1, <2>2, <2>3
<1>3. CASE AcquireRepair("loop")
  <2>1. TypeOK'
    BY <1>3 DEF memory, disk, outside, request, budgets, Goto, AcquireRepair, NoFrame,
           Frame, Labels, LockedLabels, BuildLabels, TypeOK, CallInv, DesiredInv
  <2>2. CallInv'
    BY <1>3 DEF memory, disk, outside, request, budgets, Goto, AcquireRepair, NoFrame,
           Frame, Labels, LockedLabels, BuildLabels, TypeOK, CallInv, DesiredInv
  <2>3. DesiredInv'
    BY <1>3 DEF memory, disk, outside, request, budgets, Goto, AcquireRepair, NoFrame,
           Frame, Labels, LockedLabels, BuildLabels, TypeOK, CallInv, DesiredInv
  <2>. QED  BY <2>1, <2>2, <2>3
<1>4. CASE Repair("loop")
  <2>1. TypeOK'
    BY <1>4, SetAddrsType DEF memory, disk, outside, request, budgets, Goto, Repair,
           Holds, EnsureAddresses, AddrState, Labels, LockedLabels, BuildLabels, TypeOK
  <2>2. CallInv'
    BY <1>4 DEF memory, disk, outside, request, budgets, Goto, Repair, Holds, Labels,
           LockedLabels, BuildLabels, TypeOK, CallInv, DesiredInv
  <2>3. DesiredInv'
    BY <1>4 DEF memory, disk, outside, request, budgets, Goto, Repair, Holds, Labels,
           LockedLabels, BuildLabels, TypeOK, CallInv, DesiredInv
  <2>. QED  BY <2>1, <2>2, <2>3
<1>5. CASE RepairFails("loop")
  <2>1. kernel' \in Kernel
    BY <1>5, PartlyEnsuredType, SetAddrsType
       DEF RepairFails, PartlyRepaired, EnsureAddresses, AddrState, TypeOK
  <2>2. TypeOK'
    BY <1>5, <2>1 DEF memory, disk, outside, request, budgets, Goto, RepairFails,
           Failing, Holds, Frame, Labels, LockedLabels, BuildLabels, TypeOK, CallInv,
           DesiredInv
  <2>3. CallInv'
    BY <1>5 DEF memory, disk, outside, request, budgets, Goto, RepairFails, Failing,
           Holds, Frame, Labels, LockedLabels, BuildLabels, TypeOK, CallInv, DesiredInv
  <2>4. DesiredInv'
    BY <1>5 DEF memory, disk, outside, request, budgets, Goto, RepairFails, Failing,
           Holds, Frame, Labels, LockedLabels, BuildLabels, TypeOK, CallInv, DesiredInv
  <2>. QED  BY <2>2, <2>3, <2>4
<1>6. CASE RepairFinish("loop")
  <2>1. TypeOK'
    BY <1>6, RepairedStateType DEF memory, disk, outside, request, budgets, Goto,
           RepairFinish, Failing, Holds, NoFrame, Frame, Labels, LockedLabels,
           BuildLabels, TypeOK, CallInv, DesiredInv
  <2>2. CallInv'
    BY <1>6, RepairedStateType DEF memory, disk, outside, request, budgets, Goto,
           RepairFinish, Failing, Holds, NoFrame, Frame, Labels, LockedLabels,
           BuildLabels, TypeOK, CallInv, DesiredInv
  <2>3. DesiredInv'
    BY <1>6 DEF memory, disk, outside, request, budgets, Goto, RepairFinish, Failing,
           Holds, NoFrame, Frame, Labels, LockedLabels, BuildLabels, TypeOK, CallInv,
           DesiredInv
  <2>. QED  BY <2>1, <2>2, <2>3
<1>. QED  BY <1>1, <1>2, <1>3, <1>4, <1>5, <1>6 DEF Loop, RepairStep

\* Changes from outside preserve the inductive invariant.
LEMMA OutsideInd ==
    ASSUME IndInv,
           Environment
    PROVE  IndInv'
<1>. USE BudgetAssumption, ThreadAssumption DEF IndInv, Threads
<1>1. CASE LoseTunnel
  <2>1. TypeOK'
    BY <1>1, DropTunnelType, LostOutsideType
       DEF memory, disk, outside, request, budgets, Goto,
           LoseTunnel, Disturb, Labels, LockedLabels, BuildLabels, TypeOK, CallInv,
           DesiredInv
  <2>2. CallInv'
    BY <1>1, DropTunnelType DEF memory, disk, outside, request, budgets, Goto,
           LoseTunnel, Disturb, Labels, LockedLabels, BuildLabels, TypeOK, CallInv,
           DesiredInv
  <2>3. DesiredInv'
    BY <1>1 DEF memory, disk, outside, request, budgets, Goto, LoseTunnel, Disturb,
           Labels, LockedLabels, BuildLabels, TypeOK, CallInv, DesiredInv
  <2>. QED  BY <2>1, <2>2, <2>3
<1>2. CASE LoseAddress
  <2>1. TypeOK'
    BY <1>2, SetAddrsType, LostOutsideType
       DEF memory, disk, outside, request, budgets, Goto,
           LoseAddress, Disturb, AddrState, Labels, LockedLabels, BuildLabels, TypeOK,
           CallInv, DesiredInv
  <2>2. CallInv'
    BY <1>2, SetAddrsType DEF memory, disk, outside, request, budgets, Goto,
           LoseAddress, Disturb, AddrState, Labels, LockedLabels, BuildLabels, TypeOK,
           CallInv, DesiredInv
  <2>3. DesiredInv'
    BY <1>2 DEF memory, disk, outside, request, budgets, Goto, LoseAddress, Disturb,
           AddrState, Labels, LockedLabels, BuildLabels, TypeOK, CallInv, DesiredInv
  <2>. QED  BY <2>1, <2>2, <2>3
<1>3. CASE WanChange
  <2>1. TypeOK'
    BY <1>3, LostOutsideType
       DEF memory, disk, outside, request, budgets, Goto, WanChange, Disturb,
           Labels, LockedLabels, BuildLabels, TypeOK, CallInv, DesiredInv
  <2>2. CallInv'
    BY <1>3 DEF memory, disk, outside, request, budgets, Goto, WanChange, Disturb,
           Labels, LockedLabels, BuildLabels, TypeOK, CallInv, DesiredInv
  <2>3. DesiredInv'
    BY <1>3 DEF memory, disk, outside, request, budgets, Goto, WanChange, Disturb,
           Labels, LockedLabels, BuildLabels, TypeOK, CallInv, DesiredInv
  <2>. QED  BY <2>1, <2>2, <2>3
<1>. QED  BY <1>1, <1>2, <1>3 DEF Environment

\* Every step of the service preserves the inductive invariant.
LEMMA NextInd == IndInv /\ [Next]_vars => IndInv'
<1>. SUFFICES ASSUME IndInv, [Next]_vars PROVE IndInv'
  OBVIOUS
<1>1. CASE Next
  BY <1>1, ProcessInd, RequestInd, BuildInd, FinishInd, CheckInd, LoopInd, OutsideInd
     DEF Next, Locking, Working, Reconciling
<1>2. CASE UNCHANGED vars
  BY <1>2 DEF IndInv, TypeOK, CallInv, DesiredInv, vars, memory, disk, outside, request, budgets
<1>. QED  BY <1>1, <1>2

-----------------------------------------------------------------------------
(***************************************************************************)
(* The theorems.                                                           *)
(***************************************************************************)
\* The inductive invariant holds in every reachable state of the service.
THEOREM Inductive == Spec => []IndInv
BY InitInd, NextInd, PTL DEF Spec

\* Every variable keeps its type; in particular a rollback always finds the
\* clones it restores and a tunnel is never bound to a missing WAN address.
THEOREM TypeCorrect == Spec => []TypeOK
<1>1. IndInv => TypeOK
  BY DEF IndInv
<1>. QED  BY <1>1, Inductive, PTL

\* For any number of clients, failures and crashes, whenever the mutex is
\* free the service works with the document that config.json holds.
THEOREM DesiredPersisted == Spec => []DesiredIsPersisted
<1>1. IndInv => DesiredIsPersisted
  BY DEF IndInv, DesiredInv, DesiredIsPersisted
<1>. QED  BY <1>1, Inductive, PTL
=============================================================================
