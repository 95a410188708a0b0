--------------------------- MODULE ControlService ---------------------------
(***************************************************************************)
(* The control service (internal/control/service.go) with its system       *)
(* backend, its two files and the kernel below it.                         *)
(*                                                                         *)
(* Three kinds of threads share one mutex: "main" runs Start (and Stop),   *)
(* "loop" is the health loop, and every client is an HTTP or control       *)
(* socket request.  The mutex is held over whole reconciles and repairs,   *)
(* but a request reads the document, releases the mutex and takes it again *)
(* to write, and a health check observes and probes without it.  Those     *)
(* gaps, failures of single commands, process crashes and changes made to  *)
(* the kernel by others are what the model is about.                       *)
(*                                                                         *)
(* Simplifications: a group of commands that nobody else can tell apart is *)
(* one step; the WAN interface name and the web server's fields do not     *)
(* change; an interface whose IPv6 is switched off is left to Reconciler.  *)
(***************************************************************************)
EXTENDS Dataplane, Naturals

CONSTANTS
    Clients,        \* concurrent requests
    InitDocuments,  \* documents config.json may hold at the first boot
    InitWans,       \* addresses the WAN interface may have at the first boot, or None
    MaxFaults,      \* bound on failing steps and outside changes
    MaxOps,         \* bound on requests
    MaxCrashes,     \* bound on process crashes and reboots
    StopAllowed     \* whether main may call Stop

ASSUME BudgetAssumption ==
    MaxFaults \in Nat /\ MaxOps \in Nat /\ MaxCrashes \in Nat
ASSUME DocumentAssumption ==
    /\ InitDocuments \subseteq Document
    /\ \A d \in InitDocuments : d.format = "profiles" => Valid(d)
ASSUME WanAssumption == InitWans \subseteq WanAddrs \union {None}
ASSUME ThreadAssumption ==
    /\ {"main", "loop"} \intersect Clients = {}
    /\ None \notin Clients \union {"main", "loop"} \union Document
    /\ StopAllowed \in BOOLEAN

Threads == {"main", "loop"} \union Clients

VARIABLES
    proc,        \* life cycle of the daemon process
    document,    \* s.document; s.config is its active config
    state,       \* s.state
    advertiser,  \* s.advertiser: the profile being advertised, or None
    configFile,  \* config.json
    stateFile,   \* state.json
    kernel,      \* IPv6 state of the kernel
    wan,         \* IPv4 address of the WAN interface, or None
    lock,        \* holder of s.mu, or None
    pc,          \* where each thread is
    next,        \* document each client is about to submit, or None
    hc,          \* locals of each thread's health check
    frame,       \* locals of the mutex holder's reconcile
    reply,       \* what each client was last told
    lost,        \* history: what teardown missed, and why it will again
    faults, ops, crashes   \* used parts of the budgets

memory  == <<document, state, advertiser>>
disk    == <<configFile, stateFile>>
outside == <<kernel, wan>>
request == <<next, reply>>
budgets == <<faults, ops, crashes>>
vars == <<proc, memory, disk, outside, lock, pc, request, hc, frame, lost, budgets>>

-----------------------------------------------------------------------------
(* The records of service.go and state.go. *)

Reasons == {"validation", "missing", "backend", "advertiser", "observe",
            "repair", "probe"}

StateDocument ==
    [ reconcile: {"idle", "reconciling", "ready", "degraded", "down"},
      enabled: BOOLEAN, profile: Profiles \union {None}, tunnelUp: BOOLEAN,
      pingOK: BOOLEAN, reasons: SUBSET Reasons, applied: Applied ]

DefaultState ==
    [ reconcile |-> "idle", enabled |-> FALSE, profile |-> None,
      tunnelUp |-> FALSE, pingOK |-> FALSE, reasons |-> {},
      applied |-> EmptyApplied ]

\* Locals of runHealthCheck: the config it cloned and what it saw.
HealthCheck ==
    [ doc: Document \union {None}, up: BOOLEAN, addrs: AddrReport, ping: BOOLEAN ]

NoHealthCheck == [doc |-> None, up |-> FALSE, addrs |-> "clean", ping |-> FALSE]

(***************************************************************************)
(* Locals of the mutex holder: which function called reconcileLocked, the  *)
(* clones UpdateConfigDocument keeps for the rollback, the WAN address     *)
(* Reconcile read, and the errors met so far.                              *)
(***************************************************************************)
Frame ==
    [ mode: {"none", "plain", "update", "rollback", "repair"},
      prevDoc: Document \union {None}, prevState: StateDocument \union {None},
      wanIP: WanAddrs \union {None}, errs: SUBSET {"backend", "advertiser", "repair"} ]

NoFrame == [mode |-> "none", prevDoc |-> None, prevState |-> None,
            wanIP |-> None, errs |-> {}]

(***************************************************************************)
(* The history of what stays in the kernel without being wanted:           *)
(* undeleted, because its last deletion failed; unlisted, because a        *)
(* rollback or a crash put an older applied record back, without it.       *)
(***************************************************************************)
Lost ==
    [ undeleted: Leftover,
      unlisted: [addrs: SUBSET LanAddrs, routes: SUBSET Endpoints] ]

NothingLost ==
    [undeleted |-> NoLeftover, unlisted |-> [addrs |-> {}, routes |-> {}]]

BuildLabels == {"wan", "route", "tunnel", "link", "addr", "lan", "default"}

LockedLabels == BuildLabels \union
    {"teardown", "advertise", "finish", "save", "restore", "repair", "repairFinish"}

Labels == LockedLabels \union
    {"idle", "done", "lockUpdate", "lockReconcile", "lockRepair", "hcStart",
     "hcObserve", "hcProbe", "hcApply", "stopLock", "stopWait"}

\* Every variable keeps its type, whichever command fails: in particular the
\* tunnel is only ever added with an address the WAN interface had (Reconcile,
\* getWANIPv4) and the budgets are respected.
TypeOK ==
    /\ proc \in {"off", "starting", "running", "stopping", "stopped"}
    /\ document \in Document /\ configFile \in Document
    /\ state \in StateDocument /\ stateFile \in StateDocument
    /\ advertiser \in Profiles \union {None}
    /\ kernel \in Kernel /\ wan \in WanAddrs \union {None}
    /\ lock \in Threads \union {None}
    /\ pc \in [Threads -> Labels]
    /\ next \in [Clients -> Document \union {None}]
    /\ hc \in [Threads -> HealthCheck]
    /\ frame \in Frame
    /\ reply \in [Clients -> {"none", "ok", "error"}]
    /\ lost \in Lost
    /\ faults \in 0..MaxFaults /\ ops \in 0..MaxOps /\ crashes \in 0..MaxCrashes

Init ==
    /\ proc = "off"
    /\ configFile \in InitDocuments /\ document = configFile
    /\ stateFile = DefaultState /\ state = DefaultState
    /\ advertiser = None
    /\ kernel = EmptyKernel /\ wan \in InitWans
    /\ lock = None
    /\ pc = [t \in Threads |-> "idle"]
    /\ next = [c \in Clients |-> None] /\ reply = [c \in Clients |-> "none"]
    /\ hc = [t \in Threads |-> NoHealthCheck]
    /\ frame = NoFrame
    /\ lost = NothingLost
    /\ faults = 0 /\ ops = 0 /\ crashes = 0

-----------------------------------------------------------------------------
(* Helpers. *)

Goto(t, label) == pc' = [pc EXCEPT ![t] = label]

Holds(t, label) == lock = t /\ pc[t] = label

\* The commands of one step that fail; any such step uses up one fault.
Failing(bad) ==
    /\ bad # {} => faults < MaxFaults
    /\ faults' = IF bad = {} THEN faults ELSE faults + 1

\* A call returns to its caller with the mutex released.
Return(t, answer) ==
    /\ lock' = None
    /\ Goto(t, "idle")
    /\ frame' = NoFrame
    /\ proc' = IF t = "main" /\ proc = "starting" THEN "running" ELSE proc
    /\ next' = [c \in Clients |-> IF c = t THEN None ELSE next[c]]
    /\ reply' = [c \in Clients |-> IF c = t THEN answer ELSE reply[c]]

LostAddrs == lost.undeleted.addrs \union lost.unlisted.addrs
LostRoutes == lost.undeleted.routes \union lost.unlisted.routes

\* Every gateway address and host route in the kernel is in the applied
\* record, unless the history tells why it is not.
Covers(applied, k) ==
    /\ OnLan(k) \subseteq applied.networks \union LostAddrs
    /\ k.routes \subseteq {applied.endpoint} \union LostRoutes

\* A teardown as recorded ends with these leftovers.
LostInTeardown(applied, left) ==
    [ undeleted |->
        [ left EXCEPT
            !.addrs  = @ \union (lost.undeleted.addrs \ applied.networks),
            !.routes = @ \union (lost.undeleted.routes \ {applied.endpoint}) ],
      unlisted |->
        [ addrs  |-> lost.unlisted.addrs \ applied.networks,
          routes |-> lost.unlisted.routes \ {applied.endpoint} ] ]

\* An older record comes back.
LostFromRecord(applied) ==
    [ lost EXCEPT
        !.unlisted = [ addrs  |-> @.addrs \union (OnLan(kernel) \ applied.networks),
                       routes |-> @.routes \union (kernel.routes \ {applied.endpoint}) ] ]

-----------------------------------------------------------------------------
(* The process: NewService and Start, a crash or a reboot, and Stop. *)

Boot ==
    /\ proc = "off"
    /\ proc' = "starting"
    /\ document' = configFile /\ state' = stateFile
    /\ Goto("main", "lockReconcile")
    /\ UNCHANGED <<advertiser, disk, outside, lock, request, hc, frame, lost, budgets>>

\* The process dies, or the whole machine does and the kernel forgets.  What
\* memory held is gone: document and state show what the next boot will load.
Crash ==
    /\ proc # "off" /\ crashes < MaxCrashes
    /\ crashes' = crashes + 1
    /\ proc' = "off"
    /\ kernel' \in {kernel, EmptyKernel}
    /\ lost' = IF kernel' = EmptyKernel THEN NothingLost
                                       ELSE LostFromRecord(stateFile.applied)
    /\ document' = configFile /\ state' = stateFile
    /\ advertiser' = None
    /\ lock' = None /\ frame' = NoFrame
    /\ pc' = [t \in Threads |-> "idle"]
    /\ hc' = [t \in Threads |-> NoHealthCheck]
    /\ next' = [c \in Clients |-> None] /\ reply' = [c \in Clients |-> "none"]
    /\ UNCHANGED <<disk, wan, faults, ops>>

StopBegin ==
    /\ StopAllowed
    /\ proc = "running" /\ pc["main"] = "idle"
    /\ proc' = "stopping"
    /\ Goto("main", "stopLock")
    /\ UNCHANGED <<memory, disk, outside, lock, request, hc, frame, lost, budgets>>

\* Mutant: Stop waits for the health loop before it releases the mutex.
StopAdvertiserHoldsLock ==
    /\ pc["main"] = "stopLock" /\ lock = None
    /\ advertiser' = None
    /\ lock' = "main"
    /\ Goto("main", "stopWait")
    /\ UNCHANGED <<proc, document, state, disk, outside, request, hc, frame, lost, budgets>>

StopAdvertiser ==
    /\ pc["main"] = "stopLock" /\ lock = None
    /\ advertiser' = None
    /\ lock' = None
    /\ Goto("main", "stopWait")
    /\ UNCHANGED <<proc, document, state, disk, outside, request, hc, frame, lost, budgets>>

StopDone ==
    /\ pc["main"] = "stopWait" /\ pc["loop"] = "done"
    /\ proc' = "stopped"
    /\ Goto("main", "idle")
    /\ UNCHANGED <<memory, disk, outside, lock, request, hc, frame, lost, budgets>>

-----------------------------------------------------------------------------
(***************************************************************************)
(* Requests.  Up, Down and a legacy PUT clone the document under the mutex *)
(* and release it; a PUT of a profiles document brings everything with it. *)
(* A document the parser already refuses is refused by UpdateConfigDocument*)
(* in the model: either way nothing changes and the client gets an error.  *)
(***************************************************************************)
Begin(c) ==
    /\ proc = "running" /\ pc[c] = "idle" /\ ops < MaxOps
    /\ ops' = ops + 1
    /\ reply' = [reply EXCEPT ![c] = "none"]
    /\ UNCHANGED <<proc, memory, disk, outside, lock, hc, frame, lost, faults, crashes>>

Submit(c, d) ==
    /\ Begin(c)
    /\ next' = [next EXCEPT ![c] = d]
    /\ Goto(c, "lockUpdate")

\* Up and Down.
MutateDocument(c) ==
    /\ lock = None
    /\ \E e \in BOOLEAN : Submit(c, [document EXCEPT !.enabled = e])

\* An omitted tunnel.enabled keeps the current one, which is one of the two.
PutLegacy(c) ==
    /\ lock = None
    /\ \E e \in BOOLEAN, p \in Profiles :
          Submit(c, [document EXCEPT !.enabled = e, !.profile = p])

PutProfiles(c) ==
    /\ lock = None
    /\ \E e \in BOOLEAN, p \in Profiles :
          Submit(c, [format |-> "profiles", enabled |-> e, profile |-> p])

Restart(c) ==
    /\ Begin(c)
    /\ Goto(c, "lockReconcile")
    /\ UNCHANGED next

Health(c) ==
    /\ Begin(c)
    /\ Goto(c, "hcStart")
    /\ UNCHANGED next

-----------------------------------------------------------------------------
(* UpdateConfigDocument up to reconcileLocked. *)

RejectUpdate(c) ==
    /\ pc[c] = "lockUpdate" /\ lock = None
    /\ ~Valid(next[c])
    /\ Return(c, "error")
    /\ UNCHANGED <<memory, disk, outside, hc, lost, budgets>>

\* Mutant: the clone for the rollback is taken after the assignment.
AcceptUpdateLateClone(c) ==
    /\ pc[c] = "lockUpdate" /\ lock = None
    /\ Valid(next[c])
    /\ document' = next[c]
    /\ frame' = [NoFrame EXCEPT !.mode = "update", !.prevDoc = next[c],
                                !.prevState = state]
    /\ lock' = c
    /\ Goto(c, "teardown")
    /\ UNCHANGED <<proc, state, advertiser, disk, outside, request, hc, lost, budgets>>

AcceptUpdate(c) ==
    /\ pc[c] = "lockUpdate" /\ lock = None
    /\ Valid(next[c])
    /\ document' = next[c]
    /\ frame' = [NoFrame EXCEPT !.mode = "update", !.prevDoc = document,
                                !.prevState = state]
    /\ lock' = c
    /\ Goto(c, "teardown")
    /\ UNCHANGED <<proc, state, advertiser, disk, outside, request, hc, lost, budgets>>

-----------------------------------------------------------------------------
(* reconcileLocked, which also runs SystemBackend.Reconcile. *)

AcquireReconcile(t) ==
    /\ pc[t] = "lockReconcile" /\ lock = None
    /\ lock' = t
    /\ frame' = [NoFrame EXCEPT !.mode = "plain"]
    /\ Goto(t, "teardown")
    /\ UNCHANGED <<proc, memory, disk, outside, request, hc, lost, budgets>>

\* Mutant: the status keeps naming the profile of the last reconcile.
ReconcilingStateKeepsProfile(d, s) ==
    [s EXCEPT !.enabled = d.enabled, !.reconcile = "reconciling"]

ReconcilingState(d, s) ==
    [s EXCEPT !.enabled = d.enabled, !.profile = d.profile,
              !.reconcile = "reconciling"]

\* Mutant: the old advertiser is left running.
TeardownStepKeepsAdvertiser(t) ==
    /\ Holds(t, "teardown")
    /\ state' = ReconcilingState(document, state)
    /\ advertiser' = advertiser
    /\ \E left \in Undeletable(kernel, state.applied) :
          /\ Failing(IF left = NoLeftover THEN {} ELSE {"delete"})
          /\ kernel' = Teardown(kernel, state.applied, left)
          /\ lost' = LostInTeardown(state.applied, left)
    /\ Goto(t, IF Wants(document) THEN "wan" ELSE "finish")
    /\ UNCHANGED <<proc, document, disk, wan, lock, request, hc, frame, ops, crashes>>

TeardownStep(t) ==
    /\ Holds(t, "teardown")
    /\ state' = ReconcilingState(document, state)
    /\ advertiser' = None
    /\ \E left \in Undeletable(kernel, state.applied) :
          /\ Failing(IF left = NoLeftover THEN {} ELSE {"delete"})
          /\ kernel' = Teardown(kernel, state.applied, left)
          /\ lost' = LostInTeardown(state.applied, left)
    /\ Goto(t, IF Wants(document) THEN "wan" ELSE "finish")
    /\ UNCHANGED <<proc, document, disk, wan, lock, request, hc, frame, ops, crashes>>

\* A build command succeeds, changes the kernel and goes on.
BuildStep(t, label, k, then) ==
    /\ Holds(t, label)
    /\ kernel' = k
    /\ Goto(t, then)
    /\ UNCHANGED <<proc, memory, disk, wan, lock, request, hc, lost, budgets>>

\* Mutant: a WAN interface without an address is not noticed.
ReadWanUnchecked(t) ==
    /\ BuildStep(t, "wan", kernel, "route")
    /\ frame' = [frame EXCEPT !.wanIP = wan]

ReadWan(t) ==
    /\ wan # None
    /\ BuildStep(t, "wan", kernel, "route")
    /\ frame' = [frame EXCEPT !.wanIP = wan]

BuildRoute(t) ==
    BuildStep(t, "route", AddRoute(kernel, document), "tunnel") /\ UNCHANGED frame

BuildTunnel(t) ==
    /\ ~TunnelExists(kernel)
    /\ BuildStep(t, "tunnel", AddTunnel(kernel, document, frame.wanIP), "link")
    /\ UNCHANGED frame

BuildLink(t) ==
    /\ TunnelExists(kernel)
    /\ BuildStep(t, "link", LinkUp(kernel), "addr") /\ UNCHANGED frame

BuildAddr(t) ==
    /\ TunnelExists(kernel)
    /\ BuildStep(t, "addr", EnsureAddresses(kernel, {Config(document).localIPv6}),
                 IF Config(document).lanEnabled THEN "lan" ELSE "default")
    /\ UNCHANGED frame

BuildLan(t) ==
    BuildStep(t, "lan", EnsureAddresses(kernel, Config(document).networks), "default")
    /\ UNCHANGED frame

BuildDefault(t) ==
    /\ TunnelExists(kernel) /\ kernel.linkUp
    /\ BuildStep(t, "default", AddDefaultRoute(kernel),
                 IF WantsRA(document) THEN "advertise" ELSE "finish")
    /\ UNCHANGED frame

\* The next command of Reconcile cannot succeed as the kernel is.
Hopeless(label) ==
    \/ label = "wan" /\ wan = None
    \/ label = "tunnel" /\ TunnelExists(kernel)
    \/ label \in {"link", "addr", "default"} /\ ~TunnelExists(kernel)

\* What the failing group of commands may have done already.
PartlyBuilt(label) ==
    CASE label = "addr" /\ TunnelExists(kernel)
            -> PartlyEnsured(kernel, {Config(document).localIPv6})
      [] label = "lan" -> PartlyEnsured(kernel, Config(document).networks)
      [] OTHER -> {kernel}

\* A command fails and Reconcile returns.
BuildFails(t) ==
    \E label \in BuildLabels :
        /\ Holds(t, label)
        /\ kernel' \in PartlyBuilt(label)
        /\ Failing(IF Hopeless(label) THEN {} ELSE {label})
        /\ frame' = [frame EXCEPT !.errs = @ \union {"backend"}]
        /\ Goto(t, "finish")
        /\ UNCHANGED <<proc, memory, disk, wan, lock, request, hc, lost, ops, crashes>>

\* startAdvertiserLocked, which fails when a LAN interface cannot be listened on.
StartAdvertiser(t) ==
    \E bad \in SUBSET {"listen"} :
        /\ Holds(t, "advertise")
        /\ Failing(bad)
        /\ advertiser' = IF bad = {} THEN document.profile ELSE None
        /\ frame' = [frame EXCEPT !.errs = IF bad = {} THEN @ ELSE @ \union {"advertiser"}]
        /\ Goto(t, "finish")
        /\ UNCHANGED <<proc, document, state, disk, outside, lock, request, hc, lost,
                       ops, crashes>>

-----------------------------------------------------------------------------
(***************************************************************************)
(* The end of reconcileLocked: observe, probe, fold everything into the    *)
(* state and save it.                                                      *)
(***************************************************************************)
LinkSeen(bad) == TunnelExists(kernel) /\ "link" \notin bad

AddrsOf(d, bad) ==
    IF Wants(d) /\ "query" \in bad THEN "error" ELSE ObserveAddrs(d, kernel)

Ping(bad) == PathWorks(kernel, wan) /\ "probe" \notin bad

ReportReasons(addrs) ==
    (IF addrs = "missing" THEN {"missing"} ELSE {}) \union
    (IF addrs = "error" THEN {"observe"} ELSE {})

FinalReasons(d, errs, addrs, ping) ==
    (IF Valid(d) THEN {} ELSE {"validation"}) \union errs \union
    ReportReasons(addrs) \union
    (IF d.enabled /\ Config(d).health /\ ~ping THEN {"probe"} ELSE {})

FinalReconcile(d, errs, addrs, up) ==
    CASE ~d.enabled -> "down"
      [] d.enabled /\ Wants(d) /\ errs = {} /\ addrs = "clean" /\ up -> "ready"
      [] OTHER -> "degraded"

\* Mutant: only a reconcile without errors records what it applied.
FinalAppliedOnSuccess(d, s, errs) ==
    CASE ~d.enabled -> EmptyApplied
      [] Wants(d) /\ errs = {} -> BuildApplied(d)
      [] OTHER -> s.applied

FinalApplied(d, s, errs) ==
    CASE ~d.enabled -> EmptyApplied
      [] Wants(d)   -> BuildApplied(d)
      [] OTHER      -> s.applied

FinalState(bad) ==
    LET addrs == AddrsOf(document, bad)
        ping  == Wants(document) /\ Config(document).health /\ Ping(bad)
        errs  == frame.errs
    IN  [ state EXCEPT
            !.tunnelUp  = LinkSeen(bad),
            !.pingOK    = ping,
            !.reasons   = FinalReasons(document, errs, addrs, ping),
            !.reconcile = FinalReconcile(document, errs, addrs, LinkSeen(bad)),
            !.applied   = FinalApplied(document, state, errs) ]

\* reconcileLocked returns an error.
ReconcileFails(bad) ==
    \/ "disk" \in bad
    \/ Valid(document) /\ (frame.errs # {} \/ AddrsOf(document, bad) = "error")

Finish(t, mode, bad) ==
    /\ Holds(t, "finish") /\ frame.mode = mode
    /\ Failing(bad)
    /\ stateFile' = IF "disk" \in bad THEN stateFile ELSE FinalState(bad)
    /\ UNCHANGED <<advertiser, configFile, outside, hc, ops, crashes>>

FinishFailures == {"link", "query", "probe", "disk"}

\* reconcile, called by Start, Restart and the health loop.
FinishPlain(t) ==
    \E bad \in SUBSET FinishFailures :
        /\ Finish(t, "plain", bad)
        /\ state' = FinalState(bad)
        /\ Return(t, IF ReconcileFails(bad) THEN "error" ELSE "ok")
        /\ UNCHANGED <<document, lost>>

\* Mutant: the document of the failed update stays the desired one.
BeginRollbackKeepsDocument(t) ==
    /\ document' = document /\ state' = frame.prevState
    /\ frame' = [frame EXCEPT !.mode = "rollback", !.errs = {}, !.wanIP = None]
    /\ lost' = LostFromRecord(frame.prevState.applied)
    /\ Goto(t, "teardown")
    /\ UNCHANGED <<proc, lock, request>>

\* rollbackConfigUpdateLocked: restore the clones, then reconcile again.
BeginRollback(t) ==
    /\ document' = frame.prevDoc /\ state' = frame.prevState
    /\ frame' = [frame EXCEPT !.mode = "rollback", !.errs = {}, !.wanIP = None]
    /\ lost' = LostFromRecord(frame.prevState.applied)
    /\ Goto(t, "teardown")
    /\ UNCHANGED <<proc, lock, request>>

FinishUpdate(t) ==
    \E bad \in SUBSET FinishFailures :
        /\ Finish(t, "update", bad)
        /\ \/ /\ ~ReconcileFails(bad)
              /\ state' = FinalState(bad)
              /\ Goto(t, "save")
              /\ UNCHANGED <<proc, document, lock, request, frame, lost>>
           \/ ReconcileFails(bad) /\ BeginRollback(t)

FinishRollback(t) ==
    \E bad \in SUBSET FinishFailures :
        /\ Finish(t, "rollback", bad)
        /\ UNCHANGED <<document, lost>>
        /\ \/ /\ ~ReconcileFails(bad)
              /\ state' = FinalState(bad)
              /\ Return(t, "error")
           \/ /\ ReconcileFails(bad)
              /\ state' = frame.prevState
              /\ Goto(t, "restore")
              /\ UNCHANGED <<proc, lock, request, frame>>

\* SaveState after a failed rollback.
Restore(t) ==
    \E bad \in SUBSET {"disk"} :
        /\ Holds(t, "restore")
        /\ Failing(bad)
        /\ stateFile' = IF bad = {} THEN state ELSE stateFile
        /\ Return(t, "error")
        /\ UNCHANGED <<memory, configFile, outside, hc, lost, ops, crashes>>

\* Mutant: a failed SaveDocument is answered with an error and nothing else.
SaveWithoutRollback(t) ==
    \E bad \in SUBSET {"disk"} :
        /\ Holds(t, "save")
        /\ Failing(bad)
        /\ configFile' = IF bad = {} THEN document ELSE configFile
        /\ Return(t, IF bad = {} THEN "ok" ELSE "error")
        /\ UNCHANGED <<memory, stateFile, outside, hc, lost, ops, crashes>>

\* SaveDocument, the last step of an update.
Save(t) ==
    \E bad \in SUBSET {"disk"} :
        /\ Holds(t, "save")
        /\ Failing(bad)
        /\ UNCHANGED <<advertiser, stateFile, outside, hc, ops, crashes>>
        /\ \/ /\ bad = {}
              /\ configFile' = document
              /\ Return(t, "ok")
              /\ UNCHANGED <<document, state, lost>>
           \/ bad # {} /\ BeginRollback(t) /\ UNCHANGED configFile

-----------------------------------------------------------------------------
(* The health loop and runHealthCheck. *)

\* Mutant: only a service that never reconciled is retried.
ShouldRetryOnlyIdle ==
    Wants(document) /\ state.reconcile = "idle"

ShouldRetryReconcile ==
    Wants(document) /\ state.reconcile # "ready"

\* The timer fires; the two branches of the loop take the mutex again later.
\* While Stop waits, select may still pick a timer that is ready as well.
Tick ==
    /\ pc["loop"] = "idle" /\ lock = None
    /\ proc \in {"starting", "running", "stopping"}
    /\ Goto("loop", IF ShouldRetryReconcile THEN "lockReconcile" ELSE "hcStart")
    /\ UNCHANGED <<proc, memory, disk, outside, lock, request, hc, frame, lost, budgets>>

LoopExit ==
    /\ pc["loop"] = "idle" /\ proc = "stopping"
    /\ Goto("loop", "done")
    /\ UNCHANGED <<proc, memory, disk, outside, lock, request, hc, frame, lost, budgets>>

HcSnapshot(t) ==
    /\ pc[t] = "hcStart" /\ lock = None
    /\ hc' = [hc EXCEPT ![t] = [NoHealthCheck EXCEPT !.doc = document]]
    /\ Goto(t, "hcObserve")
    /\ UNCHANGED <<proc, memory, disk, outside, lock, request, frame, lost, budgets>>

\* Without the mutex: whoever holds it may be half way through a rebuild.
HcObserve(t) ==
    \E bad \in SUBSET {"link", "query"} :
        /\ pc[t] = "hcObserve"
        /\ Failing(bad)
        /\ hc' = [hc EXCEPT ![t].up = LinkSeen(bad), ![t].addrs = AddrsOf(hc[t].doc, bad)]
        /\ Goto(t, "hcProbe")
        /\ UNCHANGED <<proc, memory, disk, outside, lock, request, frame, lost, ops, crashes>>

HcProbe(t) ==
    \E bad \in SUBSET {"probe"} :
        /\ pc[t] = "hcProbe"
        /\ Failing(bad)
        /\ hc' = [hc EXCEPT ![t].ping = Config(hc[t].doc).health /\ Ping(bad)]
        /\ Goto(t, "hcApply")
        /\ UNCHANGED <<proc, memory, disk, outside, lock, request, frame, lost, ops, crashes>>

CheckedReasons(h, s) ==
    LET seen == (s.reasons \ {"missing"}) \union ReportReasons(h.addrs)
    IN  CASE Config(h.doc).health /\ h.ping -> seen \ {"probe"}
          [] Config(h.doc).health /\ ~h.ping /\ h.doc.enabled -> seen \union {"probe"}
          [] OTHER -> seen

CheckedState(h, s) ==
    [ s EXCEPT !.tunnelUp  = IF h.addrs = "error" THEN @ ELSE h.up,
               !.pingOK    = h.ping,
               !.reasons   = CheckedReasons(h, s),
               !.reconcile = IF h.addrs # "clean" THEN "degraded" ELSE @ ]

\* Mutant: a failed probe is only recorded.
RecoveryIgnoresProbe(h) ==
    IF Config(h.doc).autoRestart /\ Wants(h.doc) /\ h.addrs = "missing"
    THEN "lockRepair" ELSE "idle"

\* What the health loop does after a check it could save.
Recovery(h) ==
    CASE ~(Config(h.doc).autoRestart /\ Wants(h.doc)) -> "idle"
      [] Config(h.doc).autoRestart /\ Wants(h.doc) /\ Config(h.doc).health /\ ~h.ping
            -> "lockReconcile"
      [] OTHER -> IF h.addrs = "missing" THEN "lockRepair" ELSE "idle"

\* Mutant: the mutex is not released on the path of a failed SaveState.
HcApplyKeepsLock(t) ==
    \E bad \in SUBSET {"disk"} :
        /\ pc[t] = "hcApply" /\ lock = None
        /\ Failing(bad)
        /\ state' = CheckedState(hc[t], state)
        /\ stateFile' = IF bad = {} THEN state' ELSE stateFile
        /\ hc' = [hc EXCEPT ![t] = NoHealthCheck]
        /\ lock' = IF bad = {} THEN None ELSE t
        /\ Goto(t, IF t = "loop" /\ bad = {} THEN Recovery(hc[t]) ELSE "idle")
        /\ reply' = [c \in Clients |->
                        IF c = t THEN IF bad = {} THEN "ok" ELSE "error" ELSE reply[c]]
        /\ UNCHANGED <<proc, document, advertiser, configFile, outside, next, frame,
                       lost, ops, crashes>>

HcApply(t) ==
    \E bad \in SUBSET {"disk"} :
        /\ pc[t] = "hcApply" /\ lock = None
        /\ Failing(bad)
        /\ state' = CheckedState(hc[t], state)
        /\ stateFile' = IF bad = {} THEN state' ELSE stateFile
        /\ hc' = [hc EXCEPT ![t] = NoHealthCheck]
        /\ Goto(t, IF t = "loop" /\ bad = {} THEN Recovery(hc[t]) ELSE "idle")
        /\ reply' = [c \in Clients |->
                        IF c = t THEN IF bad = {} THEN "ok" ELSE "error" ELSE reply[c]]
        /\ UNCHANGED <<proc, document, advertiser, configFile, outside, lock, next, frame,
                       lost, ops, crashes>>

-----------------------------------------------------------------------------
(* repairManagedAddresses, only called by the health loop. *)

AcquireRepair(t) ==
    /\ pc[t] = "lockRepair" /\ lock = None
    /\ \/ /\ Wants(document)
          /\ lock' = t
          /\ frame' = [NoFrame EXCEPT !.mode = "repair"]
          /\ Goto(t, "repair")
       \/ ~Wants(document) /\ Goto(t, "idle") /\ UNCHANGED <<lock, frame>>
    /\ UNCHANGED <<proc, memory, disk, outside, request, hc, lost, budgets>>

\* RepairAddresses.
Repair(t) ==
    /\ Holds(t, "repair") /\ TunnelExists(kernel)
    /\ kernel' = EnsureAddresses(kernel, Managed(document))
    /\ Goto(t, "repairFinish")
    /\ UNCHANGED <<proc, memory, disk, wan, lock, request, hc, frame, lost, budgets>>

\* The tunnel's address comes first, then the gateways, and the first command
\* that fails ends the repair.
PartlyRepaired ==
    LET local == {Config(document).localIPv6}
    IN  PartlyEnsured(kernel, local) \union
            PartlyEnsured(EnsureAddresses(kernel, local), Managed(document) \ local)

RepairFails(t) ==
    /\ Holds(t, "repair")
    /\ kernel' \in IF TunnelExists(kernel) THEN PartlyRepaired ELSE {kernel}
    /\ Failing(IF TunnelExists(kernel) THEN {"addr"} ELSE {})
    /\ frame' = [frame EXCEPT !.errs = {"repair"}]
    /\ Goto(t, "repairFinish")
    /\ UNCHANGED <<proc, memory, disk, wan, lock, request, hc, lost, ops, crashes>>

\* Mutant: the repair believes its commands and not the observation.
RepairedStateBlind(s, errs, addrs, up) ==
    LET reasons == (s.reasons \ {"missing"}) \union errs
    IN  [ s EXCEPT
            !.reasons   = reasons,
            !.reconcile = CASE errs # {} -> "degraded"
                            [] errs = {} /\ up /\ reasons = {} -> "ready"
                            [] OTHER -> @ ]

RepairedState(s, errs, addrs, up) ==
    LET reasons == (s.reasons \ {"missing"}) \union ReportReasons(addrs) \union errs
    IN  [ s EXCEPT
            !.reasons   = reasons,
            !.reconcile = CASE errs # {} \/ addrs # "clean" -> "degraded"
                            [] errs = {} /\ addrs = "clean" /\ up /\ reasons = {} -> "ready"
                            [] OTHER -> @ ]

\* An error of the repair makes the loop fall back to a full reconcile.
RepairFinish(t) ==
    \E bad \in SUBSET {"link", "query", "disk"} :
        /\ Holds(t, "repairFinish")
        /\ Failing(bad)
        /\ state' = RepairedState(state, frame.errs, AddrsOf(document, bad), LinkSeen(bad))
        /\ stateFile' = IF "disk" \in bad THEN stateFile ELSE state'
        /\ lock' = None /\ frame' = NoFrame
        /\ Goto(t, IF "disk" \in bad \/ frame.errs # {} \/ AddrsOf(document, bad) = "error"
                   THEN "lockReconcile" ELSE "idle")
        /\ UNCHANGED <<proc, document, advertiser, configFile, outside, request, hc, lost,
                       ops, crashes>>

-----------------------------------------------------------------------------
(* External: what others do to the kernel and to the WAN interface. *)

\* What others delete is no longer left.
LostOutside(k) ==
    [ lost EXCEPT !.undeleted.tunnel = @ /\ TunnelExists(k),
                  !.undeleted.defaultRoute = @ /\ k.defaultRoute ]

Disturb(k, w) ==
    /\ faults < MaxFaults /\ faults' = faults + 1
    /\ kernel' = k /\ wan' = w
    /\ lost' = LostOutside(k)
    /\ UNCHANGED <<proc, memory, disk, lock, pc, request, hc, frame, ops, crashes>>

LoseTunnel == TunnelExists(kernel) /\ Disturb(DropTunnel(kernel), wan)

LoseAddress ==
    \E a \in Addresses, s \in {"missing", "unhealthy"} :
        kernel.addr[a] = "healthy" /\ Disturb(SetAddrs(kernel, {a}, s), wan)

WanChange == \E w \in WanAddrs \union {None} : w # wan /\ Disturb(kernel, w)

-----------------------------------------------------------------------------
Reconciling(t) ==
    \/ TeardownStep(t) \/ ReadWan(t) \/ BuildRoute(t) \/ BuildTunnel(t)
    \/ BuildLink(t) \/ BuildAddr(t) \/ BuildLan(t) \/ BuildDefault(t)
    \/ BuildFails(t) \/ StartAdvertiser(t)
    \/ FinishPlain(t) \/ FinishUpdate(t) \/ FinishRollback(t)
    \/ Restore(t) \/ Save(t)

\* Steps that wait for the mutex.
Locking(t) ==
    AcquireReconcile(t) \/ HcSnapshot(t) \/ HcApply(t)

\* Steps that only wait for a command or a file write to return.
Working(t) == Reconciling(t) \/ HcObserve(t) \/ HcProbe(t)

Loop == Tick \/ LoopExit \/ AcquireRepair("loop")

RepairStep == Repair("loop") \/ RepairFails("loop") \/ RepairFinish("loop")

Requests(c) ==
    MutateDocument(c) \/ PutLegacy(c) \/ PutProfiles(c) \/ Restart(c) \/ Health(c)

Deciding(c) == RejectUpdate(c) \/ AcceptUpdate(c)

Stopping == StopAdvertiser \/ StopDone

Environment == LoseTunnel \/ LoseAddress \/ WanChange

Next ==
    \/ Boot \/ Crash \/ StopBegin \/ Stopping
    \/ Loop \/ RepairStep
    \/ \E t \in Threads : Locking(t) \/ Working(t)
    \/ \E c \in Clients : Requests(c) \/ Deciding(c)
    \/ Environment

Spec == Init /\ [][Next]_vars

(***************************************************************************)
(* A command or a file write returns, and a waiter is handed the mutex     *)
(* even if others keep asking for it (sync.Mutex's starvation mode).  A    *)
(* select whose channels are ready each time picks each of them sooner or  *)
(* later, as it chooses at random.  Nothing makes an operator start the    *)
(* daemon, send a request or stop it.                                      *)
(***************************************************************************)
\* A thread is at one label, so each of these is one step at a time.
Running(t) == Working(t) \/ (t = "loop" /\ RepairStep)

Waiting(t) ==
    Locking(t) \/ (t = "loop" /\ (Tick \/ AcquireRepair(t))) \/ (t \in Clients /\ Deciding(t))

Fairness ==
    /\ \A t \in Threads : WF_vars(Running(t)) /\ SF_vars(Waiting(t))
    /\ SF_vars(Stopping \/ LoopExit)

FairSpec == Spec /\ Fairness

-----------------------------------------------------------------------------
(***************************************************************************)
(* Safety.                                                                 *)
(***************************************************************************)

\* Whenever the mutex is free, the configuration the service works with is
\* the one in config.json: an update that fails at any step, a rollback that
\* fails too, and a crash at any point leave no document that only memory
\* holds (UpdateConfigDocument, rollbackConfigUpdateLocked).
DesiredIsPersisted == lock = None => document = configFile

\* Once started, the status names the desired profile and switch whenever it
\* can be read, also after failed updates and failed rollbacks (Status,
\* reconcileLocked).
StatusNamesDesired ==
    proc = "running" /\ lock = None =>
        state.enabled = document.enabled /\ state.profile = document.profile

\* A tunnel that is switched off is torn down: there are no router
\* advertisements, and no interface, default route, gateway address or host
\* route but what its last deletion failed for or, of the latter two, what a
\* rollback or a crash left off the applied record.  A health check or repair
\* decided before Down must not bring any of it back.
OffMeansTornDown ==
    proc = "running" /\ lock = None /\ ~document.enabled =>
        /\ TunnelExists(kernel) => lost.undeleted.tunnel
        /\ kernel.defaultRoute => lost.undeleted.defaultRoute
        /\ advertiser = None
        /\ Covers(EmptyApplied, kernel)

\* Router advertisements are only sent for the profile that is desired, never
\* for one that was replaced or rolled back (startAdvertiserLocked).
AdvertisesOnlyDesired ==
    lock = None /\ advertiser # None =>
        WantsRA(document) /\ advertiser = document.profile

\* The applied record lists every gateway address and host route that is left
\* for the next teardown to remove, except those whose own deletion failed
\* and those that a rollback or a crash left off by putting an older record
\* back; no other failure hides one (state.Applied).
AppliedCovers ==
    proc = "running" /\ lock = None => Covers(state.applied, kernel)

\* The service only comes to say "ready" over a tunnel to the desired
\* endpoint with every managed address usable, except where a rollback puts an
\* older status back, or a repair finds nothing missing on a tunnel that could
\* not be deleted.  A repair that raced with a rebuild must not claim what
\* it did not see (reconcileLocked, repairManagedAddresses).
ReadyIsEarned ==
    [][( /\ proc' = "running" /\ state' # frame.prevState
         /\ state.reconcile # "ready" /\ state'.reconcile = "ready" ) =>
          /\ TunnelExists(kernel)
          /\ \/ kernel.tunnel.remote = Config(document).endpoint
             \/ frame.mode = "repair" /\ lost.undeleted.tunnel
          /\ MissingAddresses(document, kernel) = {}]_vars

\* Memory is ahead of config.json only inside an update, which holds the
\* mutex and keeps the persisted document for its rollback; the label of the
\* mutex holder tells which call is running (UpdateConfigDocument).
DesiredInv ==
    /\ frame.mode = "update" => lock # None /\ frame.prevDoc = configFile
    /\ frame.mode # "update" => document = configFile
    /\ lock # None =>
          /\ pc[lock] = "save" => frame.mode = "update"
          /\ pc[lock] = "restore" => frame.mode = "rollback"
          /\ pc[lock] \in {"repair", "repairFinish"} => frame.mode = "repair"

\* A call has the locals it is going to use: the clones of the rollback, the
\* WAN address of the tunnel to add, the document of the update.
CallInv ==
    /\ frame.mode \in {"update", "rollback"} =>
          frame.prevDoc \in Document /\ frame.prevState \in StateDocument
    /\ lock # None /\ pc[lock] \in {"route", "tunnel"} => frame.wanIP \in WanAddrs
    /\ \A c \in Clients : pc[c] = "lockUpdate" => next[c] \in Document

\* The inductive invariant from which DesiredIsPersisted follows: every step,
\* failing or not, keeps memory, disk and the caller's locals in this order.
IndInv == TypeOK /\ CallInv /\ DesiredInv

-----------------------------------------------------------------------------
(***************************************************************************)
(* Refinement: seen through GetConfigDocument and the replies, the service *)
(* is a durable atomic register.                                           *)
(***************************************************************************)
Store == INSTANCE DesiredStore
            WITH desired <- IF lock = None THEN document ELSE configFile,
                 pending <- next

\* The proposal of a client is kept from its request to its answer: while it
\* waits for the mutex, and in the update or rollback that holds the mutex for
\* it.  No other call has one, and no call outlives the process
\* (UpdateConfigDocument).
ProposalInv ==
    /\ \A c \in Clients : next[c] # None =>
          \/ pc[c] = "lockUpdate"
          \/ lock = c /\ frame.mode \in {"update", "rollback"}
    /\ frame.mode \in {"update", "rollback"} => lock \in Clients /\ next[lock] \in Document
    /\ frame.mode = "update" => next[lock] = document
    /\ lock \in Clients => pc[lock] \in LockedLabels
    /\ proc = "off" => \A t \in Threads : pc[t] = "idle"

\* Every step of the service is a step of the register or leaves it alone:
\* the document a client is told "ok" for is the desired one from that step
\* on, in memory and on disk, and no other step changes it.
ImplementsStore == Store!Spec

-----------------------------------------------------------------------------
(***************************************************************************)
(* Liveness, under Fairness.                                               *)
(***************************************************************************)

\* The desired document asks for a tunnel with health checks that may act,
\* and the WAN interface has an address.
Monitored ==
    /\ proc = "running" /\ wan # None /\ Wants(document)
    /\ Config(document).health /\ Config(document).autoRestart

Healthy ==
    /\ Built(document, kernel, wan) \/ lost.undeleted.tunnel
    /\ state.reconcile = "ready" /\ state.reasons = {}
    /\ state.tunnelUp /\ state.pingOK

\* If from some time on the desired document stays monitored, the dataplane is
\* eventually built for it and for the WAN address of then, and the status
\* says so for good: no failure, stale check or rollback wedges the loop.  The
\* loop can only be deceived by a tunnel that a rollback could not delete and
\* over which the probe works.
SelfHeals == <>[]Monitored => <>[]Healthy

\* Every request is answered or lost with the process: no path keeps the
\* mutex, and no thread waits for another forever.
RequestsAnswered == \A c \in Clients : pc[c] # "idle" ~> pc[c] = "idle"

\* Stop returns: the loop it waits for can always finish its round.
StopReturns == proc = "stopping" ~> proc # "stopping"

-----------------------------------------------------------------------------
(***************************************************************************)
(* Statements of the repository that the code does not keep.               *)
(***************************************************************************)

\* README: migration to the profiles document is one-way.
MigrationIsOneWay ==
    [][configFile.format = "profiles" => configFile'.format = "profiles"]_vars

\* backend.go: "Reconcile converges the dataplane to the desired config".
\* After a reconcile that says ready, no gateway address of another document
\* is left on a LAN interface, but for one whose deletion failed.
ReadyMeansConverged ==
    proc = "running" /\ lock = None /\ state.reconcile = "ready" =>
        OnLan(kernel) \subseteq Config(document).networks \union lost.undeleted.addrs

\* A service with the tunnel switched off reports the state "down".
OffIsReportedDown ==
    proc = "running" /\ lock = None /\ ~document.enabled => state.reconcile = "down"

\* README: on a healthy config the daemon sends router advertisements; a
\* status of "ready" is the sign of it.
ReadyMeansAdvertising ==
    proc = "running" /\ lock = None /\ state.reconcile = "ready" /\ WantsRA(document) =>
        advertiser = document.profile
=============================================================================
