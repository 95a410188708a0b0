--------------------------- MODULE DataplaneProofs ---------------------------
(***************************************************************************)
(* What the service says and what the kernel holds: the status, the        *)
(* advertiser, the tunnel and the applied record, proved for every set of  *)
(* profiles, clients and addresses and every value of the budgets.         *)
(*                                                                         *)
(* All four are only in order at certain points of a reconcile, so the     *)
(* inductive invariant is stated by the place of the mutex holder.  It is  *)
(* weaker until the first reconcile of a process has ended: state.json may *)
(* be that of an update whose config.json was never written, and a repair  *)
(* of the health loop may come first.                                      *)
(***************************************************************************)
EXTENDS ControlServiceProofs

\* Where the call that holds the mutex is.
Holder == IF lock = None THEN "free" ELSE pc[lock]

\* The first reconcile of the process has ended.
Started == proc \notin {"off", "starting"}

\* Between the teardown and the end of a reconcile, and outside of one.
Rebuilding == BuildLabels \union {"advertise", "finish"}

Resting == {"free", "save", "restore", "repair", "repairFinish"}

\* A caller of UpdateConfigDocument holds the mutex.
Updating == frame.mode \in {"update", "rollback"}

Names(s, d) == s.enabled = d.enabled /\ s.profile = d.profile

\* What a reconcile of d leaves in the state.
Settled(s, d) ==
    /\ Names(s, d)
    /\ Wants(d) => s.applied = BuildApplied(d)
    /\ ~d.enabled => s.applied = EmptyApplied

\* No request is served, and Stop is not called, before the first reconcile,
\* and nothing runs without a process.
Begun ==
    /\ proc = "off" => \A t \in Threads : pc[t] = "idle"
    /\ \A c \in Clients : pc[c] # "idle" => Started
    /\ pc["main"] \in {"stopLock", "stopWait"} => Started

PlaceInv ==
    /\ Begun
    /\ Holder \in LockedLabels \union {"free"}
    /\ proc = "off" => Holder = "free" /\ state = stateFile
    /\ Updating => Holder # "free" /\ Started
    /\ frame.mode = "rollback" => document = frame.prevDoc
    /\ Holder = "restore" => state = frame.prevState
    /\ Holder \in BuildLabels \union {"repair", "repairFinish"} => Wants(document)
    /\ Holder = "advertise" => WantsRA(document)

StatusInv ==
    /\ Holder \in Rebuilding => Names(state, document)
    /\ Holder \in Resting /\ Started => Settled(state, document)
    /\ Updating => Settled(frame.prevState, frame.prevDoc)

AdvertiserInv ==
    /\ Holder \in BuildLabels \union {"advertise"} => advertiser = None
    /\ Holder \in Resting \union {"finish"} /\ advertiser # None =>
          WantsRA(document) /\ advertiser = document.profile

TunnelInv ==
    Holder \in Rebuilding \/ (Holder \in Resting /\ Started) =>
        /\ TunnelExists(kernel) =>
              \/ kernel.tunnel.remote = Config(document).endpoint
              \/ lost.undeleted.tunnel
        /\ ~document.enabled =>
              /\ TunnelExists(kernel) => lost.undeleted.tunnel
              /\ kernel.defaultRoute => lost.undeleted.defaultRoute

\* A build that went past its "ip tunnel add" had no old tunnel in its way.
OldTunnelInv ==
    /\ lost.undeleted.tunnel => TunnelExists(kernel)
    /\ \/ Holder \in {"link", "addr", "lan", "default", "advertise"}
       \/ Holder = "finish" /\ Wants(document) /\ "backend" \notin frame.errs
       => ~lost.undeleted.tunnel

\* What a repair may have added before the first reconcile.
Early == IF proc = "starting" /\ Wants(document) THEN Config(document).networks ELSE {}

CoverInv ==
    /\ Holder \in Rebuilding =>
          Covers(IF Wants(document) THEN BuildApplied(document) ELSE EmptyApplied, kernel)
    /\ Holder \in Resting \union {"teardown"} =>
          /\ OnLan(kernel) \subseteq state.applied.networks \union Early \union LostAddrs
          /\ kernel.routes \subseteq {state.applied.endpoint} \union LostRoutes

PlaneInv ==
    PlaceInv /\ StatusInv /\ AdvertiserInv /\ TunnelInv /\ OldTunnelInv /\ CoverInv

-----------------------------------------------------------------------------
(***************************************************************************)
(* The steps by what they do to the plane.  Each lemma states what is      *)
(* asked of a kind of step; the actions are shown to be of that kind below.*)
(***************************************************************************)
\* The status and the bookkeeping a step beside the mutex holder may change.
Kept ==
    /\ Names(state', state) /\ state'.applied = state.applied
    /\ Holder = "restore" => state' = state
    /\ proc # "off" /\ proc' # "off"
    /\ frame' = frame \/ (Holder = "free" /\ frame' = NoFrame)
    /\ proc' = proc \/ (Started /\ Started')

\* A request, a health check or a step of Stop leaves the plane as it is.
LEMMA Aside ==
    ASSUME PlaneInv, Holder' = Holder, Kept, Begun',
           UNCHANGED <<document, kernel, lost>>, advertiser' \in {advertiser, None}
    PROVE  PlaneInv'
<1>. USE DEF Kept, Started, Updating, NoFrame
<1>1. PlaceInv'
  BY DEF PlaneInv, PlaceInv, Updating, Started
<1>2. StatusInv'
  BY DEF PlaneInv, StatusInv, Settled, Names
<1>3. AdvertiserInv'
  BY DEF PlaneInv, AdvertiserInv
<1>4. TunnelInv'
  BY DEF PlaneInv, TunnelInv
<1>5. OldTunnelInv'
  BY DEF PlaneInv, OldTunnelInv
<1>6. CoverInv'
  BY DEF PlaneInv, CoverInv, Covers, Early, OnLan, LostAddrs, LostRoutes
<1>. QED  BY <1>1, <1>2, <1>3, <1>4, <1>5, <1>6 DEF PlaneInv

\* The history forgets at most what is no longer in the kernel.
LostStays ==
    /\ LostAddrs' = LostAddrs /\ LostRoutes' = LostRoutes
    /\ lost.undeleted.tunnel /\ TunnelExists(kernel') => lost'.undeleted.tunnel
    /\ lost'.undeleted.tunnel => lost.undeleted.tunnel /\ TunnelExists(kernel')
    /\ lost.undeleted.defaultRoute /\ kernel'.defaultRoute => lost'.undeleted.defaultRoute

\* Somebody else takes the tunnel or an address away.
LEMMA Disturbed ==
    ASSUME PlaneInv, UNCHANGED <<proc, memory, disk, lock, pc, frame>>, LostStays,
           OnLan(kernel') \subseteq OnLan(kernel), kernel'.routes = kernel.routes,
           kernel'.tunnel \in {kernel.tunnel, None},
           kernel'.defaultRoute => kernel.defaultRoute
    PROVE  PlaneInv'
<1>1. Holder' = Holder
  BY DEF Holder
<1>. USE <1>1 DEF memory, disk, Started, Updating
<1>2. PlaceInv'
  BY DEF PlaneInv, PlaceInv, Begun
<1>3. StatusInv'
  BY DEF PlaneInv, StatusInv
<1>4. AdvertiserInv'
  BY DEF PlaneInv, AdvertiserInv
<1>5. TunnelInv'
  BY DEF PlaneInv, TunnelInv, TunnelExists, LostStays
<1>6. OldTunnelInv'
  BY DEF PlaneInv, OldTunnelInv, LostStays
<1>7. CoverInv'
  BY DEF PlaneInv, CoverInv, Early, Covers, OnLan, LostStays
<1>. QED  BY <1>2, <1>3, <1>4, <1>5, <1>6, <1>7 DEF PlaneInv

\* A command of a build adds what the config asks for, or fails.
LEMMA Building ==
    ASSUME PlaneInv, Holder \in BuildLabels, Holder' \in Rebuilding,
           Holder' = "advertise" => WantsRA(document),
           UNCHANGED <<proc, memory, stateFile, lost>>,
           frame'.mode = frame.mode, frame'.prevDoc = frame.prevDoc,
           frame'.prevState = frame.prevState,
           Begun', OldTunnelInv',
           OnLan(kernel') \subseteq OnLan(kernel) \union Config(document).networks,
           kernel'.routes \subseteq kernel.routes \union {Config(document).endpoint},
           \/ kernel'.tunnel = kernel.tunnel
           \/ kernel'.tunnel.remote = Config(document).endpoint
    PROVE  PlaneInv'
<1>. USE DEF memory, Started, Updating, Rebuilding, Resting, BuildLabels, LockedLabels
<1>1. Wants(document) /\ document.enabled
  BY DEF PlaneInv, PlaceInv, Wants
<1>2. PlaceInv'
  BY <1>1 DEF PlaneInv, PlaceInv
<1>3. StatusInv'
  BY DEF PlaneInv, StatusInv
<1>4. AdvertiserInv'
  BY DEF PlaneInv, AdvertiserInv
<1>5. TunnelInv'
  BY <1>1 DEF PlaneInv, TunnelInv, TunnelExists
<1>6. CoverInv'
  BY <1>1 DEF PlaneInv, CoverInv, Covers, OnLan, BuildApplied, LostAddrs, LostRoutes
<1>. QED  BY <1>2, <1>3, <1>4, <1>5, <1>6 DEF PlaneInv

-----------------------------------------------------------------------------
(* The steps that leave the plane alone. *)

\* A thread that is not inside a call under the mutex is not its holder.
LEMMA NotHolder ==
    ASSUME IndInv, PlaneInv, NEW t \in Threads, pc[t] \notin LockedLabels
    PROVE  lock # t
  BY ThreadAssumption
     DEF PlaneInv, PlaceInv, Holder, Threads, IndInv, TypeOK, Labels, LockedLabels, BuildLabels

\* A step of such a thread does not move the holder.
LEMMA HolderStays ==
    ASSUME IndInv, PlaneInv, NEW t \in Threads, pc[t] \notin LockedLabels,
           NEW label, Goto(t, label), lock' = lock
    PROVE  Holder' = Holder
  BY NotHolder DEF Goto, Holder, IndInv, TypeOK

\* A call that was begun goes on.
LEMMA BegunStays ==
    ASSUME IndInv, PlaneInv, NEW t \in Threads, NEW label, Goto(t, label),
           proc' # "off", Started => Started',
           t \in Clients => label = "idle" \/ pc[t] # "idle" \/ Started,
           label \in {"stopLock", "stopWait"} => Started
    PROVE  Begun'
  BY ThreadAssumption DEF PlaneInv, PlaceInv, Begun, Goto, IndInv, TypeOK, Threads

\* Requests only change what their client is about to do.
LEMMA RequestPlane ==
    ASSUME IndInv, PlaneInv, NEW c \in Clients, Requests(c) \/ RejectUpdate(c)
    PROVE  PlaneInv'
<1>. c \in Threads /\ Clients \subseteq Threads /\ c # "main" /\ None \notin Threads
  BY ThreadAssumption DEF Threads
<1>1. CASE Requests(c)
  <2>1. PICK label \in {"lockUpdate", "lockReconcile", "hcStart"} : Begin(c) /\ Goto(c, label)
    BY <1>1 DEF Requests, MutateDocument, PutLegacy, PutProfiles, Submit, Restart, Health
  <2>2. Holder' = Holder
    BY <2>1, HolderStays DEF Begin, LockedLabels, BuildLabels
  <2>3. Begun'
    BY <2>1, BegunStays DEF Begin, Started
  <2>4. Kept
    BY <2>1 DEF Kept, Begin, Names, Started, memory, disk
  <2>. QED  BY <2>1, <2>2, <2>3, <2>4, Aside DEF Begin, memory, outside
<1>2. CASE RejectUpdate(c)
  <2>1. Holder = "free" /\ Holder' = "free"
    BY <1>2 DEF RejectUpdate, Return, Holder
  <2>2. proc' = proc /\ frame' = NoFrame /\ Goto(c, "idle")
    BY <1>2 DEF RejectUpdate, Return
  <2>3. Begun'
    BY <1>2, <2>2, BegunStays DEF RejectUpdate, Started, PlaneInv, PlaceInv, Begun
  <2>4. Kept
    BY <1>2, <2>1, <2>2 DEF Kept, RejectUpdate, Names, memory, disk, PlaneInv, PlaceInv, Begun
  <2>. QED  BY <1>2, <2>1, <2>3, <2>4, Aside DEF RejectUpdate, memory, outside
<1>. QED  BY <1>1, <1>2

\* Stop ends the advertiser and nothing else.
LEMMA StopPlane ==
    ASSUME IndInv, PlaneInv, StopBegin \/ Stopping
    PROVE  PlaneInv'
<1>. "main" \in Threads /\ "main" \notin Clients
  BY ThreadAssumption DEF Threads
<1>1. PICK label \in {"stopLock", "stopWait", "idle"} : Goto("main", label)
  BY DEF StopBegin, Stopping, StopAdvertiser, StopDone
<1>2. pc["main"] \in {"idle", "stopLock", "stopWait"} /\ lock' = lock
  BY DEF StopBegin, Stopping, StopAdvertiser, StopDone
<1>3. Holder' = Holder
  BY <1>1, <1>2, HolderStays DEF LockedLabels, BuildLabels
<1>4. Started /\ Started'
  BY DEF StopBegin, Stopping, StopAdvertiser, StopDone, Started, PlaneInv, PlaceInv, Begun
<1>5. Begun'
  BY <1>1, <1>4, BegunStays DEF Started
<1>6. Kept
  BY <1>4 DEF Kept, StopBegin, Stopping, StopAdvertiser, StopDone, Names, Started, memory, disk
<1>. QED  BY <1>3, <1>5, <1>6, Aside
     DEF StopBegin, Stopping, StopAdvertiser, StopDone, memory, outside

\* A health check only changes the parts of the status it is about.
LEMMA CheckPlane ==
    ASSUME IndInv, PlaneInv, NEW t \in Threads,
           HcSnapshot(t) \/ HcObserve(t) \/ HcProbe(t) \/ HcApply(t)
    PROVE  PlaneInv'
<1>1. PICK label \in Labels \ {"stopLock", "stopWait"} : Goto(t, label)
  BY DEF HcSnapshot, HcObserve, HcProbe, HcApply, Recovery, Labels
<1>2. pc[t] \in {"hcStart", "hcObserve", "hcProbe", "hcApply"} /\ lock' = lock
  BY DEF HcSnapshot, HcObserve, HcProbe, HcApply
<1>3. Holder' = Holder
  BY <1>1, <1>2, HolderStays DEF LockedLabels, BuildLabels
<1>4. proc' = proc /\ frame' = frame /\ proc # "off"
  BY <1>2 DEF HcSnapshot, HcObserve, HcProbe, HcApply, PlaneInv, PlaceInv, Begun
<1>5. Begun'
  BY <1>1, <1>2, <1>4, BegunStays DEF Started
<1>6. Kept
  <2>1. CASE UNCHANGED <<state, stateFile>>
    BY <1>4, <2>1 DEF Kept, Names
  <2>2. CASE HcApply(t)
    <3>1. Holder = "free" /\ state' = CheckedState(hc[t], state)
      BY <2>2 DEF HcApply, Holder
    <3>. QED  BY <1>4, <3>1 DEF Kept, CheckedState, Names, IndInv, TypeOK, StateDocument
  <2>. QED  BY <2>1, <2>2 DEF HcSnapshot, HcObserve, HcProbe, memory, disk
<1>. QED  BY <1>3, <1>5, <1>6, Aside
     DEF HcSnapshot, HcObserve, HcProbe, HcApply, memory, outside

\* The timer of the health loop, and a repair that has become pointless.
LEMMA LoopPlane ==
    ASSUME IndInv, PlaneInv,
           Tick \/ LoopExit \/ (AcquireRepair("loop") /\ ~Wants(document))
    PROVE  PlaneInv'
<1>. "loop" \in Threads /\ "loop" \notin Clients /\ "loop" # "main"
  BY ThreadAssumption DEF Threads
<1>1. PICK label \in {"lockReconcile", "hcStart", "done", "idle"} : Goto("loop", label)
  BY DEF Tick, LoopExit, AcquireRepair
<1>2. /\ pc["loop"] \in {"idle", "lockRepair"}
      /\ UNCHANGED <<proc, memory, disk, outside, lock, frame, lost>>
  BY DEF Tick, LoopExit, AcquireRepair
<1>3. Holder' = Holder
  BY <1>1, <1>2, HolderStays DEF LockedLabels, BuildLabels
<1>4. proc # "off"
  BY DEF Tick, LoopExit, AcquireRepair, PlaneInv, PlaceInv, Begun
<1>5. Begun'
  BY <1>1, <1>2, <1>4, BegunStays DEF Started
<1>6. Kept
  BY <1>2, <1>4 DEF Kept, Names, memory, disk
<1>. QED  BY <1>2, <1>3, <1>5, <1>6, Aside DEF memory, outside

-----------------------------------------------------------------------------
(* Changes from outside. *)

\* An outsider only takes away from the kernel.
LEMMA OutsidePlane ==
    ASSUME IndInv, PlaneInv, Environment
    PROVE  PlaneInv'
<1>. USE DEF Disturb, IndInv, TypeOK, Kernel
<1>0. LostStays
  <2>1. lost' = LostOutside(kernel')
    BY DEF Environment, LoseTunnel, LoseAddress, WanChange
  <2>2. /\ lost'.unlisted = lost.unlisted
        /\ lost'.undeleted.addrs = lost.undeleted.addrs
        /\ lost'.undeleted.routes = lost.undeleted.routes
        /\ lost'.undeleted.tunnel = (lost.undeleted.tunnel /\ TunnelExists(kernel'))
        /\ lost'.undeleted.defaultRoute
              = (lost.undeleted.defaultRoute /\ kernel'.defaultRoute)
    BY <2>1 DEF LostOutside, Lost, Leftover
  <2>. QED  BY <2>2 DEF LostStays, LostAddrs, LostRoutes
<1>1. CASE LoseTunnel
  <2>1. kernel' = DropTunnel(kernel)
    BY <1>1 DEF LoseTunnel
  <2>2. OnLan(kernel') \subseteq OnLan(kernel)
    BY <2>1 DEF DropTunnel, SetAddrs, OnLan, Addresses
  <2>. QED  BY <1>0, <1>1, <2>1, <2>2, Disturbed DEF LoseTunnel, DropTunnel, SetAddrs
<1>2. CASE LoseAddress
  <2>1. PICK a \in Addresses, s \in {"missing", "unhealthy"} :
            kernel.addr[a] = "healthy" /\ kernel' = SetAddrs(kernel, {a}, s)
    BY <1>2 DEF LoseAddress
  <2>2. OnLan(kernel') \subseteq OnLan(kernel)
    BY <2>1 DEF SetAddrs, OnLan, Addresses
  <2>. QED  BY <1>0, <1>2, <2>1, <2>2, Disturbed DEF LoseAddress, SetAddrs
<1>3. CASE WanChange
  BY <1>0, <1>3, Disturbed DEF WanChange
<1>. QED  BY <1>1, <1>2, <1>3 DEF Environment

-----------------------------------------------------------------------------
(* The mutex holder. *)

\* The holder is where its thread is.
LEMMA HolderMoves ==
    ASSUME IndInv, NEW t \in Threads, NEW label, Goto(t, label), lock' = t
    PROVE  Holder' = label
  BY ThreadAssumption DEF Goto, Holder, IndInv, TypeOK, Threads

\* A thread at a label under the mutex is the holder there.
LEMMA HolderAt ==
    ASSUME NEW t \in Threads, NEW label, Holds(t, label)
    PROVE  Holder = label
  BY ThreadAssumption DEF Holds, Holder, Threads

\* While a call is under way its process and its caller are there.
LEMMA CallGoesOn ==
    ASSUME IndInv, PlaneInv, NEW t \in Threads, NEW label, Goto(t, label),
           label \notin {"stopLock", "stopWait"}, pc[t] # "idle", Started => Started', proc' # "off"
    PROVE  Begun' /\ proc # "off"
  BY BegunStays DEF PlaneInv, PlaceInv, Begun

\* Taking the mutex for a reconcile, an update or a repair.
LEMMA AcquirePlane ==
    ASSUME IndInv, PlaneInv, NEW t \in Threads,
           \/ t \in Clients /\ AcceptUpdate(t)
           \/ AcquireReconcile(t)
           \/ AcquireRepair(t) /\ Wants(document)
    PROVE  PlaneInv'
<1>. USE DEF Rebuilding, Resting, BuildLabels, LockedLabels, memory, disk, outside
<1>1. PICK label \in {"teardown", "repair"} :
        /\ Goto(t, label) /\ lock' = t /\ lock = None
        /\ label = "repair" => AcquireRepair(t) /\ Wants(document) /\ frame'.mode = "repair"
        /\ UNCHANGED <<proc, state, stateFile, advertiser, kernel, lost>>
        /\ pc[t] \in {"lockUpdate", "lockReconcile", "lockRepair"}
  BY DEF AcceptUpdate, AcquireReconcile, AcquireRepair, NoFrame
<1>2. Holder = "free" /\ Holder' = label /\ Begun' /\ proc # "off"
  BY <1>1, HolderMoves, CallGoesOn DEF Holder, Started, PlaneInv, PlaceInv, Begun
<1>3. \/ document' = document /\ ~Updating'
      \/ /\ Started /\ Started' /\ frame'.mode = "update" /\ label = "teardown"
         /\ frame'.prevDoc = document /\ frame'.prevState = state
  <2>1. CASE t \in Clients /\ AcceptUpdate(t)
    BY <1>1, <2>1 DEF AcceptUpdate, NoFrame, Started, PlaneInv, PlaceInv, Begun
  <2>. QED  BY <2>1 DEF AcquireReconcile, AcquireRepair, NoFrame, Updating
<1>4. PlaceInv'
  BY <1>1, <1>2, <1>3 DEF PlaceInv, Updating, Started, AcquireRepair
<1>5. StatusInv'
  BY <1>1, <1>2, <1>3 DEF PlaneInv, StatusInv, Updating, Started, AcquireRepair
<1>6. AdvertiserInv'
  BY <1>1, <1>2, <1>3 DEF PlaneInv, AdvertiserInv, AcquireRepair
<1>7. TunnelInv'
  BY <1>1, <1>2, <1>3 DEF PlaneInv, TunnelInv, Started, AcquireRepair
<1>8. OldTunnelInv'
  BY <1>1, <1>2 DEF PlaneInv, OldTunnelInv
<1>9. CoverInv'
  BY <1>1, <1>2, <1>3
     DEF PlaneInv, CoverInv, Early, OnLan, Started, AcquireRepair, LostAddrs, LostRoutes
<1>. QED  BY <1>4, <1>5, <1>6, <1>7, <1>8, <1>9 DEF PlaneInv

\* The history of what could not be deleted, and of what the record did not
\* list, after a teardown.
LostAddrsAfter(a, left) == left.addrs \union (LostAddrs \ a.networks)
LostRoutesAfter(a, left) == left.routes \union (LostRoutes \ {a.endpoint})

\* The teardown removes the tunnel and everything the record covers, but for
\* what a deletion failed for.
LEMMA TeardownRemoves ==
    ASSUME NEW k \in Kernel, NEW a \in Applied, NEW left \in Undeletable(k, a), NEW extra
    PROVE  /\ TunnelExists(Teardown(k, a, left)) <=> left.tunnel
           /\ Teardown(k, a, left).defaultRoute => left.defaultRoute
           /\ OnLan(k) \subseteq a.networks \union extra \union LostAddrs =>
                 OnLan(Teardown(k, a, left)) \subseteq extra \union LostAddrsAfter(a, left)
           /\ k.routes \subseteq {a.endpoint} \union LostRoutes =>
                 Teardown(k, a, left).routes \subseteq LostRoutesAfter(a, left)
<1>. DEFINE rest == DropRecorded(k, a, left)
            after == Teardown(k, a, left)
<1>1. left \in Leftover /\ (left.tunnel => TunnelExists(k))
  BY DEF Undeletable
<1>2. /\ rest \in Kernel /\ rest.tunnel = k.tunnel
      /\ rest.routes = (k.routes \ {a.endpoint}) \union left.routes
  BY <1>1 DEF DropRecorded, SetAddrs, Kernel, Leftover, AddrState
<1>3. OnLan(rest) \subseteq OnLan(k) \ (a.networks \ left.addrs)
  BY DEF DropRecorded, SetAddrs, Kernel, OnLan, Addresses
<1>. HIDE DEF rest
<1>4. /\ after.routes = rest.routes /\ OnLan(after) \subseteq OnLan(rest)
      /\ TunnelExists(after) <=> left.tunnel
      /\ after.defaultRoute => left.defaultRoute
  <2>1. CASE left.tunnel
    BY <1>1, <1>2, <2>1 DEF Teardown, rest, Kernel, OnLan, TunnelExists
  <2>2. CASE ~left.tunnel
    <3>1. after = DropTunnel(rest)
      BY <2>2 DEF Teardown, rest
    <3>. QED  BY <1>2, <2>2, <3>1 DEF DropTunnel, SetAddrs, Kernel, OnLan, TunnelExists, Addresses
  <2>. QED  BY <2>1, <2>2
<1>. HIDE DEF after
<1>5. OnLan(k) \subseteq a.networks \union extra \union LostAddrs =>
          OnLan(after) \subseteq extra \union LostAddrsAfter(a, left)
  BY <1>3, <1>4 DEF LostAddrsAfter
<1>6. k.routes \subseteq {a.endpoint} \union LostRoutes =>
          after.routes \subseteq LostRoutesAfter(a, left)
  BY <1>2, <1>4 DEF LostRoutesAfter
<1>. QED  BY <1>4, <1>5, <1>6 DEF after

\* The teardown leaves nothing of the last configuration but what its
\* deletions failed for (SystemBackend.teardown).
LEMMA TeardownPlane ==
    ASSUME IndInv, PlaneInv, NEW t \in Threads, TeardownStep(t)
    PROVE  PlaneInv'
<1>. USE DEF Rebuilding, Resting, BuildLabels, LockedLabels, memory, disk
<1>1. Holder = "teardown" /\ pc[t] = "teardown"
  BY HolderAt DEF TeardownStep, Holds
<1>2. PICK label \in {"wan", "finish"} :
        Goto(t, label) /\ (label = "wan" <=> Wants(document)) /\ lock' = t
  BY DEF TeardownStep, Holds
<1>3. Holder' = label /\ Begun' /\ proc # "off"
  BY <1>1, <1>2, HolderMoves, CallGoesOn DEF TeardownStep, Started, PlaneInv, PlaceInv, Begun
<1>4. PICK left \in Undeletable(kernel, state.applied) :
        /\ kernel' = Teardown(kernel, state.applied, left)
        /\ lost' = LostInTeardown(state.applied, left)
  BY DEF TeardownStep
<1>. state' = ReconcilingState(document, state) /\ left \in Leftover
  BY <1>4 DEF TeardownStep, Undeletable
<1>. /\ kernel \in Kernel /\ state.applied \in Applied /\ lost \in Lost
  BY DEF IndInv, TypeOK, StateDocument
<1>10. /\ lost'.undeleted.tunnel = left.tunnel
       /\ lost'.undeleted.defaultRoute = left.defaultRoute
       /\ LostAddrs' = LostAddrsAfter(state.applied, left)
       /\ LostRoutes' = LostRoutesAfter(state.applied, left)
  BY <1>4 DEF LostInTeardown, Lost, Leftover, LostAddrs, LostRoutes, LostAddrsAfter,
              LostRoutesAfter
<1>5. PlaceInv'
  BY <1>1, <1>2, <1>3 DEF TeardownStep, PlaneInv, PlaceInv, Updating, Started
<1>6. StatusInv'
  BY <1>1, <1>2, <1>3, <1>4
     DEF TeardownStep, PlaneInv, StatusInv, Updating, ReconcilingState, Names, IndInv, TypeOK,
         StateDocument
<1>7. AdvertiserInv'
  BY <1>2, <1>3 DEF TeardownStep, AdvertiserInv
<1>8. TunnelInv'
  BY <1>3, <1>4, <1>10, TeardownRemoves DEF TeardownStep, TunnelInv
<1>11. OldTunnelInv'
  BY <1>2, <1>3, <1>4, <1>10, TeardownRemoves DEF TeardownStep, OldTunnelInv
<1>9. CoverInv'
  <2>1. /\ OnLan(kernel) \subseteq state.applied.networks \union Early \union LostAddrs
        /\ kernel.routes \subseteq {state.applied.endpoint} \union LostRoutes
    BY <1>1 DEF PlaneInv, CoverInv
  <2>2. OnLan(kernel') \subseteq Early \union LostAddrs' /\ kernel'.routes \subseteq LostRoutes'
    BY <1>4, <1>10, <2>1, TeardownRemoves
  <2>3. document' = document /\ Holder' \in Rebuilding /\ Holder' \notin Resting \union {"teardown"}
    BY <1>3 DEF TeardownStep
  <2>4. Early = {} \/ (Wants(document) /\ Early = Config(document).networks)
    BY DEF Early
  <2>5. Covers(IF Wants(document) THEN BuildApplied(document) ELSE EmptyApplied, kernel)'
    BY <2>2, <2>3, <2>4 DEF Covers, BuildApplied, EmptyApplied
  <2>. QED  BY <2>3, <2>5 DEF CoverInv
<1>. QED  BY <1>5, <1>6, <1>7, <1>8, <1>9, <1>11 DEF PlaneInv

-----------------------------------------------------------------------------
(* The commands of a build. *)

\* Adding addresses, all of them or until a command fails, adds no others.
LEMMA EnsureAdds ==
    ASSUME NEW k \in Kernel, NEW A
    PROVE  /\ OnLan(EnsureAddresses(k, A)) \subseteq OnLan(k) \union (A \intersect LanAddrs)
           /\ EnsureAddresses(k, A).routes = k.routes
           /\ EnsureAddresses(k, A).tunnel = k.tunnel
           /\ EnsureAddresses(k, A).defaultRoute = k.defaultRoute
  BY DEF Kernel, EnsureAddresses, SetAddrs, OnLan, Addresses

\* An ensure that stops half way has added only what it was asked for.
LEMMA PartlyEnsureAdds ==
    ASSUME NEW k \in Kernel, NEW A, NEW k2 \in PartlyEnsured(k, A)
    PROVE  /\ OnLan(k2) \subseteq OnLan(k) \union (A \intersect LanAddrs)
           /\ k2.routes = k.routes /\ k2.tunnel = k.tunnel
           /\ k2.defaultRoute = k.defaultRoute
<1>1. PICK done \in SUBSET A, gone \in SUBSET A : k2 = SetAddrs(EnsureAddresses(k, done), gone, "missing")
  BY DEF PartlyEnsured
<1>2. EnsureAddresses(k, done) \in Kernel
  BY SetAddrsType DEF EnsureAddresses, AddrState
<1>3. OnLan(k2) \subseteq OnLan(EnsureAddresses(k, done))
  BY <1>1, <1>2 DEF SetAddrs, OnLan, Addresses, Kernel
<1>4. /\ k2.routes = EnsureAddresses(k, done).routes
      /\ k2.tunnel = EnsureAddresses(k, done).tunnel
      /\ k2.defaultRoute = EnsureAddresses(k, done).defaultRoute
  BY <1>1, <1>2 DEF SetAddrs, Kernel
<1>. QED  BY <1>3, <1>4, EnsureAdds

\* The addresses of a config on the LAN are those of its networks.
LEMMA ManagedOnLan ==
    ASSUME NEW d \in Document
    PROVE  /\ {Config(d).localIPv6} \intersect LanAddrs = {}
           /\ Managed(d) \intersect LanAddrs \subseteq Config(d).networks
  BY AddressAssumption, ConfigType DEF ProfileConfigs, Managed

\* What a command of the build, failing or not, does to the kernel.
BuildsOn(k2) ==
    /\ OnLan(k2) \subseteq OnLan(kernel) \union Config(document).networks
    /\ k2.routes \subseteq kernel.routes \union {Config(document).endpoint}
    /\ k2.tunnel = kernel.tunnel \/ k2.tunnel.remote = Config(document).endpoint

\* What a command of a build may have done to the kernel.
LEMMA BuildKernel ==
    ASSUME IndInv, NEW t \in Threads,
           \/ ReadWan(t) \/ BuildRoute(t) \/ BuildTunnel(t) \/ BuildLink(t)
           \/ BuildAddr(t) \/ BuildLan(t) \/ BuildDefault(t) \/ BuildFails(t)
    PROVE  BuildsOn(kernel')
<1>. kernel \in Kernel /\ document \in Document
  BY DEF IndInv, TypeOK
<1>1. CASE ReadWan(t)
  BY <1>1 DEF ReadWan, BuildStep, BuildsOn
<1>2. CASE BuildRoute(t) \/ BuildTunnel(t) \/ BuildLink(t) \/ BuildDefault(t)
  BY <1>2 DEF BuildRoute, BuildTunnel, BuildLink, BuildDefault, BuildStep, AddRoute, AddTunnel,
              LinkUp, AddDefaultRoute, Kernel, BuildsOn, OnLan
<1>3. CASE BuildAddr(t) \/ BuildLan(t)
  <2>1. PICK A : kernel' = EnsureAddresses(kernel, A) /\ A \in {{Config(document).localIPv6}, Config(document).networks}
    BY <1>3 DEF BuildAddr, BuildLan, BuildStep
  <2>. QED  BY <2>1, EnsureAdds, ManagedOnLan DEF BuildsOn
<1>4. CASE BuildFails(t)
  <2>1. CASE kernel' = kernel
    BY <2>1 DEF BuildsOn
  <2>2. CASE \E A \in {{Config(document).localIPv6}, Config(document).networks} :
                kernel' \in PartlyEnsured(kernel, A)
    BY <2>2, PartlyEnsureAdds, ManagedOnLan DEF BuildsOn
  <2>. QED  BY <1>4, <2>1, <2>2 DEF BuildFails, PartlyBuilt
<1>. QED  BY <1>1, <1>2, <1>3, <1>4

\* A build puts up what the document asks for and nothing else (ReconcileState).
LEMMA BuildPlane ==
    ASSUME IndInv, PlaneInv, NEW t \in Threads,
           \/ ReadWan(t) \/ BuildRoute(t) \/ BuildTunnel(t) \/ BuildLink(t)
           \/ BuildAddr(t) \/ BuildLan(t) \/ BuildDefault(t) \/ BuildFails(t)
    PROVE  PlaneInv'
<1>1. PICK label \in BuildLabels, then \in Rebuilding :
        /\ Holds(t, label) /\ Goto(t, then) /\ lock' = lock
        /\ then = "advertise" => WantsRA(document)
        /\ UNCHANGED <<proc, memory, stateFile, lost>>
        /\ \/ frame' = frame
           \/ \E ip : frame' = [frame EXCEPT !.wanIP = ip]
           \/ \E e : frame' = [frame EXCEPT !.errs = e]
  <2>1. CASE BuildFails(t)
    BY <2>1 DEF BuildFails, Rebuilding, disk
  <2>. QED  BY <2>1 DEF ReadWan, BuildRoute, BuildTunnel, BuildLink, BuildAddr, BuildLan,
            BuildDefault, BuildStep, Rebuilding, BuildLabels, disk
<1>2. Holder = label /\ Holder' = then
  BY <1>1, HolderAt, HolderMoves DEF Holds
<1>3. Begun'
  BY <1>1, CallGoesOn
     DEF Holds, Rebuilding, BuildLabels, Started, PlaneInv, PlaceInv, Begun
<1>4. /\ frame'.mode = frame.mode /\ frame'.prevDoc = frame.prevDoc
      /\ frame'.prevState = frame.prevState
  BY <1>1 DEF IndInv, TypeOK, Frame
<1>5. BuildsOn(kernel')
  BY BuildKernel
<1>6. OldTunnelInv'
  <2>1. lost.undeleted.tunnel => TunnelExists(kernel)
    BY DEF PlaneInv, OldTunnelInv
  <2>2. CASE BuildFails(t)
    <3>1. then = "finish" /\ "backend" \in frame'.errs
      BY <1>1, <1>2, <2>2, HolderMoves DEF BuildFails, Holds, IndInv, TypeOK, Frame
    <3>2. kernel'.tunnel = kernel.tunnel
      BY <2>2, PartlyEnsureAdds
         DEF BuildFails, PartlyBuilt, IndInv, TypeOK
    <3>. QED  BY <1>1, <1>2, <2>1, <3>1, <3>2 DEF OldTunnelInv, TunnelExists
  <2>3. CASE ReadWan(t) \/ BuildRoute(t)
    <3>1. kernel'.tunnel = kernel.tunnel /\ then \in {"route", "tunnel"}
      BY <1>1, <1>2, <2>3, HolderMoves
         DEF ReadWan, BuildRoute, BuildStep, AddRoute, Holds, IndInv, TypeOK, Kernel
    <3>. QED  BY <1>1, <1>2, <2>1, <3>1 DEF OldTunnelInv, TunnelExists
  <2>4. CASE BuildTunnel(t)
    BY <1>1, <2>1, <2>4 DEF BuildTunnel, OldTunnelInv
  <2>5. CASE BuildLink(t) \/ BuildAddr(t) \/ BuildLan(t) \/ BuildDefault(t)
    <3>1. label \in {"link", "addr", "lan", "default"}
      BY <1>1, <2>5 DEF BuildLink, BuildAddr, BuildLan, BuildDefault, BuildStep, Holds
    <3>. QED  BY <1>1, <1>2, <3>1 DEF PlaneInv, OldTunnelInv
  <2>. QED  BY <2>2, <2>3, <2>4, <2>5
<1>. QED  BY <1>1, <1>2, <1>3, <1>4, <1>5, <1>6, Building DEF BuildsOn

\* The advertiser is started for the desired profile or not at all.
LEMMA AdvertisePlane ==
    ASSUME IndInv, PlaneInv, NEW t \in Threads, StartAdvertiser(t)
    PROVE  PlaneInv'
<1>. USE DEF Rebuilding, Resting, BuildLabels, LockedLabels, disk, outside
<1>1. Holder = "advertise" /\ Goto(t, "finish") /\ lock' = t /\ pc[t] = "advertise"
  BY HolderAt DEF StartAdvertiser, Holds
<1>2. Holder' = "finish" /\ Begun'
  BY <1>1, HolderMoves, CallGoesOn DEF StartAdvertiser, Started, PlaneInv, PlaceInv, Begun
<1>3. UNCHANGED <<proc, document, state, stateFile, kernel, lost>>
  BY DEF StartAdvertiser
<1>4. /\ frame'.mode = frame.mode /\ frame'.prevDoc = frame.prevDoc
      /\ frame'.prevState = frame.prevState
  BY DEF StartAdvertiser, IndInv, TypeOK, Frame
<1>. USE <1>1, <1>2, <1>3, <1>4
<1>5. PlaceInv'
  BY DEF PlaneInv, PlaceInv, Updating, Started
<1>6. StatusInv'
  BY DEF PlaneInv, StatusInv, Updating
<1>7. AdvertiserInv'
  BY DEF StartAdvertiser, PlaneInv, PlaceInv, AdvertiserInv
<1>8. TunnelInv'
  BY DEF PlaneInv, TunnelInv
<1>9. OldTunnelInv'
  BY DEF PlaneInv, OldTunnelInv
<1>10. CoverInv'
  BY DEF PlaneInv, CoverInv, Covers, LostAddrs, LostRoutes
<1>. QED  BY <1>5, <1>6, <1>7, <1>8, <1>9, <1>10 DEF PlaneInv

-----------------------------------------------------------------------------
(* The end of a reconcile, and of the call it was made for. *)

\* The state a reconcile ends with names the config and covers the kernel.
LEMMA FinalSettles ==
    ASSUME IndInv, PlaneInv, Holder = "finish", NEW bad
    PROVE  /\ Settled(FinalState(bad), document)
           /\ Covers(FinalState(bad).applied, kernel)
<1>. /\ state \in StateDocument /\ document \in Document /\ kernel \in Kernel
     /\ document.enabled \in BOOLEAN
  BY DEF IndInv, TypeOK, Document
<1>1. /\ FinalState(bad).enabled = state.enabled
      /\ FinalState(bad).profile = state.profile
      /\ FinalState(bad).applied = FinalApplied(document, state, frame.errs)
  BY DEF FinalState, StateDocument
<1>2. Names(state, document)
  BY DEF PlaneInv, StatusInv, Rebuilding
<1>3. /\ Wants(document) => FinalApplied(document, state, frame.errs) = BuildApplied(document)
      /\ ~document.enabled => FinalApplied(document, state, frame.errs) = EmptyApplied
  BY DEF FinalApplied, Wants
<1>4. Covers(FinalApplied(document, state, frame.errs), kernel)
  <2>2. Covers(IF Wants(document) THEN BuildApplied(document) ELSE EmptyApplied, kernel)
    BY DEF PlaneInv, CoverInv, Rebuilding
  <2>3. CASE Wants(document)
    BY <1>3, <2>2, <2>3
  <2>4. CASE ~Wants(document)
    BY <2>2, <2>4, NoneAssumption DEF Covers, EmptyApplied, Kernel
  <2>. QED  BY <2>3, <2>4
<1>. QED  BY <1>1, <1>2, <1>3, <1>4 DEF Settled, Names

\* A reconcile ends with the state it is to end with.
LEMMA Finishes ==
    ASSUME IndInv, PlaneInv, Holder = "finish", Holder' \in {"free", "save"}, Begun',
           NEW bad, state' = FinalState(bad), proc' # "off",
           UNCHANGED <<document, advertiser, kernel, lost>>,
           \/ frame' = frame /\ Holder' = "save" /\ proc' = proc
           \/ frame' = NoFrame
    PROVE  PlaneInv'
<1>. USE DEF Rebuilding, Resting, BuildLabels, LockedLabels
<1>1. PlaceInv'
  BY DEF PlaneInv, PlaceInv, Updating, Started, NoFrame
<1>2. StatusInv'
  BY FinalSettles DEF PlaneInv, StatusInv, Updating, NoFrame
<1>3. AdvertiserInv'
  BY DEF PlaneInv, AdvertiserInv
<1>4. TunnelInv'
  BY DEF PlaneInv, TunnelInv
<1>5. OldTunnelInv'
  BY DEF PlaneInv, OldTunnelInv
<1>6. CoverInv'
  BY FinalSettles DEF PlaneInv, CoverInv, Covers, OnLan, LostAddrs, LostRoutes
<1>. QED  BY <1>1, <1>2, <1>3, <1>4, <1>5, <1>6 DEF PlaneInv

\* A call that returns gives up the mutex.
LEMMA ReturnFrees ==
    ASSUME IndInv, PlaneInv, NEW t \in Threads, NEW answer, Return(t, answer), pc[t] # "idle"
    PROVE  Holder' = "free" /\ Begun' /\ proc' # "off" /\ frame' = NoFrame
           /\ (proc' = proc \/ Started')
<1>1. Holder' = "free" /\ frame' = NoFrame /\ Goto(t, "idle")
  BY DEF Return, Holder
<1>2. proc # "off"
  BY DEF PlaneInv, PlaceInv, Begun
<1>3. proc' # "off" /\ (proc' = proc \/ Started')
  BY <1>2 DEF Return, Started
<1>. QED  BY <1>1, <1>3, CallGoesOn DEF Started

\* An older record and the history together cover the kernel again.
LEMMA RecordIsBehind ==
    ASSUME IndInv, NEW applied, lost' = LostFromRecord(applied), NEW extra
    PROVE  /\ OnLan(kernel) \subseteq applied.networks \union extra \union LostAddrs'
           /\ kernel.routes \subseteq {applied.endpoint} \union LostRoutes'
  BY DEF LostFromRecord, IndInv, TypeOK, Lost, LostAddrs, LostRoutes

\* The rollback starts over with the clones, and notes what they do not cover.
LEMMA RollsBack ==
    ASSUME IndInv, PlaneInv, NEW t \in Threads, lock = t, pc[t] # "idle",
           BeginRollback(t), frame.mode = "update", UNCHANGED <<advertiser, kernel>>
    PROVE  PlaneInv'
<1>. USE DEF Rebuilding, Resting, BuildLabels, LockedLabels
<1>1. Holder' = "teardown" /\ Begun'
  BY HolderMoves, CallGoesOn DEF BeginRollback, Started, PlaneInv, PlaceInv, Begun
<1>2. /\ frame'.mode = "rollback" /\ frame'.prevDoc = frame.prevDoc
      /\ frame'.prevState = frame.prevState
      /\ state' = frame.prevState /\ document' = frame.prevDoc /\ proc' = proc
      /\ lost' = LostFromRecord(frame.prevState.applied)
  BY DEF BeginRollback, IndInv, TypeOK, Frame
<1>3. Started
  BY DEF PlaneInv, PlaceInv, Updating
<1>4. PlaceInv'
  BY <1>1, <1>2, <1>3 DEF PlaceInv, Updating, Started
<1>5. StatusInv'
  BY <1>1, <1>2 DEF PlaneInv, StatusInv, Updating
<1>6. AdvertiserInv' /\ TunnelInv'
  BY <1>1 DEF AdvertiserInv, TunnelInv
<1>7. lost'.undeleted = lost.undeleted
  BY <1>2 DEF LostFromRecord, IndInv, TypeOK, Lost
<1>8. OldTunnelInv'
  BY <1>1, <1>7 DEF PlaneInv, OldTunnelInv
<1>9. CoverInv'
  BY <1>1, <1>2, RecordIsBehind DEF CoverInv
<1>. QED  BY <1>4, <1>5, <1>6, <1>8, <1>9 DEF PlaneInv

\* The end of a reconcile settles the state, saves it and returns (reconcileLocked).
LEMMA FinishPlane ==
    ASSUME IndInv, PlaneInv, NEW t \in Threads,
           FinishPlain(t) \/ FinishUpdate(t) \/ FinishRollback(t)
    PROVE  PlaneInv'
<1>1. PICK mode \in {"plain", "update", "rollback"}, bad \in SUBSET FinishFailures :
        /\ Finish(t, mode, bad)
        /\ \/ /\ state' = FinalState(bad) /\ UNCHANGED <<document, lost>>
              /\ \/ \E answer : Return(t, answer)
                 \/ Goto(t, "save") /\ UNCHANGED <<proc, lock, frame>>
           \/ mode = "update" /\ BeginRollback(t)
           \/ /\ mode = "rollback" /\ state' = frame.prevState /\ Goto(t, "restore")
              /\ UNCHANGED <<proc, document, lost, lock, frame>>
  <2>1. CASE FinishPlain(t)
    BY <2>1 DEF FinishPlain
  <2>2. CASE FinishUpdate(t)
    BY <2>2 DEF FinishUpdate
  <2>3. CASE FinishRollback(t)
    BY <2>3 DEF FinishRollback
  <2>. QED  BY <2>1, <2>2, <2>3
<1>2. /\ Holder = "finish" /\ lock = t /\ pc[t] = "finish" /\ frame.mode = mode
      /\ UNCHANGED <<advertiser, kernel>>
  BY <1>1, HolderAt DEF Finish, Holds, outside
<1>3. proc # "off"
  BY <1>2 DEF PlaneInv, PlaceInv
<1>4. CASE state' = FinalState(bad) /\ UNCHANGED <<document, lost>> /\ \E answer : Return(t, answer)
  BY <1>2, <1>4, ReturnFrees, Finishes
<1>5. CASE /\ state' = FinalState(bad) /\ UNCHANGED <<document, lost>>
           /\ Goto(t, "save") /\ UNCHANGED <<proc, lock, frame>>
  BY <1>2, <1>3, <1>5, HolderMoves, CallGoesOn, Finishes DEF Started
<1>6. CASE mode = "update" /\ BeginRollback(t)
  BY <1>2, <1>6, RollsBack
<1>7. CASE /\ mode = "rollback" /\ state' = frame.prevState /\ Goto(t, "restore")
           /\ UNCHANGED <<proc, document, lost, lock, frame>>
  <2>. USE DEF Rebuilding, Resting, BuildLabels, LockedLabels
  <2>1. Holder' = "restore" /\ Begun'
    BY <1>2, <1>3, <1>7, HolderMoves, CallGoesOn DEF Started
  <2>2. Updating /\ Started /\ document = frame.prevDoc /\ Settled(frame.prevState, document)
    BY <1>2, <1>7 DEF PlaneInv, PlaceInv, StatusInv, Updating
  <2>3. PlaceInv'
    BY <1>2, <1>7, <2>1, <2>2 DEF PlaceInv, Updating, Started
  <2>4. StatusInv'
    BY <1>2, <1>7, <2>1, <2>2 DEF StatusInv, Updating
  <2>5. AdvertiserInv'
    BY <1>2, <1>7, <2>1 DEF PlaneInv, AdvertiserInv
  <2>6. TunnelInv'
    BY <1>2, <1>7, <2>1 DEF PlaneInv, TunnelInv
  <2>8. OldTunnelInv'
    BY <1>2, <1>7, <2>1 DEF PlaneInv, OldTunnelInv
  <2>7. CoverInv'
    <3>1. SUFFICES Covers(frame.prevState.applied, kernel)
      BY <1>2, <1>7, <2>1 DEF CoverInv, Covers, OnLan, LostAddrs, LostRoutes
    <3>2. Covers(IF Wants(document) THEN BuildApplied(document) ELSE EmptyApplied, kernel)
      BY <1>2 DEF PlaneInv, CoverInv
    <3>3. CASE Wants(document)
      BY <2>2, <3>2, <3>3 DEF Settled
    <3>4. CASE ~Wants(document)
      BY <3>2, <3>4, NoneAssumption DEF Covers, EmptyApplied, Kernel, IndInv, TypeOK
    <3>. QED  BY <3>3, <3>4
  <2>. QED  BY <2>3, <2>4, <2>5, <2>6, <2>7, <2>8 DEF PlaneInv
<1>. QED  BY <1>1, <1>4, <1>5, <1>6, <1>7

\* SaveDocument and SaveState, the last steps of an update and of its rollback.
LEMMA SavePlane ==
    ASSUME IndInv, PlaneInv, NEW t \in Threads, Save(t) \/ Restore(t)
    PROVE  PlaneInv'
<1>1. /\ Holder \in {"save", "restore"} /\ lock = t /\ pc[t] \in {"save", "restore"}
      /\ UNCHANGED <<advertiser, kernel>>
  BY HolderAt DEF Save, Restore, Holds, memory, outside
<1>2. CASE Save(t) /\ BeginRollback(t)
  <2>1. frame.mode = "update"
    BY <1>2, ThreadAssumption DEF Save, Holds, IndInv, DesiredInv, Threads
  <2>. QED  BY <1>1, <1>2, <2>1, RollsBack
<1>3. CASE \E answer : Return(t, answer) /\ UNCHANGED <<document, state, lost>>
  <2>. USE DEF Rebuilding, Resting, BuildLabels, LockedLabels
  <2>1. /\ Holder' = "free" /\ Begun' /\ proc' # "off" /\ frame' = NoFrame
        /\ proc' = proc \/ Started'
    BY <1>1, <1>3, ReturnFrees
  <2>2. Started
    <3>1. frame.mode \in {"update", "rollback"}
      BY <1>1, ThreadAssumption DEF IndInv, DesiredInv, Threads
    <3>. QED  BY <3>1 DEF PlaneInv, PlaceInv, Updating
  <2>3. PlaceInv'
    BY <2>1 DEF PlaceInv, Updating, NoFrame
  <2>4. StatusInv'
    BY <1>1, <1>3, <2>1, <2>2 DEF PlaneInv, StatusInv, Updating, NoFrame
  <2>5. AdvertiserInv'
    BY <1>1, <1>3, <2>1 DEF PlaneInv, AdvertiserInv
  <2>6. TunnelInv'
    BY <1>1, <1>3, <2>1, <2>2 DEF PlaneInv, TunnelInv
  <2>7. CoverInv'
    BY <1>1, <1>3, <2>1, <2>2
       DEF PlaneInv, CoverInv, Early, OnLan, Started, LostAddrs, LostRoutes
  <2>8. OldTunnelInv'
    BY <1>1, <1>3, <2>1 DEF PlaneInv, OldTunnelInv
  <2>. QED  BY <2>3, <2>4, <2>5, <2>6, <2>7, <2>8 DEF PlaneInv
<1>. QED  BY <1>2, <1>3 DEF Save, Restore, memory

-----------------------------------------------------------------------------
(* Repairs. *)

\* A repair adds managed addresses; it may be early.
LEMMA RepairPlane ==
    ASSUME IndInv, PlaneInv, Repair("loop") \/ RepairFails("loop")
    PROVE  PlaneInv'
<1>. USE DEF Rebuilding, Resting, BuildLabels, LockedLabels
<1>. "loop" \in Threads /\ kernel \in Kernel /\ document \in Document
  BY DEF Threads, IndInv, TypeOK
<1>1. /\ Holder = "repair" /\ lock' = "loop" /\ pc["loop"] = "repair"
      /\ Goto("loop", "repairFinish")
      /\ UNCHANGED <<proc, memory, stateFile, lost>>
      /\ \/ frame' = frame
         \/ \E e : frame' = [frame EXCEPT !.errs = e]
  BY HolderAt DEF Repair, RepairFails, Holds, disk
<1>2. Holder' = "repairFinish" /\ Begun' /\ proc # "off"
  BY <1>1, HolderMoves, CallGoesOn DEF Started, PlaneInv, PlaceInv, Begun
<1>3. /\ frame'.mode = frame.mode /\ frame'.prevDoc = frame.prevDoc
      /\ frame'.prevState = frame.prevState
  BY <1>1 DEF IndInv, TypeOK, Frame
<1>4. Wants(document) /\ document.enabled
  BY <1>1 DEF PlaneInv, PlaceInv, Wants
<1>5. /\ OnLan(kernel') \subseteq OnLan(kernel) \union Config(document).networks
      /\ kernel'.routes = kernel.routes /\ kernel'.tunnel = kernel.tunnel
  <2>1. CASE kernel' = kernel
    BY <2>1
  <2>2. CASE kernel' = EnsureAddresses(kernel, Managed(document))
    BY <2>2, EnsureAdds, ManagedOnLan
  <2>3. CASE kernel' \in PartlyRepaired
    <3>1. CASE kernel' \in PartlyEnsured(kernel, {Config(document).localIPv6})
      BY <3>1, PartlyEnsureAdds, ManagedOnLan
    <3>2. DEFINE k1 == EnsureAddresses(kernel, {Config(document).localIPv6})
    <3>3. k1 \in Kernel
      BY SetAddrsType DEF EnsureAddresses, AddrState
    <3>4. OnLan(k1) \subseteq OnLan(kernel) /\ k1.routes = kernel.routes /\ k1.tunnel = kernel.tunnel
      BY EnsureAdds, ManagedOnLan
    <3>. HIDE DEF k1
    <3>5. CASE kernel' \in PartlyEnsured(k1, Managed(document) \ {Config(document).localIPv6})
      BY <3>3, <3>4, <3>5, PartlyEnsureAdds, ManagedOnLan
    <3>. QED  BY <2>3, <3>1, <3>5 DEF PartlyRepaired, k1
  <2>. QED  BY <2>1, <2>2, <2>3 DEF Repair, RepairFails
<1>6. PlaceInv'
  BY <1>1, <1>2, <1>3, <1>4 DEF PlaneInv, PlaceInv, Updating, Started, memory
<1>7. StatusInv'
  BY <1>1, <1>2, <1>3 DEF PlaneInv, StatusInv, Updating, Started, memory
<1>8. AdvertiserInv'
  BY <1>1, <1>2 DEF PlaneInv, AdvertiserInv, memory
<1>9. TunnelInv'
  BY <1>1, <1>2, <1>4, <1>5 DEF PlaneInv, TunnelInv, TunnelExists, Started, memory
<1>10. CoverInv'
  <2>1. SUFFICES /\ OnLan(kernel') \subseteq
                        state.applied.networks \union Early \union LostAddrs
                 /\ kernel'.routes \subseteq {state.applied.endpoint} \union LostRoutes
    BY <1>1, <1>2 DEF CoverInv, Early, memory, LostAddrs, LostRoutes
  <2>2. /\ OnLan(kernel) \subseteq state.applied.networks \union Early \union LostAddrs
        /\ kernel.routes \subseteq {state.applied.endpoint} \union LostRoutes
    BY <1>1 DEF PlaneInv, CoverInv
  <2>3. CASE Started
    <3>1. state.applied = BuildApplied(document)
      BY <1>1, <1>4, <2>3 DEF PlaneInv, StatusInv, Settled
    <3>. QED  BY <1>5, <2>2, <3>1 DEF BuildApplied
  <2>4. CASE ~Started
    BY <1>2, <1>4, <1>5, <2>2, <2>4 DEF Early, Started
  <2>. QED  BY <2>3, <2>4
<1>11. OldTunnelInv'
  BY <1>1, <1>2, <1>5 DEF PlaneInv, OldTunnelInv, TunnelExists
<1>. QED  BY <1>6, <1>7, <1>8, <1>9, <1>10, <1>11 DEF PlaneInv

\* The end of a repair leaves the state of the last reconcile (RepairState).
LEMMA RepairFinishPlane ==
    ASSUME IndInv, PlaneInv, RepairFinish("loop")
    PROVE  PlaneInv'
<1>. USE DEF Rebuilding, Resting, BuildLabels, LockedLabels
<1>. "loop" \in Threads
  BY DEF Threads
<1>1. PICK label \in {"lockReconcile", "idle"} :
        /\ Holder = "repairFinish" /\ pc["loop"] = "repairFinish" /\ Goto("loop", label)
        /\ Holder' = "free" /\ frame' = NoFrame
        /\ UNCHANGED <<proc, document, advertiser, kernel, lost>>
  BY HolderAt DEF RepairFinish, Holds, outside, Holder
<1>2. Begun' /\ proc # "off"
  BY <1>1, CallGoesOn DEF Started, PlaneInv, PlaceInv, Begun
<1>3. Names(state', state) /\ state'.applied = state.applied
  BY DEF RepairFinish, RepairedState, Names, IndInv, TypeOK, StateDocument
<1>4. PlaceInv'
  BY <1>1, <1>2 DEF PlaceInv, Updating, NoFrame
<1>5. StatusInv'
  BY <1>1, <1>3 DEF PlaneInv, StatusInv, Updating, NoFrame, Settled, Names, Started
<1>6. AdvertiserInv'
  BY <1>1 DEF PlaneInv, AdvertiserInv
<1>7. TunnelInv'
  BY <1>1 DEF PlaneInv, TunnelInv, Started
<1>8. OldTunnelInv'
  BY <1>1 DEF PlaneInv, OldTunnelInv
<1>9. CoverInv'
  BY <1>1, <1>3 DEF PlaneInv, CoverInv, Early, OnLan, LostAddrs, LostRoutes
<1>. QED  BY <1>4, <1>5, <1>6, <1>7, <1>8, <1>9 DEF PlaneInv

-----------------------------------------------------------------------------
(* The process. *)

\* A boot finds what the last process left; nothing is claimed of it yet.
LEMMA BootPlane ==
    ASSUME IndInv, PlaneInv, Boot
    PROVE  PlaneInv'
<1>. USE DEF Rebuilding, Resting, BuildLabels, LockedLabels, disk, outside
<1>. "main" \in Threads /\ "main" \notin Clients
  BY ThreadAssumption DEF Threads
<1>. lock = None
  BY DEF Boot, PlaneInv, PlaceInv, Begun, Holder, IndInv, TypeOK
<1>1. Holder = "free" /\ Holder' = "free" /\ state' = state /\ ~Updating /\ ~Updating'
  BY DEF Boot, Holder, PlaneInv, PlaceInv, Updating
<1>2. document' = document
  BY <1>1 DEF Boot, IndInv, DesiredInv, Updating
<1>3. ~Started'
  BY DEF Boot, Started
<1>4. Begun'
  BY DEF Boot, Goto, Begun, PlaneInv, PlaceInv, IndInv, TypeOK, Threads
<1>5. PlaceInv'
  BY <1>1, <1>4 DEF Boot, PlaceInv, Updating
<1>6. StatusInv' /\ TunnelInv'
  BY <1>1, <1>3 DEF StatusInv, TunnelInv
<1>7. AdvertiserInv'
  BY <1>1, <1>2 DEF Boot, PlaneInv, AdvertiserInv
<1>8. OldTunnelInv'
  BY <1>1 DEF Boot, PlaneInv, OldTunnelInv
<1>9. CoverInv'
  BY <1>1, <1>2 DEF Boot, PlaneInv, CoverInv, Early, OnLan, LostAddrs, LostRoutes
<1>. QED  BY <1>5, <1>6, <1>7, <1>8, <1>9 DEF PlaneInv

\* A crash notes whether state.json covers what the kernel keeps.
LEMMA CrashPlane ==
    ASSUME IndInv, PlaneInv, Crash
    PROVE  PlaneInv'
<1>. USE DEF Rebuilding, Resting, BuildLabels, LockedLabels, disk
<1>1. Holder' = "free" /\ ~Updating' /\ ~Started' /\ proc' = "off"
  BY DEF Crash, Holder, Updating, NoFrame, Started
<1>2. Begun'
  BY <1>1 DEF Crash, Begun, Threads
<1>3. PlaceInv'
  BY <1>1, <1>2 DEF Crash, PlaceInv, Updating
<1>4. StatusInv' /\ TunnelInv' /\ AdvertiserInv'
  BY <1>1 DEF Crash, StatusInv, TunnelInv, AdvertiserInv
<1>5. OldTunnelInv'
  <2>1. CASE kernel' = EmptyKernel
    BY <1>1, <2>1 DEF Crash, OldTunnelInv, NothingLost, NoLeftover
  <2>2. CASE kernel' = kernel /\ kernel' # EmptyKernel
    <3>1. lost'.undeleted = lost.undeleted
      BY <2>2 DEF Crash, LostFromRecord, IndInv, TypeOK, Lost
    <3>. QED  BY <1>1, <2>2, <3>1 DEF PlaneInv, OldTunnelInv
  <2>. QED  BY <2>1, <2>2 DEF Crash
<1>6. CoverInv'
  <2>1. SUFFICES /\ OnLan(kernel') \subseteq
                        stateFile.applied.networks \union Early' \union LostAddrs'
                 /\ kernel'.routes \subseteq {stateFile.applied.endpoint} \union LostRoutes'
    BY <1>1 DEF Crash, CoverInv
  <2>2. CASE kernel' = EmptyKernel
    BY <2>2 DEF OnLan, EmptyKernel, Addresses
  <2>3. CASE kernel' = kernel /\ kernel' # EmptyKernel
    BY <2>3, RecordIsBehind DEF Crash
  <2>. QED  BY <2>2, <2>3 DEF Crash
<1>. QED  BY <1>3, <1>4, <1>5, <1>6 DEF PlaneInv

\* Before the first boot there is nothing to be wrong about.
LEMMA InitPlane == Init => PlaneInv
<1>. SUFFICES ASSUME Init PROVE PlaneInv
  OBVIOUS
<1>1. Holder = "free" /\ ~Updating /\ ~Started
  BY DEF Init, Holder, Updating, NoFrame, Started
<1>2. Begun
  BY DEF Init, Begun, Threads
<1>3. PlaceInv
  BY <1>1, <1>2 DEF Init, PlaceInv, Updating, NoFrame, BuildLabels
<1>4. StatusInv /\ TunnelInv /\ AdvertiserInv
  BY <1>1 DEF Init, StatusInv, TunnelInv, AdvertiserInv, Rebuilding, BuildLabels
<1>5. CoverInv
  BY <1>1 DEF Init, CoverInv, OnLan, EmptyKernel, Addresses, Rebuilding, BuildLabels
<1>6. OldTunnelInv
  BY <1>1 DEF Init, OldTunnelInv, NothingLost, NoLeftover
<1>. QED  BY <1>3, <1>4, <1>5, <1>6 DEF PlaneInv

\* Every step of the service keeps the plane in order.
LEMMA NextPlane == IndInv /\ PlaneInv /\ [Next]_vars => PlaneInv'
<1>. SUFFICES ASSUME IndInv, PlaneInv, [Next]_vars PROVE PlaneInv'
  OBVIOUS
<1>. Clients \subseteq Threads /\ "loop" \in Threads
  BY DEF Threads
<1>1. CASE Boot \/ Crash \/ StopBegin \/ Stopping
  BY <1>1, BootPlane, CrashPlane, StopPlane
<1>2. CASE Loop \/ RepairStep
  BY <1>2, LoopPlane, AcquirePlane, RepairPlane, RepairFinishPlane DEF Loop, RepairStep
<1>3. CASE \E t \in Threads : Locking(t) \/ Working(t)
  BY <1>3, AcquirePlane, CheckPlane, TeardownPlane, BuildPlane, AdvertisePlane, FinishPlane,
     SavePlane DEF Locking, Working, Reconciling
<1>4. CASE \E c \in Clients : Requests(c) \/ Deciding(c)
  BY <1>4, RequestPlane, AcquirePlane DEF Deciding
<1>5. CASE Environment
  BY <1>5, OutsidePlane
<1>6. CASE UNCHANGED vars
  <2>1. UNCHANGED <<proc, memory, disk, lock, pc, frame, lost, kernel>>
    BY <1>6 DEF vars, outside
  <2>2. LostStays
    BY <2>1 DEF LostStays, LostAddrs, LostRoutes, PlaneInv, OldTunnelInv
  <2>. QED  BY <2>1, <2>2, Disturbed
<1>. QED  BY <1>1, <1>2, <1>3, <1>4, <1>5, <1>6 DEF Next

-----------------------------------------------------------------------------
(***************************************************************************)
(* The theorems.                                                           *)
(***************************************************************************)
\* The plane is in order, by the place of the mutex holder, in every
\* reachable state of the service.
THEOREM PlaneInOrder == Spec => [](IndInv /\ PlaneInv)
<1>1. Init => IndInv /\ PlaneInv
  BY InitInd, InitPlane
<1>2. (IndInv /\ PlaneInv) /\ [Next]_vars => (IndInv /\ PlaneInv)'
  BY NextInd, NextPlane
<1>. QED  BY <1>1, <1>2, PTL DEF Spec

\* Once started, the status names the desired profile and switch whenever the
\* mutex is free, whatever failed and was rolled back (Status).
THEOREM StatusIsNamed == Spec => []StatusNamesDesired
<1>1. PlaneInv => StatusNamesDesired
  BY DEF PlaneInv, StatusInv, StatusNamesDesired, Holder, Resting, Started, Settled, Names
<1>. QED  BY <1>1, PlaneInOrder, PTL

\* Router advertisements are only sent for the desired profile
\* (startAdvertiserLocked), for any interleaving of updates and rollbacks.
THEOREM OnlyDesiredAdvertised == Spec => []AdvertisesOnlyDesired
<1>1. PlaneInv => AdvertisesOnlyDesired
  BY DEF PlaneInv, AdvertiserInv, AdvertisesOnlyDesired, Holder, Resting
<1>. QED  BY <1>1, PlaneInOrder, PTL

\* The applied record covers the kernel but for what a deletion failed for and
\* what a rollback or a crash was seen to leave off it (state.Applied,
\* SystemBackend.teardown).
THEOREM RecordCovers == Spec => []AppliedCovers
<1>1. PlaneInv => AppliedCovers
  BY DEF PlaneInv, CoverInv, AppliedCovers, Covers, Early, Holder, Resting
<1>. QED  BY <1>1, PlaneInOrder, PTL

\* A tunnel that is switched off is torn down but for what a deletion failed
\* for, and nothing that was decided before brings it back (Down, teardown,
\* the health loop).
THEOREM OffIsTornDown == Spec => []OffMeansTornDown
<1>1. IndInv /\ PlaneInv => OffMeansTornDown
  <2>1. SUFFICES ASSUME PlaneInv, proc = "running", lock = None, ~document.enabled
                 PROVE  /\ TunnelExists(kernel) => lost.undeleted.tunnel
                        /\ kernel.defaultRoute => lost.undeleted.defaultRoute
                        /\ advertiser = None
                        /\ Covers(EmptyApplied, kernel)
    BY DEF OffMeansTornDown
  <2>2. Holder = "free" /\ Started
    BY <2>1 DEF Holder, Started
  <2>3. /\ TunnelExists(kernel) => lost.undeleted.tunnel
        /\ kernel.defaultRoute => lost.undeleted.defaultRoute
    BY <2>1, <2>2 DEF PlaneInv, TunnelInv, Resting
  <2>4. advertiser = None
    BY <2>1, <2>2 DEF PlaneInv, AdvertiserInv, Resting, WantsRA, Wants
  <2>5. Covers(EmptyApplied, kernel)
    BY <2>1, <2>2 DEF PlaneInv, StatusInv, Settled, CoverInv, Covers, Early, Resting
  <2>. QED  BY <2>3, <2>4, <2>5
<1>. QED  BY <1>1, PlaneInOrder, PTL

-----------------------------------------------------------------------------
(***************************************************************************)
(* "Ready" is earned.                                                      *)
(***************************************************************************)
\* The desired tunnel is there with every managed address usable; a repair may
\* take an old one for it that could not be deleted.
Usable ==
    /\ TunnelExists(kernel)
    /\ \/ kernel.tunnel.remote = Config(document).endpoint
       \/ frame.mode = "repair" /\ lost.undeleted.tunnel
    /\ MissingAddresses(document, kernel) = {}

\* The step that ReadyIsEarned is about.
ComesReady ==
    /\ proc' = "running" /\ state' # frame.prevState
    /\ state.reconcile # "ready" /\ state'.reconcile = "ready"

\* An observation without a finding, of a config that wants a tunnel, is right.
LEMMA CleanIsUsable ==
    ASSUME Wants(document), NEW bad, AddrsOf(document, bad) = "clean", LinkSeen(bad),
           TunnelExists(kernel) =>
             \/ kernel.tunnel.remote = Config(document).endpoint
             \/ frame.mode = "repair" /\ lost.undeleted.tunnel
    PROVE  Usable
  BY DEF AddrsOf, ObserveAddrs, LinkSeen, Usable

\* A reconcile that ends in "ready" saw everything it built.
LEMMA FinalIsEarned ==
    ASSUME IndInv, PlaneInv, Holder = "finish", NEW bad, FinalState(bad).reconcile = "ready"
    PROVE  Usable
<1>1. FinalState(bad).reconcile
        = FinalReconcile(document, frame.errs, AddrsOf(document, bad), LinkSeen(bad))
  BY DEF FinalState, IndInv, TypeOK, StateDocument
<1>2. /\ Wants(document) /\ AddrsOf(document, bad) = "clean" /\ LinkSeen(bad)
      /\ frame.errs = {}
  <2>. document.enabled \in BOOLEAN
    BY DEF IndInv, TypeOK, Document
  <2>. QED  BY <1>1 DEF FinalReconcile
<1>3. TunnelExists(kernel) => kernel.tunnel.remote = Config(document).endpoint
  BY <1>2 DEF PlaneInv, TunnelInv, OldTunnelInv, Rebuilding
<1>. QED  BY <1>2, <1>3, CleanIsUsable

\* So does a repair of a process whose first reconcile has ended.
LEMMA RepairIsEarned ==
    ASSUME IndInv, PlaneInv, RepairFinish("loop"), ComesReady
    PROVE  Usable
<1>1. PICK bad \in SUBSET {"link", "query", "disk"} :
        state' = RepairedState(state, frame.errs, AddrsOf(document, bad), LinkSeen(bad))
  BY DEF RepairFinish
<1>2. Holder = "repairFinish" /\ proc' = proc
  BY HolderAt DEF RepairFinish, Threads
<1>3. /\ Wants(document) /\ frame.mode = "repair"
      /\ TunnelExists(kernel) =>
            kernel.tunnel.remote = Config(document).endpoint \/ lost.undeleted.tunnel
  <2>1. frame.mode = "repair"
    BY ThreadAssumption DEF RepairFinish, Holds, IndInv, DesiredInv, Threads
  <2>. QED  BY <1>2, <2>1 DEF ComesReady, PlaneInv, PlaceInv, TunnelInv, Resting, Started
<1>4. AddrsOf(document, bad) = "clean" /\ LinkSeen(bad)
  BY <1>1 DEF ComesReady, RepairedState, IndInv, TypeOK, StateDocument
<1>. QED  BY <1>3, <1>4, CleanIsUsable

\* No other step makes the status ready.
LEMMA StepIsEarned ==
    ASSUME IndInv, PlaneInv, [Next]_vars, ComesReady
    PROVE  Usable
<1>. USE DEF ComesReady, memory
<1>1. CASE Boot \/ Crash \/ StopBegin \/ Stopping
  BY <1>1 DEF Boot, Crash, StopBegin, Stopping, StopAdvertiser, StopDone
<1>2. CASE Loop \/ RepairStep
  <2>1. CASE RepairFinish("loop")
    BY <2>1, RepairIsEarned
  <2>. QED  BY <1>2, <2>1 DEF Loop, Tick, LoopExit, AcquireRepair, RepairStep, Repair, RepairFails
<1>3. CASE \E c \in Clients : Requests(c) \/ Deciding(c)
  BY <1>3 DEF Requests, MutateDocument, PutLegacy, PutProfiles, Restart, Health, Submit, Begin,
              Deciding, RejectUpdate, AcceptUpdate
<1>4. CASE Environment
  BY <1>4 DEF Environment, LoseTunnel, LoseAddress, WanChange, Disturb
<1>5. CASE UNCHANGED vars
  BY <1>5 DEF vars
<1>6. CASE \E t \in Threads : Locking(t) \/ Working(t)
  <2>1. PICK t \in Threads : Locking(t) \/ Working(t)
    BY <1>6
  <2>2. CASE AcquireReconcile(t) \/ HcSnapshot(t) \/ HcObserve(t) \/ HcProbe(t)
    BY <2>2 DEF AcquireReconcile, HcSnapshot, HcObserve, HcProbe
  <2>3. CASE HcApply(t)
    BY <2>3 DEF HcApply, CheckedState, IndInv, TypeOK, StateDocument
  <2>4. CASE TeardownStep(t)
    BY <2>4 DEF TeardownStep, ReconcilingState, IndInv, TypeOK, StateDocument
  <2>5. CASE \/ ReadWan(t) \/ BuildRoute(t) \/ BuildTunnel(t) \/ BuildLink(t)
             \/ BuildAddr(t) \/ BuildLan(t) \/ BuildDefault(t) \/ BuildFails(t)
             \/ StartAdvertiser(t) \/ Restore(t)
    BY <2>5 DEF ReadWan, BuildRoute, BuildTunnel, BuildLink, BuildAddr, BuildLan, BuildDefault,
                BuildFails, BuildStep, StartAdvertiser, Restore
  <2>6. CASE FinishPlain(t) \/ FinishUpdate(t) \/ FinishRollback(t)
    <3>1. PICK bad \in SUBSET FinishFailures :
            Holds(t, "finish") /\ (state' = FinalState(bad) \/ state' = frame.prevState)
      BY <2>6 DEF FinishPlain, FinishUpdate, FinishRollback, Finish, BeginRollback
    <3>. QED  BY <3>1, HolderAt, FinalIsEarned
  <2>7. CASE Save(t)
    BY <2>7 DEF Save, BeginRollback
  <2>. QED  BY <2>1, <2>2, <2>3, <2>4, <2>5, <2>6, <2>7 DEF Locking, Working, Reconciling
<1>. QED  BY <1>1, <1>2, <1>3, <1>4, <1>5, <1>6 DEF Next

\* The service only comes to say "ready" over the desired tunnel, or a repair
\* over one that could not be deleted, with every managed address usable, for every race of repairs, checks and rebuilds.
THEOREM ReadyAlwaysEarned == Spec => ReadyIsEarned
<1>1. IndInv /\ PlaneInv /\ [Next]_vars => [ComesReady => Usable]_vars
  BY StepIsEarned
<1>. QED  BY <1>1, PlaneInOrder, PTL DEF Spec, ReadyIsEarned, ComesReady, Usable
=============================================================================
