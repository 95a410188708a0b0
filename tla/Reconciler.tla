----------------------------- MODULE Reconciler -----------------------------
(***************************************************************************)
(* One reconcile of the service command by command: reconcileLocked stops  *)
(* the advertiser, runs SystemBackend.Reconcile and starts the advertiser  *)
(* again.  The backend and the advertiser are composed here with the       *)
(* health loop that calls them, one call at a time, as the mutex has it.   *)
(*                                                                         *)
(* ControlService treats a group of these commands as one step and is      *)
(* about who calls it; this module fixes the profile and is about what the *)
(* commands do when any of them fails, when the process dies between two   *)
(* of them, and when the interfaces are reset meanwhile.                   *)
(***************************************************************************)
EXTENDS SystemBackend

CONSTANTS
    InitDocuments,  \* documents the daemon may be installed with
    LanMTU,         \* MTU of the LAN interfaces
    MaxFaults,      \* bound on failing commands and outside changes
    MaxCrashes      \* bound on process crashes and reboots

ASSUME ReconcilerAssumption ==
    /\ InitDocuments \subseteq Document
    /\ LanMTU \in Nat /\ MaxFaults \in Nat /\ MaxCrashes \in Nat
    /\ None \notin Nat

VARIABLES
    document,   \* s.document
    applied,    \* s.state.Applied, in memory and in state.json
    status,     \* the parts of s.state about the result
    kernel,     \* as in Dataplane
    host,       \* as in SystemBackend
    chain,      \* the firewall chains
    wan,        \* IPv4 address of the WAN interface, or None
    wanMTU,     \* its MTU
    job,        \* locals of the call that holds the mutex
    tidy,       \* history: no firewall command has failed yet
    left,       \* history: what the last teardown could not delete
    faults, crashes,
    life, config, conns, sender, listener, sent   \* the advertiser

RA == INSTANCE Advertiser WITH Networks <- LanAddrs

world == <<kernel, host, chain, wan, wanMTU>>
radv  == <<life, config, conns, sender, listener, sent>>
past  == <<tidy, left>>
vars  == <<document, applied, status, world, job, past, faults, crashes, radv>>

-----------------------------------------------------------------------------
ChainOrder == <<"input", "forward", "mss">>

Labels ==
    { "off", "idle", "stop", "chainsDown", "delAddrs", "delRoute", "delDefault",
      "delTunnel", "wan", "mtu", "hostRoute", "tunnel", "setMTU", "up", "local",
      "forwarding", "lan", "dad", "linkLocal", "disable", "enable", "gateway",
      "default", "chainsUp", "advertise", "listen", "end" }

(***************************************************************************)
(* Locals of Reconcile and RepairAddresses: networks left, the chain and   *)
(* network at hand, managedInterfaces, the WAN address and MTU found, and  *)
(* whether an error was met.  steady and clean are history: nobody else    *)
(* changed the host since the call began, and no command of the firewall's *)
(* build failed.                                                           *)
(***************************************************************************)
Job ==
    [ pc: Labels, op: {"none", "reconcile", "repair"}, todo: SUBSET LanAddrs,
      chain: DOMAIN ChainOrder, net: LanAddrs \union {None}, ready: SUBSET Interfaces,
      wanIP: WanAddrs \union {None}, mtu: Nat, ok: BOOLEAN,
      steady: BOOLEAN, clean: BOOLEAN ]

NoJob ==
    [ pc |-> "idle", op |-> "none", todo |-> {}, chain |-> 1, net |-> None,
      ready |-> {}, wanIP |-> None, mtu |-> 0, ok |-> TRUE, steady |-> TRUE,
      clean |-> TRUE ]

\* Every variable keeps its type through any order of failures: MTUs are
\* numbers, sockets belong to configured networks, the budgets hold.
ReconcilerTypeOK ==
    /\ document \in Document /\ applied \in Applied
    /\ status \in [ready: BOOLEAN, mtu: Nat, clean: BOOLEAN]
    /\ kernel \in Kernel /\ host \in Host
    /\ wan \in WanAddrs \union {None} /\ wanMTU \in WanMTUs
    /\ job \in Job /\ tidy \in BOOLEAN /\ left \in Leftover
    /\ \A c \in Chains : chain[c].jumps \in Nat
    /\ faults \in 0..MaxFaults /\ crashes \in 0..MaxCrashes
    /\ RA!AdvTypeOK

\* The router has just booted; link-local addresses may be in any state.
Init ==
    /\ document \in InitDocuments
    /\ applied = EmptyApplied
    /\ status = [ready |-> FALSE, mtu |-> 0, clean |-> FALSE]
    /\ kernel = EmptyKernel
    /\ host \in {[FreshHost EXCEPT !.badLinkLocal = bad] : bad \in SUBSET Interfaces}
    /\ chain = [c \in Chains |-> NoChain]
    /\ wan \in WanAddrs \union {None} /\ wanMTU \in WanMTUs
    /\ job = [NoJob EXCEPT !.pc = "off"]
    /\ tidy = TRUE /\ left = NoLeftover
    /\ faults = 0 /\ crashes = 0
    /\ RA!AdvInit

-----------------------------------------------------------------------------
(* Helpers. *)

At(label) == job.pc = label

Goto(label) == job' = [job EXCEPT !.pc = label]

Failing(bad) ==
    /\ bad # {} => faults < MaxFaults
    /\ faults' = IF bad = {} THEN faults ELSE faults + 1

\* A command that changes neither the firewall nor the advertiser.
Command ==
    UNCHANGED <<document, applied, status, chain, wan, wanMTU, past, faults, crashes, radv>>

\* A deletion that is best effort fails: what it was for stays, the call goes
\* on, and nobody is told.
DeletionFails(rest) ==
    /\ Failing({"delete"})
    /\ left' = rest
    /\ UNCHANGED <<document, applied, status, world, tidy, crashes, radv>>

\* A reconcile begins by stopping the advertiser.  Its teardown gets the record
\* of the build before.
BeginReconcile ==
    /\ job' = [NoJob EXCEPT !.op = "reconcile", !.todo = applied.networks,
                            !.pc = IF life = "none" THEN "chainsDown" ELSE "stop"]
    /\ left' = NoLeftover
    /\ IF life = "none" THEN UNCHANGED radv ELSE RA!Cancel
    /\ UNCHANGED <<applied, world, tidy, faults, crashes>>

-----------------------------------------------------------------------------
(* The callers: Start, Down, and the rounds of the health loop. *)

Boot == At("off") /\ BeginReconcile /\ UNCHANGED <<document, status>>

Down ==
    /\ At("idle") /\ document.enabled
    /\ document' = [document EXCEPT !.enabled = FALSE]
    /\ BeginReconcile
    /\ UNCHANGED status

\* Mutant: the loop looks at the probe alone.
RetryOnProbeOnly ==
    /\ At("idle") /\ Wants(document)
    /\ ~PathWorks(kernel, wan)
    /\ BeginReconcile
    /\ UNCHANGED <<document, status>>

\* The loop retries what is not ready, and reconciles when the probe fails.
Retry ==
    /\ At("idle") /\ Wants(document)
    /\ ~status.ready \/ ~PathWorks(kernel, wan)
    /\ BeginReconcile
    /\ UNCHANGED <<document, status>>

\* Addresses are missing although the probe answers.
BeginRepair ==
    /\ At("idle") /\ Wants(document)
    /\ status.ready /\ PathWorks(kernel, wan) /\ MissingAddresses(document, kernel) # {}
    /\ status' = [status EXCEPT !.ready = FALSE]
    /\ job' = [NoJob EXCEPT !.op = "repair", !.pc = "local"]
    /\ UNCHANGED <<document, applied, world, past, faults, crashes, radv>>

-----------------------------------------------------------------------------
(* Stopping the advertiser, and teardown. *)

StopAdvertiser ==
    /\ At("stop")
    /\ \/ (RA!CloseConns \/ RA!Wait) /\ UNCHANGED job
       \/ life = "none" /\ Goto("chainsDown") /\ UNCHANGED radv
    /\ UNCHANGED <<document, applied, status, world, past, faults, crashes>>

\* The commands on one chain, of which one may fail.
OneChain(label, Change(_, _), then) ==
    LET c    == ChainOrder[job.chain]
        last == job.chain = Len(ChainOrder)
    IN  \E bad \in {{}} \union {{x} : x \in Commands(c)} :
        /\ At(label)
        /\ Failing(bad)
        /\ chain' = [chain EXCEPT ![c] = Change(c, bad)]
        /\ tidy' = (tidy /\ bad = {})
        /\ job' = [job EXCEPT !.chain = IF last THEN 1 ELSE @ + 1,
                              !.pc = IF last THEN then ELSE @,
                              !.clean = @ /\ (label = "chainsUp" => bad = {})]
        /\ UNCHANGED <<document, applied, status, kernel, host, wan, wanMTU, left, crashes,
                       radv>>

ChainsDown ==
    OneChain("chainsDown", LAMBDA c, bad : ChainDown(chain[c], bad), "delAddrs")

DelAddr(a) ==
    /\ At("delAddrs") /\ a \in job.todo
    /\ job' = [job EXCEPT !.todo = @ \ {a}]
    /\ \/ /\ kernel' = SetAddrs(kernel, {a}, "missing")
          /\ Command /\ UNCHANGED host
       \/ a \in OnLan(kernel) /\ DeletionFails([left EXCEPT !.addrs = @ \union {a}])

DelAddrs ==
    \/ \E a \in LanAddrs : DelAddr(a)
    \/ /\ At("delAddrs") /\ job.todo = {}
       /\ Goto("delRoute") /\ Command /\ UNCHANGED <<kernel, host>>

DelRoute ==
    /\ At("delRoute") /\ Goto("delDefault")
    /\ \/ /\ kernel' = [kernel EXCEPT !.routes = @ \ {applied.endpoint}]
          /\ Command /\ UNCHANGED host
       \/ /\ applied.endpoint \in kernel.routes
          /\ DeletionFails([left EXCEPT !.routes = @ \union {applied.endpoint}])

DelDefault ==
    /\ At("delDefault") /\ Goto("delTunnel")
    /\ \/ /\ kernel' = [kernel EXCEPT !.defaultRoute = FALSE]
          /\ host' = [host EXCEPT !.source = None]
          /\ Command
       \/ kernel.defaultRoute /\ DeletionFails([left EXCEPT !.defaultRoute = TRUE])

DelTunnel ==
    /\ At("delTunnel") /\ Goto(IF Wants(document) THEN "wan" ELSE "end")
    /\ \/ /\ kernel' = DropTunnel(kernel)
          /\ host' = [host EXCEPT !.mtu = 0, !.source = None]
          /\ Command
       \/ TunnelExists(kernel) /\ DeletionFails([left EXCEPT !.tunnel = TRUE])

Teardowns == ChainsDown \/ DelAddrs \/ DelRoute \/ DelDefault \/ DelTunnel

-----------------------------------------------------------------------------
(* The build: the tunnel. *)

GetWANIPv4 ==
    /\ At("wan") /\ wan # None
    /\ job' = [job EXCEPT !.pc = "mtu", !.wanIP = wan]
    /\ Command /\ UNCHANGED <<kernel, host>>

\* Mutant: the error is not looked at.
ResolveTunnelMTUUnchecked ==
    /\ At("mtu")
    /\ job' = [job EXCEPT !.pc = "hostRoute", !.mtu = ResolveMTU(document, wanMTU)]
    /\ Command /\ UNCHANGED <<kernel, host>>

ResolveTunnelMTU ==
    /\ At("mtu") /\ ResolveMTU(document, wanMTU) # None
    /\ job' = [job EXCEPT !.pc = "hostRoute", !.mtu = ResolveMTU(document, wanMTU)]
    /\ Command /\ UNCHANGED <<kernel, host>>

HostRoute ==
    /\ At("hostRoute")
    /\ kernel' = AddRoute(kernel, document)
    /\ Goto("tunnel") /\ Command /\ UNCHANGED host

TunnelAdd ==
    /\ At("tunnel") /\ ~TunnelExists(kernel)
    /\ kernel' = AddTunnel(kernel, document, job.wanIP)
    /\ Goto("setMTU") /\ Command /\ UNCHANGED host

SetMTU ==
    /\ At("setMTU") /\ TunnelExists(kernel)
    /\ host' = [host EXCEPT !.mtu = job.mtu]
    /\ Goto("up") /\ Command /\ UNCHANGED kernel

SetUp ==
    /\ At("up") /\ TunnelExists(kernel)
    /\ kernel' = LinkUp(kernel)
    /\ Goto("local") /\ Command /\ UNCHANGED host

\* ensureIPv6AddressPresent: an unusable address is deleted first, and a new
\* one is added unless a usable one is there.
Ensure(a, then) ==
    \/ /\ kernel.addr[a] = "healthy"
       /\ job' = then /\ UNCHANGED kernel
       /\ Command /\ UNCHANGED host
    \/ /\ kernel.addr[a] = "unhealthy"
       /\ kernel' = SetAddrs(kernel, {a}, "missing") /\ UNCHANGED job
       /\ Command /\ UNCHANGED host
    \/ /\ kernel.addr[a] = "missing" /\ CanAdd(host, kernel, a)
       /\ kernel' = SetAddrs(kernel, {a}, "healthy") /\ job' = then
       /\ Command /\ UNCHANGED host
    \/ /\ kernel.addr[a] = "missing" /\ CanAdd(host, kernel, a) /\ MayFailDad(host, a)
       /\ kernel' = SetAddrs(kernel, {a}, "unhealthy") /\ job' = then
       /\ Failing({"dad"})
       /\ UNCHANGED <<document, applied, status, host, chain, wan, wanMTU, past, crashes, radv>>

\* The networks left when the tunnel's address is there.
Gateways == IF Config(document).lanEnabled THEN Config(document).networks ELSE {}

EnsureLocal ==
    /\ At("local") /\ TunnelExists(kernel)
    /\ Ensure(Config(document).localIPv6,
              [job EXCEPT !.pc = IF job.op = "repair" THEN "lan" ELSE "forwarding",
                          !.todo = Gateways])

Forwarding ==
    /\ At("forwarding")
    /\ host' = [host EXCEPT !.forwarding = TRUE]
    /\ Goto("lan") /\ Command /\ UNCHANGED kernel

-----------------------------------------------------------------------------
(***************************************************************************)
(* The LAN, in the order the networks are listed.  An interface is made    *)
(* ready once, before its first address; a repair leaves interfaces alone. *)
(***************************************************************************)
NextNetwork ==
    /\ At("lan")
    /\ \/ \E a \in job.todo :
             job' = [job EXCEPT
                        !.todo = @ \ {a}, !.net = a,
                        !.pc = IF job.op = "repair" \/ InterfaceOf[a] \in job.ready
                               THEN "gateway" ELSE "dad"]
       \/ /\ job.todo = {}
          /\ Goto(IF job.op = "repair" THEN "end" ELSE "default")
    /\ Command /\ UNCHANGED <<kernel, host>>

Interface == InterfaceOf[job.net]

Ready == job' = [job EXCEPT !.pc = "gateway", !.ready = @ \union {Interface}]

\* Mutant: duplicate address detection is left on.
AcceptDadKept ==
    /\ At("dad")
    /\ Goto("linkLocal") /\ Command /\ UNCHANGED <<kernel, host>>

AcceptDad ==
    /\ At("dad")
    /\ host' = AcceptNoDad(host, Interface)
    /\ Goto("linkLocal") /\ Command /\ UNCHANGED kernel

ReadLinkLocal ==
    /\ At("linkLocal")
    /\ IF HasProblematicLinkLocal(host, Interface) THEN Goto("disable") ELSE Ready
    /\ Command /\ UNCHANGED <<kernel, host>>

DisableIPv6 ==
    /\ At("disable")
    /\ host' = DisableHost(host, Interface)
    /\ kernel' = FlushInterface(kernel, Interface)
    /\ Goto("enable") /\ Command

EnableIPv6 ==
    /\ At("enable")
    /\ host' = EnableHost(host, Interface)
    /\ Ready /\ Command /\ UNCHANGED kernel

EnsureGateway == At("gateway") /\ Ensure(job.net, [job EXCEPT !.pc = "lan"])

DefaultRoute ==
    \E s \in RouteSources(document) :
        /\ At("default") /\ RouteAccepted(kernel, s)
        /\ kernel' = AddDefaultRoute(kernel)
        /\ host' = [host EXCEPT !.source = s]
        /\ Goto("chainsUp") /\ Command

ChainsUp == OneChain("chainsUp", LAMBDA c, bad : ChainUp(chain[c], c, bad), "advertise")

Builds ==
    \/ GetWANIPv4 \/ ResolveTunnelMTU \/ HostRoute \/ TunnelAdd \/ SetMTU \/ SetUp
    \/ EnsureLocal \/ Forwarding \/ NextNetwork \/ AcceptDad \/ ReadLinkLocal
    \/ DisableIPv6 \/ EnableIPv6 \/ EnsureGateway \/ DefaultRoute \/ ChainsUp

\* The command at the label cannot succeed as things are.
Hopeless(label) ==
    CASE label = "wan"       -> wan = None
      [] label = "mtu"       -> ResolveMTU(document, wanMTU) = None
      [] label = "tunnel"    -> TunnelExists(kernel)
      [] label \in {"setMTU", "up"} -> ~TunnelExists(kernel)
      [] label = "local" ->
            \/ ~TunnelExists(kernel)
            \/ /\ kernel.addr[Config(document).localIPv6] = "missing"
               /\ ~CanAdd(host, kernel, Config(document).localIPv6)
      [] label = "gateway" ->
            kernel.addr[job.net] = "missing" /\ ~CanAdd(host, kernel, job.net)
      [] label = "default" ->
            \E s \in RouteSources(document) : ~RouteAccepted(kernel, s)
      [] OTHER -> FALSE

\* A command of the build fails, and the call returns its error.
BuildFails ==
    /\ job.pc \in {"wan", "mtu", "hostRoute", "tunnel", "setMTU", "up", "local",
                   "forwarding", "dad", "linkLocal", "disable", "enable", "gateway",
                   "default"}
    /\ Failing(IF Hopeless(job.pc) THEN {} ELSE {job.pc})
    /\ job' = [job EXCEPT !.pc = "end", !.ok = FALSE]
    /\ UNCHANGED <<document, applied, status, world, past, crashes, radv>>

-----------------------------------------------------------------------------
(* startAdvertiserLocked, and the end of the call. *)

Advertise ==
    /\ At("advertise")
    /\ IF WantsRA(document)
       THEN Goto("listen") /\ RA!Open(Config(document).networks, job.mtu)
       ELSE Goto("end") /\ UNCHANGED radv
    /\ UNCHANGED <<document, applied, status, world, past, faults, crashes>>

\* A socket needs a link-local address that is ready for use.
CanListen(n) == InterfaceOf[n] \notin host.disabled \union host.badLinkLocal

ListenOn ==
    /\ At("listen")
    /\ \/ \E n \in LanAddrs : CanListen(n) /\ RA!Listen(n) /\ UNCHANGED job
       \/ RA!Launch /\ Goto("end")
    /\ UNCHANGED <<document, applied, status, world, past, faults, crashes>>

ListenFails ==
    \E n \in LanAddrs :
        /\ At("listen")
        /\ RA!ListenFails(n)
        /\ Failing(IF CanListen(n) THEN {"listen"} ELSE {})
        /\ job' = [job EXCEPT !.pc = "end", !.ok = FALSE]
        /\ UNCHANGED <<document, applied, status, world, past, crashes>>

\* Mutant: what a failed reconcile did is not recorded.
FinalAppliedOnSuccess ==
    CASE ~document.enabled -> EmptyApplied
      [] Wants(document) /\ job.ok -> BuildApplied(document)
      [] OTHER -> applied

FinalApplied ==
    CASE ~document.enabled -> EmptyApplied
      [] Wants(document)   -> BuildApplied(document)
      [] OTHER             -> applied

Clean == TunnelExists(kernel) /\ MissingAddresses(document, kernel) = {}

\* The MTU is the resolved one, because Reconcile stores it in the config it
\* was given; before it got that far it is the configured one.
EndReconcile ==
    /\ At("end") /\ job.op = "reconcile"
    /\ applied' = FinalApplied
    /\ status' = [ ready |-> Wants(document) /\ job.ok /\ Clean,
                   mtu   |-> IF ~Wants(document) THEN 0
                             ELSE IF job.mtu > 0 THEN job.mtu
                             ELSE ConfiguredMTU[document.profile],
                   clean |-> Wants(document) /\ job.ok /\ job.clean ]
    /\ job' = NoJob
    /\ UNCHANGED <<document, world, past, faults, crashes, radv>>

\* A repair that failed is followed by a reconcile at once.
EndRepair ==
    /\ At("end") /\ job.op = "repair"
    /\ IF job.ok
       THEN /\ status' = [status EXCEPT !.ready = Clean]
            /\ job' = NoJob
            /\ UNCHANGED <<applied, world, past, faults, crashes, radv>>
       ELSE BeginReconcile /\ UNCHANGED status
    /\ UNCHANGED document

-----------------------------------------------------------------------------
(* External: crashes, reboots, and what others do to the interfaces. *)

\* The process dies, or the router reboots and forgets.
Crash ==
    /\ ~At("off") /\ crashes < MaxCrashes
    /\ crashes' = crashes + 1
    /\ \/ UNCHANGED <<kernel, host, chain>>
       \/ /\ kernel' = EmptyKernel /\ chain' = [c \in Chains |-> NoChain]
          /\ \E bad \in SUBSET Interfaces :
                host' = [FreshHost EXCEPT !.badLinkLocal = bad]
    /\ job' = [NoJob EXCEPT !.pc = "off"]
    /\ RA!AdvDies
    /\ UNCHANGED <<document, applied, status, wan, wanMTU, past, faults>>

Disturb(k, h) ==
    /\ Failing({"outside"})
    /\ kernel' = k /\ host' = h
    /\ job' = [job EXCEPT !.steady = FALSE]
    /\ UNCHANGED <<document, applied, status, chain, wan, wanMTU, past, crashes, radv>>

LoseTunnel ==
    TunnelExists(kernel) /\ Disturb(DropTunnel(kernel), [host EXCEPT !.mtu = 0, !.source = None])

\* The firmware reconfigures a LAN interface: its addresses go, it probes
\* again, and its new link-local address may fail the probe.
ResetInterface ==
    \E i \in Interfaces, bad \in BOOLEAN :
        Disturb(FlushInterface(kernel, i),
                [host EXCEPT !.noDad = @ \ {i},
                             !.badLinkLocal = IF bad THEN @ \union {i} ELSE @ \ {i}])

WanReady ==
    /\ wan = None /\ wan' \in WanAddrs
    /\ UNCHANGED <<document, applied, status, kernel, host, chain, wanMTU, job, past, faults,
                   crashes, radv>>

Apart == UNCHANGED <<document, applied, status, world, job, past, faults, crashes>>

SenderStep(n) == (RA!Send(n) \/ RA!Wake(n)) /\ Apart

ListenerStep(n) == (RA!ReceiveFails(n) \/ RA!Reply(n)) /\ Apart

Solicited(n) == RA!Receive(n) /\ Apart

-----------------------------------------------------------------------------
Working ==
    \/ StopAdvertiser \/ Teardowns \/ Builds \/ BuildFails
    \/ Advertise \/ ListenOn \/ ListenFails \/ EndReconcile \/ EndRepair

HealthLoop == Retry \/ BeginRepair

Environment == LoseTunnel \/ ResetInterface \/ WanReady

Next ==
    \/ Boot \/ Down \/ HealthLoop \/ Working \/ Crash \/ Environment
    \/ \E n \in LanAddrs : SenderStep(n) \/ ListenerStep(n) \/ Solicited(n)

Spec == Init /\ [][Next]_vars

(***************************************************************************)
(* Commands and system calls return, and the loop's timer fires.  Nothing  *)
(* makes the operator start the daemon or switch the tunnel off, and no    *)
(* message need ever arrive.                                               *)
(***************************************************************************)
Fairness ==
    /\ WF_vars(Working) /\ WF_vars(HealthLoop)
    /\ \A n \in LanAddrs : WF_vars(SenderStep(n)) /\ WF_vars(ListenerStep(n))

FairSpec == Spec /\ Fairness

-----------------------------------------------------------------------------
(***************************************************************************)
(* Safety.                                                                 *)
(***************************************************************************)

\* In auto mode the tunnel never has an MTU IPv6 cannot work with, nor one
\* whose packets, with their outer header, do not fit the WAN interface: the
\* limits 1280 and 1300 themselves included (resolveTunnelMTU).
MtuFits ==
    TunnelExists(kernel) /\ host.mtu # 0 /\ ConfiguredMTU[document.profile] = 0 =>
        host.mtu \in MinimumIPv6MTU .. (wanMTU - TunnelOverhead)

\* Clients are told the MTU the tunnel really has, in every advertisement since
\* the advertiser was started, and so is the reader of the status: the MTU
\* resolved inside Reconcile reaches both through the config it was handed
\* (Reconcile, startAdvertiserLocked, BuildRA).
OneMtu ==
    life = "running" /\ TunnelExists(kernel) =>
        /\ \A n \in LanAddrs : sent[n] \subseteq {host.mtu}
        /\ At("idle") => status.mtu = host.mtu

\* When Reconcile returns without an error and nobody interfered, everything
\* the config asks for is usable: tunnel, routes and addresses are there, IPv6
\* is on and the link-local address is good on every LAN interface it manages,
\* and the route's source is a usable public address if the config has one.
SuccessMeansUsable ==
    At("advertise") /\ job.op = "reconcile" /\ job.steady =>
        /\ Built(document, kernel, job.wanIP) /\ host.forwarding
        /\ \A a \in Gateways : InterfaceOf[a] \notin host.disabled \union host.badLinkLocal
        /\ host.source # None => kernel.addr[host.source] = "healthy"
        /\ Managed(document) \intersect Preferred # {} => host.source \in Preferred

\* Nothing is left of the interface: no address of its own, no default route.
TunnelGone(k) ==
    /\ ~TunnelExists(k) /\ ~k.linkUp /\ ~k.defaultRoute
    /\ \A a \in TunnelAddrs : k.addr[a] = "missing"

\* If no command of the firewall's build failed, the chains hold exactly the
\* rules of the build, in order and once, and are jumped to, whatever earlier
\* failures and crashes had left in them (ensureJump and the -F before -A).
FirewallConverges ==
    At("idle") /\ status.clean =>
        \A c \in Chains : chain[c].rules = RulesOf(c) /\ chain[c].jumps > 0

\* After Down there is no advertiser, and of the tunnel only what the teardown
\* of Down itself could not delete: whatever the builds of this profile before
\* it left, and whatever their own teardowns could not delete, is found and
\* removed.  Only a crash may leave gateway addresses and host routes besides,
\* and only a failed firewall command chains and jumps (teardown,
\* state.Applied; over a change of profile, AppliedCovers of ControlService).
DownIsClean ==
    At("idle") /\ ~document.enabled =>
        /\ life = "none"
        /\ ~left.tunnel => TunnelGone(kernel)
        /\ kernel.defaultRoute => left.defaultRoute
        /\ crashes = 0 =>
              OnLan(kernel) \subseteq left.addrs /\ kernel.routes \subseteq left.routes
        /\ tidy => \A c \in Chains : chain[c] = NoChain

\* Without an advertiser there is no socket and no goroutine of one: none is
\* leaked by a socket that could not be opened, and Stop returns only when the
\* last goroutine has ended (NewAdvertiser, closeConns, Stop).
NoAdvertiserLeak == life = "none" => conns = {} /\ RA!Quiet

-----------------------------------------------------------------------------
(* Liveness, under Fairness. *)

\* Stop returns although a goroutine may be waiting for a packet that never
\* comes; the service holds its mutex meanwhile (Advertiser.Stop).
StopCompletes == life = "cancelled" ~> life = "none"

\* The config can be built here: the WAN is up, an MTU can be found that IPv6
\* works with, and the route's source is an address that will be assigned.
Buildable ==
    /\ Wants(document) /\ wan # None
    /\ ResolveMTU(document, wanMTU) # None
    /\ ResolveMTU(document, wanMTU) >= MinimumIPv6MTU
    /\ RouteSources(document) \subseteq Managed(document) \union {None}

Serving ==
    /\ Built(document, kernel, wan)
    /\ status.ready
    /\ WantsRA(document) => life = "running"

\* As long as the daemon runs, the config can be built and no interface is left
\* with IPv6 switched off, tunnel, addresses and advertiser come up and stay,
\* whatever failed, crashed or was reset before, and whatever state the
\* link-local addresses were in at boot (README: "keeps retrying").
Recovers ==
    <>[](~At("off") /\ Buildable /\ host.disabled = {}) => <>[]Serving

-----------------------------------------------------------------------------
(* A statement of the repository that the code does not keep. *)

\* backend.go: switching IPv6 off and on again is a sub-second blackout.
BlackoutEnds ==
    \A i \in Interfaces : i \in host.disabled /\ Wants(document) ~>
        i \notin host.disabled \/ At("off") \/ ~document.enabled
=============================================================================
