---------------------------- MODULE BackendProofs ----------------------------
(***************************************************************************)
(* The commands of a reconcile one by one: the types, the MTU everybody is *)
(* told, the firewall, what Down leaves behind and what success means,     *)
(* proved for any profiles, networks, interfaces, MTUs, failures, crashes  *)
(* and changes from outside.                                               *)
(*                                                                         *)
(* Each property is about one point of a call, so its inductive invariant  *)
(* says what holds at every label on the way there.                        *)
(***************************************************************************)
EXTENDS ReconcilerProofs, SequenceTheorems

LanLabels == {"lan", "dad", "linkLocal", "disable", "enable", "gateway"}

\* The labels of a build from the first command that needs the one before on.
UpFrom == {"up", "local", "forwarding"} \union LanLabels \union
          {"default", "chainsUp", "advertise", "listen"}

BuildLabels == {"wan", "mtu", "hostRoute", "tunnel", "setMTU"} \union UpFrom

\* Which labels a call can be at, and what its locals hold there.
PathInv ==
    /\ job.op = "none" <=> job.pc \in {"off", "idle"}
    /\ job.op = "repair" => job.pc \in {"local", "lan", "gateway", "end"}
    /\ job.pc \in BuildLabels \/ job.op = "repair" => Wants(document)
    /\ job.pc \notin {"chainsDown", "chainsUp"} => job.chain = 1
    /\ job.pc \in {"mtu", "hostRoute", "tunnel"} => job.wanIP # None
    /\ job.pc \in LanLabels \union {"forwarding"} => job.todo \subseteq Gateways
    /\ job.pc \in LanLabels \ {"lan"} => job.net \in Gateways

Rules == {"accept41", "established", "outbound", "dropNew", "clamp"}

Chain == [exists: BOOLEAN, rules: Seq(Rules), jumps: Nat]

TypeInv == ReconcilerTypeOK /\ chain \in [Chains -> Chain] /\ PathInv

\* The advertiser is started and stopped at two places of a reconcile.
LifeInv ==
    /\ life = "opening" <=> At("listen")
    /\ life \in {"cancelled", "waiting"} => At("stop")
    /\ life = "running" => At("idle") \/ At("end") \/ job.op = "repair"
    /\ life = "running" => Wants(document)

\* One MTU goes from resolveTunnelMTU to the tunnel, the advertiser and the
\* status; a tunnel that was lost does not come back before the next reconcile.
OneMtuInv ==
    /\ job.op = "reconcile" /\ job.pc \in (BuildLabels \ {"wan", "mtu"}) => job.mtu > 0
    /\ job.op = "reconcile" /\ job.pc \in UpFrom /\ TunnelExists(kernel) => host.mtu = job.mtu
    /\ life \in {"opening", "running"} =>
          /\ config.mtu > 0
          /\ TunnelExists(kernel) => host.mtu = config.mtu
          /\ \A n \in LanAddrs : sent[n] \subseteq {config.mtu}
          /\ job.op = "reconcile" => job.mtu = config.mtu
          /\ job.op # "reconcile" => status.mtu = config.mtu

Converged(c) == chain[c].rules = RulesOf(c) /\ chain[c].jumps > 0

\* The chains that are done, while they are built one after another.
FirewallInv ==
    /\ At("chainsUp") /\ job.clean => \A n \in 1..(job.chain - 1) : Converged(ChainOrder[n])
    /\ \/ job.pc \in {"advertise", "listen"} /\ job.clean
       \/ At("end") /\ job.op = "reconcile" /\ Wants(document) /\ job.ok /\ job.clean
       \/ (At("idle") \/ job.op = "repair") /\ status.clean
       => \A c \in Chains : Converged(c)

Deleting == {"delAddrs", "delRoute", "delDefault", "delTunnel"}

\* A reconcile that only tore down ends, and a tunnel is switched off.
TornDown == At("end") /\ job.op = "reconcile" /\ ~Wants(document)

SwitchedOff == At("idle") /\ ~document.enabled

DefaultLeft == kernel.defaultRoute => left.defaultRoute

TunnelLeft == DefaultLeft /\ (~left.tunnel => TunnelGone(kernel))

\* Unless a command failed there is at most one jump, which removeJump removes.
GoneInv ==
    /\ tidy => \A c \in Chains : chain[c].jumps <= 1
    /\ tidy /\ At("chainsDown") => \A n \in 1..(job.chain - 1) : chain[ChainOrder[n]] = NoChain
    /\ tidy /\ job.pc \in {"delAddrs", "delRoute", "delDefault", "delTunnel"} =>
          \A c \in Chains : chain[c] = NoChain
    /\ At("delTunnel") => DefaultLeft
    /\ TornDown \/ SwitchedOff => TunnelLeft /\ (tidy => \A c \in Chains : chain[c] = NoChain)

\* The gateway addresses the LAN interfaces have now.
LanNow == OnLan(kernel)

Within(record) == LanNow \subseteq record.networks /\ kernel.routes \subseteq {record.endpoint}

Undeleted == LanNow \subseteq left.addrs /\ kernel.routes \subseteq left.routes

\* A teardown takes it away piece by piece, except for what it could not delete.
Removing ==
    /\ At("delAddrs") => LanNow \subseteq job.todo \union left.addrs
    /\ At("delRoute") => LanNow \subseteq left.addrs
    /\ job.pc \in {"delDefault", "delTunnel"} \/ TornDown \/ SwitchedOff => Undeleted

\* The record covers what a build may have left.  The profile does not change,
\* so what one teardown could not delete is on the record of the next build.
RecordInv ==
    /\ applied \in {EmptyApplied, BuildApplied(document)}
    /\ (At("idle") \/ job.op = "repair") /\ Wants(document) => applied = BuildApplied(document)
    /\ job.pc \in {"stop", "chainsDown"} => job.todo = applied.networks
    /\ crashes = 0 =>
          /\ \/ job.pc \in {"off", "stop", "chainsDown"} \union Deleting \/ TornDown
             \/ At("idle") /\ document.enabled
             \/ job.op = "repair"
             => Within(applied)
          /\ job.op = "reconcile" /\ job.pc \in BuildLabels \union {"end"} /\ Wants(document) =>
                Within(BuildApplied(document))
          /\ Removing

\* An interface whose IPv6 is off has no addresses.
DisabledInv == \A a \in LanNow : InterfaceOf[a] \notin host.disabled

\* The networks whose gateway has been ensured.
Done == Gateways \ (job.todo \union (IF job.pc \in LanLabels \ {"lan"} THEN {job.net} ELSE {}))

Last == {"default", "chainsUp", "advertise"}

Undisturbed == job.op = "reconcile" /\ job.steady

\* What the commands so far have put there, if nobody took it away again: the
\* tunnel,
TunnelUsable ==
    Undisturbed =>
        /\ job.pc \in UpFrom \union {"tunnel", "setMTU"} => Config(document).endpoint \in kernel.routes
        /\ job.pc \in UpFrom \union {"setMTU"} =>
              kernel.tunnel = [remote |-> Config(document).endpoint, local |-> job.wanIP]
        /\ job.pc \in UpFrom \ {"up"} => kernel.linkUp
        /\ job.pc \in UpFrom \ {"up", "local"} => kernel.addr[Config(document).localIPv6] = "healthy"

\* the LAN: an interface is made ready before its first address is added, and
\* no other interface's turn takes addresses away that were ensured,
LanUsable ==
    Undisturbed =>
        /\ job.pc \notin LanLabels \union Last \union {"listen", "end"} => job.ready = {}
        /\ At("forwarding") => job.todo = Gateways
        /\ job.pc \in LanLabels \union Last =>
              /\ host.forwarding
              /\ \A a \in Done : kernel.addr[a] = "healthy" /\ InterfaceOf[a] \in job.ready
              /\ \A i \in job.ready : i \in host.noDad /\ i \notin host.badLinkLocal \ host.disabled
        /\ job.pc \in {"linkLocal", "disable", "enable"} => Interface \in host.noDad
        /\ job.pc \in {"dad", "linkLocal", "disable", "enable"} => Interface \notin job.ready
        /\ At("gateway") => Interface \in job.ready
        /\ job.pc \in Last => job.todo = {}

\* and the default route.
RouteUsable ==
    Undisturbed /\ job.pc \in {"chainsUp", "advertise"} =>
        /\ TunnelExists(kernel)
        /\ kernel.defaultRoute /\ host.source \in RouteSources(document)
        /\ host.source # None => kernel.addr[host.source] = "healthy"

UsableInv == TunnelUsable /\ LanUsable /\ RouteUsable

-----------------------------------------------------------------------------
(***************************************************************************)
(* Types, and the labels of a call.                                        *)
(***************************************************************************)

\* The two histories are only abbreviated by their tuple.
USE DEF past

\* The helpers of the kernel and of the host keep their types.
LEMMA KernelTypes ==
    ASSUME NEW k \in Kernel, NEW A, NEW s \in AddrState
    PROVE  SetAddrs(k, A, s) \in Kernel /\ DropTunnel(k) \in Kernel
  BY DEF Kernel, SetAddrs, DropTunnel, AddrState

\* So do the commands on a chain.
LEMMA ChainTypes ==
    ASSUME NEW f \in Chain, NEW bad, NEW c \in Chains
    PROVE  ChainUp(f, c, bad) \in Chain /\ ChainDown(f, bad) \in Chain
<1>. <<>> \in Seq(Rules)
  BY EmptySeq
<1>1. \A g \in Chain : /\ NewChain(g, bad) \in Chain /\ FlushChain(g, bad) \in Chain
                       /\ RemoveChain(g, bad) \in Chain
  BY DEF Chain, NewChain, FlushChain, RemoveChain, NoChain
<1>4. \A g \in Chain : EnsureJump(g, bad) \in Chain /\ RemoveJump(g, bad) \in Chain
  BY DEF Chain, EnsureJump, RemoveJump
<1>2. ASSUME NEW g \in Chain, NEW r \in Rules PROVE AppendRule(g, r, bad) \in Chain
  <2>1. g.rules \in Seq(Rules) /\ Append(g.rules, r) \in Seq(Rules)
    BY AppendProperties DEF Chain
  <2>. QED BY <2>1 DEF Chain, AppendRule
<1>3. ASSUME NEW g \in Chain PROVE AppendRules(g, c, bad) \in Chain
  <2>1. CASE c = "forward"
    <3>. DEFINE first == AppendRule(g, "established", bad)
                second == AppendRule(first, "outbound", bad)
    <3>1. first \in Chain
      BY <1>2, <1>3 DEF Rules
    <3>2. second \in Chain
      BY <1>2, <3>1 DEF Rules
    <3>3. AppendRule(second, "dropNew", bad) \in Chain
      BY <1>2, <3>2 DEF Rules
    <3>. QED BY <2>1, <3>3 DEF AppendRules
  <2>2. CASE c \in {"input", "mss"}
    BY <1>2, <1>3, <2>2 DEF AppendRules, Rules
  <2>. QED BY <2>1, <2>2 DEF Chains
<1>. QED BY <1>1, <1>3, <1>4 DEF ChainUp, ChainDown

\* The config of a document.
LEMMA ConfigType == ASSUME NEW d \in Document PROVE Config(d) \in ProfileConfigs
  BY ProfileAssumption DEF Document, Config

\* The variables that a command leaves alone.
LEMMA CommandType ==
    ASSUME TypeInv, Command, job' \in Job, kernel' \in Kernel, host' \in Host, PathInv'
    PROVE  TypeInv'
  BY DEF TypeInv, ReconcilerTypeOK, Command, radv, RA!AdvTypeOK

\* A step of the advertiser alone.
LEMMA AdvStepType ==
    ASSUME RA!AdvTypeOK, NEW n \in LanAddrs,
           \/ RA!Listen(n) \/ RA!ListenFails(n) \/ RA!Launch \/ RA!Cancel \/ RA!CloseConns
           \/ RA!Wait \/ RA!AdvDies \/ RA!Send(n) \/ RA!Wake(n) \/ RA!Receive(n)
           \/ RA!ReceiveFails(n) \/ RA!Reply(n)
    PROVE  RA!AdvTypeOK'
<1>. USE DEF RA!AdvTypeOK
<1>1. CASE RA!Listen(n) \/ RA!ListenFails(n)
  BY <1>1 DEF RA!Listen, RA!ListenFails
<1>2. CASE RA!Launch \/ RA!Cancel \/ RA!CloseConns \/ RA!Wait
  BY <1>2 DEF RA!Launch, RA!Cancel, RA!CloseConns, RA!Wait
<1>3. CASE RA!AdvDies
  BY <1>3 DEF RA!AdvDies
<1>4. RA!BuildRA(config.mtu) \in Nat
  BY ReconcilerAssumption DEF RA!BuildRA
<1>5. CASE RA!Send(n) \/ RA!Reply(n)
  BY <1>4, <1>5 DEF RA!Send, RA!Reply, RA!WriteTo
<1>6. CASE RA!Wake(n)
  BY <1>6 DEF RA!Wake
<1>7. CASE RA!Receive(n) \/ RA!ReceiveFails(n)
  BY <1>7 DEF RA!Receive, RA!ReceiveFails
<1>. QED BY <1>1, <1>2, <1>3, <1>5, <1>6, <1>7

\* The chains are worked on in order.
LEMMA Order ==
    /\ DOMAIN ChainOrder = 1..3 /\ Len(ChainOrder) = 3
    /\ \A n \in 1..3 : ChainOrder[n] \in Chains
    /\ \A c \in Chains : \E n \in 1..3 : ChainOrder[n] = c
  BY DEF ChainOrder, Chains

\* The locals besides the label.
Locals ==
    << job.op, job.todo, job.chain, job.net, job.ready, job.wanIP, job.mtu, job.ok,
       job.steady, job.clean >>

\* What Goto does to the locals.
LEMMA GotoJob ==
    ASSUME job \in Job, NEW label \in Labels, Goto(label)
    PROVE  job' \in Job /\ job'.pc = label /\ UNCHANGED Locals
  BY DEF Job, Goto, Locals

\* The locals of a new call.
LEMMA NewJob ==
    ASSUME NEW o \in {"none", "reconcile", "repair"}, NEW label \in Labels,
           job' = [NoJob EXCEPT !.op = o, !.pc = label]
    PROVE  /\ job' \in Job /\ job'.op = o /\ job'.pc = label /\ job'.chain = 1
           /\ job'.ok /\ job'.steady /\ job'.clean /\ job'.mtu = 0
<1>1. NoJob \in Job
  BY Order DEF Job, NoJob, Labels
<1>2. /\ NoJob.chain = 1 /\ NoJob.ok /\ NoJob.steady /\ NoJob.clean /\ NoJob.mtu = 0
  BY DEF NoJob
<1>. HIDE DEF NoJob
<1>. QED BY <1>1, <1>2 DEF Job

\* A reconcile has the record's networks to delete.
LEMMA BeginJob ==
    ASSUME applied \in Applied, BeginReconcile
    PROVE  /\ job' \in Job /\ job'.op = "reconcile" /\ job'.chain = 1
           /\ job'.pc = IF life = "none" THEN "chainsDown" ELSE "stop"
           /\ job'.ok /\ job'.steady /\ job'.clean /\ job'.mtu = 0
           /\ job'.todo = applied.networks
           /\ left' = NoLeftover /\ left' \in Leftover
<1>1. NoJob \in Job
  BY Order DEF Job, NoJob, Labels
<1>2. /\ NoJob.chain = 1 /\ NoJob.ok /\ NoJob.steady /\ NoJob.clean /\ NoJob.mtu = 0
  BY DEF NoJob
<1>3. applied.networks \subseteq LanAddrs
  BY DEF Applied
<1>4. left' = NoLeftover /\ left' \in Leftover
  BY DEF BeginReconcile, NoLeftover, Leftover
<1>. HIDE DEF NoJob
<1>. QED BY <1>1, <1>2, <1>3, <1>4 DEF Job, BeginReconcile, Labels

\* No call is under way.
LEMMA OffJob ==
    LET off == [NoJob EXCEPT !.pc = "off"]
    IN  off \in Job /\ off.op = "none" /\ off.pc = "off" /\ off.chain = 1 /\ off.mtu = 0
<1>1. NoJob \in Job /\ NoJob.op = "none" /\ NoJob.chain = 1 /\ NoJob.mtu = 0
  BY Order DEF Job, NoJob, Labels
<1>. HIDE DEF NoJob
<1>. QED BY <1>1 DEF Job, Labels

\* What a reboot leaves.
LEMMA FreshTypes ==
    /\ EmptyKernel \in Kernel /\ NoChain \in Chain
    /\ \A bad \in SUBSET Interfaces : [FreshHost EXCEPT !.badLinkLocal = bad] \in Host
<1>1. EmptyKernel \in Kernel
  BY DEF Kernel, EmptyKernel, AddrState
<1>2. NoChain \in Chain
  BY EmptySeq DEF NoChain, Chain
<1>3. FreshHost \in Host
  BY DEF FreshHost, Host
<1>. HIDE DEF FreshHost
<1>4. \A bad \in SUBSET Interfaces : [FreshHost EXCEPT !.badLinkLocal = bad] \in Host
  BY <1>3 DEF Host
<1>. QED BY <1>1, <1>2, <1>4

\* A step to the label that follows.
LEMMA GotoPath ==
    ASSUME TypeInv, NEW label \in Labels, Goto(label), document' = document,
           job.op = "reconcile", job.pc \notin {"chainsDown", "chainsUp", "off", "idle"},
           label \notin {"off", "idle"},
           label \in BuildLabels => Wants(document),
           label \in {"mtu", "hostRoute", "tunnel"} => job.wanIP # None,
           label \in LanLabels \union {"forwarding"} => job.todo \subseteq Gateways,
           label \in LanLabels \ {"lan"} => job.net \in Gateways
    PROVE  job' \in Job /\ PathInv'
  BY GotoJob DEF TypeInv, ReconcilerTypeOK, PathInv, Locals, Gateways

\* The callers.
LEMMA CallerType == ASSUME TypeInv, Boot \/ Down \/ HealthLoop PROVE TypeInv'
<1>. USE DEF TypeInv, ReconcilerTypeOK, world, radv
<1>1. ASSUME BeginReconcile, document' \in Document, status' = status PROVE TypeInv'
  <2>1. RA!AdvTypeOK'
    BY <1>1 DEF BeginReconcile, RA!AdvTypeOK, RA!Cancel
  <2>2. /\ job' \in Job /\ job'.op = "reconcile" /\ job'.chain = 1
        /\ job'.pc \in {"chainsDown", "stop"}
    BY <1>1, BeginJob
  <2>3. PathInv'
    BY <2>2 DEF PathInv, LanLabels, UpFrom, BuildLabels
  <2>. QED BY <1>1, <2>1, <2>2, <2>3, BeginJob DEF BeginReconcile
<1>2. CASE Boot \/ Retry
  BY <1>1, <1>2 DEF Boot, Retry
<1>3. CASE Down
  BY <1>1, <1>3 DEF Down, Document
<1>4. CASE BeginRepair
  <2>1. job' \in Job /\ job'.op = "repair" /\ job'.chain = 1 /\ job'.pc = "local"
    BY <1>4, NewJob DEF BeginRepair, Labels
  <2>2. PathInv'
    BY <1>4, <2>1 DEF BeginRepair, PathInv, LanLabels, UpFrom, BuildLabels
  <2>. QED BY <1>4, <2>1, <2>2 DEF BeginRepair, RA!AdvTypeOK
<1>. QED BY <1>2, <1>3, <1>4 DEF HealthLoop

\* A firewall chain is handled, of whose commands one may fail.
ChainStep(from, then, after, bad) ==
    LET last == job.chain = Len(ChainOrder)
    IN  /\ At(from) /\ Failing(bad)
        /\ chain' = [chain EXCEPT ![ChainOrder[job.chain]] = after]
        /\ tidy' = (tidy /\ bad = {})
        /\ job' = [job EXCEPT !.chain = IF last THEN 1 ELSE job.chain + 1,
                              !.pc = IF last THEN then ELSE from,
                              !.clean = job.clean /\ (from = "chainsUp" => bad = {})]
        /\ UNCHANGED <<document, applied, status, kernel, host, wan, wanMTU, left, crashes,
                       radv>>

\* Taking a chain down.
LEMMA ChainsDownStep ==
    ASSUME ChainsDown
    PROVE  \E bad : ChainStep("chainsDown", "delAddrs",
                              ChainDown(chain[ChainOrder[job.chain]], bad), bad)
  BY DEF ChainsDown, OneChain, ChainStep, At

\* Putting a chain up.
LEMMA ChainsUpStep ==
    ASSUME ChainsUp
    PROVE  \E bad : ChainStep("chainsUp", "advertise",
                              ChainUp(chain[ChainOrder[job.chain]], ChainOrder[job.chain], bad),
                              bad)
  BY DEF ChainsUp, OneChain, ChainStep, At

\* Where the call is after a chain.
LEMMA ChainStepJob ==
    ASSUME job \in Job, NEW from \in Labels, NEW then \in Labels, NEW g, NEW bad,
           ChainStep(from, then, g, bad)
    PROVE  /\ job' \in Job /\ job'.op = job.op /\ job'.ok = job.ok
           /\ job'.steady = job.steady /\ job'.ready = job.ready /\ job'.todo = job.todo
           /\ job'.net = job.net /\ job'.wanIP = job.wanIP /\ job'.mtu = job.mtu
           /\ job'.clean = (job.clean /\ (from = "chainsUp" => bad = {}))
           /\ job.chain = 3 => job'.pc = then /\ job'.chain = 1
           /\ job.chain # 3 => job'.pc = from /\ job'.chain = job.chain + 1
<1>1. job.chain \in 1..3
  BY Order DEF Job
<1>2. CASE job.chain = 3
  <2>1. job' = [job EXCEPT !.chain = 1, !.pc = then,
                           !.clean = job.clean /\ (from = "chainsUp" => bad = {})]
    BY <1>2, Order DEF ChainStep
  <2>2. 1 \in DOMAIN ChainOrder
    BY Order
  <2>. QED BY <1>2, <2>1, <2>2 DEF Job
<1>3. CASE job.chain # 3
  <2>1. job.chain + 1 \in 1..3
    BY <1>1, <1>3
  <2>. QED BY <1>3, <2>1, Order DEF ChainStep, Job
<1>. QED BY <1>2, <1>3

\* A command on a chain.
LEMMA ChainStepType ==
    ASSUME TypeInv, NEW from \in Labels, NEW then \in Labels, NEW g \in Chain, NEW bad,
           ChainStep(from, then, g, bad),
           \/ from = "chainsDown" /\ then = "delAddrs"
           \/ from = "chainsUp" /\ then = "advertise"
    PROVE  TypeInv'
<1>. USE DEF TypeInv, ReconcilerTypeOK
<1>1. job.chain \in 1..3 /\ ChainOrder[job.chain] \in Chains
  BY Order DEF Job
<1>2. chain' \in [Chains -> Chain] /\ tidy' \in BOOLEAN /\ faults' \in 0..MaxFaults
  BY <1>1, ReconcilerAssumption DEF Failing, ChainStep
<1>3. job' \in Job
  BY ChainStepJob
<1>4. PathInv'
  BY ChainStepJob DEF ChainStep, PathInv, At, LanLabels, UpFrom, BuildLabels
<1>5. \A x \in Chains : chain'[x].jumps \in Nat
  BY <1>2 DEF Chain
<1>. QED BY <1>2, <1>3, <1>4, <1>5 DEF ChainStep, radv, RA!AdvTypeOK

\* The commands on the chains.
LEMMA OneChainType == ASSUME TypeInv, ChainsDown \/ ChainsUp PROVE TypeInv'
<1>. USE DEF Labels
<1>1. ChainOrder[job.chain] \in Chains /\ chain[ChainOrder[job.chain]] \in Chain
  BY Order DEF TypeInv, ReconcilerTypeOK, Job
<1>2. CASE ChainsDown
  BY <1>1, <1>2, ChainsDownStep, ChainTypes, ChainStepType
<1>3. CASE ChainsUp
  BY <1>1, <1>3, ChainsUpStep, ChainTypes, ChainStepType
<1>. QED BY <1>2, <1>3

\* Addresses change and nothing else does.
LEMMA SetAddrsFields ==
    ASSUME NEW k \in Kernel, NEW A, NEW s \in AddrState
    PROVE  /\ \A a \in Addresses : SetAddrs(k, A, s).addr[a] = IF a \in A THEN s ELSE k.addr[a]
           /\ SetAddrs(k, A, s).routes = k.routes /\ SetAddrs(k, A, s).tunnel = k.tunnel
           /\ SetAddrs(k, A, s).linkUp = k.linkUp
           /\ SetAddrs(k, A, s).defaultRoute = k.defaultRoute
  BY DEF Kernel, SetAddrs

Deletes == DelAddrs \/ DelRoute \/ DelDefault \/ DelTunnel

\* Whether it succeeds or not, a deletion leads to the next one.
LEMMA DeletionJob ==
    ASSUME TypeInv, Deletes
    PROVE  /\ job' \in Job /\ job'.todo \subseteq job.todo
           /\ job'.op = job.op /\ job'.chain = job.chain /\ job'.net = job.net
           /\ job'.ready = job.ready /\ job'.wanIP = job.wanIP /\ job'.mtu = job.mtu
           /\ job'.ok = job.ok /\ job'.steady = job.steady /\ job'.clean = job.clean
           /\ job.op = "reconcile"
           /\ \/ At("delAddrs") /\ job'.pc \in {"delAddrs", "delRoute"}
              \/ At("delRoute") /\ job'.pc = "delDefault"
              \/ At("delDefault") /\ job'.pc = "delTunnel"
              \/ At("delTunnel") /\ job'.pc = IF Wants(document) THEN "wan" ELSE "end"
<1>. USE DEF TypeInv, ReconcilerTypeOK, At
<1>0. job.pc \in Deleting => job.op = "reconcile"
  BY DEF PathInv, Job, Deleting
<1>1. ASSUME NEW a \in LanAddrs, DelAddr(a)
      PROVE  /\ At("delAddrs") /\ job'.pc = "delAddrs" /\ job'.todo = job.todo \ {a}
             /\ job' \in Job
             /\ job'.op = job.op /\ job'.chain = job.chain /\ job'.net = job.net
             /\ job'.ready = job.ready /\ job'.wanIP = job.wanIP /\ job'.mtu = job.mtu
             /\ job'.ok = job.ok /\ job'.steady = job.steady /\ job'.clean = job.clean
  BY <1>1 DEF DelAddr, Job
<1>2. ASSUME NEW label \in Labels, Goto(label)
      PROVE  job' \in Job /\ job'.pc = label /\ UNCHANGED Locals
  BY <1>2, GotoJob
<1>3. CASE DelAddrs
  BY <1>0, <1>1, <1>2, <1>3 DEF DelAddrs, Labels, Locals, Deleting
<1>4. CASE DelRoute
  BY <1>0, <1>2, <1>4 DEF DelRoute, Labels, Locals, Deleting
<1>5. CASE DelDefault
  BY <1>0, <1>2, <1>5 DEF DelDefault, Labels, Locals, Deleting
<1>6. CASE DelTunnel
  BY <1>0, <1>2, <1>6 DEF DelTunnel, Labels, Locals, Deleting
<1>. QED BY <1>3, <1>4, <1>5, <1>6 DEF Deletes

\* What a failed one leaves is noted, and the kernel is not touched.
LEMMA FailedDeletion ==
    ASSUME TypeInv, NEW rest \in Leftover, DeletionFails(rest)
    PROVE  left' = rest /\ left' \in Leftover /\ faults' \in 0..MaxFaults /\ UNCHANGED <<kernel, host>>
  BY ReconcilerAssumption DEF DeletionFails, Failing, world, TypeInv, ReconcilerTypeOK

\* The deletions one by one.
LEMMA AddrDeletion ==
    ASSUME TypeInv, NEW a \in LanAddrs, DelAddr(a)
    PROVE  /\ left' \in Leftover /\ faults' \in 0..MaxFaults /\ host' = host
           /\ \/ kernel' = SetAddrs(kernel, {a}, "missing") /\ left' = left
              \/ /\ kernel' = kernel
                 /\ left'.addrs = left.addrs \union {a} /\ left'.routes = left.routes
<1>. USE DEF TypeInv, ReconcilerTypeOK
<1>1. CASE Command
  BY <1>1 DEF DelAddr, Command, past, DeletionFails, Failing
<1>2. CASE DeletionFails([left EXCEPT !.addrs = left.addrs \union {a}])
  <2>. DEFINE rest == [left EXCEPT !.addrs = left.addrs \union {a}]
  <2>1. /\ rest \in Leftover /\ rest.addrs = left.addrs \union {a}
        /\ rest.routes = left.routes
    BY DEF Leftover
  <2>2. DeletionFails(rest)
    BY <1>2
  <2>. HIDE DEF rest
  <2>. QED BY <2>1, <2>2, FailedDeletion
<1>. QED BY <1>1, <1>2 DEF DelAddr, Command, past

\* The host route's.
LEMMA RouteDeletion ==
    ASSUME TypeInv, DelRoute
    PROVE  /\ left' \in Leftover /\ faults' \in 0..MaxFaults /\ host' = host
           /\ kernel' \in Kernel /\ kernel'.addr = kernel.addr /\ kernel'.tunnel = kernel.tunnel
           /\ left'.addrs = left.addrs
           /\ \/ kernel'.routes = kernel.routes \ {applied.endpoint} /\ left' = left
              \/ /\ kernel'.routes = kernel.routes
                 /\ left'.routes = left.routes \union {applied.endpoint}
<1>. USE DEF TypeInv, ReconcilerTypeOK
<1>1. CASE Command /\ kernel' = [kernel EXCEPT !.routes = kernel.routes \ {applied.endpoint}]
                   /\ UNCHANGED host
  BY <1>1 DEF Command, past, Kernel
<1>2. CASE /\ applied.endpoint \in kernel.routes
           /\ DeletionFails([left EXCEPT !.routes = left.routes \union {applied.endpoint}])
  <2>. DEFINE rest == [left EXCEPT !.routes = left.routes \union {applied.endpoint}]
  <2>0. applied.endpoint \in Endpoints
    BY <1>2 DEF Kernel
  <2>1. /\ rest \in Leftover /\ rest.routes = left.routes \union {applied.endpoint}
        /\ rest.addrs = left.addrs
    BY <2>0 DEF Leftover
  <2>2. DeletionFails(rest)
    BY <1>2
  <2>. HIDE DEF rest
  <2>. QED BY <2>1, <2>2, FailedDeletion
<1>. QED BY <1>1, <1>2 DEF DelRoute

\* The default route's.
LEMMA DefaultDeletion ==
    ASSUME TypeInv, DelDefault
    PROVE  /\ left' \in Leftover /\ faults' \in 0..MaxFaults
           /\ host' \in Host /\ host'.mtu = host.mtu /\ host'.disabled = host.disabled
           /\ kernel' \in Kernel /\ kernel'.addr = kernel.addr /\ kernel'.tunnel = kernel.tunnel
           /\ kernel'.routes = kernel.routes
           /\ left'.addrs = left.addrs /\ left'.routes = left.routes
           /\ DefaultLeft'
<1>. USE DEF TypeInv, ReconcilerTypeOK
<1>1. CASE /\ Command /\ kernel' = [kernel EXCEPT !.defaultRoute = FALSE]
           /\ host' = [host EXCEPT !.source = None]
  BY <1>1 DEF Command, past, Kernel, Host, DefaultLeft
<1>2. CASE kernel.defaultRoute /\ DeletionFails([left EXCEPT !.defaultRoute = TRUE])
  <2>. DEFINE rest == [left EXCEPT !.defaultRoute = TRUE]
  <2>1. /\ rest \in Leftover /\ rest.routes = left.routes /\ rest.addrs = left.addrs
        /\ rest.defaultRoute
    BY DEF Leftover
  <2>2. DeletionFails(rest)
    BY <1>2
  <2>. HIDE DEF rest
  <2>. QED BY <2>1, <2>2, FailedDeletion DEF DefaultLeft
<1>. QED BY <1>1, <1>2 DEF DelDefault

\* And the tunnel's.
LEMMA TunnelDeletion ==
    ASSUME TypeInv, DelTunnel
    PROVE  /\ left' \in Leftover /\ faults' \in 0..MaxFaults /\ kernel' \in Kernel /\ host' \in Host
           /\ host'.disabled = host.disabled
           /\ left'.addrs = left.addrs /\ left'.routes = left.routes
           /\ kernel'.routes = kernel.routes
           /\ \/ kernel' = DropTunnel(kernel)
              \/ kernel' = kernel /\ host' = host
           /\ DefaultLeft => TunnelLeft'
<1>. USE DEF TypeInv, ReconcilerTypeOK
<1>1. CASE /\ Command /\ kernel' = DropTunnel(kernel)
           /\ host' = [host EXCEPT !.mtu = 0, !.source = None]
  <2>1. /\ kernel'.tunnel = None /\ kernel'.linkUp = FALSE /\ kernel'.defaultRoute = FALSE
        /\ kernel'.routes = kernel.routes
        /\ \A a \in TunnelAddrs : kernel'.addr[a] = "missing"
    BY <1>1 DEF DropTunnel, SetAddrs, Kernel, Addresses
  <2>2. TunnelLeft'
    BY <2>1 DEF TunnelLeft, DefaultLeft, TunnelGone, TunnelExists
  <2>3. kernel' \in Kernel /\ host' \in Host /\ host'.disabled = host.disabled
    BY <1>1, KernelTypes DEF Host, AddrState
  <2>. QED BY <1>1, <2>1, <2>2, <2>3 DEF Command, past
<1>2. CASE DeletionFails([left EXCEPT !.tunnel = TRUE])
  <2>. DEFINE rest == [left EXCEPT !.tunnel = TRUE]
  <2>1. /\ rest \in Leftover /\ rest.routes = left.routes /\ rest.addrs = left.addrs
        /\ rest.defaultRoute = left.defaultRoute /\ rest.tunnel
    BY DEF Leftover
  <2>2. DeletionFails(rest)
    BY <1>2
  <2>. HIDE DEF rest
  <2>. QED BY <2>1, <2>2, FailedDeletion DEF TunnelLeft, DefaultLeft
<1>. QED BY <1>1, <1>2 DEF DelTunnel

\* What any of them does: the kernel only ever loses something.
LEMMA DeletionHost ==
    ASSUME TypeInv, Deletes
    PROVE  /\ left' \in Leftover /\ faults' \in 0..MaxFaults /\ kernel' \in Kernel /\ host' \in Host
           /\ host'.disabled = host.disabled
           /\ TunnelExists(kernel)' => TunnelExists(kernel) /\ host'.mtu = host.mtu
           /\ LanNow' \subseteq LanNow /\ kernel'.routes \subseteq kernel.routes
<1>. USE DEF TypeInv, ReconcilerTypeOK
<1>1. ASSUME UNCHANGED <<kernel, host>>
      PROVE  /\ kernel' \in Kernel /\ host' \in Host /\ host'.disabled = host.disabled
             /\ TunnelExists(kernel)' => TunnelExists(kernel) /\ host'.mtu = host.mtu
             /\ LanNow' \subseteq LanNow /\ kernel'.routes \subseteq kernel.routes
  BY <1>1 DEF LanNow, TunnelExists
<1>2. CASE DelAddrs
  <2>1. ASSUME NEW a \in LanAddrs, kernel' = SetAddrs(kernel, {a}, "missing")
        PROVE  /\ kernel' \in Kernel /\ kernel'.tunnel = kernel.tunnel
               /\ kernel'.routes = kernel.routes /\ LanNow' \subseteq LanNow
    BY <2>1, KernelTypes, SetAddrsFields DEF AddrState, LanNow, OnLan, Addresses
  <2>2. CASE \E a \in LanAddrs : DelAddr(a)
    BY <1>1, <2>1, <2>2, AddrDeletion DEF TunnelExists
  <2>3. CASE Command /\ UNCHANGED <<kernel, host>>
    BY <1>1, <2>3 DEF Command, past
  <2>. QED BY <1>2, <2>2, <2>3 DEF DelAddrs
<1>3. ASSUME kernel'.addr = kernel.addr PROVE LanNow' = LanNow
  BY <1>3 DEF LanNow, OnLan
<1>4. CASE DelRoute
  BY <1>3, <1>4, RouteDeletion DEF TunnelExists
<1>5. CASE DelDefault
  BY <1>3, <1>5, DefaultDeletion DEF TunnelExists
<1>6. CASE DelTunnel
  <2>1. CASE kernel' = DropTunnel(kernel)
    <3>1. /\ kernel'.tunnel = None
          /\ kernel'.addr = [a \in Addresses |-> IF a \in TunnelAddrs THEN "missing" ELSE kernel.addr[a]]
      BY <2>1 DEF DropTunnel, SetAddrs, Kernel
    <3>2. LanNow' \subseteq LanNow
      BY <3>1 DEF LanNow, OnLan, Addresses
    <3>. QED BY <1>6, <3>1, <3>2, TunnelDeletion DEF TunnelExists
  <2>2. CASE kernel' = kernel /\ host' = host
    BY <1>1, <1>6, <2>2, TunnelDeletion
  <2>. QED BY <1>6, <2>1, <2>2, TunnelDeletion
<1>. QED BY <1>2, <1>4, <1>5, <1>6 DEF Deletes

\* The commands of a teardown.
LEMMA TeardownType == ASSUME TypeInv, Teardowns PROVE TypeInv'
<1>. USE DEF TypeInv, ReconcilerTypeOK
<1>1. CASE ChainsDown
  BY <1>1, OneChainType
<1>2. CASE Deletes
  <2>1. UNCHANGED <<document, applied, status, chain, wan, wanMTU, tidy, crashes, radv>>
    BY <1>2, DeletionAlone DEF Deletes
  <2>2. job' \in Job
    BY <1>2, DeletionJob
  <2>3. PathInv'
    BY <1>2, <2>1, DeletionJob DEF PathInv, LanLabels, UpFrom, BuildLabels, At
  <2>4. /\ left' \in Leftover /\ faults' \in 0..MaxFaults /\ kernel' \in Kernel
        /\ host' \in Host
    BY <1>2, DeletionHost
  <2>. QED BY <2>1, <2>2, <2>3, <2>4 DEF radv, RA!AdvTypeOK
<1>. QED BY <1>1, <1>2 DEF Teardowns, Deletes

\* ensureIPv6AddressPresent goes on, or tries again.
LEMMA EnsureType ==
    ASSUME TypeInv, NEW a \in Addresses, NEW then \in Job, Ensure(a, then),
           UNCHANGED <<document, job>> => PathInv', job' = then => PathInv'
    PROVE  TypeInv'
<1>1. kernel' \in Kernel /\ job' \in Job /\ host' \in Host /\ PathInv'
  BY KernelTypes DEF Ensure, AddrState, TypeInv, ReconcilerTypeOK, Command
<1>2. CASE Command
  BY <1>1, <1>2, CommandType
<1>3. CASE /\ Failing({"dad"})
           /\ UNCHANGED <<document, applied, status, host, chain, wan, wanMTU, past, crashes, radv>>
  BY <1>1, <1>3, ReconcilerAssumption
     DEF TypeInv, ReconcilerTypeOK, Failing, radv, RA!AdvTypeOK
<1>. QED BY <1>2, <1>3 DEF Ensure

\* The commands of a build on the tunnel.
LEMMA TunnelType ==
    ASSUME TypeInv,
           GetWANIPv4 \/ ResolveTunnelMTU \/ HostRoute \/ TunnelAdd \/ SetMTU \/ SetUp
    PROVE  TypeInv'
<1>. USE DEF TypeInv, ReconcilerTypeOK, At
<1>1. job.op = "reconcile" \/ At("local") \/ At("end")
  BY DEF GetWANIPv4, ResolveTunnelMTU, HostRoute, TunnelAdd, SetMTU, SetUp, PathInv, Job
<1>2. CASE GetWANIPv4
  <2>1. job' \in Job /\ job'.pc = "mtu" /\ job'.wanIP # None /\ job'.op = job.op
        /\ job'.chain = job.chain
    BY <1>2 DEF GetWANIPv4, Job, Labels
  <2>2. PathInv'
    BY <1>1, <1>2, <2>1 DEF GetWANIPv4, Command, PathInv, LanLabels, UpFrom, BuildLabels
  <2>. QED BY <1>2, <2>1, <2>2, CommandType DEF GetWANIPv4
<1>3. CASE ResolveTunnelMTU
  <2>1. ResolveMTU(document, wanMTU) \in Nat
    BY <1>3, MTUAssumption DEF ResolveTunnelMTU, ResolveMTU, Document, MinimumIPv6MTU, TunnelOverhead
  <2>2. job' \in Job /\ job'.pc = "hostRoute" /\ job'.wanIP = job.wanIP /\ job'.op = job.op
        /\ job'.chain = job.chain
    BY <1>3, <2>1 DEF ResolveTunnelMTU, Job, Labels
  <2>3. PathInv'
    BY <1>1, <1>3, <2>2 DEF ResolveTunnelMTU, Command, PathInv, LanLabels, UpFrom, BuildLabels
  <2>. QED BY <1>3, <2>2, <2>3, CommandType DEF ResolveTunnelMTU
<1>. USE DEF PathInv, LanLabels, UpFrom, BuildLabels, Labels
<1>4. CASE HostRoute
  <2>1. kernel' \in Kernel
    BY <1>4, ConfigType DEF HostRoute, AddRoute, Kernel, ProfileConfigs
  <2>2. job' \in Job /\ PathInv'
    BY <1>1, <1>4, GotoPath DEF HostRoute, Command
  <2>. QED BY <1>4, <2>1, <2>2, CommandType DEF HostRoute
<1>5. CASE TunnelAdd
  <2>1. [remote |-> Config(document).endpoint, local |-> job.wanIP] \in Tunnel
    BY <1>5, ConfigType DEF TunnelAdd, Tunnel, ProfileConfigs, Job
  <2>2. kernel' \in Kernel
    BY <1>5, <2>1 DEF TunnelAdd, AddTunnel, Kernel
  <2>3. job' \in Job /\ PathInv'
    BY <1>1, <1>5, GotoPath DEF TunnelAdd, Command
  <2>. QED BY <1>5, <2>2, <2>3, CommandType DEF TunnelAdd
<1>6. CASE SetMTU
  <2>1. host' \in Host
    BY <1>6 DEF SetMTU, Job, Host
  <2>2. job' \in Job /\ PathInv'
    BY <1>1, <1>6, GotoPath DEF SetMTU, Command
  <2>. QED BY <1>6, <2>1, <2>2, CommandType DEF SetMTU
<1>7. CASE SetUp
  <2>1. kernel' \in Kernel
    BY <1>7 DEF SetUp, LinkUp, Kernel
  <2>2. job' \in Job /\ PathInv'
    BY <1>1, <1>7, GotoPath DEF SetUp, Command
  <2>. QED BY <1>7, <2>1, <2>2, CommandType DEF SetUp
<1>. QED BY <1>2, <1>3, <1>4, <1>5, <1>6, <1>7

\* The tunnel's address and the gateways are addresses.
LEMMA ManagedAddresses ==
    ASSUME TypeInv
    PROVE  /\ Config(document).localIPv6 \in TunnelAddrs /\ Gateways \subseteq LanAddrs
           /\ Gateways \subseteq Config(document).networks
           /\ job.pc \in LanLabels \ {"lan"} => job.net \in LanAddrs /\ Interface \in Interfaces
<1>1. Config(document) \in ProfileConfigs
  BY ConfigType DEF TypeInv, ReconcilerTypeOK
<1>2. Config(document).localIPv6 \in TunnelAddrs /\ Gateways \subseteq LanAddrs
      /\ Gateways \subseteq Config(document).networks
  BY <1>1 DEF ProfileConfigs, Gateways
<1>3. job.pc \in LanLabels \ {"lan"} => job.net \in LanAddrs
  BY <1>2 DEF TypeInv, PathInv
<1>. QED BY <1>2, <1>3, InterfaceAssumption DEF Interface

\* The addresses.
LEMMA AddressType == ASSUME TypeInv, EnsureLocal \/ EnsureGateway PROVE TypeInv'
<1>. USE DEF TypeInv, ReconcilerTypeOK, At
<1>1. document' = document
  BY DEF EnsureLocal, EnsureGateway, Ensure, Command
<1>2. UNCHANGED <<document, job>> => PathInv'
  BY DEF PathInv, Gateways
<1>3. CASE EnsureLocal
  <2>. DEFINE to == IF job.op = "repair" THEN "lan" ELSE "forwarding"
              then == [job EXCEPT !.pc = to, !.todo = Gateways]
  <2>1. then \in Job /\ then.op = job.op /\ then.pc = to /\ then.todo = Gateways
        /\ then.chain = job.chain
    BY ManagedAddresses DEF Job, Labels
  <2>2. Ensure(Config(document).localIPv6, then)
    BY <1>3 DEF EnsureLocal
  <2>. HIDE DEF then
  <2>3. job' = then => PathInv'
    BY <1>1, <1>3, <2>1 DEF EnsureLocal, PathInv, LanLabels, UpFrom, BuildLabels, Gateways
  <2>. QED BY <1>2, <2>1, <2>2, <2>3, ManagedAddresses, EnsureType DEF Addresses
<1>4. CASE EnsureGateway
  <2>. DEFINE then == [job EXCEPT !.pc = "lan"]
  <2>1. then \in Job /\ then.op = job.op /\ then.pc = "lan" /\ then.todo = job.todo
        /\ then.chain = job.chain
    BY DEF Job, Labels
  <2>2. Ensure(job.net, then) /\ job.pc = "gateway"
    BY <1>4 DEF EnsureGateway
  <2>. HIDE DEF then
  <2>3. job' = then => PathInv'
    BY <1>1, <2>1, <2>2 DEF PathInv, LanLabels, UpFrom, BuildLabels, Gateways
  <2>. QED BY <1>2, <2>1, <2>2, <2>3, ManagedAddresses, EnsureType DEF Addresses, LanLabels
<1>. QED BY <1>3, <1>4

\* The LAN interfaces.
LEMMA LanType ==
    ASSUME TypeInv,
           \/ Forwarding \/ NextNetwork \/ AcceptDad \/ ReadLinkLocal \/ DisableIPv6
           \/ EnableIPv6 \/ DefaultRoute
    PROVE  TypeInv'
<1>. USE DEF TypeInv, ReconcilerTypeOK, At, Command
<1>1. CASE NextNetwork
  <2>1. CASE job.todo = {} /\ Goto(IF job.op = "repair" THEN "end" ELSE "default")
    <3>1. job' \in Job /\ UNCHANGED Locals /\ job'.pc = IF job.op = "repair" THEN "end" ELSE "default"
      BY <2>1, GotoJob DEF Labels
    <3>2. PathInv'
      BY <1>1, <3>1 DEF NextNetwork, Locals, PathInv, LanLabels, UpFrom, BuildLabels, Job
    <3>. QED BY <1>1, <3>1, <3>2, CommandType DEF NextNetwork
  <2>2. ASSUME NEW a \in job.todo, NEW to \in {"gateway", "dad"},
               job' = [job EXCEPT !.todo = @ \ {a}, !.net = a, !.pc = to],
               job.op = "repair" => to = "gateway"
        PROVE  TypeInv'
    <3>1. a \in Gateways /\ a \in LanAddrs
      BY <1>1, ManagedAddresses DEF NextNetwork, PathInv, LanLabels
    <3>2. /\ job' \in Job /\ job'.op = job.op /\ job'.chain = job.chain /\ job'.net = a
          /\ job'.todo = job.todo \ {a} /\ job'.pc = to
      BY <2>2, <3>1 DEF Job, Labels
    <3>3. PathInv'
      BY <1>1, <2>2, <3>1, <3>2
         DEF NextNetwork, PathInv, LanLabels, UpFrom, BuildLabels, Gateways
    <3>. QED BY <1>1, <3>2, <3>3, CommandType DEF NextNetwork
  <2>. QED BY <1>1, <2>1, <2>2 DEF NextNetwork
<1>2. CASE Forwarding
  <2>1. host' \in Host
    BY <1>2 DEF Forwarding, Host
  <2>2. job' \in Job /\ PathInv'
    BY <1>2, GotoPath DEF Forwarding, PathInv, LanLabels, UpFrom, BuildLabels, Labels, Job
  <2>. QED BY <1>2, <2>1, <2>2, CommandType DEF Forwarding
<1>3. CASE DefaultRoute
  <2>1. PICK s \in RouteSources(document) : host' = [host EXCEPT !.source = s]
    BY <1>3 DEF DefaultRoute
  <2>2. s \in Addresses \union {None}
    BY PreferredAssumption DEF RouteSources
  <2>3. host' \in Host /\ kernel' \in Kernel
    BY <1>3, <2>1, <2>2 DEF DefaultRoute, AddDefaultRoute, Host, Kernel
  <2>4. job' \in Job /\ PathInv'
    BY <1>3, GotoPath DEF DefaultRoute, PathInv, LanLabels, UpFrom, BuildLabels, Labels, Job
  <2>. QED BY <1>3, <2>3, <2>4, CommandType DEF DefaultRoute
<1>. USE ManagedAddresses
<1>4. ASSUME job.pc \in {"dad", "linkLocal", "disable", "enable"} PROVE job.op = "reconcile"
  BY <1>4 DEF PathInv, Job
<1>5. ASSUME Ready, document' = document, job.pc \in {"linkLocal", "enable"} PROVE job' \in Job /\ PathInv'
  <2>1. /\ job' \in Job /\ job'.pc = "gateway" /\ job'.op = job.op /\ job'.net = job.net
        /\ job'.todo = job.todo /\ job'.chain = job.chain
    BY <1>5 DEF Ready, Job, Labels, LanLabels
  <2>. QED BY <1>4, <1>5, <2>1 DEF PathInv, LanLabels, UpFrom, BuildLabels, Gateways
<1>6. CASE AcceptDad
  <2>1. host' \in Host
    BY <1>6 DEF AcceptDad, AcceptNoDad, Host, LanLabels
  <2>2. job' \in Job /\ PathInv'
    BY <1>4, <1>6, GotoPath DEF AcceptDad, PathInv, LanLabels, UpFrom, BuildLabels, Labels
  <2>. QED BY <1>6, <2>1, <2>2, CommandType DEF AcceptDad
<1>7. CASE ReadLinkLocal
  <2>1. job' \in Job /\ PathInv'
    BY <1>4, <1>5, <1>7, GotoPath
       DEF ReadLinkLocal, PathInv, LanLabels, UpFrom, BuildLabels, Labels
  <2>. QED BY <1>7, <2>1, CommandType DEF ReadLinkLocal
<1>8. CASE DisableIPv6
  <2>1. host' \in Host
    BY <1>8 DEF DisableIPv6, DisableHost, Host, LanLabels
  <2>2. kernel' \in Kernel
    BY <1>8, KernelTypes DEF DisableIPv6, FlushInterface, AddrState
  <2>3. job' \in Job /\ PathInv'
    BY <1>4, <1>8, GotoPath DEF DisableIPv6, PathInv, LanLabels, UpFrom, BuildLabels, Labels
  <2>. QED BY <1>8, <2>1, <2>2, <2>3, CommandType DEF DisableIPv6
<1>9. CASE EnableIPv6
  <2>1. host' \in Host
    BY <1>9 DEF EnableIPv6, EnableHost, Host
  <2>. QED BY <1>5, <1>9, <2>1, CommandType DEF EnableIPv6
<1>. QED BY <1>1, <1>2, <1>3, <1>6, <1>7, <1>8, <1>9

\* A command of the build that fails, and the advertiser's sockets.
LEMMA FailType ==
    ASSUME TypeInv, BuildFails \/ ListenFails
    PROVE  TypeInv'
<1>. USE DEF TypeInv, ReconcilerTypeOK
<1>1. job' \in Job /\ job'.pc = "end" /\ job'.op = job.op /\ job'.chain = job.chain
  BY DEF BuildFails, ListenFails, Job, Labels
<1>2. document' = document /\ job.pc \notin {"off", "idle", "chainsDown", "chainsUp"}
  BY DEF BuildFails, ListenFails, At
<1>3. PathInv'
  BY <1>1, <1>2 DEF PathInv, LanLabels, UpFrom, BuildLabels
<1>4. faults' \in 0..MaxFaults
  BY ReconcilerAssumption DEF BuildFails, ListenFails, Failing
<1>5. RA!AdvTypeOK'
  BY AdvStepType DEF BuildFails, ListenFails, radv, RA!AdvTypeOK
<1>. QED BY <1>1, <1>3, <1>4, <1>5 DEF BuildFails, ListenFails, world

\* The advertiser is stopped and started.
LEMMA AdvertiseType == ASSUME TypeInv, StopAdvertiser \/ Advertise \/ ListenOn PROVE TypeInv'
<1>. USE DEF TypeInv, ReconcilerTypeOK, At, world
<1>0. job.op = "reconcile"
  BY DEF StopAdvertiser, Advertise, ListenOn, PathInv, Job
<1>1. job' \in Job /\ PathInv'
  <2>1. CASE UNCHANGED job
    BY <2>1 DEF StopAdvertiser, Advertise, ListenOn, PathInv, Gateways
  <2>2. CASE StopAdvertiser /\ Goto("chainsDown")
    BY <1>0, <2>2, GotoPath DEF StopAdvertiser, PathInv, LanLabels, UpFrom, BuildLabels, Labels
  <2>3. CASE Advertise /\ (Goto("listen") \/ Goto("end"))
    BY <1>0, <2>3, GotoPath DEF Advertise, PathInv, LanLabels, UpFrom, BuildLabels, Labels
  <2>4. CASE ListenOn /\ Goto("end")
    BY <1>0, <2>4, GotoPath DEF ListenOn, PathInv, LanLabels, UpFrom, BuildLabels, Labels
  <2>. QED BY <2>1, <2>2, <2>3, <2>4 DEF StopAdvertiser, Advertise, ListenOn
<1>2. RA!AdvTypeOK'
  <2>1. CASE UNCHANGED radv
    BY <2>1 DEF radv, RA!AdvTypeOK
  <2>2. CASE RA!CloseConns \/ RA!Wait \/ RA!Launch
    BY <2>2 DEF RA!AdvTypeOK, RA!CloseConns, RA!Wait, RA!Launch
  <2>3. CASE \E n \in LanAddrs : RA!Listen(n)
    BY <2>3, AdvStepType
  <2>4. CASE RA!Open(Config(document).networks, job.mtu)
    BY <2>4, ConfigType DEF RA!AdvTypeOK, RA!Open, ProfileConfigs, Job
  <2>. QED BY <2>1, <2>2, <2>3, <2>4 DEF StopAdvertiser, Advertise, ListenOn
<1>. QED BY <1>1, <1>2 DEF StopAdvertiser, Advertise, ListenOn

\* The end of a call.
LEMMA EndType == ASSUME TypeInv, EndReconcile \/ EndRepair PROVE TypeInv'
<1>. USE DEF TypeInv, ReconcilerTypeOK, world, radv
<1>1. ASSUME job' = NoJob PROVE job' \in Job /\ PathInv'
  <2>1. job' \in Job /\ job'.op = "none" /\ job'.pc = "idle" /\ job'.chain = 1
    BY <1>1, Order DEF NoJob, Job, Labels
  <2>. QED BY <2>1 DEF PathInv, LanLabels, UpFrom, BuildLabels
<1>2. CASE EndReconcile
  <2>1. applied' \in Applied
    BY <1>2, ConfigType DEF EndReconcile, FinalApplied, Applied, EmptyApplied, BuildApplied, ProfileConfigs
  <2>2. status' \in [ready: BOOLEAN, mtu: Nat, clean: BOOLEAN]
    <3>1. ConfiguredMTU[document.profile] \in Nat /\ job.mtu \in Nat
      BY MTUAssumption DEF Document, Job
    <3>2. /\ (Wants(document) /\ job.ok /\ Clean) \in BOOLEAN
          /\ (Wants(document) /\ job.ok /\ job.clean) \in BOOLEAN
      OBVIOUS
    <3>. QED BY <1>2, <3>1, <3>2 DEF EndReconcile
  <2>. QED BY <1>1, <1>2, <2>1, <2>2 DEF EndReconcile, RA!AdvTypeOK
<1>3. CASE EndRepair /\ job.ok
  <2>1. status' \in [ready: BOOLEAN, mtu: Nat, clean: BOOLEAN]
    BY <1>3 DEF EndRepair, Clean
  <2>. QED BY <1>1, <1>3, <2>1 DEF EndRepair, RA!AdvTypeOK
<1>4. CASE EndRepair /\ ~job.ok
  <2>1. RA!AdvTypeOK'
    BY <1>4 DEF EndRepair, BeginReconcile, RA!AdvTypeOK, RA!Cancel
  <2>2. /\ job' \in Job /\ job'.op = "reconcile" /\ job'.chain = 1
        /\ job'.pc \in {"chainsDown", "stop"}
    BY <1>4, BeginJob DEF EndRepair
  <2>3. PathInv'
    BY <2>2 DEF PathInv, LanLabels, UpFrom, BuildLabels
  <2>. QED BY <1>4, <2>1, <2>2, <2>3, BeginJob DEF EndRepair, BeginReconcile
<1>. QED BY <1>2, <1>3, <1>4

\* Crashes, reboots, and what others do.
LEMMA OutsideType == ASSUME TypeInv, Crash \/ Environment PROVE TypeInv'
<1>. USE DEF TypeInv, ReconcilerTypeOK
<1>1. CASE Crash
  <2>1. /\ job' \in Job /\ job'.op = "none" /\ job'.pc = "off" /\ job'.chain = 1
    BY <1>1, OffJob DEF Crash
  <2>2. PathInv'
    BY <2>1 DEF PathInv, LanLabels, UpFrom, BuildLabels
  <2>3. kernel' \in Kernel /\ host' \in Host
    BY <1>1, FreshTypes DEF Crash
  <2>4. chain' \in [Chains -> Chain] /\ \A c \in Chains : chain'[c].jumps \in Nat
    <3>1. chain' \in [Chains -> Chain]
      BY <1>1, FreshTypes DEF Crash
    <3>. QED BY <3>1 DEF Chain
  <2>5. RA!AdvTypeOK'
    BY <1>1 DEF Crash, RA!AdvDies, RA!AdvTypeOK
  <2>6. crashes' \in 0..MaxCrashes
    BY <1>1, ReconcilerAssumption DEF Crash
  <2>. QED BY <1>1, <2>1, <2>2, <2>3, <2>4, <2>5, <2>6 DEF Crash
<1>2. ASSUME NEW k \in Kernel, NEW h \in Host, Disturb(k, h) PROVE TypeInv'
  <2>1. job' \in Job /\ job'.pc = job.pc /\ job'.op = job.op /\ job'.chain = job.chain
        /\ job'.wanIP = job.wanIP /\ job'.todo = job.todo /\ job'.net = job.net
    BY <1>2 DEF Disturb, Job
  <2>2. PathInv'
    BY <1>2, <2>1 DEF Disturb, PathInv, Gateways
  <2>3. faults' \in 0..MaxFaults
    BY <1>2, ReconcilerAssumption DEF Disturb, Failing
  <2>. QED BY <1>2, <2>1, <2>2, <2>3 DEF Disturb, radv, RA!AdvTypeOK
<1>3. CASE LoseTunnel
  <2>1. DropTunnel(kernel) \in Kernel
    BY KernelTypes DEF AddrState
  <2>2. [host EXCEPT !.mtu = 0, !.source = None] \in Host
    BY DEF Host
  <2>. QED BY <1>2, <1>3, <2>1, <2>2 DEF LoseTunnel
<1>4. CASE ResetInterface
  <2>1. \A i \in Interfaces : FlushInterface(kernel, i) \in Kernel
    BY KernelTypes DEF FlushInterface, AddrState
  <2>2. \A i \in Interfaces, bad \in BOOLEAN :
          [host EXCEPT !.noDad = @ \ {i},
                       !.badLinkLocal = IF bad THEN @ \union {i} ELSE @ \ {i}] \in Host
    BY DEF Host
  <2>. QED BY <1>2, <1>4, <2>1, <2>2 DEF ResetInterface
<1>5. CASE WanReady
  BY <1>5 DEF WanReady, PathInv, Gateways, radv, RA!AdvTypeOK
<1>. QED BY <1>1, <1>3, <1>4, <1>5 DEF Environment

\* Every step keeps the types.
LEMMA NextType == ASSUME TypeInv, [Next]_vars PROVE TypeInv'
<1>1. CASE Boot \/ Down \/ HealthLoop
  BY <1>1, CallerType
<1>2. CASE Working
  BY <1>2, AdvertiseType, TeardownType, TunnelType, AddressType, LanType, OneChainType,
     FailType, EndType DEF Working, Builds
<1>3. CASE Crash \/ Environment
  BY <1>3, OutsideType
<1>4. CASE \E n \in LanAddrs : SenderStep(n) \/ ListenerStep(n) \/ Solicited(n)
  <2>1. RA!AdvTypeOK'
    BY <1>4, AdvStepType DEF SenderStep, ListenerStep, Solicited, TypeInv, ReconcilerTypeOK
  <2>. QED BY <1>4, <2>1
       DEF SenderStep, ListenerStep, Solicited, Apart, world, TypeInv, ReconcilerTypeOK, PathInv,
           Gateways
<1>5. CASE UNCHANGED vars
  BY <1>5 DEF vars, world, radv, TypeInv, ReconcilerTypeOK, PathInv, Gateways, RA!AdvTypeOK
<1>. QED BY <1>1, <1>2, <1>3, <1>4, <1>5 DEF Next

\* The router has just booted.
LEMMA InitTypes == Init => TypeInv
<1>. SUFFICES ASSUME Init PROVE TypeInv
  OBVIOUS
<1>1. /\ job \in Job /\ job.op = "none" /\ job.pc = "off" /\ job.chain = 1
  BY OffJob DEF Init
<1>2. PathInv
  BY <1>1 DEF PathInv, LanLabels, UpFrom, BuildLabels
<1>3. kernel \in Kernel /\ host \in Host /\ applied \in Applied
  BY FreshTypes DEF Init, Applied, EmptyApplied
<1>5. left \in Leftover
  BY DEF Init, NoLeftover, Leftover
<1>4. chain \in [Chains -> Chain] /\ \A c \in Chains : chain[c].jumps \in Nat
  BY EmptySeq DEF Init, NoChain, Chain
<1>. QED BY <1>1, <1>2, <1>3, <1>4, <1>5, ReconcilerAssumption
     DEF Init, TypeInv, ReconcilerTypeOK, RA!AdvInit, RA!AdvTypeOK

\* The types hold in every order of failures, crashes and changes from outside.
THEOREM ReconcilerTypes == Spec => []ReconcilerTypeOK
<1>1. TypeInv => ReconcilerTypeOK
  BY DEF TypeInv
<1>. QED BY <1>1, InitTypes, NextType, PTL DEF Spec

-----------------------------------------------------------------------------
(***************************************************************************)
(* The advertiser's life follows the labels of the call.                   *)
(***************************************************************************)

\* The labels a command of teardown or build starts from and leads to.
Commanding == {"chainsDown", "delAddrs", "delRoute", "delDefault", "delTunnel"} \union
              (BuildLabels \ {"advertise", "listen"})

\* A command stays within its call and leaves the document and the status alone.
LEMMA CommandPath ==
    ASSUME TypeInv, Teardowns \/ Builds \/ BuildFails
    PROVE  /\ job'.op = job.op /\ job'.steady = job.steady
           /\ job.pc \in Commanding
           /\ job'.pc \in Commanding \union {"advertise", "end"}
           /\ UNCHANGED <<document, applied, status, crashes, radv>>
<1>. USE DEF TypeInv, ReconcilerTypeOK, Commanding, BuildLabels, UpFrom, LanLabels, At, Command
<1>0. ASSUME NEW label \in Labels, Goto(label)
      PROVE  job'.op = job.op /\ job'.steady = job.steady /\ job'.pc = label
  BY <1>0, GotoJob DEF Locals
<1>1. CASE ChainsDown \/ ChainsUp
  <2>1. PICK from, then, g, bad :
          /\ ChainStep(from, then, g, bad)
          /\ \/ from = "chainsDown" /\ then = "delAddrs"
             \/ from = "chainsUp" /\ then = "advertise"
    BY <1>1, ChainsDownStep, ChainsUpStep
  <2>2. from \in Labels /\ then \in Labels
    BY <2>1 DEF Labels
  <2>3. job'.op = job.op /\ job'.steady = job.steady /\ job'.pc \in {from, then}
    BY <2>1, <2>2, ChainStepJob
  <2>. QED BY <2>1, <2>3 DEF ChainStep
<1>2. CASE Deletes
  BY <1>2, DeletionJob, DeletionAlone DEF Deletes
<1>4. CASE GetWANIPv4 \/ ResolveTunnelMTU
  BY <1>4 DEF GetWANIPv4, ResolveTunnelMTU, Job
<1>5. CASE HostRoute \/ TunnelAdd \/ SetMTU \/ SetUp \/ Forwarding
  BY <1>0, <1>5 DEF HostRoute, TunnelAdd, SetMTU, SetUp, Forwarding, Labels
<1>6. CASE EnsureLocal \/ EnsureGateway
  BY <1>6 DEF EnsureLocal, EnsureGateway, Ensure, Job
<1>7. CASE NextNetwork
  BY <1>0, <1>7 DEF NextNetwork, Job, Labels
<1>8. CASE ReadLinkLocal \/ EnableIPv6
  BY <1>0, <1>8 DEF ReadLinkLocal, EnableIPv6, Ready, Job, Labels
<1>9. CASE AcceptDad \/ DisableIPv6 \/ DefaultRoute
  BY <1>0, <1>9 DEF AcceptDad, DisableIPv6, DefaultRoute, Labels
<1>10. CASE BuildFails
  BY <1>10 DEF BuildFails, Job
<1>. QED BY <1>1, <1>2, <1>4, <1>5, <1>6, <1>7, <1>8, <1>9, <1>10 DEF Teardowns, Builds, Deletes

\* While a reconcile runs its commands there is no advertiser.
LEMMA NoneMeanwhile ==
    ASSUME TypeInv, LifeInv, job.op # "repair", job.pc \in Commanding
    PROVE  life = "none"
  BY DEF TypeInv, ReconcilerTypeOK, LifeInv, At, Commanding, BuildLabels, UpFrom, LanLabels,
         RA!AdvTypeOK

\* Every step keeps the advertiser and the call in step.
LEMMA NextLife == ASSUME TypeInv, LifeInv, [Next]_vars PROVE LifeInv'
<1>. USE DEF LifeInv, At
<1>0. life \in {"none", "opening", "running", "cancelled", "waiting"} /\ job \in Job
      /\ (job.op = "none" <=> job.pc \in {"off", "idle"})
  BY DEF TypeInv, ReconcilerTypeOK, RA!AdvTypeOK, PathInv
<1>1. ASSUME BeginReconcile, At("off") \/ At("idle") \/ At("end") PROVE LifeInv'
  <2>1. /\ job'.op = "reconcile"
        /\ job'.pc = IF life = "none" THEN "chainsDown" ELSE "stop"
    BY <1>1, BeginJob DEF TypeInv, ReconcilerTypeOK
  <2>. QED BY <1>0, <1>1, <2>1 DEF BeginReconcile, RA!Cancel, radv
<1>2. CASE Boot \/ Down \/ Retry
  BY <1>1, <1>2 DEF Boot, Down, Retry
<1>3. CASE BeginRepair
  <2>1. job'.op = "repair" /\ job'.pc = "local"
    BY <1>3, NewJob DEF BeginRepair, Labels
  <2>. QED BY <1>0, <1>3, <2>1 DEF BeginRepair, radv
<1>4. CASE Teardowns \/ Builds \/ BuildFails
  BY <1>0, <1>4, CommandPath DEF Commanding, BuildLabels, UpFrom, LanLabels, radv
<1>5. CASE StopAdvertiser
  BY <1>0, <1>5, GotoJob DEF StopAdvertiser, RA!CloseConns, RA!Wait, Labels, radv
<1>6. CASE Advertise
  BY <1>0, <1>6, GotoJob DEF Advertise, RA!Open, Labels, radv, WantsRA
<1>7. CASE ListenOn
  <2>1. Wants(document)
    BY <1>7 DEF ListenOn, TypeInv, PathInv, BuildLabels, UpFrom
  <2>. QED BY <1>0, <1>7, <2>1, GotoJob DEF ListenOn, RA!Listen, RA!Launch, Labels
<1>8. CASE ListenFails
  <2>1. job'.pc = "end"
    BY <1>0, <1>8 DEF ListenFails, Job
  <2>. QED BY <1>8, <2>1 DEF ListenFails, RA!ListenFails
<1>9. CASE EndReconcile \/ EndRepair
  <2>1. CASE EndRepair /\ ~job.ok
    BY <1>1, <2>1 DEF EndRepair
  <2>2. CASE job' = NoJob /\ UNCHANGED <<document, radv>>
    <3>1. job'.pc = "idle"
      BY <2>2 DEF NoJob
    <3>. QED BY <1>0, <1>9, <2>2, <3>1 DEF EndReconcile, EndRepair, radv
  <2>. QED BY <1>9, <2>1, <2>2 DEF EndReconcile, EndRepair
<1>10. CASE Crash
  <2>1. job'.pc = "off"
    BY <1>10, OffJob DEF Crash
  <2>. QED BY <1>10, <2>1 DEF Crash, RA!AdvDies
<1>11. CASE Environment
  <2>1. job'.pc = job.pc /\ job'.op = job.op /\ UNCHANGED <<document, radv>>
    BY <1>0, <1>11 DEF Environment, LoseTunnel, ResetInterface, Disturb, WanReady, Job
  <2>. QED BY <2>1 DEF radv
<1>12. CASE \E n \in LanAddrs : SenderStep(n) \/ ListenerStep(n) \/ Solicited(n)
  BY <1>12 DEF SenderStep, ListenerStep, Solicited, Apart, RA!Send, RA!Wake, RA!Receive,
               RA!ReceiveFails, RA!Reply
<1>13. CASE UNCHANGED vars
  BY <1>13 DEF vars, radv
<1>. QED BY <1>2, <1>3, <1>4, <1>5, <1>6, <1>7, <1>8, <1>9, <1>10, <1>11, <1>12, <1>13
     DEF Next, Working, HealthLoop

-----------------------------------------------------------------------------
(***************************************************************************)
(* One MTU.                                                                *)
(***************************************************************************)
Resolved == BuildLabels \ {"wan", "mtu"}

\* A step that sets no MTU and adds no tunnel; it may take the tunnel away.
MtuAlone ==
    /\ job'.op = job.op /\ job'.mtu = job.mtu
    /\ TunnelExists(kernel)' => TunnelExists(kernel) /\ host'.mtu = host.mtu
    /\ job.op = "reconcile" =>
          /\ job'.pc \in UpFrom => job.pc \in UpFrom
          /\ job'.pc \in Resolved => job.pc \in Resolved

\* Such a step keeps the MTUs equal.
LEMMA MtuStays ==
    ASSUME OneMtuInv, MtuAlone, UNCHANGED <<radv, status>>
    PROVE  OneMtuInv'
  BY DEF OneMtuInv, MtuAlone, Resolved, radv

\* The commands but the three that make an MTU, a tunnel, or give it one.
LEMMA CommandMtu ==
    ASSUME TypeInv, Teardowns \/ Builds \/ BuildFails, ~ResolveTunnelMTU, ~TunnelAdd, ~SetMTU
    PROVE  MtuAlone
<1>. USE DEF TypeInv, ReconcilerTypeOK, At, Command, BuildLabels, UpFrom, LanLabels, Resolved, TunnelExists
<1>0. ASSUME NEW label \in Labels, Goto(label)
      PROVE  job'.op = job.op /\ job'.mtu = job.mtu /\ job'.pc = label
  BY <1>0, GotoJob DEF Locals
<1>1. CASE ChainsDown \/ ChainsUp
  <2>1. PICK from, then, g, bad :
          /\ ChainStep(from, then, g, bad)
          /\ \/ from = "chainsDown" /\ then = "delAddrs"
             \/ from = "chainsUp" /\ then = "advertise"
    BY <1>1, ChainsDownStep, ChainsUpStep
  <2>2. from \in Labels /\ then \in Labels
    BY <2>1 DEF Labels
  <2>3. job'.op = job.op /\ job'.mtu = job.mtu /\ job'.pc \in {from, then}
    BY <2>1, <2>2, ChainStepJob
  <2>. QED BY <2>1, <2>3 DEF ChainStep, MtuAlone
<1>2. CASE Deletes
  BY <1>2, DeletionJob, DeletionHost DEF MtuAlone
<1>5. CASE GetWANIPv4
  BY <1>5 DEF GetWANIPv4, MtuAlone, Job
<1>6. CASE HostRoute \/ SetUp
  BY <1>0, <1>6 DEF HostRoute, SetUp, AddRoute, LinkUp, MtuAlone, Kernel, Labels
<1>7. CASE Forwarding \/ AcceptDad
  BY <1>0, <1>7 DEF Forwarding, AcceptDad, AcceptNoDad, MtuAlone, Host, Labels
<1>8. CASE EnsureLocal \/ EnsureGateway
  BY <1>8 DEF EnsureLocal, EnsureGateway, Ensure, SetAddrs, MtuAlone, Job, Kernel
<1>9. CASE NextNetwork
  BY <1>0, <1>9 DEF NextNetwork, MtuAlone, Job, Labels
<1>10. CASE ReadLinkLocal
  BY <1>0, <1>10 DEF ReadLinkLocal, Ready, MtuAlone, Job, Labels
<1>11. CASE EnableIPv6
  BY <1>11 DEF EnableIPv6, EnableHost, Ready, MtuAlone, Job, Host
<1>12. CASE DisableIPv6
  BY <1>0, <1>12 DEF DisableIPv6, DisableHost, FlushInterface, SetAddrs, MtuAlone, Kernel, Host, Labels
<1>13. CASE DefaultRoute
  BY <1>0, <1>13 DEF DefaultRoute, AddDefaultRoute, MtuAlone, Kernel, Host, Labels
<1>14. CASE BuildFails
  BY <1>14 DEF BuildFails, world, MtuAlone, Job
<1>. QED BY <1>1, <1>2, <1>5, <1>6, <1>7, <1>8, <1>9, <1>10, <1>11, <1>12, <1>13, <1>14
     DEF Teardowns, Builds, Deletes

\* The three commands that are about the MTU.
LEMMA MakeMtu ==
    ASSUME TypeInv, LifeInv, OneMtuInv, ResolveTunnelMTU \/ TunnelAdd \/ SetMTU
    PROVE  OneMtuInv'
<1>. USE DEF TypeInv, ReconcilerTypeOK, At, Command
<1>1. job.op = "reconcile" /\ life = "none" /\ life' = "none"
  BY NoneMeanwhile
     DEF ResolveTunnelMTU, TunnelAdd, SetMTU, PathInv, Job, radv, Commanding, BuildLabels
<1>. USE DEF OneMtuInv, BuildLabels, UpFrom, LanLabels
<1>2. CASE ResolveTunnelMTU
  <2>1. ResolveMTU(document, wanMTU) \in Nat \ {0}
    BY <1>2, MTUAssumption
       DEF ResolveTunnelMTU, ResolveMTU, Document, MinimumIPv6MTU, TunnelOverhead
  <2>2. job'.mtu > 0 /\ job'.pc = "hostRoute"
    BY <1>2, <2>1 DEF ResolveTunnelMTU, Job
  <2>. QED BY <1>1, <2>2
<1>3. CASE TunnelAdd
  <2>1. job'.mtu = job.mtu /\ job'.pc = "setMTU" /\ job'.op = job.op
    BY <1>3, GotoJob DEF TunnelAdd, Labels, Locals
  <2>. QED BY <1>1, <1>3, <2>1 DEF TunnelAdd
<1>4. CASE SetMTU
  <2>1. job'.mtu = job.mtu /\ job'.pc = "up" /\ host'.mtu = job.mtu /\ job'.op = job.op
    BY <1>4, GotoJob DEF SetMTU, Labels, Locals, Host
  <2>. QED BY <1>1, <1>4, <2>1 DEF SetMTU
<1>. QED BY <1>2, <1>3, <1>4

\* The advertiser takes the MTU over and sends no other.
LEMMA AdvertiseMtu ==
    ASSUME TypeInv, LifeInv, OneMtuInv, StopAdvertiser \/ Advertise \/ ListenOn \/ ListenFails
    PROVE  OneMtuInv'
<1>. USE DEF TypeInv, ReconcilerTypeOK, At, world
<1>0. job.op = "reconcile"
  BY DEF StopAdvertiser, Advertise, ListenOn, ListenFails, PathInv, Job
<1>. USE DEF BuildLabels, UpFrom, LanLabels, LifeInv, TunnelExists
<1>1. CASE StopAdvertiser
  <2>1. job'.op = job.op /\ job'.mtu = job.mtu /\ job'.pc \in {"stop", "chainsDown"}
    BY <1>1, GotoJob DEF StopAdvertiser, Locals, Labels
  <2>2. life' \notin {"opening", "running"}
    BY <1>1 DEF StopAdvertiser, RA!CloseConns, RA!Wait, radv
  <2>. QED BY <1>1, <2>1, <2>2 DEF StopAdvertiser, OneMtuInv
<1>2. CASE Advertise
  <2>1. job'.op = job.op /\ job'.mtu = job.mtu /\ job'.pc \in {"listen", "end"}
    BY <1>2, GotoJob DEF Advertise, Locals, Labels
  <2>2. CASE UNCHANGED radv
    BY <1>0, <1>2, <2>1, <2>2 DEF Advertise, OneMtuInv, radv
  <2>3. CASE RA!Open(Config(document).networks, job.mtu)
    BY <1>0, <1>2, <2>1, <2>3 DEF Advertise, OneMtuInv, RA!Open
  <2>. QED BY <1>2, <2>2, <2>3 DEF Advertise
<1>3. CASE ListenOn
  <2>1. job'.op = job.op /\ job'.mtu = job.mtu /\ job'.pc \in {"listen", "end"}
    BY <1>3, GotoJob DEF ListenOn, Locals, Labels
  <2>2. config'.mtu = config.mtu /\ sent' = sent
    BY <1>3 DEF ListenOn, RA!Listen, RA!Launch, RA!AdvTypeOK
  <2>3. life = "opening"
    BY <1>3 DEF ListenOn
  <2>. QED BY <1>0, <1>3, <2>1, <2>2, <2>3 DEF ListenOn, OneMtuInv
<1>4. CASE ListenFails
  <2>1. job'.op = job.op /\ job'.mtu = job.mtu /\ job'.pc = "end" /\ life' = "none"
    BY <1>4 DEF ListenFails, RA!ListenFails, Job
  <2>. QED BY <1>4, <2>1 DEF ListenFails, OneMtuInv
<1>. QED BY <1>1, <1>2, <1>3, <1>4

\* The goroutines send the advertiser's MTU.
LEMMA SendMtu ==
    ASSUME TypeInv, OneMtuInv, NEW n \in LanAddrs,
           SenderStep(n) \/ ListenerStep(n) \/ Solicited(n)
    PROVE  OneMtuInv'
<1>1. /\ UNCHANGED <<life, config>>
      /\ sent' = sent \/ sent' = [sent EXCEPT ![n] = @ \union {RA!BuildRA(config.mtu)}]
  BY DEF SenderStep, ListenerStep, Solicited, RA!Send, RA!Wake, RA!Receive, RA!ReceiveFails,
         RA!Reply, RA!WriteTo
<1>2. config.mtu > 0 => RA!BuildRA(config.mtu) = config.mtu
  BY DEF RA!BuildRA
<1>3. UNCHANGED <<job, kernel, host, status>>
  BY DEF SenderStep, ListenerStep, Solicited, Apart, world
<1>. QED BY <1>1, <1>2, <1>3 DEF TypeInv, ReconcilerTypeOK, RA!AdvTypeOK, OneMtuInv, TunnelExists

\* Every step keeps them.
LEMMA NextOneMtu == ASSUME TypeInv, LifeInv, OneMtuInv, [Next]_vars PROVE OneMtuInv'
<1>. USE DEF TypeInv, ReconcilerTypeOK, At, world
<1>1. ASSUME BeginReconcile PROVE OneMtuInv'
  <2>1. job'.op = "reconcile" /\ job'.pc \in {"chainsDown", "stop"}
    BY <1>1, BeginJob DEF TypeInv, ReconcilerTypeOK
  <2>2. life' \notin {"opening", "running"}
    BY <1>1 DEF BeginReconcile, RA!Cancel, radv
  <2>. QED BY <2>1, <2>2 DEF OneMtuInv, BuildLabels, UpFrom, LanLabels
<1>2. CASE Boot \/ Down \/ Retry
  BY <1>1, <1>2 DEF Boot, Down, Retry
<1>3. CASE BeginRepair
  <2>1. job'.op = "repair" /\ job.op = "none"
    BY <1>3, NewJob DEF BeginRepair, Labels, PathInv
  <2>. QED BY <1>3, <2>1 DEF BeginRepair, OneMtuInv, radv
<1>4. CASE Teardowns \/ Builds \/ BuildFails
  BY <1>4, CommandPath, CommandMtu, MtuStays, MakeMtu
<1>5. CASE StopAdvertiser \/ Advertise \/ ListenOn \/ ListenFails
  BY <1>5, AdvertiseMtu
<1>6. CASE EndReconcile
  <2>1. job'.op = "none" /\ UNCHANGED <<kernel, host, radv>>
    BY <1>6 DEF EndReconcile, NoJob
  <2>2. life = "running" => status'.mtu = config.mtu
    BY <1>6 DEF EndReconcile, OneMtuInv, LifeInv
  <2>3. life # "opening"
    BY <1>6 DEF EndReconcile, LifeInv
  <2>. QED BY <1>6, <2>1, <2>2, <2>3 DEF EndReconcile, OneMtuInv, radv, TunnelExists
<1>7. CASE EndRepair
  <2>1. CASE ~job.ok
    BY <1>1, <1>7, <2>1 DEF EndRepair
  <2>2. CASE job.ok
    <3>1. job'.op = "none" /\ UNCHANGED <<kernel, host, radv>> /\ status'.mtu = status.mtu
      BY <1>7, <2>2 DEF EndRepair, NoJob
    <3>. QED BY <1>7, <3>1 DEF EndRepair, OneMtuInv, radv, TunnelExists
  <2>. QED BY <2>1, <2>2
<1>8. CASE Crash
  <2>1. job'.op = "none"
    BY <1>8, OffJob DEF Crash
  <2>. QED BY <1>8, <2>1 DEF Crash, RA!AdvDies, OneMtuInv
<1>9. CASE Environment
  <2>1. CASE LoseTunnel
    BY <2>1, MtuStays
       DEF LoseTunnel, Disturb, DropTunnel, SetAddrs, MtuAlone, Kernel, Host, Job, TunnelExists
  <2>2. CASE ResetInterface
    BY <2>2, MtuStays
       DEF ResetInterface, Disturb, FlushInterface, SetAddrs, MtuAlone, Kernel, Host, Job, TunnelExists
  <2>3. CASE WanReady
    BY <2>3, MtuStays DEF WanReady, MtuAlone, TunnelExists
  <2>. QED BY <1>9, <2>1, <2>2, <2>3 DEF Environment
<1>10. CASE \E n \in LanAddrs : SenderStep(n) \/ ListenerStep(n) \/ Solicited(n)
  BY <1>10, SendMtu
<1>11. CASE UNCHANGED vars
  BY <1>11, MtuStays DEF vars, MtuAlone, TunnelExists
<1>. QED BY <1>2, <1>3, <1>4, <1>5, <1>6, <1>7, <1>8, <1>9, <1>10, <1>11
     DEF Next, Working, HealthLoop

\* Clients and the reader of the status are told the MTU the tunnel really has
\* (Reconcile, startAdvertiserLocked, BuildRA).
THEOREM OneMtuEverywhere == Spec => []OneMtu
<1>1. Init => LifeInv /\ OneMtuInv
  BY OffJob DEF Init, RA!AdvInit, LifeInv, OneMtuInv, At
<1>2. ASSUME TypeInv, OneMtuInv PROVE OneMtu
  BY <1>2 DEF TypeInv, PathInv, OneMtuInv, OneMtu, At
<1>. QED BY <1>1, <1>2, InitTypes, NextType, NextLife, NextOneMtu, PTL DEF Spec

-----------------------------------------------------------------------------
(***************************************************************************)
(* The firewall.                                                           *)
(***************************************************************************)

\* What the commands -A of the forward chain leave, one after another.
LEMMA Appended ==
    ASSUME NEW S, NEW s \in Seq(S), NEW r \in S, NEW t \in Seq(S), Len(t) = Len(s) + 1,
           \A i \in 1..Len(s) : t[i] = s[i], t[Len(s) + 1] = r
    PROVE  Append(s, r) = t
<1>. DEFINE u == Append(s, r)
<1>1. /\ u \in Seq(S) /\ Len(u) = Len(s) + 1 /\ u[Len(s) + 1] = r
      /\ \A i \in 1..Len(s) : u[i] = s[i]
  BY AppendProperties
<1>. HIDE DEF u
<1>2. u = t
  BY <1>1, SeqEqual
<1>. QED BY <1>2 DEF u

\* The rules of each chain are what its commands append to an empty one.
LEMMA RulesAppended ==
    /\ Append(<<>>, "accept41") = <<"accept41">> /\ Append(<<>>, "clamp") = <<"clamp">>
    /\ Append(<<>>, "established") = <<"established">>
    /\ Append(<<"established">>, "outbound") = <<"established", "outbound">>
    /\ Append(<<"established", "outbound">>, "dropNew") = <<"established", "outbound", "dropNew">>
<1>1. <<"established">> \in Seq(Rules) /\ Len(<<"established">>) = 1
  BY DEF Rules
<1>2. <<"established", "outbound">> \in Seq(Rules) /\ Len(<<"established", "outbound">>) = 2
  BY DEF Rules
<1>3. /\ <<"established", "outbound", "dropNew">> \in Seq(Rules)
      /\ Len(<<"established", "outbound", "dropNew">>) = 3
  BY DEF Rules
<1>4. ASSUME NEW s \in Seq(Rules), NEW t \in Seq(Rules), Len(s) = 1, Len(t) = 2,
             s[1] = "established", t[1] = s[1], t[2] = "outbound"
      PROVE  Append(s, "outbound") = t
  BY <1>4, Appended DEF Rules
<1>5. ASSUME NEW s \in Seq(Rules), NEW t \in Seq(Rules), Len(s) = 2, Len(t) = 3,
             s[1] = t[1], s[2] = t[2], t[3] = "dropNew"
      PROVE  Append(s, "dropNew") = t
  <2>1. \A i \in 1..Len(s) : t[i] = s[i]
    BY <1>5
  <2>2. Len(t) = Len(s) + 1 /\ t[Len(s) + 1] = "dropNew" /\ "dropNew" \in Rules
    BY <1>5 DEF Rules
  <2>. QED BY <2>1, <2>2, Appended
<1>6. Append(<<"established">>, "outbound") = <<"established", "outbound">>
  BY <1>1, <1>2, <1>4
<1>7. Append(<<"established", "outbound">>, "dropNew") = <<"established", "outbound", "dropNew">>
  BY <1>2, <1>3, <1>5
<1>. QED BY <1>6, <1>7

\* A rule is appended to a chain that is there.
LEMMA RuleAppended ==
    ASSUME NEW f \in Chain, f.exists, NEW r \in Rules
    PROVE  /\ AppendRule(f, r, {}) \in Chain /\ AppendRule(f, r, {}).exists
           /\ AppendRule(f, r, {}).rules = Append(f.rules, r)
           /\ AppendRule(f, r, {}).jumps = f.jumps
<1>1. f.rules \in Seq(Rules) /\ Append(f.rules, r) \in Seq(Rules)
  BY AppendProperties DEF Chain
<1>. QED BY <1>1 DEF Chain, AppendRule

\* A chain that is put up without a failure holds the rules of the build,
\* whatever it held before.
LEMMA UpConverges ==
    ASSUME NEW f \in Chain, NEW c \in Chains
    PROVE  /\ ChainUp(f, c, {}).rules = RulesOf(c) /\ ChainUp(f, c, {}).jumps > 0
           /\ f.jumps <= 1 => ChainUp(f, c, {}).jumps <= 1
<1>. DEFINE g == FlushChain(NewChain(f, {}), {})
            h == AppendRules(g, c, {})
<1>1. g \in Chain /\ g.exists /\ g.rules = <<>> /\ g.jumps = f.jumps
  BY EmptySeq DEF Chain, NewChain, FlushChain
<1>2. ChainUp(f, c, {}) = EnsureJump(h, {})
  BY DEF ChainUp
<1>. HIDE DEF g
<1>3. h \in Chain /\ h.exists /\ h.rules = RulesOf(c) /\ h.jumps = f.jumps
  <2>1. CASE c = "input"
    <3>1. h = AppendRule(g, "accept41", {}) /\ RulesOf(c) = <<"accept41">>
      BY <2>1 DEF AppendRules, RulesOf
    <3>. HIDE DEF h
    <3>. QED BY <1>1, <3>1, RuleAppended, RulesAppended DEF Rules
  <2>2. CASE c = "mss"
    <3>1. h = AppendRule(g, "clamp", {}) /\ RulesOf(c) = <<"clamp">>
      BY <2>2 DEF AppendRules, RulesOf
    <3>. HIDE DEF h
    <3>. QED BY <1>1, <3>1, RuleAppended, RulesAppended DEF Rules
  <2>3. CASE c = "forward"
    <3>. DEFINE first  == AppendRule(g, "established", {})
                second == AppendRule(first, "outbound", {})
    <3>1. /\ h = AppendRule(second, "dropNew", {})
          /\ RulesOf(c) = <<"established", "outbound", "dropNew">>
      BY <2>3 DEF AppendRules, RulesOf
    <3>2. /\ first \in Chain /\ first.exists /\ first.jumps = f.jumps
          /\ first.rules = <<"established">>
      BY <1>1, RuleAppended, RulesAppended DEF Rules
    <3>. HIDE DEF first
    <3>3. /\ second \in Chain /\ second.exists /\ second.jumps = f.jumps
          /\ second.rules = Append(first.rules, "outbound")
      BY <3>2, RuleAppended DEF Rules
    <3>. HIDE DEF second, h
    <3>4. /\ h \in Chain /\ h.exists /\ h.jumps = f.jumps
          /\ h.rules = Append(second.rules, "dropNew")
      BY <3>1, <3>3, RuleAppended DEF Rules
    <3>5. h.rules = <<"established", "outbound", "dropNew">>
      BY <3>2, <3>3, <3>4, RulesAppended, Zenon
    <3>. QED BY <3>1, <3>4, <3>5
  <2>. QED BY <2>1, <2>2, <2>3 DEF Chains
<1>. HIDE DEF h
<1>. QED BY <1>2, <1>3 DEF EnsureJump, Chain

\* One that is taken down without a failure is gone, unless it was jumped to twice.
LEMMA DownRemoves ==
    ASSUME NEW f \in Chain, f.jumps <= 1
    PROVE  ChainDown(f, {}) = NoChain
  BY DEF Chain, ChainDown, RemoveChain, FlushChain, RemoveJump

\* The commands that are not about a chain, by what they do to the call.
ChainAside ==
    /\ UNCHANGED <<chain, tidy>> /\ job'.clean = job.clean
    /\ job'.pc = "chainsUp" => job'.chain = 1
    /\ job'.pc \notin {"advertise", "listen", "idle", "off", "chainsDown"}
    /\ job'.pc = "end" => ~job'.ok \/ ~Wants(document) \/ job.op = "repair"
    /\ job'.pc = "end" /\ ~Wants(document) => At("delTunnel") /\ (DefaultLeft => TunnelLeft')
    /\ job'.pc \in Deleting => job.pc \in Deleting
    /\ job'.pc = "delTunnel" => DefaultLeft'

\* All commands but those of the chains.
LEMMA CommandChain ==
    ASSUME TypeInv, Teardowns \/ Builds \/ BuildFails, ~ChainsDown, ~ChainsUp
    PROVE  ChainAside
<1>. USE DEF TypeInv, ReconcilerTypeOK, At, Command, ChainAside, Deleting
<1>0. ASSUME NEW label \in Labels, Goto(label)
      PROVE  job'.clean = job.clean /\ job'.pc = label /\ job'.chain = job.chain
  BY <1>0, GotoJob DEF Locals
<1>1. CASE Deletes
  <2>1. At("delDefault") => DefaultLeft'
    BY <1>1, DefaultDeletion DEF Deletes, DelAddrs, DelAddr, DelRoute, DelTunnel
  <2>2. At("delTunnel") => (DefaultLeft => TunnelLeft')
    BY <1>1, TunnelDeletion DEF Deletes, DelAddrs, DelAddr, DelRoute, DelDefault
  <2>3. UNCHANGED <<chain, tidy>>
    BY <1>1, DeletionAlone DEF Deletes
  <2>4. /\ job'.clean = job.clean
        /\ \/ At("delAddrs") /\ job'.pc \in {"delAddrs", "delRoute"}
           \/ At("delRoute") /\ job'.pc = "delDefault"
           \/ At("delDefault") /\ job'.pc = "delTunnel"
           \/ At("delTunnel") /\ job'.pc = IF Wants(document) THEN "wan" ELSE "end"
    BY <1>1, DeletionJob
  <2>. QED BY <2>1, <2>2, <2>3, <2>4
<1>4. CASE GetWANIPv4 \/ ResolveTunnelMTU
  BY <1>4 DEF GetWANIPv4, ResolveTunnelMTU, Job
<1>5. CASE HostRoute \/ TunnelAdd \/ SetMTU \/ SetUp \/ Forwarding
  BY <1>0, <1>5 DEF HostRoute, TunnelAdd, SetMTU, SetUp, Forwarding, Labels
<1>6. CASE EnsureLocal \/ EnsureGateway
  BY <1>6 DEF EnsureLocal, EnsureGateway, Ensure, Job
<1>7. CASE NextNetwork
  <2>1. Wants(document)
    BY <1>7 DEF NextNetwork, PathInv, BuildLabels, UpFrom, LanLabels
  <2>. QED BY <1>0, <1>7, <2>1 DEF NextNetwork, Job, Labels
<1>8. CASE ReadLinkLocal \/ EnableIPv6
  BY <1>0, <1>8 DEF ReadLinkLocal, EnableIPv6, Ready, Job, Labels
<1>9. CASE AcceptDad \/ DisableIPv6
  BY <1>0, <1>9 DEF AcceptDad, DisableIPv6, Labels
<1>10. CASE DefaultRoute
  <2>1. job.chain = 1
    BY <1>10 DEF DefaultRoute, PathInv
  <2>. QED BY <1>0, <1>10, <2>1 DEF DefaultRoute, Labels
<1>11. CASE BuildFails
  <2>1. Wants(document)
    BY <1>11 DEF BuildFails, PathInv, BuildLabels, UpFrom, LanLabels
  <2>2. job'.pc = "end" /\ job'.ok = FALSE /\ job'.clean = job.clean
    BY <1>11 DEF BuildFails, Job
  <2>. QED BY <1>11, <2>1, <2>2 DEF BuildFails, world
<1>. QED BY <1>1, <1>4, <1>5, <1>6, <1>7, <1>8, <1>9, <1>10, <1>11
     DEF Teardowns, Builds, Deletes

\* A chain is put up.
LEMMA ChainsUpFirewall ==
    ASSUME TypeInv, FirewallInv, GoneInv, ChainsUp
    PROVE  FirewallInv' /\ GoneInv'
<1>0. PICK c \in Chains : c = ChainOrder[job.chain]
  BY Order DEF TypeInv, ReconcilerTypeOK, Job
<1>1. PICK bad : ChainStep("chainsUp", "advertise", ChainUp(chain[c], c, bad), bad)
  BY <1>0, ChainsUpStep
<1>2. job.chain \in 1..3 /\ c \in Chains /\ chain[c] \in Chain /\ job \in Job /\ tidy \in BOOLEAN
  BY Order DEF TypeInv, ReconcilerTypeOK, Job
<1>3. job.op = "reconcile" /\ Wants(document) /\ At("chainsUp") /\ job.clean \in BOOLEAN
  BY <1>1 DEF ChainStep, At, TypeInv, ReconcilerTypeOK, PathInv, BuildLabels, UpFrom, Job
<1>4. /\ job'.op = job.op /\ job'.clean = (job.clean /\ bad = {})
      /\ job.chain = 3 => job'.pc = "advertise" /\ job'.chain = 1
      /\ job.chain # 3 => job'.pc = "chainsUp" /\ job'.chain = job.chain + 1
  <2>1. "chainsUp" \in Labels /\ "advertise" \in Labels
    BY DEF Labels
  <2>. QED BY <1>1, <1>2, <2>1, ChainStepJob
<1>5. /\ chain' = [chain EXCEPT ![c] = ChainUp(chain[c], c, bad)]
      /\ tidy' = (tidy /\ bad = {}) /\ UNCHANGED <<document, status, kernel>>
  BY <1>0, <1>1 DEF ChainStep
<1>6. bad = {} => Converged(c)' /\ (chain[c].jumps <= 1 => chain'[c].jumps <= 1)
  <2>1. bad = {} => chain'[c] = ChainUp(chain[c], c, {})
    BY <1>2, <1>5 DEF TypeInv
  <2>. QED BY <1>2, <2>1, UpConverges DEF Converged
<1>7. \A x \in Chains \ {c} : chain'[x] = chain[x] /\ (Converged(x) => Converged(x)')
  BY <1>5 DEF Converged, TypeInv
<1>8. \A n \in 1..3 : n # job.chain => ChainOrder[n] \in Chains \ {c}
  BY <1>0, <1>2, Order DEF ChainOrder
<1>9. job'.clean => \A n \in 1..job.chain : Converged(ChainOrder[n])'
  <2>. SUFFICES ASSUME job'.clean, NEW n \in 1..job.chain PROVE Converged(ChainOrder[n])'
    OBVIOUS
  <2>1. CASE n = job.chain
    BY <1>0, <1>4, <1>6, <2>1
  <2>2. CASE n # job.chain
    <3>1. n \in 1..(job.chain - 1) /\ n \in 1..3
      BY <1>2, <2>2
    <3>2. Converged(ChainOrder[n])
      BY <1>3, <1>4, <3>1 DEF FirewallInv
    <3>. QED BY <1>7, <1>8, <2>2, <3>1, <3>2
  <2>. QED BY <2>1, <2>2
<1>10. FirewallInv'
  <2>1. CASE job.chain = 3
    BY <1>3, <1>4, <1>9, <2>1, Order DEF FirewallInv, At
  <2>2. CASE job.chain # 3
    <3>1. job'.chain - 1 = job.chain
      BY <1>2, <1>4, <2>2
    <3>. QED BY <1>3, <1>4, <1>9, <2>2, <3>1 DEF FirewallInv, At
  <2>. QED BY <2>1, <2>2
<1>11. GoneInv'
  <2>1. tidy' => \A x \in Chains : chain'[x].jumps <= 1
    BY <1>5, <1>6, <1>7 DEF GoneInv
  <2>. QED BY <1>4, <2>1 DEF GoneInv, At, TornDown, SwitchedOff
<1>. QED BY <1>10, <1>11

\* A chain is taken down.
LEMMA ChainsDownFirewall ==
    ASSUME TypeInv, FirewallInv, GoneInv, ChainsDown
    PROVE  FirewallInv' /\ GoneInv'
<1>0. PICK c \in Chains : c = ChainOrder[job.chain]
  BY Order DEF TypeInv, ReconcilerTypeOK, Job
<1>1. PICK bad : ChainStep("chainsDown", "delAddrs", ChainDown(chain[c], bad), bad)
  BY <1>0, ChainsDownStep
<1>2. job.chain \in 1..3 /\ c \in Chains /\ chain[c] \in Chain /\ job \in Job /\ tidy \in BOOLEAN
  BY Order DEF TypeInv, ReconcilerTypeOK, Job
<1>3. job.op = "reconcile" /\ At("chainsDown")
  BY <1>1 DEF ChainStep, At, TypeInv, ReconcilerTypeOK, PathInv, Job
<1>4. /\ job'.op = job.op
      /\ job.chain = 3 => job'.pc = "delAddrs" /\ job'.chain = 1
      /\ job.chain # 3 => job'.pc = "chainsDown" /\ job'.chain = job.chain + 1
  <2>1. "chainsDown" \in Labels /\ "delAddrs" \in Labels
    BY DEF Labels
  <2>. QED BY <1>1, <1>2, <2>1, ChainStepJob
<1>5. /\ chain' = [chain EXCEPT ![c] = ChainDown(chain[c], bad)]
      /\ tidy' = (tidy /\ bad = {}) /\ UNCHANGED <<document, status, kernel>>
  BY <1>0, <1>1 DEF ChainStep
<1>6. tidy' => chain'[c] = NoChain
  BY <1>2, <1>5, DownRemoves DEF GoneInv, TypeInv
<1>7. \A x \in Chains \ {c} : chain'[x] = chain[x]
  BY <1>5 DEF TypeInv
<1>8. \A n \in 1..3 : n # job.chain => ChainOrder[n] \in Chains \ {c}
  BY <1>0, <1>2, Order DEF ChainOrder
<1>9. tidy' => \A n \in 1..job.chain : chain'[ChainOrder[n]] = NoChain
  <2>. SUFFICES ASSUME tidy', NEW n \in 1..job.chain PROVE chain'[ChainOrder[n]] = NoChain
    OBVIOUS
  <2>1. CASE n = job.chain
    BY <1>0, <1>6, <2>1
  <2>2. CASE n # job.chain
    <3>1. n \in 1..(job.chain - 1) /\ n \in 1..3
      BY <1>2, <2>2
    <3>2. chain[ChainOrder[n]] = NoChain
      BY <1>3, <1>5, <3>1 DEF GoneInv
    <3>. QED BY <1>7, <1>8, <2>2, <3>1, <3>2
  <2>. QED BY <2>1, <2>2
<1>10. tidy' => \A x \in Chains : chain'[x].jumps <= 1
  <2>1. tidy' => chain'[c].jumps <= 1
    BY <1>6 DEF NoChain
  <2>. QED BY <1>5, <1>7, <2>1 DEF GoneInv
<1>11. GoneInv'
  <2>1. CASE job.chain = 3
    BY <1>4, <1>9, <1>10, <2>1, Order DEF GoneInv, At, TornDown, SwitchedOff
  <2>2. CASE job.chain # 3
    <3>1. job'.chain - 1 = job.chain
      BY <1>2, <1>4, <2>2
    <3>. QED BY <1>4, <1>9, <1>10, <2>2, <3>1 DEF GoneInv, At, TornDown, SwitchedOff
  <2>. QED BY <2>1, <2>2
<1>12. FirewallInv'
  BY <1>2, <1>3, <1>4 DEF FirewallInv, At
<1>. QED BY <1>11, <1>12

\* A step that works on no chain.
LEMMA AsideFirewall ==
    ASSUME TypeInv, FirewallInv, GoneInv, ChainAside,
           job'.op = job.op, UNCHANGED <<document, status>>
    PROVE  FirewallInv' /\ GoneInv'
<1>1. \A x : Converged(x) => Converged(x)'
  BY DEF ChainAside, Converged
<1>2. FirewallInv'
  BY <1>1 DEF ChainAside, FirewallInv, At
<1>3. GoneInv'
  BY DEF ChainAside, GoneInv, At, TornDown, SwitchedOff, Deleting
<1>. QED BY <1>2, <1>3

\* What was gone stays gone when the kernel only loses something.
LEMMA StillLeft ==
    ASSUME left' = left, kernel'.defaultRoute => kernel.defaultRoute,
           TunnelGone(kernel) => TunnelGone(kernel')
    PROVE  (DefaultLeft => DefaultLeft') /\ (TunnelLeft => TunnelLeft')
  BY DEF DefaultLeft, TunnelLeft

\* A step that leaves the chains, the label and the call alone.
LEMMA StillFirewall ==
    ASSUME FirewallInv, GoneInv, UNCHANGED <<document, status, chain, tidy>>,
           job'.pc = job.pc, job'.op = job.op, job'.chain = job.chain, job'.ok = job.ok,
           job'.clean = job.clean, DefaultLeft => DefaultLeft', TunnelLeft => TunnelLeft'
    PROVE  FirewallInv' /\ GoneInv'
<1>1. \A x : Converged(x)' = Converged(x)
  BY DEF Converged
<1>. QED BY <1>1 DEF FirewallInv, GoneInv, At, TornDown, SwitchedOff

\* A call begins.
LEMMA BeginFirewall ==
    ASSUME TypeInv, GoneInv, BeginReconcile PROVE FirewallInv' /\ GoneInv'
<1>1. job'.op = "reconcile" /\ job'.pc \in {"chainsDown", "stop"} /\ job'.chain = 1
  BY BeginJob DEF TypeInv, ReconcilerTypeOK
<1>2. UNCHANGED <<chain, tidy>>
  BY DEF BeginReconcile, world
<1>. QED BY <1>1, <1>2 DEF FirewallInv, GoneInv, At, TornDown, SwitchedOff

\* The advertiser is stopped or started between the two halves of a call.
LEMMA AdvertiseFirewall ==
    ASSUME TypeInv, FirewallInv, GoneInv, StopAdvertiser \/ Advertise \/ ListenOn \/ ListenFails
    PROVE  FirewallInv' /\ GoneInv'
<1>. USE DEF TypeInv, ReconcilerTypeOK, world
<1>0. job \in Job /\ UNCHANGED <<document, status, chain, tidy, left, kernel>>
  BY DEF StopAdvertiser, Advertise, ListenOn, ListenFails
<1>1. ASSUME NEW label \in Labels, Goto(label)
      PROVE  /\ job'.op = job.op /\ job'.clean = job.clean /\ job'.chain = job.chain
             /\ job'.pc = label /\ job'.ok = job.ok
  BY <1>1, GotoJob DEF Locals
<1>2. \A x : Converged(x)' = Converged(x)
  BY <1>0 DEF Converged
<1>3. CASE UNCHANGED job
  BY <1>0, <1>3, StillFirewall DEF DefaultLeft, TunnelLeft
<1>4. CASE At("stop") /\ Goto("chainsDown")
  <2>1. job'.pc = "chainsDown" /\ job'.chain = 1 /\ job.op = "reconcile" /\ job'.op = job.op
    BY <1>1, <1>4 DEF At, PathInv, Labels, Job
  <2>. QED BY <1>0, <2>1 DEF FirewallInv, GoneInv, At, TornDown, SwitchedOff
<1>5. ASSUME job.pc \in {"advertise", "listen"} PROVE Wants(document)
  BY <1>5 DEF PathInv, BuildLabels, UpFrom
<1>6. CASE job.pc \in {"advertise", "listen"} /\ (Goto("listen") \/ Goto("end"))
  <2>1. /\ job'.op = job.op /\ job'.clean = job.clean /\ job'.pc \in {"listen", "end"}
    BY <1>1, <1>6 DEF Labels
  <2>2. job.op = "reconcile" /\ Wants(document)'
    BY <1>0, <1>5, <1>6 DEF PathInv, Job
  <2>. QED BY <1>0, <1>2, <1>6, <2>1, <2>2 DEF FirewallInv, GoneInv, At, TornDown, SwitchedOff
<1>7. CASE ListenFails
  <2>1. job'.pc = "end" /\ ~job'.ok /\ job'.op = job.op
    BY <1>7 DEF ListenFails, Job
  <2>2. job.op = "reconcile" /\ Wants(document)'
    BY <1>0, <1>5, <1>7 DEF PathInv, Job, ListenFails, At
  <2>. QED BY <1>0, <2>1, <2>2 DEF FirewallInv, GoneInv, At, TornDown, SwitchedOff
<1>. QED BY <1>3, <1>4, <1>6, <1>7 DEF StopAdvertiser, Advertise, ListenOn, At

\* The end of a call.
LEMMA EndFirewall ==
    ASSUME TypeInv, FirewallInv, GoneInv, EndReconcile \/ EndRepair
    PROVE  FirewallInv' /\ GoneInv'
<1>. USE DEF TypeInv, ReconcilerTypeOK, world
<1>1. CASE EndRepair /\ ~job.ok
  BY <1>1, BeginFirewall DEF EndRepair
<1>2. ASSUME UNCHANGED chain PROVE \A x : Converged(x)' = Converged(x)
  BY <1>2 DEF Converged
<1>3. CASE EndRepair /\ job.ok
  <2>1. /\ job'.pc = "idle" /\ job'.op = "none" /\ status'.clean = status.clean
        /\ UNCHANGED <<document, chain, tidy, kernel>>
    BY <1>3 DEF EndRepair, NoJob
  <2>2. document.enabled /\ job.op = "repair"
    BY <1>3 DEF EndRepair, PathInv, Wants
  <2>. QED BY <1>2, <2>1, <2>2 DEF FirewallInv, GoneInv, At, TornDown, SwitchedOff
<1>4. CASE EndReconcile
  <2>1. /\ job'.pc = "idle" /\ job'.op = "none" /\ At("end") /\ job.op = "reconcile"
        /\ status'.clean = (Wants(document) /\ job.ok /\ job.clean)
        /\ UNCHANGED <<document, chain, tidy, left, kernel>>
    BY <1>4 DEF EndReconcile, NoJob
  <2>2. ~document.enabled => ~Wants(document)
    BY DEF Wants
  <2>3. SwitchedOff' => TornDown
    BY <2>1, <2>2 DEF SwitchedOff, TornDown, At
  <2>4. TunnelLeft => TunnelLeft'
    BY <2>1 DEF TunnelLeft, DefaultLeft
  <2>. QED BY <1>2, <2>1, <2>3, <2>4 DEF FirewallInv, GoneInv, At, TornDown
<1>. QED BY <1>1, <1>3, <1>4

\* Every step keeps what the invariants say of the chains.
LEMMA NextFirewall ==
    ASSUME TypeInv, FirewallInv, GoneInv, [Next]_vars PROVE FirewallInv' /\ GoneInv'
<1>. USE DEF TypeInv, ReconcilerTypeOK, world
<1>1. CASE Boot \/ Down \/ Retry
  BY <1>1, BeginFirewall DEF Boot, Down, Retry
<1>2. CASE BeginRepair
  <2>1. /\ job'.op = "repair" /\ job'.pc = "local" /\ status'.clean = status.clean
        /\ UNCHANGED <<chain, tidy>> /\ At("idle")
    BY <1>2, NewJob DEF BeginRepair, Labels
  <2>2. \A x : Converged(x)' = Converged(x)
    BY <2>1 DEF Converged
  <2>. QED BY <2>1, <2>2 DEF FirewallInv, GoneInv, At, TornDown, SwitchedOff
<1>3. CASE Teardowns \/ Builds \/ BuildFails
  BY <1>3, CommandPath, CommandChain, AsideFirewall, ChainsUpFirewall, ChainsDownFirewall
<1>4. CASE StopAdvertiser \/ Advertise \/ ListenOn \/ ListenFails
  BY <1>4, AdvertiseFirewall
<1>5. CASE EndReconcile \/ EndRepair
  BY <1>5, EndFirewall
<1>6. CASE Crash
  <2>1. job'.op = "none" /\ job'.pc = "off" /\ tidy' = tidy
    BY <1>6, OffJob DEF Crash
  <2>2. tidy => \A c \in Chains : chain'[c].jumps <= 1
    BY <1>6 DEF Crash, GoneInv, NoChain
  <2>. QED BY <2>1, <2>2 DEF FirewallInv, GoneInv, At, TornDown, SwitchedOff
<1>7. CASE Environment
  <2>1. /\ job'.pc = job.pc /\ job'.op = job.op /\ job'.chain = job.chain /\ job'.ok = job.ok
        /\ job'.clean = job.clean /\ UNCHANGED <<document, status, chain, tidy, left>>
    BY <1>7 DEF Environment, LoseTunnel, ResetInterface, Disturb, WanReady, Job
  <2>2. (kernel'.defaultRoute => kernel.defaultRoute) /\ (TunnelGone(kernel) => TunnelGone(kernel'))
    <3>1. CASE LoseTunnel
      BY <3>1 DEF LoseTunnel, Disturb, DropTunnel, SetAddrs, TunnelGone, TunnelExists, Kernel,
                  Addresses
    <3>2. CASE ResetInterface
      BY <3>2 DEF ResetInterface, Disturb, FlushInterface, SetAddrs, TunnelGone, TunnelExists,
                  Kernel, Addresses
    <3>. QED BY <1>7, <3>1, <3>2 DEF Environment, WanReady
  <2>. QED BY <2>1, <2>2, StillLeft, StillFirewall
<1>8. CASE \E n \in LanAddrs : SenderStep(n) \/ ListenerStep(n) \/ Solicited(n)
  BY <1>8, StillFirewall DEF SenderStep, ListenerStep, Solicited, Apart, DefaultLeft, TunnelLeft
<1>9. CASE UNCHANGED vars
  BY <1>9, StillFirewall DEF vars, DefaultLeft, TunnelLeft
<1>. QED BY <1>1, <1>2, <1>3, <1>4, <1>5, <1>6, <1>7, <1>8, <1>9 DEF Next, Working, HealthLoop

\* At boot there is no chain.
LEMMA InitFirewall == Init => FirewallInv /\ GoneInv
<1>. SUFFICES ASSUME Init PROVE FirewallInv /\ GoneInv
  OBVIOUS
<1>1. job.op = "none" /\ job.pc = "off" /\ \A c \in Chains : chain[c].jumps <= 1
  BY OffJob DEF Init, NoChain
<1>. QED BY <1>1 DEF FirewallInv, GoneInv, At, TornDown, SwitchedOff

\* Unless a command of the firewall's build failed, the chains hold exactly the
\* rules of the build and are jumped to, whatever earlier failures, crashes and
\* reboots had left in them (Reconcile, ensureJump and the -F before -A).
THEOREM FirewallAlwaysConverges == Spec => []FirewallConverges
<1>1. FirewallInv => FirewallConverges
  BY DEF FirewallInv, FirewallConverges, Converged
<1>. QED BY <1>1, InitTypes, NextType, InitFirewall, NextFirewall, PTL DEF Spec

-----------------------------------------------------------------------------
(***************************************************************************)
(* What a teardown has to remove, and removes.                             *)
(***************************************************************************)

\* A command of a build adds the gateways and the route of its config, no more.
Grows ==
    /\ LanNow' \subseteq LanNow \union Gateways
    /\ kernel'.routes \subseteq kernel.routes \union {Config(document).endpoint}

\* So do all of them.
LEMMA BuildGrows ==
    ASSUME TypeInv, Builds \/ BuildFails
    PROVE  /\ Grows /\ Wants(document) /\ job.pc \in BuildLabels
           /\ job'.pc \in BuildLabels \union {"end"}
<1>. USE DEF TypeInv, ReconcilerTypeOK, At
<1>1. job.pc \in BuildLabels
  BY DEF Builds, BuildFails, GetWANIPv4, ResolveTunnelMTU, HostRoute, TunnelAdd, SetMTU, SetUp,
         EnsureLocal, Forwarding, NextNetwork, AcceptDad, ReadLinkLocal, DisableIPv6, EnableIPv6,
         EnsureGateway, DefaultRoute, ChainsUp, OneChain, BuildLabels, UpFrom, LanLabels
<1>2. Wants(document)
  BY <1>1 DEF PathInv
<1>3. job'.pc \in BuildLabels \union {"end"}
  <2>1. job'.pc \in Commanding \union {"advertise", "end"}
    BY CommandPath
  <2>2. job'.pc \notin {"chainsDown", "delAddrs", "delRoute", "delDefault", "delTunnel"}
    <3>1. CASE ChainsUp
      <4>1. PICK g, bad : ChainStep("chainsUp", "advertise", g, bad)
        BY <3>1, ChainsUpStep
      <4>2. "chainsUp" \in Labels /\ "advertise" \in Labels
        BY DEF Labels
      <4>3. job'.pc \in {"chainsUp", "advertise"}
        BY <4>1, <4>2, ChainStepJob
      <4>. QED BY <4>3
    <3>2. CASE ~ChainsUp
      <4>1. ~ChainsDown
        BY <1>1 DEF ChainsDown, OneChain, BuildLabels, UpFrom, LanLabels
      <4>. QED BY <1>1, <3>2, <4>1, CommandChain
           DEF ChainAside, BuildLabels, UpFrom, LanLabels, Deleting
    <3>. QED BY <3>1, <3>2
  <2>. QED BY <2>1, <2>2 DEF Commanding, BuildLabels, UpFrom
<1>4. Grows
  <2>1. CASE UNCHANGED kernel
    BY <2>1 DEF Grows, LanNow, OnLan
  <2>2. CASE HostRoute \/ TunnelAdd \/ SetUp \/ DefaultRoute
    <3>1. /\ kernel'.addr = kernel.addr
          /\ kernel'.routes \subseteq kernel.routes \union {Config(document).endpoint}
      BY <2>2 DEF HostRoute, TunnelAdd, SetUp, DefaultRoute, AddRoute, AddTunnel, LinkUp,
                  AddDefaultRoute, Kernel
    <3>. QED BY <3>1 DEF Grows, LanNow, OnLan
  <2>3. ASSUME NEW A, NEW s \in AddrState, kernel' = SetAddrs(kernel, A, s),
               s = "missing" \/ A \intersect LanAddrs \subseteq Gateways
        PROVE  Grows
    BY <2>3, SetAddrsFields DEF Grows, LanNow, OnLan, Addresses
  <2>4. CASE DisableIPv6
    BY <2>3, <2>4 DEF DisableIPv6, FlushInterface, AddrState
  <2>5. CASE EnsureLocal
    <3>1. Config(document).localIPv6 \notin LanAddrs
      BY ManagedAddresses, AddressAssumption
    <3>. QED BY <2>1, <2>3, <2>5, <3>1 DEF EnsureLocal, Ensure, AddrState
  <2>6. CASE EnsureGateway
    <3>1. job.net \in Gateways
      BY <2>6 DEF EnsureGateway, PathInv, LanLabels
    <3>. QED BY <2>1, <2>3, <2>6, <3>1 DEF EnsureGateway, Ensure, AddrState
  <2>7. CASE GetWANIPv4 \/ ResolveTunnelMTU \/ SetMTU \/ Forwarding \/ NextNetwork \/ AcceptDad
             \/ ReadLinkLocal \/ EnableIPv6 \/ BuildFails
    BY <2>1, <2>7 DEF GetWANIPv4, ResolveTunnelMTU, SetMTU, Forwarding, NextNetwork, AcceptDad,
                      ReadLinkLocal, EnableIPv6, BuildFails, world
  <2>8. CASE ChainsUp
    BY <2>1, <2>8, ChainsUpStep DEF ChainStep
  <2>. QED BY <2>2, <2>4, <2>5, <2>6, <2>7, <2>8 DEF Builds
<1>. QED BY <1>1, <1>2, <1>3, <1>4

\* Addresses are taken away.
LEMMA Fewer ==
    ASSUME TypeInv, NEW A, kernel' = SetAddrs(kernel, A, "missing")
    PROVE  LanNow' = LanNow \ A
  BY SetAddrsFields DEF LanNow, OnLan, Addresses, AddrState, TypeInv, ReconcilerTypeOK

\* The build stays within what will be recorded, whether it fails or not.
LEMMA BuildRecord ==
    ASSUME TypeInv, RecordInv, Builds \/ BuildFails PROVE RecordInv'
<1>1. /\ job'.op = job.op /\ UNCHANGED <<document, applied, crashes>>
  BY CommandPath
<1>2. Grows /\ Wants(document) /\ job.pc \in BuildLabels /\ job'.pc \in BuildLabels \union {"end"}
  BY BuildGrows
<1>3. job.op \in {"reconcile", "repair"}
  BY <1>2 DEF TypeInv, ReconcilerTypeOK, Job, PathInv, BuildLabels, UpFrom, LanLabels
<1>4. Gateways \subseteq BuildApplied(document).networks
      /\ BuildApplied(document).endpoint = Config(document).endpoint
  BY ManagedAddresses DEF BuildApplied
<1>5. Within(BuildApplied(document)) => Within(BuildApplied(document))'
  BY <1>1, <1>2, <1>4 DEF Within, Grows
<1>6. job'.pc \notin {"off", "idle", "stop", "chainsDown"} \union Deleting
  BY <1>2 DEF BuildLabels, UpFrom, LanLabels, Deleting
<1>7. ~TornDown' /\ Removing'
  BY <1>1, <1>2, <1>6 DEF Removing, TornDown, SwitchedOff, Deleting, At
<1>8. CASE job.op = "repair"
  <2>1. applied = BuildApplied(document) /\ (crashes = 0 => Within(applied))
    BY <1>2, <1>8 DEF RecordInv
  <2>2. crashes = 0 => Within(applied)'
    BY <1>1, <1>5, <2>1 DEF Within
  <2>. QED BY <1>1, <1>6, <1>7, <1>8, <2>1, <2>2 DEF RecordInv, At
<1>9. CASE job.op = "reconcile"
  <2>1. crashes = 0 => Within(BuildApplied(document))
    BY <1>2, <1>9 DEF RecordInv
  <2>. QED BY <1>1, <1>5, <1>6, <1>7, <1>9, <2>1 DEF RecordInv, At
<1>. QED BY <1>3, <1>8, <1>9

\* What the record of the build before covers, that of the next covers too.
LEMMA RecordsBuild ==
    ASSUME TypeInv, RecordInv, Within(applied)
    PROVE  Within(BuildApplied(document))
<1>1. CASE applied = EmptyApplied
  <2>1. kernel.routes \subseteq Endpoints
    BY DEF TypeInv, ReconcilerTypeOK, Kernel
  <2>. QED BY <1>1, <2>1, NoneAssumption DEF Within, EmptyApplied, BuildApplied
<1>. QED BY <1>1 DEF RecordInv

\* One deletion after the other, the record's networks are gone or noted.
LEMMA AddrsRemoved ==
    ASSUME TypeInv, DelAddrs, LanNow \subseteq job.todo \union left.addrs
    PROVE  /\ job'.pc \in {"delAddrs", "delRoute"}
           /\ job'.pc = "delAddrs" => LanNow' \subseteq job'.todo \union left'.addrs
           /\ job'.pc = "delRoute" => LanNow' \subseteq left'.addrs
<1>1. CASE \E a \in LanAddrs : DelAddr(a)
  <2>1. PICK a \in LanAddrs : DelAddr(a)
    BY <1>1
  <2>2. job'.pc = "delAddrs" /\ job'.todo = job.todo \ {a}
    BY <2>1 DEF DelAddr, At, TypeInv, ReconcilerTypeOK, Job
  <2>3. CASE kernel' = SetAddrs(kernel, {a}, "missing") /\ left' = left
    <3>1. LanNow' = LanNow \ {a}
      BY <2>3, Fewer
    <3>. QED BY <2>2, <2>3, <3>1
  <2>4. CASE kernel' = kernel /\ left'.addrs = left.addrs \union {a}
    <3>1. LanNow' = LanNow
      BY <2>4 DEF LanNow
    <3>. QED BY <2>2, <2>4, <3>1
  <2>. QED BY <2>1, <2>3, <2>4, AddrDeletion
<1>2. CASE job.todo = {} /\ Goto("delRoute") /\ Command /\ UNCHANGED kernel
  <2>1. job'.pc = "delRoute"
    BY <1>2, GotoJob DEF Labels, TypeInv, ReconcilerTypeOK
  <2>2. LanNow' = LanNow /\ left' = left
    BY <1>2 DEF LanNow, Command
  <2>. QED BY <1>2, <2>1, <2>2
<1>. QED BY <1>1, <1>2 DEF DelAddrs

\* So is its host route, and the last two deletions change neither.
LEMMA RestRemoved ==
    ASSUME TypeInv, Within(applied), Removing, job.op = "reconcile",
           DelRoute \/ DelDefault \/ DelTunnel
    PROVE  job'.pc \in {"delDefault", "delTunnel", "end", "wan"} /\ Undeleted'
<1>1. job'.pc \in {"delDefault", "delTunnel", "end", "wan"}
  BY DeletionJob DEF Deletes, DelRoute, DelDefault, DelTunnel, At
<1>2. ASSUME kernel'.addr = kernel.addr PROVE LanNow' = LanNow
  BY <1>2 DEF LanNow, OnLan
<1>3. CASE DelRoute
  <2>1. LanNow \subseteq left.addrs /\ kernel.routes \subseteq {applied.endpoint}
    BY <1>3 DEF Removing, Within, DelRoute
  <2>. QED BY <1>1, <1>2, <1>3, <2>1, RouteDeletion DEF Undeleted
<1>4. CASE DelDefault \/ DelTunnel
  <2>1. Undeleted
    BY <1>4 DEF Removing, DelDefault, DelTunnel, At
  <2>2. LanNow' \subseteq LanNow /\ kernel'.routes \subseteq kernel.routes
    BY <1>4, DeletionHost DEF Deletes
  <2>3. left'.addrs = left.addrs /\ left'.routes = left.routes
    BY <1>4, DefaultDeletion, TunnelDeletion
  <2>. QED BY <1>1, <2>1, <2>2, <2>3 DEF Undeleted
<1>. QED BY <1>3, <1>4

\* The teardown takes it away piece by piece.
LEMMA TeardownRecord ==
    ASSUME TypeInv, RecordInv, Teardowns PROVE RecordInv'
<1>. USE DEF At
<1>1. /\ job.op = "reconcile" /\ job'.op = job.op
      /\ UNCHANGED <<document, applied, crashes>>
      /\ job.pc \in {"chainsDown"} \union Deleting
  <2>1. job.pc \in {"chainsDown"} \union Deleting
    BY DEF Teardowns, ChainsDown, OneChain, DelAddrs, DelAddr, DelRoute, DelDefault, DelTunnel,
           Deleting
  <2>2. job.op = "reconcile"
    BY <2>1 DEF TypeInv, ReconcilerTypeOK, PathInv, Job, Deleting
  <2>. QED BY <2>1, <2>2, CommandPath
<1>2. crashes = 0 => Within(applied) /\ Within(BuildApplied(document)) /\ Removing
  BY <1>1, RecordsBuild DEF RecordInv
<1>3. LanNow' \subseteq LanNow /\ kernel'.routes \subseteq kernel.routes
  <2>1. CASE ChainsDown
    BY <2>1, ChainsDownStep DEF ChainStep, LanNow
  <2>2. CASE Deletes
    BY <2>2, DeletionHost
  <2>. QED BY <2>1, <2>2 DEF Teardowns, Deletes
<1>4. crashes' = 0 => Within(applied)' /\ Within(BuildApplied(document))'
  BY <1>1, <1>2, <1>3 DEF Within
<1>5. ASSUME job'.pc \in {"chainsDown", "wan", "end"} \union Deleting,
             job'.pc = "chainsDown" => job'.todo = applied.networks,
             crashes = 0 => Removing'
      PROVE  RecordInv'
  BY <1>1, <1>4, <1>5 DEF RecordInv, Deleting
<1>6. CASE ChainsDown
  <2>1. PICK g, bad : ChainStep("chainsDown", "delAddrs", g, bad)
    BY <1>6, ChainsDownStep
  <2>2. "chainsDown" \in Labels /\ "delAddrs" \in Labels /\ job \in Job
    BY DEF Labels, TypeInv, ReconcilerTypeOK
  <2>3. job'.pc \in {"chainsDown", "delAddrs"} /\ job'.todo = job.todo
    BY <2>1, <2>2, ChainStepJob
  <2>4. job.todo = applied.networks /\ UNCHANGED <<kernel, left>>
    BY <2>1 DEF ChainStep, RecordInv
  <2>5. crashes = 0 => Removing'
    BY <1>2, <2>3, <2>4 DEF Removing, Within, LanNow, TornDown, SwitchedOff
  <2>. QED BY <1>5, <2>3, <2>4, <2>5 DEF Deleting
<1>7. CASE DelAddrs
  <2>1. job.pc = "delAddrs"
    BY <1>7 DEF DelAddrs, DelAddr
  <2>2. job'.pc \in {"delAddrs", "delRoute"}
    BY <1>7, <2>1, DeletionJob DEF Deletes
  <2>3. crashes = 0 => Removing'
    BY <1>2, <1>7, <2>1, <2>2, AddrsRemoved DEF Removing, TornDown, SwitchedOff
  <2>. QED BY <1>5, <2>2, <2>3 DEF Deleting
<1>8. CASE DelRoute \/ DelDefault \/ DelTunnel
  <2>1. job'.pc \in {"delDefault", "delTunnel", "end", "wan"}
    BY <1>8, DeletionJob DEF Deletes, DelRoute, DelDefault, DelTunnel
  <2>2. crashes = 0 => Removing'
    BY <1>1, <1>2, <1>8, <2>1, RestRemoved DEF Removing
  <2>. QED BY <1>5, <2>1, <2>2 DEF Deleting
<1>. QED BY <1>6, <1>7, <1>8 DEF Teardowns

\* A call begins with what the record covers still there.
LEMMA BeginRecord ==
    ASSUME TypeInv, RecordInv, BeginReconcile, BuildApplied(document') = BuildApplied(document),
           At("off") \/ (At("idle") /\ document.enabled) \/ job.op = "repair"
    PROVE  RecordInv'
<1>1. job'.op = "reconcile" /\ job'.pc \in {"chainsDown", "stop"} /\ job'.todo = applied.networks
  BY BeginJob DEF TypeInv, ReconcilerTypeOK
<1>2. UNCHANGED <<applied, crashes, kernel>>
  BY DEF BeginReconcile, world
<1>3. crashes = 0 => Within(applied)
  BY DEF RecordInv, At
<1>4. Removing'
  BY <1>1 DEF Removing, TornDown, SwitchedOff, At
<1>5. crashes' = 0 => Within(applied)'
  BY <1>2, <1>3 DEF Within, LanNow
<1>6. applied' \in {EmptyApplied, BuildApplied(document')}
  BY <1>2 DEF RecordInv
<1>. QED BY <1>1, <1>2, <1>4, <1>5, <1>6
     DEF RecordInv, At, BuildLabels, UpFrom, LanLabels

\* A step that leaves the label and the call alone and adds nothing.
LEMMA StillRecord ==
    ASSUME RecordInv, UNCHANGED <<document, applied, crashes, left>>,
           job'.pc = job.pc, job'.op = job.op, job'.todo = job.todo,
           LanNow' \subseteq LanNow, kernel'.routes = kernel.routes
    PROVE  RecordInv'
<1>1. \A record : Within(record) => LanNow' \subseteq record.networks /\ kernel'.routes \subseteq {record.endpoint}
  BY DEF Within
<1>2. (TornDown' => TornDown) /\ (SwitchedOff' => SwitchedOff)
  BY DEF TornDown, SwitchedOff, At
<1>3. Removing => Removing'
  BY <1>2 DEF Removing, Undeleted, At
<1>. QED BY <1>1, <1>2, <1>3 DEF RecordInv, At, Within

\* The advertiser is stopped or started between the two halves of a call.
LEMMA AdvertiseRecord ==
    ASSUME TypeInv, RecordInv, StopAdvertiser \/ Advertise \/ ListenOn \/ ListenFails
    PROVE  RecordInv'
<1>. USE DEF TypeInv, ReconcilerTypeOK, world
<1>0. job \in Job /\ UNCHANGED <<document, applied, crashes, kernel>>
  BY DEF StopAdvertiser, Advertise, ListenOn, ListenFails
<1>1. ASSUME NEW label \in Labels, Goto(label)
      PROVE  job'.op = job.op /\ job'.pc = label /\ job'.todo = job.todo
  BY <1>1, GotoJob DEF Locals
<1>2. job.op = "reconcile" /\ job'.op = job.op
  BY <1>1 DEF StopAdvertiser, Advertise, ListenOn, ListenFails, PathInv, Job, At, Labels
<1>. USE DEF BuildLabels, UpFrom, LanLabels
<1>3. CASE StopAdvertiser
  <2>1. /\ job.pc = "stop" /\ job'.pc \in {"stop", "chainsDown"} /\ job'.todo = job.todo
    BY <1>1, <1>3 DEF StopAdvertiser, At, Labels
  <2>2. Removing'
    BY <1>2, <2>1 DEF Removing, TornDown, SwitchedOff, At
  <2>. QED BY <1>0, <1>2, <2>1, <2>2 DEF RecordInv, At, Within, LanNow
<1>4. CASE Advertise \/ ListenOn \/ ListenFails
  <2>1. job.pc \in {"advertise", "listen"} /\ job'.pc \in {"listen", "end"}
    BY <1>0, <1>1, <1>4 DEF Advertise, ListenOn, ListenFails, At, Labels, Job
  <2>2. Wants(document)
    BY <2>1 DEF PathInv
  <2>3. ~TornDown' /\ Removing'
    BY <1>0, <2>1, <2>2 DEF Removing, TornDown, SwitchedOff, At
  <2>. QED BY <1>0, <1>2, <2>1, <2>2, <2>3 DEF RecordInv, At, Within, LanNow, Deleting
<1>. QED BY <1>3, <1>4

\* The end of a call: the record is of the build whether it succeeded or not.
LEMMA EndRecord ==
    ASSUME TypeInv, RecordInv, EndReconcile \/ EndRepair PROVE RecordInv'
<1>. USE DEF TypeInv, ReconcilerTypeOK, world
<1>0. ASSUME job' = NoJob PROVE job'.pc = "idle" /\ job'.op = "none"
  BY <1>0 DEF NoJob
<1>1. CASE EndRepair /\ ~job.ok
  BY <1>1, BeginRecord DEF EndRepair
<1>. USE DEF Deleting, BuildLabels, UpFrom, LanLabels
<1>2. CASE EndRepair /\ job.ok
  <2>1. /\ job'.pc = "idle" /\ job'.op = "none" /\ job.op = "repair"
        /\ UNCHANGED <<document, applied, crashes, kernel>>
    BY <1>0, <1>2 DEF EndRepair
  <2>2. Wants(document) /\ document.enabled
    BY <2>1 DEF PathInv, Wants
  <2>3. Removing'
    BY <2>1, <2>2 DEF Removing, TornDown, SwitchedOff, At
  <2>. QED BY <2>1, <2>2, <2>3 DEF RecordInv, At, Within, LanNow
<1>3. CASE EndReconcile
  <2>1. /\ job'.pc = "idle" /\ job'.op = "none" /\ job.op = "reconcile" /\ job.pc = "end"
        /\ UNCHANGED <<document, crashes, kernel, left>>
    BY <1>0, <1>3 DEF EndReconcile, At
  <2>2. CASE Wants(document)
    <3>1. document.enabled /\ applied' = BuildApplied(document)
      BY <1>3, <2>2 DEF EndReconcile, FinalApplied, Wants
    <3>2. crashes = 0 => Within(BuildApplied(document))
      BY <2>1, <2>2 DEF RecordInv
    <3>3. crashes' = 0 => Within(applied)'
      BY <2>1, <3>1, <3>2 DEF Within, LanNow
    <3>4. Removing'
      BY <2>1, <3>1 DEF Removing, TornDown, SwitchedOff, At
    <3>. QED BY <2>1, <2>2, <3>1, <3>3, <3>4 DEF RecordInv, At
  <2>3. CASE ~Wants(document)
    <3>1. crashes = 0 => Within(applied) /\ Undeleted
      BY <2>1, <2>3 DEF RecordInv, Removing, TornDown, At
    <3>2. crashes = 0 => Removing'
      BY <2>1, <3>1 DEF Removing, Undeleted, LanNow, TornDown, At
    <3>3. CASE document.enabled
      <4>1. applied' = applied
        BY <1>3, <2>3, <3>3 DEF EndReconcile, FinalApplied
      <4>2. crashes' = 0 => Within(applied)'
        BY <2>1, <3>1, <4>1 DEF Within, LanNow
      <4>. QED BY <2>1, <2>3, <3>2, <4>1, <4>2 DEF RecordInv, At
    <3>4. CASE ~document.enabled
      <4>1. applied' = EmptyApplied
        BY <1>3, <3>4 DEF EndReconcile, FinalApplied, Wants
      <4>2. ~TornDown' /\ ~(At("idle")' /\ document'.enabled)
        BY <2>1, <3>4 DEF TornDown, At
      <4>. QED BY <2>1, <2>3, <3>2, <4>1, <4>2 DEF RecordInv, At
    <3>. QED BY <3>3, <3>4
  <2>. QED BY <2>2, <2>3
<1>. QED BY <1>1, <1>2, <1>3

\* Every step keeps the record sufficient.
LEMMA NextRecord == ASSUME TypeInv, RecordInv, [Next]_vars PROVE RecordInv'
<1>. USE DEF TypeInv, ReconcilerTypeOK, world
<1>1. CASE Boot \/ Retry
  BY <1>1, BeginRecord DEF Boot, Retry, Wants
<1>2. CASE Down
  <2>1. document' = [document EXCEPT !.enabled = FALSE]
    BY <1>2 DEF Down
  <2>2. BuildApplied(document') = BuildApplied(document)
    BY <2>1 DEF BuildApplied, Config, Document
  <2>. QED BY <1>2, <2>2, BeginRecord DEF Down
<1>3. CASE BeginRepair
  <2>1. /\ job'.op = "repair" /\ job'.pc = "local" /\ At("idle") /\ Wants(document)
        /\ UNCHANGED <<document, applied, crashes, kernel>>
    BY <1>3, NewJob DEF BeginRepair, Labels
  <2>2. document.enabled
    BY <2>1 DEF Wants
  <2>3. Removing' /\ ~TornDown'
    BY <2>1 DEF Removing, TornDown, SwitchedOff, At
  <2>. QED BY <2>1, <2>2, <2>3
       DEF RecordInv, At, Within, LanNow, Deleting, BuildLabels, UpFrom, LanLabels
<1>4. CASE Teardowns \/ Builds \/ BuildFails
  BY <1>4, TeardownRecord, BuildRecord
<1>5. CASE StopAdvertiser \/ Advertise \/ ListenOn \/ ListenFails
  BY <1>5, AdvertiseRecord
<1>6. CASE EndReconcile \/ EndRepair
  BY <1>6, EndRecord
<1>7. CASE Crash
  <2>1. /\ job'.op = "none" /\ job'.pc = "off" /\ crashes' # 0
        /\ UNCHANGED <<document, applied>>
    BY <1>7, OffJob, ReconcilerAssumption DEF Crash
  <2>. QED BY <2>1 DEF RecordInv, At
<1>8. CASE Environment
  <2>1. /\ job'.pc = job.pc /\ job'.op = job.op /\ job'.todo = job.todo
        /\ UNCHANGED <<document, applied, crashes, left>>
    BY <1>8 DEF Environment, LoseTunnel, ResetInterface, Disturb, WanReady, Job
  <2>2. CASE LoseTunnel
    <3>1. kernel' = DropTunnel(kernel)
      BY <2>2 DEF LoseTunnel, Disturb
    <3>2. /\ kernel'.routes = kernel.routes
          /\ kernel'.addr = [a \in Addresses |-> IF a \in TunnelAddrs THEN "missing" ELSE kernel.addr[a]]
      BY <3>1 DEF DropTunnel, SetAddrs, Kernel
    <3>3. LanNow' \subseteq LanNow
      BY <3>2 DEF LanNow, OnLan, Addresses
    <3>. QED BY <2>1, <3>2, <3>3, StillRecord
  <2>3. CASE ResetInterface
    <3>1. PICK A : kernel' = SetAddrs(kernel, A, "missing")
      BY <2>3 DEF ResetInterface, Disturb, FlushInterface
    <3>2. LanNow' \subseteq LanNow /\ kernel'.routes = kernel.routes
      BY <3>1, SetAddrsFields, Fewer DEF AddrState
    <3>. QED BY <2>1, <3>2, StillRecord
  <2>4. CASE WanReady
    BY <2>1, <2>4, StillRecord DEF WanReady, LanNow
  <2>. QED BY <1>8, <2>2, <2>3, <2>4 DEF Environment
<1>9. CASE \E n \in LanAddrs : SenderStep(n) \/ ListenerStep(n) \/ Solicited(n)
  BY <1>9, StillRecord DEF SenderStep, ListenerStep, Solicited, Apart, LanNow
<1>10. CASE UNCHANGED vars
  BY <1>10, StillRecord DEF vars, LanNow
<1>. QED BY <1>1, <1>2, <1>3, <1>4, <1>5, <1>6, <1>7, <1>8, <1>9, <1>10
     DEF Next, Working, HealthLoop

\* After Down there is of the tunnel, the addresses and the routes of the
\* profile's builds, failed ones included, only what the teardown of Down could not delete, and no
\* chain unless a firewall command failed (teardown, runBestEffort).
THEOREM DownAlwaysClean == Spec => []DownIsClean
<1>1. Init => RecordInv
  <2>. SUFFICES ASSUME Init PROVE RecordInv
    OBVIOUS
  <2>1. job.op = "none" /\ job.pc = "off" /\ kernel = EmptyKernel /\ applied = EmptyApplied
    BY OffJob DEF Init
  <2>2. LanNow = {} /\ kernel.routes = {}
    BY <2>1 DEF EmptyKernel, LanNow, OnLan, Addresses
  <2>3. Removing
    BY <2>1 DEF Removing, TornDown, SwitchedOff, At
  <2>. QED BY <2>1, <2>2, <2>3 DEF RecordInv, At, Within
<1>2. Init => LifeInv
  BY OffJob DEF Init, RA!AdvInit, LifeInv, At
<1>3. ASSUME TypeInv, LifeInv, GoneInv, RecordInv PROVE DownIsClean
  <2>. SUFFICES ASSUME At("idle"), ~document.enabled PROVE DownIsClean
    BY DEF DownIsClean
  <2>1. life = "none"
    BY <1>3 DEF TypeInv, ReconcilerTypeOK, RA!AdvTypeOK, LifeInv, At, Wants
  <2>2. TunnelLeft /\ (tidy => \A c \in Chains : chain[c] = NoChain)
    BY <1>3 DEF GoneInv, SwitchedOff
  <2>3. crashes = 0 => Undeleted
    BY <1>3 DEF RecordInv, Removing, SwitchedOff
  <2>. QED BY <2>1, <2>2, <2>3 DEF DownIsClean, TunnelLeft, DefaultLeft, Undeleted, LanNow
<1>. QED BY <1>1, <1>2, <1>3, InitTypes, NextType, NextLife, InitFirewall, NextFirewall,
            NextRecord, PTL DEF Spec

-----------------------------------------------------------------------------
(***************************************************************************)
(* What a build without an error leaves.                                   *)
(***************************************************************************)

\* The switches and addresses of the LAN interfaces as a step leaves them alone.
SwitchesAlone == LanNow' \subseteq LanNow /\ host'.disabled \subseteq host.disabled

\* Such a step keeps addresses off the interfaces that are switched off.
LEMMA SwitchesStay == ASSUME DisabledInv, SwitchesAlone PROVE DisabledInv'
  BY DEF DisabledInv, SwitchesAlone

\* An address is ensured, which a host that switched the interface off refuses.
LEMMA EnsureSwitches ==
    ASSUME TypeInv, DisabledInv, NEW a, NEW then, Ensure(a, then)
    PROVE  DisabledInv'
<1>1. CASE UNCHANGED <<kernel, host>>
  BY <1>1, SwitchesStay DEF SwitchesAlone, LanNow, OnLan
<1>2. CASE kernel' = SetAddrs(kernel, {a}, "missing") /\ host' = host
  BY <1>2, Fewer, SwitchesStay DEF SwitchesAlone
<1>3. ASSUME NEW s \in AddrState, CanAdd(host, kernel, a),
             kernel' = SetAddrs(kernel, {a}, s), host' = host
      PROVE  DisabledInv'
  <2>1. LanNow' \subseteq LanNow \union {a}
    BY <1>3, SetAddrsFields DEF LanNow, OnLan, Addresses, TypeInv, ReconcilerTypeOK
  <2>2. a \in LanAddrs => InterfaceOf[a] \notin host.disabled
    BY <1>3 DEF CanAdd
  <2>3. LanNow' \subseteq LanAddrs
    BY DEF LanNow, OnLan
  <2>. QED BY <1>3, <2>1, <2>2, <2>3 DEF DisabledInv
<1>. QED BY <1>1, <1>2, <1>3 DEF Ensure, AddrState

\* Every step keeps addresses off the interfaces that are switched off.
LEMMA NextDisabled == ASSUME TypeInv, DisabledInv, [Next]_vars PROVE DisabledInv'
<1>. USE DEF TypeInv, ReconcilerTypeOK, world
<1>1. CASE UNCHANGED <<kernel, host>>
  BY <1>1, SwitchesStay DEF SwitchesAlone, LanNow, OnLan
<1>2. CASE Boot \/ Down \/ HealthLoop
  BY <1>1, <1>2 DEF Boot, Down, HealthLoop, Retry, BeginRepair, BeginReconcile
<1>3. CASE StopAdvertiser \/ Advertise \/ ListenOn \/ ListenFails \/ EndReconcile \/ EndRepair
  BY <1>1, <1>3 DEF StopAdvertiser, Advertise, ListenOn, ListenFails, EndReconcile, EndRepair,
                    BeginReconcile
<1>4. CASE ChainsDown \/ ChainsUp
  BY <1>1, <1>4, ChainsDownStep, ChainsUpStep DEF ChainStep
<1>5. CASE GetWANIPv4 \/ ResolveTunnelMTU \/ NextNetwork \/ ReadLinkLocal \/ BuildFails
  BY <1>1, <1>5 DEF GetWANIPv4, ResolveTunnelMTU, NextNetwork, ReadLinkLocal, BuildFails
<1>6. CASE Deletes
  BY <1>6, DeletionHost, SwitchesStay DEF SwitchesAlone
<1>7. CASE HostRoute \/ TunnelAdd \/ SetMTU \/ SetUp \/ Forwarding \/ AcceptDad \/ DefaultRoute
  <2>1. kernel'.addr = kernel.addr /\ host'.disabled = host.disabled
    BY <1>7 DEF HostRoute, TunnelAdd, SetMTU, SetUp, Forwarding, AcceptDad, DefaultRoute,
                AddRoute, AddTunnel, LinkUp, AcceptNoDad, AddDefaultRoute, Kernel, Host
  <2>. QED BY <2>1, SwitchesStay DEF SwitchesAlone, LanNow, OnLan
<1>8. ASSUME kernel' = DropTunnel(kernel), host'.disabled = host.disabled PROVE DisabledInv'
  <2>1. kernel'.addr = [a \in Addresses |-> IF a \in TunnelAddrs THEN "missing" ELSE kernel.addr[a]]
    BY <1>8 DEF DropTunnel, SetAddrs, Kernel
  <2>2. LanNow' \subseteq LanNow
    BY <2>1 DEF LanNow, OnLan, Addresses
  <2>. QED BY <1>8, <2>2, SwitchesStay DEF SwitchesAlone
<1>10. CASE EnsureLocal \/ EnsureGateway
  BY <1>10, EnsureSwitches DEF EnsureLocal, EnsureGateway
<1>11. CASE DisableIPv6
  <2>1. LanNow' = LanNow \ On(Interface)
    BY <1>11, Fewer DEF DisableIPv6, FlushInterface
  <2>2. host'.disabled = host.disabled \union {Interface}
    BY <1>11 DEF DisableIPv6, DisableHost, Host
  <2>3. \A a \in LanNow' : a \in LanNow /\ InterfaceOf[a] # Interface
    BY <2>1 DEF On, LanNow, OnLan
  <2>. QED BY <2>2, <2>3 DEF DisabledInv
<1>12. CASE EnableIPv6
  <2>1. host'.disabled \subseteq host.disabled /\ kernel' = kernel
    BY <1>12 DEF EnableIPv6, EnableHost, Host
  <2>. QED BY <2>1, SwitchesStay DEF SwitchesAlone, LanNow, OnLan
<1>13. CASE Crash
  <2>1. CASE kernel' = EmptyKernel
    BY <2>1 DEF EmptyKernel, LanNow, OnLan, Addresses, DisabledInv
  <2>. QED BY <1>1, <1>13, <2>1 DEF Crash
<1>14. CASE Environment
  <2>1. CASE LoseTunnel
    BY <1>8, <2>1 DEF LoseTunnel, Disturb, Host
  <2>2. CASE ResetInterface
    <3>1. PICK A : kernel' = SetAddrs(kernel, A, "missing") /\ host'.disabled = host.disabled
      BY <2>2 DEF ResetInterface, Disturb, FlushInterface, Host
    <3>. QED BY <3>1, Fewer, SwitchesStay DEF SwitchesAlone
  <2>. QED BY <1>1, <1>14, <2>1, <2>2 DEF Environment, WanReady
<1>15. CASE \E n \in LanAddrs : SenderStep(n) \/ ListenerStep(n) \/ Solicited(n)
  BY <1>1, <1>15 DEF SenderStep, ListenerStep, Solicited, Apart
<1>16. CASE UNCHANGED vars
  BY <1>1, <1>16 DEF vars
<1>. QED BY <1>2, <1>3, <1>4, <1>5, <1>6, <1>7, <1>10, <1>11, <1>12, <1>13, <1>14, <1>15,
            <1>16 DEF Next, Working, Teardowns, Deletes, Builds

\* The steps that are not of an undisturbed reconcile's build.
LEMMA ElsewhereUsable ==
    ASSUME \/ ~Undisturbed'
           \/ job'.pc \in {"end", "listen"} /\ TunnelUsable'
           \/ /\ job'.pc \notin UpFrom \union {"tunnel", "setMTU"}
              /\ job'.ready = {}
    PROVE  UsableInv'
  BY DEF UsableInv, TunnelUsable, LanUsable, RouteUsable, UpFrom, LanLabels, Last, At

\* Before the tunnel is built nothing is claimed.
LEMMA EarlyUsable ==
    ASSUME TypeInv, UsableInv, Teardowns \/ GetWANIPv4 \/ ResolveTunnelMTU
    PROVE  UsableInv'
<1>. USE DEF TypeInv, ReconcilerTypeOK, At
<1>0. ASSUME NEW label \in Labels, Goto(label) PROVE job'.ready = job.ready /\ job'.pc = label
  BY <1>0, GotoJob DEF Locals
<1>1. job'.op = job.op /\ job'.steady = job.steady
  BY CommandPath DEF Builds
<1>2. job'.ready = job.ready /\ job'.pc \notin UpFrom \union {"tunnel", "setMTU"}
      /\ job.pc \notin UpFrom \union {"end"}
  <2>. USE DEF UpFrom, LanLabels
  <2>1. CASE ChainsDown
    <3>1. PICK g, bad : ChainStep("chainsDown", "delAddrs", g, bad)
      BY <2>1, ChainsDownStep
    <3>2. "chainsDown" \in Labels /\ "delAddrs" \in Labels
      BY DEF Labels
    <3>3. job'.pc \in {"chainsDown", "delAddrs"} /\ job'.ready = job.ready
      BY <3>1, <3>2, ChainStepJob
    <3>4. job.pc = "chainsDown"
      BY <3>1 DEF ChainStep
    <3>. QED BY <3>3, <3>4
  <2>2. CASE Deletes
    BY <2>2, DeletionJob
  <2>3. CASE GetWANIPv4 \/ ResolveTunnelMTU
    BY <2>3 DEF GetWANIPv4, ResolveTunnelMTU, Job
  <2>. QED BY <2>1, <2>2, <2>3 DEF Teardowns, Deletes
<1>3. Undisturbed => job.ready = {}
  BY <1>2 DEF UsableInv, LanUsable, UpFrom, LanLabels, Last
<1>. QED BY <1>1, <1>2, <1>3, ElsewhereUsable DEF Undisturbed

\* The tunnel comes up in order.
LEMMA TunnelBuildUsable ==
    ASSUME TypeInv, UsableInv, Undisturbed,
           HostRoute \/ TunnelAdd \/ SetMTU \/ SetUp
    PROVE  UsableInv'
<1>. USE DEF TypeInv, ReconcilerTypeOK, At, Command
<1>0. ASSUME NEW label \in Labels, Goto(label)
      PROVE  job'.ready = job.ready /\ job'.pc = label /\ job'.wanIP = job.wanIP
  BY <1>0, GotoJob DEF Locals
<1>1. document' = document /\ job.ready = {}
  <2>1. job.pc \in {"hostRoute", "tunnel", "setMTU", "up"}
    BY DEF HostRoute, TunnelAdd, SetMTU, SetUp
  <2>. QED BY <2>1 DEF HostRoute, TunnelAdd, SetMTU, SetUp, UsableInv, LanUsable, LanLabels, Last
<1>2. CASE HostRoute
  <2>1. job'.pc = "tunnel" /\ job'.ready = {}
    BY <1>0, <1>1, <1>2 DEF HostRoute, Labels
  <2>2. Config(document).endpoint \in kernel'.routes
    BY <1>2 DEF HostRoute, AddRoute, Kernel
  <2>. QED BY <1>1, <2>1, <2>2
       DEF UsableInv, TunnelUsable, LanUsable, RouteUsable, UpFrom, LanLabels, Last
<1>3. CASE TunnelAdd
  <2>1. job'.pc = "setMTU" /\ job'.ready = {} /\ job'.wanIP = job.wanIP
    BY <1>0, <1>1, <1>3 DEF TunnelAdd, Labels
  <2>2. /\ kernel'.routes = kernel.routes
        /\ kernel'.tunnel = [remote |-> Config(document).endpoint, local |-> job.wanIP]
    BY <1>3 DEF TunnelAdd, AddTunnel, Kernel
  <2>3. Config(document).endpoint \in kernel.routes
    BY <1>3 DEF TunnelAdd, UsableInv, TunnelUsable
  <2>. QED BY <1>1, <2>1, <2>2, <2>3
       DEF UsableInv, TunnelUsable, LanUsable, RouteUsable, UpFrom, LanLabels, Last
<1>4. CASE SetMTU
  <2>1. job'.pc = "up" /\ job'.ready = {} /\ job'.wanIP = job.wanIP /\ kernel' = kernel
    BY <1>0, <1>1, <1>4 DEF SetMTU, Labels
  <2>2. /\ Config(document).endpoint \in kernel.routes
        /\ kernel.tunnel = [remote |-> Config(document).endpoint, local |-> job.wanIP]
    BY <1>4 DEF SetMTU, UsableInv, TunnelUsable
  <2>. QED BY <1>1, <2>1, <2>2
       DEF UsableInv, TunnelUsable, LanUsable, RouteUsable, UpFrom, LanLabels, Last
<1>5. CASE SetUp
  <2>1. job'.pc = "local" /\ job'.ready = {} /\ job'.wanIP = job.wanIP
    BY <1>0, <1>1, <1>5 DEF SetUp, Labels
  <2>2. kernel'.routes = kernel.routes /\ kernel'.tunnel = kernel.tunnel /\ kernel'.linkUp
    BY <1>5 DEF SetUp, LinkUp, Kernel
  <2>3. /\ Config(document).endpoint \in kernel.routes
        /\ kernel.tunnel = [remote |-> Config(document).endpoint, local |-> job.wanIP]
    BY <1>5 DEF SetUp, UsableInv, TunnelUsable, UpFrom
  <2>. QED BY <1>1, <2>1, <2>2, <2>3
       DEF UsableInv, TunnelUsable, LanUsable, RouteUsable, UpFrom, LanLabels, Last
<1>. QED BY <1>2, <1>3, <1>4, <1>5

\* The tunnel is left alone from its address on.
LEMMA TunnelKept ==
    ASSUME TypeInv, TunnelUsable, Undisturbed, job.pc \in UpFrom \ {"up", "local"},
           document' = document, job'.wanIP = job.wanIP, kernel'.routes = kernel.routes,
           kernel'.tunnel = kernel.tunnel, kernel'.linkUp = kernel.linkUp,
           \A a \in TunnelAddrs : kernel'.addr[a] = kernel.addr[a]
    PROVE  TunnelUsable'
<1>1. Config(document).localIPv6 \in TunnelAddrs
  BY ManagedAddresses
<1>. QED BY <1>1 DEF TunnelUsable, UpFrom

\* The tunnel's address, and forwarding.
LEMMA LocalUsable ==
    ASSUME TypeInv, UsableInv, Undisturbed, EnsureLocal \/ Forwarding
    PROVE  UsableInv'
<1>. USE DEF TypeInv, ReconcilerTypeOK, At, Command
<1>1. document' = document
  BY DEF EnsureLocal, Ensure, Forwarding
<1>2. CASE EnsureLocal
  <2>. DEFINE a    == Config(document).localIPv6
              then == [job EXCEPT !.pc = IF job.op = "repair" THEN "lan" ELSE "forwarding",
                                  !.todo = Gateways]
  <2>1. /\ a \in TunnelAddrs /\ a \notin LanAddrs /\ a \in Addresses
    BY ManagedAddresses, AddressAssumption DEF Addresses
  <2>2. /\ then.pc = "forwarding" /\ then.todo = Gateways /\ then.wanIP = job.wanIP
        /\ then.ready = job.ready
    BY DEF Job, Undisturbed
  <2>3. Ensure(a, then) /\ ~MayFailDad(host, a) /\ job.pc = "local"
    BY <1>2, <2>1 DEF EnsureLocal, MayFailDad
  <2>4. /\ Config(document).endpoint \in kernel.routes /\ kernel.linkUp /\ job.ready = {}
        /\ kernel.tunnel = [remote |-> Config(document).endpoint, local |-> job.wanIP]
    BY <2>3 DEF UsableInv, TunnelUsable, LanUsable, UpFrom, LanLabels, Last
  <2>5. /\ kernel'.routes = kernel.routes /\ kernel'.linkUp = kernel.linkUp
        /\ kernel'.tunnel = kernel.tunnel
    BY <2>3, SetAddrsFields DEF Ensure, AddrState
  <2>. HIDE DEF then
  <2>6. CASE UNCHANGED job
    BY <1>1, <2>3, <2>4, <2>5, <2>6
       DEF UsableInv, TunnelUsable, LanUsable, RouteUsable, UpFrom, LanLabels, Last
  <2>7. CASE job' = then /\ kernel'.addr[a] = "healthy"
    <3>1. Gateways' = Gateways
      BY <1>1 DEF Gateways
    <3>. QED BY <1>1, <2>2, <2>4, <2>5, <2>7, <3>1
         DEF UsableInv, TunnelUsable, LanUsable, RouteUsable, UpFrom, LanLabels, Last
  <2>8. UNCHANGED job \/ (job' = then /\ kernel'.addr[a] = "healthy")
    BY <2>1, <2>3, SetAddrsFields DEF Ensure, AddrState
  <2>. QED BY <2>6, <2>7, <2>8
<1>3. CASE Forwarding
  <2>1. job'.pc = "lan" /\ UNCHANGED Locals /\ kernel' = kernel /\ host'.forwarding
    BY <1>3, GotoJob DEF Forwarding, Labels, Host
  <2>2. job.todo = Gateways /\ job.ready = {}
    BY <1>3 DEF Forwarding, UsableInv, LanUsable, LanLabels, Last
  <2>3. TunnelUsable'
    BY <1>1, <1>3, <2>1, TunnelKept DEF Forwarding, Locals, UsableInv, UpFrom
  <2>4. Done' = {} /\ job'.ready = {}
    BY <1>1, <2>1, <2>2 DEF Done, Gateways, Locals, LanLabels
  <2>. QED BY <2>1, <2>3, <2>4 DEF UsableInv, LanUsable, RouteUsable, LanLabels, Last
<1>. QED BY <1>2, <1>3

\* The turn of a network begins, or the last one is done.
LEMMA NextNetworkUsable ==
    ASSUME TypeInv, UsableInv, Undisturbed, NextNetwork PROVE UsableInv'
<1>. USE DEF TypeInv, ReconcilerTypeOK, At, Command, NextNetwork
<1>1. UNCHANGED <<document, kernel, host>> /\ job.pc = "lan" /\ job.op = "reconcile"
  BY DEF Undisturbed
<1>2. /\ host.forwarding
      /\ \A a \in Gateways \ job.todo : kernel.addr[a] = "healthy" /\ InterfaceOf[a] \in job.ready
      /\ \A i \in job.ready : i \in host.noDad /\ i \notin host.badLinkLocal \ host.disabled
  BY <1>1 DEF UsableInv, LanUsable, LanLabels, Done
<1>3. CASE job.todo = {} /\ Goto("default")
  <2>1. job'.pc = "default" /\ UNCHANGED Locals
    BY <1>3, GotoJob DEF Labels
  <2>2. TunnelUsable'
    BY <1>1, <2>1, TunnelKept DEF Locals, UsableInv, UpFrom, LanLabels
  <2>3. Done' = Gateways \ job.todo
    BY <1>1, <1>3, <2>1 DEF Done, Gateways, Locals, LanLabels
  <2>. QED BY <1>1, <1>2, <1>3, <2>1, <2>2, <2>3
       DEF Locals, UsableInv, LanUsable, RouteUsable, LanLabels, Last
<1>4. ASSUME NEW a \in job.todo, NEW to,
             to = IF InterfaceOf[a] \in job.ready THEN "gateway" ELSE "dad",
             job' = [job EXCEPT !.todo = @ \ {a}, !.net = a, !.pc = to]
      PROVE  UsableInv'
  <2>1. /\ job'.todo = job.todo \ {a} /\ job'.net = a /\ job'.pc = to /\ job'.ready = job.ready
        /\ job'.wanIP = job.wanIP
    BY <1>4 DEF Job
  <2>2. TunnelUsable'
    BY <1>1, <2>1, TunnelKept DEF UsableInv, UpFrom, LanLabels
  <2>3. to \in {"gateway", "dad"} /\ Gateways' = Gateways
    BY <1>1, <1>4 DEF Gateways
  <2>4. Done' = Gateways \ ((job.todo \ {a}) \union {a})
    BY <2>1, <2>3 DEF Done, LanLabels
  <2>5. Done' = Gateways \ job.todo
    BY <2>4
  <2>6. Interface' = InterfaceOf[a]
    BY <2>1 DEF Interface
  <2>7. /\ job'.pc = "gateway" => Interface' \in job'.ready
        /\ job'.pc = "dad" => Interface' \notin job'.ready
        /\ job'.pc \in {"gateway", "dad"}
    BY <1>4, <2>1, <2>3, <2>6
  <2>8. LanUsable'
    BY <1>1, <1>2, <2>1, <2>5, <2>7 DEF LanUsable, LanLabels, Last
  <2>. QED BY <2>2, <2>7, <2>8 DEF UsableInv, RouteUsable
<1>. QED BY <1>1, <1>3, <1>4

\* An interface is made ready for its first address.
LEMMA InterfaceUsable ==
    ASSUME TypeInv, UsableInv, Undisturbed,
           AcceptDad \/ ReadLinkLocal \/ DisableIPv6 \/ EnableIPv6
    PROVE  UsableInv'
<1>. USE DEF TypeInv, ReconcilerTypeOK, At, Command
<1>0. job.pc \in {"dad", "linkLocal", "disable", "enable"} /\ document' = document
  BY DEF AcceptDad, ReadLinkLocal, DisableIPv6, EnableIPv6
<1>1. /\ host.forwarding /\ Interface \notin job.ready
      /\ \A a \in Done : kernel.addr[a] = "healthy" /\ InterfaceOf[a] \in job.ready
      /\ \A i \in job.ready : i \in host.noDad /\ i \notin host.badLinkLocal \ host.disabled
      /\ job.pc # "dad" => Interface \in host.noDad
  BY <1>0 DEF UsableInv, LanUsable, LanLabels
<1>2. ASSUME job'.net = job.net, job'.todo = job.todo,
             job'.pc \in {"linkLocal", "disable", "enable", "gateway"}
      PROVE  Done' = Done /\ Interface' = Interface
  BY <1>0, <1>2 DEF Done, Gateways, Interface, LanLabels
<1>3. ASSUME job'.pc \in LanLabels, job'.wanIP = job.wanIP, kernel'.routes = kernel.routes,
             kernel'.tunnel = kernel.tunnel, kernel'.linkUp = kernel.linkUp,
             \A a \in TunnelAddrs : kernel'.addr[a] = kernel.addr[a]
      PROVE  TunnelUsable'
  BY <1>0, <1>3, TunnelKept DEF UsableInv, UpFrom, LanLabels
<1>4. ASSUME NEW label \in Labels, Goto(label)
      PROVE  /\ job'.ready = job.ready /\ job'.pc = label /\ job'.wanIP = job.wanIP
             /\ job'.net = job.net /\ job'.todo = job.todo
  BY <1>4, GotoJob DEF Locals
<1>. USE DEF LanLabels
<1>5. CASE AcceptDad
  <2>1. /\ job'.pc = "linkLocal" /\ kernel' = kernel /\ job'.ready = job.ready
        /\ job'.net = job.net /\ job'.todo = job.todo /\ job'.wanIP = job.wanIP
    BY <1>4, <1>5 DEF AcceptDad, Labels
  <2>2. /\ host'.noDad = host.noDad \union {Interface} /\ host'.forwarding = host.forwarding
        /\ host'.badLinkLocal = host.badLinkLocal /\ host'.disabled = host.disabled
    BY <1>5 DEF AcceptDad, AcceptNoDad, Host
  <2>3. TunnelUsable' /\ Done' = Done /\ Interface' = Interface
    BY <1>2, <1>3, <2>1
  <2>. QED BY <1>1, <2>1, <2>2, <2>3 DEF UsableInv, LanUsable, RouteUsable, Last
<1>6. ASSUME Ready PROVE /\ job'.pc = "gateway" /\ job'.ready = job.ready \union {Interface}
                         /\ job'.net = job.net /\ job'.todo = job.todo /\ job'.wanIP = job.wanIP
  BY <1>6 DEF Ready, Job
<1>7. CASE ReadLinkLocal
  <2>1. UNCHANGED <<kernel, host>> /\ job.pc = "linkLocal"
    BY <1>7 DEF ReadLinkLocal
  <2>2. CASE Goto("disable")
    <3>1. /\ job'.pc = "disable" /\ job'.ready = job.ready
          /\ job'.net = job.net /\ job'.todo = job.todo /\ job'.wanIP = job.wanIP
      BY <1>4, <2>2 DEF Labels
    <3>2. TunnelUsable' /\ Done' = Done /\ Interface' = Interface
      BY <1>2, <1>3, <2>1, <3>1
    <3>. QED BY <1>1, <2>1, <3>1, <3>2 DEF UsableInv, LanUsable, RouteUsable, Last
  <2>3. CASE Ready /\ ~HasProblematicLinkLocal(host, Interface)
    <3>1. Interface \notin host.badLinkLocal \ host.disabled
      BY <2>3 DEF HasProblematicLinkLocal
    <3>2. TunnelUsable' /\ Done' = Done /\ Interface' = Interface
      BY <1>2, <1>3, <1>6, <2>1, <2>3
    <3>. QED BY <1>1, <1>6, <2>1, <2>3, <3>1, <3>2 DEF UsableInv, LanUsable, RouteUsable, Last
  <2>. QED BY <1>7, <2>2, <2>3 DEF ReadLinkLocal
<1>8. CASE DisableIPv6
  <2>1. /\ job'.pc = "enable" /\ job'.ready = job.ready /\ job.pc = "disable"
        /\ job'.net = job.net /\ job'.todo = job.todo /\ job'.wanIP = job.wanIP
    BY <1>4, <1>8 DEF DisableIPv6, Labels
  <2>2. /\ host'.disabled = host.disabled \union {Interface} /\ host'.forwarding = host.forwarding
        /\ host'.badLinkLocal = host.badLinkLocal /\ host'.noDad = host.noDad
    BY <1>8 DEF DisableIPv6, DisableHost, Host
  <2>3. /\ kernel'.routes = kernel.routes /\ kernel'.tunnel = kernel.tunnel
        /\ kernel'.linkUp = kernel.linkUp
        /\ \A a \in Addresses \ On(Interface) : kernel'.addr[a] = kernel.addr[a]
    BY <1>8, SetAddrsFields DEF DisableIPv6, FlushInterface, AddrState
  <2>4. TunnelUsable' /\ Done' = Done /\ Interface' = Interface
    <3>1. \A a \in TunnelAddrs : a \in Addresses \ On(Interface)
      BY AddressAssumption DEF On, Addresses
    <3>. QED BY <1>2, <1>3, <2>1, <2>3, <3>1
  <2>5. \A a \in Done : kernel'.addr[a] = kernel.addr[a]
    <3>1. \A a \in Done : a \in Addresses \ On(Interface)
      BY <1>1, ManagedAddresses DEF On, Addresses, Done
    <3>. QED BY <2>3, <3>1
  <2>. QED BY <1>1, <2>1, <2>2, <2>4, <2>5 DEF UsableInv, LanUsable, RouteUsable, Last
<1>9. CASE EnableIPv6
  <2>1. kernel' = kernel /\ job.pc = "enable" /\ Ready
    BY <1>9 DEF EnableIPv6
  <2>2. Interface \in host.noDad
    BY <1>1, <2>1
  <2>3. /\ host'.disabled = host.disabled \ {Interface} /\ host'.forwarding = host.forwarding
        /\ host'.badLinkLocal = host.badLinkLocal \ {Interface} /\ host'.noDad = host.noDad
    BY <1>9, <2>2 DEF EnableIPv6, EnableHost, Host
  <2>4. TunnelUsable' /\ Done' = Done /\ Interface' = Interface
    BY <1>2, <1>3, <1>6, <2>1
  <2>. QED BY <1>1, <1>6, <2>1, <2>2, <2>3, <2>4 DEF UsableInv, LanUsable, RouteUsable, Last
<1>. QED BY <1>5, <1>7, <1>8, <1>9

\* A gateway is ensured; its interface does not probe for it any more.
LEMMA GatewayUsable ==
    ASSUME TypeInv, UsableInv, Undisturbed, EnsureGateway PROVE UsableInv'
<1>. USE DEF TypeInv, ReconcilerTypeOK, At, Command
<1>. DEFINE a == job.net
            then == [job EXCEPT !.pc = "lan"]
<1>1. job.pc = "gateway" /\ Ensure(a, then) /\ document' = document /\ host' = host
  BY DEF EnsureGateway, Ensure
<1>2. /\ host.forwarding /\ Interface \in job.ready
      /\ \A x \in Done : kernel.addr[x] = "healthy" /\ InterfaceOf[x] \in job.ready
      /\ \A i \in job.ready : i \in host.noDad /\ i \notin host.badLinkLocal \ host.disabled
  BY <1>1 DEF UsableInv, LanUsable, LanLabels
<1>3. ~MayFailDad(host, a)
  BY <1>2 DEF MayFailDad, Interface
<1>4. a \in Gateways /\ a \in LanAddrs /\ a \in Addresses /\ a \notin TunnelAddrs
  BY <1>1, ManagedAddresses, AddressAssumption DEF PathInv, LanLabels, Addresses
<1>5. /\ then.pc = "lan" /\ then.todo = job.todo /\ then.wanIP = job.wanIP
      /\ then.ready = job.ready
  BY DEF Job
<1>6. /\ kernel'.routes = kernel.routes /\ kernel'.linkUp = kernel.linkUp
      /\ kernel'.tunnel = kernel.tunnel
      /\ \A x \in Addresses \ {a} : kernel'.addr[x] = kernel.addr[x]
  BY <1>1, <1>3, SetAddrsFields DEF Ensure, AddrState
<1>7. UNCHANGED job \/ (job' = then /\ kernel'.addr[a] = "healthy")
  BY <1>1, <1>3, <1>4, SetAddrsFields DEF Ensure, AddrState
<1>8. job'.wanIP = job.wanIP /\ job'.ready = job.ready /\ job'.todo = job.todo
  BY <1>5, <1>7
<1>9. TunnelUsable'
  <2>1. \A x \in TunnelAddrs : kernel'.addr[x] = kernel.addr[x]
    BY <1>4, <1>6 DEF Addresses
  <2>. QED BY <1>1, <1>6, <1>8, <2>1, TunnelKept DEF UsableInv, UpFrom, LanLabels
<1>10. \A x \in Done : x \in Addresses \ {a}
  BY <1>1, ManagedAddresses DEF Done, LanLabels, Addresses
<1>. HIDE DEF then
<1>11. CASE UNCHANGED job
  <2>1. Done' = Done /\ Interface' = Interface
    BY <1>1, <1>11 DEF Done, Gateways, Interface
  <2>. QED BY <1>1, <1>2, <1>6, <1>9, <1>10, <1>11, <2>1
       DEF UsableInv, LanUsable, RouteUsable, LanLabels, Last
<1>12. CASE job' = then /\ kernel'.addr[a] = "healthy"
  <2>1. Done' \subseteq Done \union {a}
    BY <1>1, <1>5, <1>12 DEF Done, Gateways, LanLabels
  <2>2. \A x \in Done' : kernel'.addr[x] = "healthy" /\ InterfaceOf[x] \in job.ready
    BY <1>2, <1>6, <1>10, <1>12, <2>1 DEF Interface
  <2>. QED BY <1>1, <1>2, <1>5, <1>9, <1>12, <2>2
       DEF UsableInv, LanUsable, RouteUsable, LanLabels, Last
<1>. QED BY <1>7, <1>11, <1>12

\* The default route's source is an address that is there.
LEMMA RouteStepUsable ==
    ASSUME TypeInv, UsableInv, Undisturbed, DefaultRoute PROVE UsableInv'
<1>. USE DEF TypeInv, ReconcilerTypeOK, At, Command
<1>1. PICK s \in RouteSources(document) :
         /\ job.pc = "default" /\ RouteAccepted(kernel, s) /\ kernel' = AddDefaultRoute(kernel)
         /\ host' = [host EXCEPT !.source = s] /\ Goto("chainsUp") /\ document' = document
  BY DEF DefaultRoute
<1>2. job'.pc = "chainsUp" /\ UNCHANGED Locals
  BY <1>1, GotoJob DEF Labels
<1>3. /\ kernel'.routes = kernel.routes /\ kernel'.linkUp = kernel.linkUp
      /\ kernel'.tunnel = kernel.tunnel /\ kernel'.addr = kernel.addr /\ kernel'.defaultRoute
  BY <1>1 DEF AddDefaultRoute, Kernel
<1>4. /\ host'.source = s /\ host'.forwarding = host.forwarding /\ host'.noDad = host.noDad
      /\ host'.badLinkLocal = host.badLinkLocal /\ host'.disabled = host.disabled
  BY <1>1 DEF Host
<1>5. TunnelUsable'
  BY <1>1, <1>2, <1>3, TunnelKept DEF Locals, UsableInv, UpFrom
<1>6. /\ host.forwarding /\ job.todo = {}
      /\ \A a \in Done : kernel.addr[a] = "healthy" /\ InterfaceOf[a] \in job.ready
      /\ \A i \in job.ready : i \in host.noDad /\ i \notin host.badLinkLocal \ host.disabled
  BY <1>1 DEF UsableInv, LanUsable, Last
<1>7. Done' = Done
  BY <1>1, <1>2 DEF Done, Gateways, Locals, LanLabels
<1>8. (s # None => kernel'.addr[s] = "healthy") /\ TunnelExists(kernel)'
  BY <1>1, <1>3 DEF RouteAccepted, TunnelExists
<1>. QED BY <1>1, <1>2, <1>3, <1>4, <1>5, <1>6, <1>7, <1>8
     DEF UsableInv, LanUsable, RouteUsable, Locals, LanLabels, Last

\* The firewall's build touches none of it.
LEMMA ChainsUpUsable ==
    ASSUME TypeInv, UsableInv, Undisturbed, ChainsUp PROVE UsableInv'
<1>. USE DEF TypeInv, ReconcilerTypeOK
<1>1. PICK g, bad : ChainStep("chainsUp", "advertise", g, bad)
  BY ChainsUpStep
<1>2. "chainsUp" \in Labels /\ "advertise" \in Labels
  BY DEF Labels
<1>3. /\ job'.pc \in {"chainsUp", "advertise"} /\ job'.ready = job.ready /\ job'.todo = job.todo
      /\ job'.wanIP = job.wanIP
  BY <1>1, <1>2, ChainStepJob
<1>4. job.pc = "chainsUp" /\ UNCHANGED <<document, kernel, host>>
  BY <1>1 DEF ChainStep, At
<1>5. TunnelUsable'
  BY <1>3, <1>4, TunnelKept DEF UsableInv, UpFrom
<1>6. Done' = Done
  BY <1>3, <1>4 DEF Done, Gateways, LanLabels
<1>7. LanUsable'
  BY <1>3, <1>4, <1>6 DEF UsableInv, LanUsable, LanLabels, Last, At
<1>8. RouteUsable'
  BY <1>3, <1>4 DEF UsableInv, RouteUsable, Undisturbed, TunnelExists
<1>. QED BY <1>5, <1>7, <1>8 DEF UsableInv

\* Every step keeps what the build has put there so far.
LEMMA NextUsable == ASSUME TypeInv, UsableInv, [Next]_vars PROVE UsableInv'
<1>. USE DEF TypeInv, ReconcilerTypeOK, world
<1>1. ASSUME job'.op # "reconcile" \/ ~job'.steady PROVE UsableInv'
  BY <1>1, ElsewhereUsable DEF Undisturbed
<1>2. ASSUME job'.pc = "end" PROVE UsableInv'
  BY <1>2, ElsewhereUsable DEF TunnelUsable, UpFrom, LanLabels
<1>3. ASSUME BeginReconcile PROVE UsableInv'
  <2>1. job'.pc \in {"chainsDown", "stop"} /\ job'.ready = {}
    BY <1>3 DEF BeginReconcile, NoJob
  <2>. QED BY <2>1, ElsewhereUsable DEF UpFrom, LanLabels
<1>4. CASE Boot \/ Down \/ Retry
  BY <1>3, <1>4 DEF Boot, Down, Retry
<1>5. CASE BeginRepair
  <2>1. job'.op = "repair"
    BY <1>5, NewJob DEF BeginRepair, Labels
  <2>. QED BY <1>1, <2>1
<1>6. CASE Teardowns \/ GetWANIPv4 \/ ResolveTunnelMTU
  BY <1>6, EarlyUsable
<1>7. CASE BuildFails
  BY <1>2, <1>7 DEF BuildFails, Job
<1>8. CASE Builds /\ ~GetWANIPv4 /\ ~ResolveTunnelMTU
  <2>1. job'.op = job.op /\ job'.steady = job.steady
    BY <1>8, CommandPath
  <2>2. CASE Undisturbed
    BY <1>8, <2>2, TunnelBuildUsable, LocalUsable, NextNetworkUsable, InterfaceUsable,
       GatewayUsable, RouteStepUsable, ChainsUpUsable DEF Builds
  <2>3. CASE ~Undisturbed
    BY <1>1, <2>1, <2>3 DEF Undisturbed
  <2>. QED BY <2>2, <2>3
<1>9. ASSUME NEW label \in Labels, Goto(label)
      PROVE  /\ job'.ready = job.ready /\ job'.pc = label /\ job'.wanIP = job.wanIP
             /\ job'.op = job.op /\ job'.steady = job.steady
  BY <1>9, GotoJob DEF Locals
<1>10. CASE UNCHANGED <<document, job, kernel, host>>
  <2>1. Gateways' = Gateways /\ Interface' = Interface
    BY <1>10 DEF Gateways, Interface
  <2>2. Done' = Done
    BY <1>10, <2>1 DEF Done
  <2>3. TunnelUsable'
    BY <1>10 DEF UsableInv, TunnelUsable, Undisturbed
  <2>4. LanUsable'
    BY <1>10, <2>1, <2>2 DEF UsableInv, LanUsable, Undisturbed, At
  <2>5. RouteUsable'
    BY <1>10 DEF UsableInv, RouteUsable, Undisturbed, TunnelExists
  <2>. QED BY <2>3, <2>4, <2>5 DEF UsableInv
<1>11. CASE StopAdvertiser
  <2>1. CASE UNCHANGED job
    BY <1>10, <1>11, <2>1 DEF StopAdvertiser
  <2>2. CASE Goto("chainsDown")
    <3>1. Undisturbed => job.ready = {}
      BY <1>11 DEF StopAdvertiser, At, UsableInv, LanUsable, LanLabels, Last
    <3>2. /\ job'.ready = job.ready /\ job'.pc = "chainsDown" /\ job'.op = job.op
          /\ job'.steady = job.steady
      BY <1>9, <2>2 DEF Labels
    <3>. QED BY <3>1, <3>2, ElsewhereUsable DEF Undisturbed, UpFrom, LanLabels
  <2>. QED BY <1>11, <2>1, <2>2 DEF StopAdvertiser
<1>12. CASE Advertise
  <2>1. CASE Goto("end")
    BY <1>2, <1>9, <2>1 DEF Labels
  <2>2. CASE Goto("listen")
    <3>1. /\ job'.pc = "listen" /\ job'.wanIP = job.wanIP /\ job'.op = job.op
          /\ job'.steady = job.steady
      BY <1>9, <2>2 DEF Labels
    <3>2. job.pc = "advertise" /\ UNCHANGED <<document, kernel, host>>
      BY <1>12 DEF Advertise, At
    <3>3. TunnelUsable'
      BY <3>1, <3>2 DEF UsableInv, TunnelUsable, Undisturbed, UpFrom
    <3>. QED BY <3>1, <3>3, ElsewhereUsable
  <2>. QED BY <1>12, <2>1, <2>2 DEF Advertise
<1>13. CASE ListenOn
  <2>1. CASE UNCHANGED job
    BY <1>10, <1>13, <2>1 DEF ListenOn
  <2>2. CASE Goto("end")
    BY <1>2, <1>9, <2>2 DEF Labels
  <2>. QED BY <1>13, <2>1, <2>2 DEF ListenOn
<1>14. CASE ListenFails
  BY <1>2, <1>14 DEF ListenFails, Job
<1>15. CASE EndReconcile \/ EndRepair
  <2>1. CASE BeginReconcile
    BY <1>3, <2>1
  <2>2. CASE job' = NoJob
    BY <1>1, <2>2 DEF NoJob
  <2>. QED BY <1>15, <2>1, <2>2 DEF EndReconcile, EndRepair
<1>16. CASE Crash
  <2>1. job'.op = "none"
    BY <1>16, OffJob DEF Crash
  <2>. QED BY <1>1, <2>1
<1>17. CASE Environment
  <2>1. CASE WanReady
    BY <1>10, <2>1 DEF WanReady
  <2>2. CASE LoseTunnel \/ ResetInterface
    <3>1. job'.steady = FALSE
      BY <2>2 DEF LoseTunnel, ResetInterface, Disturb, Job
    <3>. QED BY <1>1, <3>1
  <2>. QED BY <1>17, <2>1, <2>2 DEF Environment
<1>18. CASE \E n \in LanAddrs : SenderStep(n) \/ ListenerStep(n) \/ Solicited(n)
  BY <1>10, <1>18 DEF SenderStep, ListenerStep, Solicited, Apart
<1>19. CASE UNCHANGED vars
  BY <1>10, <1>19 DEF vars
<1>. QED BY <1>4, <1>5, <1>6, <1>7, <1>8, <1>11, <1>12, <1>13, <1>14, <1>15, <1>16, <1>17, <1>18,
            <1>19 DEF Next, Working, HealthLoop

\* A source that is picked is a usable public one if the config has one.
LEMMA PublicSource ==
    ASSUME TypeInv, Managed(document) \intersect Preferred # {},
           NEW s \in RouteSources(document)
    PROVE  s \in Preferred
<1>1. Managed(document) = {Config(document).localIPv6} \union Gateways
  BY DEF Managed, Gateways
<1>2. Gateways \subseteq Config(document).networks
  BY ManagedAddresses
<1>. QED BY <1>1, <1>2 DEF RouteSources

\* When Reconcile returns without an error and nobody interfered, everything
\* the config asks for is usable, whatever the host was like before (Reconcile).
THEOREM SuccessAlwaysUsable == Spec => []SuccessMeansUsable
<1>1. Init => DisabledInv /\ UsableInv
  <2>. SUFFICES ASSUME Init PROVE DisabledInv /\ UsableInv
    OBVIOUS
  <2>1. job.op = "none" /\ LanNow = {}
    BY OffJob DEF Init, EmptyKernel, LanNow, OnLan, Addresses
  <2>. QED BY <2>1 DEF DisabledInv, UsableInv, TunnelUsable, LanUsable, RouteUsable, Undisturbed
<1>2. ASSUME TypeInv, DisabledInv, UsableInv PROVE SuccessMeansUsable
  <2>. SUFFICES ASSUME At("advertise"), job.op = "reconcile", job.steady
                PROVE  /\ Built(document, kernel, job.wanIP) /\ host.forwarding
                       /\ \A a \in Gateways :
                             InterfaceOf[a] \notin host.disabled \union host.badLinkLocal
                       /\ host.source # None => kernel.addr[host.source] = "healthy"
                       /\ Managed(document) \intersect Preferred # {} => host.source \in Preferred
    BY DEF SuccessMeansUsable
  <2>. USE DEF At, Undisturbed
  <2>1. /\ Config(document).endpoint \in kernel.routes /\ kernel.linkUp
        /\ kernel.tunnel = [remote |-> Config(document).endpoint, local |-> job.wanIP]
        /\ kernel.addr[Config(document).localIPv6] = "healthy"
    BY <1>2 DEF UsableInv, TunnelUsable, UpFrom
  <2>2. Done = Gateways
    BY <1>2 DEF UsableInv, LanUsable, Last, Done, LanLabels
  <2>3. /\ host.forwarding
        /\ \A a \in Gateways : kernel.addr[a] = "healthy" /\ InterfaceOf[a] \in job.ready
        /\ \A i \in job.ready : i \notin host.badLinkLocal \ host.disabled
    BY <1>2, <2>2 DEF UsableInv, LanUsable, Last
  <2>4. /\ TunnelExists(kernel) /\ kernel.defaultRoute /\ host.source \in RouteSources(document)
        /\ host.source # None => kernel.addr[host.source] = "healthy"
    BY <1>2 DEF UsableInv, RouteUsable
  <2>5. \A a \in Gateways : InterfaceOf[a] \notin host.disabled
    <3>1. Gateways \subseteq LanNow
      BY <1>2, <2>3, ManagedAddresses DEF LanNow, OnLan
    <3>. QED BY <1>2, <3>1 DEF DisabledInv
  <2>6. MissingAddresses(document, kernel) = {}
    <3>1. Managed(document) = {Config(document).localIPv6} \union Gateways
      BY DEF Managed, Gateways
    <3>. QED BY <2>1, <2>3, <3>1 DEF MissingAddresses
  <2>7. Built(document, kernel, job.wanIP)
    BY <2>1, <2>4, <2>6 DEF Built
  <2>. QED BY <1>2, <2>3, <2>4, <2>5, <2>7, PublicSource
<1>. QED BY <1>1, <1>2, InitTypes, NextType, NextDisabled, NextUsable, PTL DEF Spec
=============================================================================
