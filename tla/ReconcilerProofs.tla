-------------------------- MODULE ReconcilerProofs --------------------------
(***************************************************************************)
(* The advertiser leaks neither sockets nor goroutines, and an automatic   *)
(* MTU fits: proved for any networks, interfaces, MTUs, failures and       *)
(* crashes.                                                                *)
(***************************************************************************)
EXTENDS Reconciler, TLAPS

GoroutineTypeOK ==
    /\ sender \in [LanAddrs -> {"off", "write", "tick"}]
    /\ listener \in [LanAddrs -> {"off", "read", "reply"}]

\* While the sockets are opened no goroutine runs yet, and while Stop waits no
\* socket is open any more.
AdvInv ==
    /\ GoroutineTypeOK
    /\ NoAdvertiserLeak
    /\ life = "opening" => RA!Quiet
    /\ life = "waiting" => conns = {}

-----------------------------------------------------------------------------
\* A step that leaves the advertiser alone.
LEMMA AdvStutter == ASSUME AdvInv, UNCHANGED radv PROVE AdvInv'
  BY DEF AdvInv, radv, GoroutineTypeOK, NoAdvertiserLeak, RA!Quiet

\* NewAdvertiser.
LEMMA OpenInv ==
    ASSUME AdvInv, NEW n \in LanAddrs, NEW networks, NEW mtu,
           RA!Open(networks, mtu) \/ RA!Listen(n) \/ RA!ListenFails(n) \/ RA!Launch
    PROVE  AdvInv'
<1>1. CASE RA!Open(networks, mtu)
  BY <1>1 DEF AdvInv, RA!Open, GoroutineTypeOK, NoAdvertiserLeak, RA!Quiet
<1>2. CASE RA!Listen(n)
  BY <1>2 DEF AdvInv, RA!Listen, GoroutineTypeOK, NoAdvertiserLeak, RA!Quiet
<1>3. CASE RA!ListenFails(n)
  BY <1>3 DEF AdvInv, RA!ListenFails, GoroutineTypeOK, NoAdvertiserLeak, RA!Quiet
<1>4. CASE RA!Launch
  BY <1>4 DEF AdvInv, RA!Launch, GoroutineTypeOK, NoAdvertiserLeak, RA!Quiet
<1> QED BY <1>1, <1>2, <1>3, <1>4

\* Stop, and the end of the process.
LEMMA StopInv ==
    ASSUME AdvInv, RA!Cancel \/ RA!CloseConns \/ RA!Wait \/ RA!AdvDies
    PROVE  AdvInv'
<1>1. CASE RA!Cancel
  BY <1>1 DEF AdvInv, RA!Cancel, GoroutineTypeOK, NoAdvertiserLeak, RA!Quiet
<1>2. CASE RA!CloseConns
  BY <1>2 DEF AdvInv, RA!CloseConns, GoroutineTypeOK, NoAdvertiserLeak, RA!Quiet
<1>3. CASE RA!Wait
  BY <1>3 DEF AdvInv, RA!Wait, GoroutineTypeOK, NoAdvertiserLeak, RA!Quiet
<1>4. CASE RA!AdvDies
  BY <1>4 DEF AdvInv, RA!AdvDies, GoroutineTypeOK, NoAdvertiserLeak, RA!Quiet
<1> QED BY <1>1, <1>2, <1>3, <1>4

\* The goroutines.  One that runs shows that the advertiser does.
LEMMA GoroutineInv ==
    ASSUME AdvInv, NEW n \in LanAddrs,
           \/ RA!Send(n) \/ RA!Wake(n) \/ RA!Receive(n) \/ RA!ReceiveFails(n)
           \/ RA!Reply(n)
    PROVE  AdvInv'
<1>1. CASE RA!Send(n)
  BY <1>1 DEF AdvInv, RA!Send, GoroutineTypeOK, NoAdvertiserLeak, RA!Quiet
<1>2. CASE RA!Wake(n)
  BY <1>2 DEF AdvInv, RA!Wake, GoroutineTypeOK, NoAdvertiserLeak, RA!Quiet
<1>3. CASE RA!Receive(n)
  BY <1>3 DEF AdvInv, RA!Receive, GoroutineTypeOK, NoAdvertiserLeak, RA!Quiet
<1>4. CASE RA!ReceiveFails(n)
  BY <1>4 DEF AdvInv, RA!ReceiveFails, GoroutineTypeOK, NoAdvertiserLeak, RA!Quiet
<1>5. CASE RA!Reply(n)
  BY <1>5 DEF AdvInv, RA!Reply, GoroutineTypeOK, NoAdvertiserLeak, RA!Quiet
<1> QED BY <1>1, <1>2, <1>3, <1>4, <1>5

-----------------------------------------------------------------------------
\* Stop cancels the context and then has sockets to close.
LEMMA BeginInv == ASSUME AdvInv, BeginReconcile PROVE AdvInv'
  BY AdvStutter, StopInv DEF BeginReconcile

\* The callers.
LEMMA CallerInv == ASSUME AdvInv, Boot \/ Down \/ HealthLoop PROVE AdvInv'
<1>1. CASE BeginReconcile
  BY <1>1, BeginInv
<1>2. CASE BeginRepair
  BY <1>2, AdvStutter DEF BeginRepair
<1> QED BY <1>1, <1>2 DEF Boot, Down, HealthLoop, Retry

\* A deletion, failed or not, is about the kernel.
LEMMA DeletionAlone ==
    ASSUME DelAddrs \/ DelRoute \/ DelDefault \/ DelTunnel
    PROVE  UNCHANGED <<document, applied, status, chain, wan, wanMTU, tidy, crashes, radv>>
<1>1. ASSUME NEW rest, Command \/ DeletionFails(rest)
      PROVE  UNCHANGED <<document, applied, status, chain, wan, wanMTU, tidy, crashes, radv>>
  BY <1>1 DEF Command, DeletionFails, world, past
<1>2. CASE DelAddrs
  BY <1>1, <1>2 DEF DelAddrs, DelAddr
<1>3. CASE DelRoute \/ DelDefault \/ DelTunnel
  BY <1>1, <1>3 DEF DelRoute, DelDefault, DelTunnel
<1> QED BY <1>2, <1>3

\* The commands of teardown and build leave the advertiser alone.
LEMMA CommandInv == ASSUME AdvInv, Teardowns \/ Builds \/ BuildFails PROVE UNCHANGED radv
<1>1. CASE ChainsDown \/ ChainsUp
  BY <1>1 DEF ChainsDown, ChainsUp, OneChain
<1>2. CASE Command
  BY <1>2 DEF Command
<1>3. CASE EnsureLocal \/ EnsureGateway
  BY <1>3 DEF EnsureLocal, EnsureGateway, Ensure, Command
<1>4. CASE BuildFails
  BY <1>4 DEF BuildFails
<1>5. CASE \/ DelAddrs \/ DelRoute \/ DelDefault \/ DelTunnel
  BY <1>5, DeletionAlone
<1>6. CASE \/ GetWANIPv4 \/ ResolveTunnelMTU \/ HostRoute \/ TunnelAdd \/ SetMTU
           \/ SetUp \/ Forwarding
  BY <1>2, <1>6 DEF GetWANIPv4, ResolveTunnelMTU, HostRoute, TunnelAdd, SetMTU, SetUp,
                    Forwarding
<1>7. CASE \/ NextNetwork \/ AcceptDad \/ ReadLinkLocal \/ DisableIPv6 \/ EnableIPv6
           \/ DefaultRoute
  BY <1>2, <1>7 DEF NextNetwork, AcceptDad, ReadLinkLocal, DisableIPv6, EnableIPv6,
                    DefaultRoute
<1> QED BY <1>1, <1>3, <1>4, <1>5, <1>6, <1>7 DEF Teardowns, Builds

\* Among the commands only those of the advertiser touch it.
LEMMA WorkingInv == ASSUME AdvInv, Working PROVE AdvInv'
<1>1. CASE StopAdvertiser
  BY <1>1, AdvStutter, StopInv DEF StopAdvertiser
<1>2. CASE Teardowns \/ Builds \/ BuildFails
  BY <1>2, CommandInv, AdvStutter
<1>3. CASE Advertise
  <2>1. CASE UNCHANGED radv
    BY <2>1, AdvStutter
  <2>2. CASE RA!Open(Config(document).networks, job.mtu)
    BY <2>2 DEF AdvInv, RA!Open, GoroutineTypeOK, NoAdvertiserLeak, RA!Quiet
  <2> QED BY <1>3, <2>1, <2>2 DEF Advertise
<1>4. CASE ListenOn
  <2>1. CASE RA!Launch
    BY <2>1 DEF AdvInv, RA!Launch, GoroutineTypeOK, NoAdvertiserLeak, RA!Quiet
  <2>2. CASE \E n \in LanAddrs : RA!Listen(n)
    BY <2>2, OpenInv
  <2> QED BY <1>4, <2>1, <2>2 DEF ListenOn
<1>5. CASE ListenFails
  BY <1>5, OpenInv DEF ListenFails
<1>6. CASE EndReconcile
  BY <1>6, AdvStutter DEF EndReconcile
<1>7. CASE EndRepair
  BY <1>7, AdvStutter, BeginInv DEF EndRepair
<1> QED BY <1>1, <1>2, <1>3, <1>4, <1>5, <1>6, <1>7 DEF Working

\* Every step: stopAdvertiserLocked, NewAdvertiser, the goroutines, a crash.
LEMMA NextAdv == ASSUME AdvInv, [Next]_vars PROVE AdvInv'
<1>1. CASE Boot \/ Down \/ HealthLoop
  BY <1>1, CallerInv
<1>2. CASE Working
  BY <1>2, WorkingInv
<1>3. CASE Crash
  BY <1>3, StopInv DEF Crash
<1>4. CASE Environment
  BY <1>4, AdvStutter DEF Environment, LoseTunnel, ResetInterface, WanReady, Disturb
<1>5. CASE \E n \in LanAddrs : SenderStep(n) \/ ListenerStep(n) \/ Solicited(n)
  BY <1>5, GoroutineInv DEF SenderStep, ListenerStep, Solicited
<1>6. CASE UNCHANGED vars
  BY <1>6, AdvStutter DEF vars
<1> QED BY <1>1, <1>2, <1>3, <1>4, <1>5, <1>6 DEF Next

\* No advertiser before the first Start.
LEMMA InitAdv == Init => AdvInv
  BY DEF Init, RA!AdvInit, AdvInv, GoroutineTypeOK, NoAdvertiserLeak, RA!Quiet

\* Without an advertiser there is no socket and no goroutine of one, whichever
\* command or socket failed before (NewAdvertiser, closeConns, Stop).
THEOREM NoLeak == Spec => []NoAdvertiserLeak
<1>1. AdvInv => NoAdvertiserLeak
  BY DEF AdvInv
<1> QED BY <1>1, InitAdv, NextAdv, PTL DEF Spec

-----------------------------------------------------------------------------
(***************************************************************************)
(* The MTU.  Nothing but resolveTunnelMTU makes one, and nothing but its   *)
(* result is ever set: both the one at hand and the tunnel's fit.          *)
(***************************************************************************)
AutomaticMTU == ConfiguredMTU[document.profile] = 0

Fits(m) == m = 0 \/ m \in MinimumIPv6MTU .. (wanMTU - TunnelOverhead)

MtuInv ==
    /\ "mtu" \in DOMAIN host /\ {"mtu", "pc"} \subseteq DOMAIN job
    /\ "profile" \in DOMAIN document
    /\ document.profile \in Profiles /\ wanMTU \in Nat
    /\ AutomaticMTU => Fits(host.mtu) /\ Fits(job.mtu)

\* A step that sets neither MTU, or sets one of them back.
MtuKept ==
    /\ "mtu" \in DOMAIN host' /\ host'.mtu \in {host.mtu, 0}
    /\ {"mtu", "pc"} \subseteq DOMAIN job' /\ job'.mtu \in {job.mtu, 0}
    /\ UNCHANGED <<document, wanMTU>>

\* A step that keeps or resets the MTU of the tunnel and of the call.
LEMMA KeptInv == ASSUME MtuInv, MtuKept PROVE MtuInv'
  BY DEF MtuInv, MtuKept, AutomaticMTU, Fits

\* A reconcile starts without an MTU in hand.
LEMMA BeginKept ==
    ASSUME MtuInv, BeginReconcile
    PROVE  /\ {"mtu", "pc"} \subseteq DOMAIN job' /\ job'.mtu = 0
           /\ UNCHANGED <<host, wanMTU>>
  BY DEF BeginReconcile, NoJob, world

\* Whoever starts a call: Start, Down, the health loop.
LEMMA CallerMtu == ASSUME MtuInv, Boot \/ Down \/ HealthLoop PROVE MtuInv'
<1>1. CASE Boot \/ Retry
  BY <1>1, BeginKept, KeptInv DEF Boot, Retry, MtuKept, MtuInv
<1>2. CASE Down
  <2>1. document'.profile = document.profile /\ "profile" \in DOMAIN document'
    BY <1>2 DEF Down, MtuInv
  <2> QED BY <1>2, <2>1, BeginKept DEF Down, MtuInv, AutomaticMTU, Fits
<1>3. CASE BeginRepair
  BY <1>3, KeptInv DEF BeginRepair, NoJob, world, MtuKept, MtuInv
<1> QED BY <1>1, <1>2, <1>3 DEF HealthLoop

\* A teardown only removes the tunnel.
LEMMA TeardownMtu == ASSUME MtuInv, Teardowns PROVE MtuKept
<1>1. CASE ChainsDown
  BY <1>1 DEF ChainsDown, OneChain, MtuKept, MtuInv
<1>2. ASSUME NEW label, Goto(label)
      PROVE  {"mtu", "pc"} \subseteq DOMAIN job' /\ job'.mtu = job.mtu
  BY <1>2 DEF Goto, MtuInv
<1>3. ASSUME NEW rest, DeletionFails(rest) PROVE host' = host
  BY <1>3 DEF DeletionFails, world
<1>4. CASE DelAddrs
  <2>1. {"mtu", "pc"} \subseteq DOMAIN job' /\ job'.mtu = job.mtu
    BY <1>2, <1>4 DEF DelAddrs, DelAddr, MtuInv
  <2>2. host' = host
    BY <1>3, <1>4 DEF DelAddrs, DelAddr
  <2>. QED BY <1>4, <2>1, <2>2, DeletionAlone DEF MtuKept, MtuInv
<1>5. CASE DelRoute \/ DelDefault \/ DelTunnel
  <2>1. {"mtu", "pc"} \subseteq DOMAIN job' /\ job'.mtu = job.mtu
    BY <1>2, <1>5 DEF DelRoute, DelDefault, DelTunnel
  <2>2. "mtu" \in DOMAIN host' /\ host'.mtu \in {host.mtu, 0}
    BY <1>3, <1>5 DEF DelRoute, DelDefault, DelTunnel, MtuInv
  <2>. QED BY <1>5, <2>1, <2>2, DeletionAlone DEF MtuKept
<1> QED BY <1>1, <1>4, <1>5 DEF Teardowns

\* resolveTunnelMTU, where the arithmetic is.
LEMMA ResolveMtu == ASSUME MtuInv, ResolveTunnelMTU PROVE MtuInv'
<1>1. AutomaticMTU => Fits(ResolveMTU(document, wanMTU))
  BY ReconcilerAssumption, MTUAssumption
     DEF ResolveTunnelMTU, ResolveMTU, MtuInv, AutomaticMTU, Fits, MinimumIPv6MTU, TunnelOverhead
<1>2. /\ {"mtu", "pc"} \subseteq DOMAIN job'
      /\ job'.mtu = ResolveMTU(document, wanMTU)
      /\ UNCHANGED <<host, document, wanMTU>>
  BY DEF ResolveTunnelMTU, Command, MtuInv
<1> QED BY <1>1, <1>2 DEF MtuInv, AutomaticMTU, Fits

\* ip link set mtu hands the resolved MTU to the tunnel.
LEMMA SetMtu == ASSUME MtuInv, SetMTU PROVE MtuInv'
<1>1. /\ "mtu" \in DOMAIN host' /\ host'.mtu = job.mtu
      /\ {"mtu", "pc"} \subseteq DOMAIN job' /\ job'.mtu = job.mtu
      /\ UNCHANGED <<document, wanMTU>>
  BY DEF SetMTU, Goto, Command, MtuInv
<1> QED BY <1>1 DEF MtuInv, AutomaticMTU, Fits

\* Adding an address does not change an MTU.
LEMMA EnsureMtu ==
    ASSUME MtuInv, NEW a, NEW then, Ensure(a, then),
           {"mtu", "pc"} \subseteq DOMAIN then, then.mtu = job.mtu
    PROVE  MtuKept
  BY DEF Ensure, Command, MtuKept, MtuInv

\* Every command of a build, and one that fails.
LEMMA BuildMtu == ASSUME MtuInv, Builds \/ BuildFails PROVE MtuInv'
<1>1. CASE ChainsUp
  BY <1>1, KeptInv DEF ChainsUp, OneChain, MtuKept, MtuInv
<1>2. CASE GetWANIPv4 \/ HostRoute \/ TunnelAdd \/ SetUp
  BY <1>2, KeptInv DEF GetWANIPv4, HostRoute, TunnelAdd, SetUp, Goto, Command, MtuKept, MtuInv
<1>3. CASE EnsureLocal
  <2> DEFINE then == [job EXCEPT !.pc = IF job.op = "repair" THEN "lan" ELSE "forwarding",
                                 !.todo = Gateways]
  <2>1. {"mtu", "pc"} \subseteq DOMAIN then /\ then.mtu = job.mtu
    BY DEF MtuInv
  <2>2. Ensure(Config(document).localIPv6, then)
    BY <1>3 DEF EnsureLocal
  <2> QED BY <2>1, <2>2, EnsureMtu, KeptInv
<1>4. CASE EnsureGateway
  <2> DEFINE then == [job EXCEPT !.pc = "lan"]
  <2>1. {"mtu", "pc"} \subseteq DOMAIN then /\ then.mtu = job.mtu
    BY DEF MtuInv
  <2>2. Ensure(job.net, then)
    BY <1>4 DEF EnsureGateway
  <2> QED BY <2>1, <2>2, EnsureMtu, KeptInv
<1>5. CASE Forwarding \/ AcceptDad
  BY <1>5, KeptInv DEF Forwarding, AcceptDad, AcceptNoDad, Goto, Command, MtuKept, MtuInv
<1>6. CASE NextNetwork \/ ReadLinkLocal
  BY <1>6, KeptInv DEF NextNetwork, ReadLinkLocal, Ready, Goto, Command, MtuKept, MtuInv
<1>7. CASE DisableIPv6 \/ EnableIPv6
  BY <1>7, KeptInv DEF DisableIPv6, EnableIPv6, DisableHost, EnableHost, Ready, Goto, Command,
                       MtuKept, MtuInv
<1>8. CASE DefaultRoute
  BY <1>8, KeptInv DEF DefaultRoute, Goto, Command, MtuKept, MtuInv
<1>9. CASE BuildFails
  BY <1>9, KeptInv DEF BuildFails, world, MtuKept, MtuInv
<1> QED BY <1>1, <1>2, <1>3, <1>4, <1>5, <1>6, <1>7, <1>8, <1>9, ResolveMtu, SetMtu
        DEF Builds

\* The end of a reconcile or repair writes the status only.
LEMMA EndMtu ==
    ASSUME MtuInv,
           \/ StopAdvertiser \/ Advertise \/ ListenOn \/ ListenFails \/ EndReconcile
           \/ EndRepair
    PROVE  MtuKept
<1>1. CASE StopAdvertiser \/ Advertise \/ ListenOn
  BY <1>1 DEF StopAdvertiser, Advertise, ListenOn, Goto, world, MtuKept, MtuInv
<1>2. CASE ListenFails
  BY <1>2 DEF ListenFails, world, MtuKept, MtuInv
<1>3. CASE EndReconcile
  BY <1>3 DEF EndReconcile, NoJob, world, MtuKept, MtuInv
<1>4. CASE EndRepair
  BY <1>4, BeginKept DEF EndRepair, NoJob, world, MtuKept, MtuInv
<1> QED BY <1>1, <1>2, <1>3, <1>4

\* A crash, a reboot or a lost tunnel loses MTUs and makes none.
LEMMA OutsideMtu == ASSUME MtuInv, Crash \/ Environment PROVE MtuKept
<1>1. CASE Crash
  BY <1>1 DEF Crash, NoJob, FreshHost, MtuKept, MtuInv
<1>2. CASE LoseTunnel \/ ResetInterface
  BY <1>2 DEF LoseTunnel, ResetInterface, Disturb, MtuKept, MtuInv
<1>3. CASE WanReady
  BY <1>3 DEF WanReady, MtuKept, MtuInv
<1> QED BY <1>1, <1>2, <1>3 DEF Environment

\* Every step.
LEMMA NextMtu == ASSUME MtuInv, [Next]_vars PROVE MtuInv'
<1>1. CASE Boot \/ Down \/ HealthLoop
  BY <1>1, CallerMtu
<1>2. CASE Working
  BY <1>2, TeardownMtu, BuildMtu, EndMtu, KeptInv DEF Working
<1>3. CASE Crash \/ Environment
  BY <1>3, OutsideMtu, KeptInv
<1>4. CASE \E n \in LanAddrs : SenderStep(n) \/ ListenerStep(n) \/ Solicited(n)
  BY <1>4, KeptInv DEF SenderStep, ListenerStep, Solicited, Apart, world, MtuKept, MtuInv
<1>5. CASE UNCHANGED vars
  BY <1>5, KeptInv DEF vars, world, MtuKept, MtuInv
<1> QED BY <1>1, <1>2, <1>3, <1>4, <1>5 DEF Next

\* No tunnel and no call at the start.
LEMMA InitMtu == Init => MtuInv
  BY ReconcilerAssumption, MTUAssumption
     DEF Init, Document, FreshHost, NoJob, MtuInv, AutomaticMTU, Fits

\* An automatic MTU is one IPv6 works with and fits the WAN interface with its
\* outer header, whatever that interface's MTU is (resolveTunnelMTU).
THEOREM MtuAlwaysFits == Spec => []MtuFits
<1>1. MtuInv => MtuFits
  BY DEF MtuInv, MtuFits, AutomaticMTU, Fits
<1> QED BY <1>1, InitMtu, NextMtu, PTL DEF Spec
=============================================================================
