---------------------------- MODULE SystemBackend ----------------------------
(***************************************************************************)
(* The single commands of SystemBackend (internal/control/backend.go) and  *)
(* what each does to the host, below the groups of commands of Dataplane:  *)
(* the MTU of the tunnel, the IPv6 switches and link-local addresses of    *)
(* the LAN interfaces, the source address of the default route, and the    *)
(* three firewall chains.                                                  *)
(*                                                                         *)
(* What a command does is the kernel's business, not this repository's: it *)
(* is modelled from the arguments the code passes and the output it reads. *)
(***************************************************************************)
EXTENDS Dataplane, Naturals, Sequences

CONSTANTS
    Interfaces,     \* LAN interfaces
    InterfaceOf,    \* the interface of every LAN network
    ConfiguredMTU,  \* tunnel.mtu of every profile; 0 is auto
    Preferred,      \* global unicast addresses that are not private
    WanMTUs         \* MTUs the WAN interface may have

ASSUME InterfaceAssumption == InterfaceOf \in [LanAddrs -> Interfaces]
ASSUME MTUAssumption == ConfiguredMTU \in [Profiles -> Nat] /\ WanMTUs \subseteq Nat
ASSUME PreferredAssumption == Preferred \subseteq Addresses

-----------------------------------------------------------------------------
(* resolveTunnelMTU. *)

TunnelOverhead == 20

MinimumIPv6MTU == 1280

\* Mutant: the room for the outer header is forgotten.
ResolveMTUWithoutOverhead(d, wanMTU) ==
    IF ConfiguredMTU[d.profile] > 0 THEN ConfiguredMTU[d.profile]
    ELSE IF wanMTU < MinimumIPv6MTU THEN None ELSE wanMTU

\* None stands for the error.
ResolveMTU(d, wanMTU) ==
    IF ConfiguredMTU[d.profile] > 0 THEN ConfiguredMTU[d.profile]
    ELSE IF wanMTU < MinimumIPv6MTU + TunnelOverhead THEN None
    ELSE wanMTU - TunnelOverhead

-----------------------------------------------------------------------------
(***************************************************************************)
(* The host: the tunnel's MTU (0: what the kernel gave it), the interfaces *)
(* with disable_ipv6=1, those whose link-local address is tentative or     *)
(* dadfailed, those with accept_dad=0, and the source of the default route.*)
(***************************************************************************)
Host ==
    [ mtu: Nat, disabled: SUBSET Interfaces, badLinkLocal: SUBSET Interfaces,
      noDad: SUBSET Interfaces, forwarding: BOOLEAN, source: Addresses \union {None} ]

FreshHost ==
    [ mtu |-> 0, disabled |-> {}, badLinkLocal |-> {}, noDad |-> {},
      forwarding |-> FALSE, source |-> None ]

On(i) == {a \in LanAddrs : InterfaceOf[a] = i}

\* "ip addr show" prints the link-local address and its flags, and prints
\* nothing for an interface whose IPv6 is switched off.
HasProblematicLinkLocal(h, i) == i \in h.badLinkLocal \ h.disabled

AcceptNoDad(h, i) == [h EXCEPT !.noDad = @ \union {i}]

\* Switching IPv6 off flushes every address of the interface.
DisableHost(h, i) == [h EXCEPT !.disabled = @ \union {i}]

FlushInterface(k, i) == SetAddrs(k, On(i), "missing")

\* Switching it on again brings a new link-local address, which is not
\* probed any more.
EnableHost(h, i) ==
    [h EXCEPT !.disabled = @ \ {i}, !.badLinkLocal = IF i \in h.noDad THEN @ \ {i} ELSE @]

\* "ip addr add" succeeds on a link that carries IPv6; one with an MTU below
\* the minimum does not.
CanAdd(h, k, a) ==
    IF a \in LanAddrs THEN InterfaceOf[a] \notin h.disabled
    ELSE TunnelExists(k) /\ (h.mtu = 0 \/ h.mtu >= MinimumIPv6MTU)

\* An interface that still probes may find the address taken.
MayFailDad(h, a) == a \in LanAddrs /\ InterfaceOf[a] \notin h.noDad

-----------------------------------------------------------------------------
(* buildDefaultRouteArgs. *)

\* The sources selectDefaultRouteSource may pick: the tunnel's address, else a
\* gateway of a listed network, whether or not the LAN is enabled.
RouteSources(d) ==
    LET gateways == Config(d).networks \intersect Preferred
    IN  CASE Config(d).localIPv6 \in Preferred -> {Config(d).localIPv6}
          [] Config(d).localIPv6 \notin Preferred /\ gateways # {} -> gateways
          [] OTHER -> {None}

\* The kernel refuses a source that is not an address of the host.
RouteAccepted(k, s) ==
    TunnelExists(k) /\ k.linkUp /\ (s # None => k.addr[s] = "healthy")

-----------------------------------------------------------------------------
(***************************************************************************)
(* A firewall chain of the daemon: its rules, and the jumps to it from the *)
(* built-in chain.  Every command is best effort; bad is the set of those  *)
(* that fail, because the table is locked by someone else.                 *)
(***************************************************************************)
Chains == {"input", "forward", "mss"}

RulesOf(c) ==
    CASE c = "input"   -> <<"accept41">>
      [] c = "forward" -> <<"established", "outbound", "dropNew">>
      [] c = "mss"     -> <<"clamp">>

Commands(c) ==
    {"new", "flush", "check", "insert", "delete", "remove"} \union
        {RulesOf(c)[n] : n \in DOMAIN RulesOf(c)}

NoChain == [exists |-> FALSE, rules |-> <<>>, jumps |-> 0]

NewChain(f, bad) ==
    IF "new" \in bad \/ f.exists THEN f ELSE [f EXCEPT !.exists = TRUE, !.rules = <<>>]

FlushChain(f, bad) == IF "flush" \in bad THEN f ELSE [f EXCEPT !.rules = <<>>]

AppendRule(f, r, bad) ==
    IF r \in bad \/ ~f.exists THEN f ELSE [f EXCEPT !.rules = Append(@, r)]

AppendRules(f, c, bad) ==
    CASE c = "input"   -> AppendRule(f, "accept41", bad)
      [] c = "forward" -> LET first  == AppendRule(f, "established", bad)
                              second == AppendRule(first, "outbound", bad)
                          IN  AppendRule(second, "dropNew", bad)
      [] c = "mss"     -> AppendRule(f, "clamp", bad)

\* ensureJump: a check that fails for another reason looks like no jump.
EnsureJump(f, bad) ==
    IF (f.jumps > 0 /\ "check" \notin bad) \/ "insert" \in bad \/ ~f.exists THEN f
    ELSE [f EXCEPT !.jumps = @ + 1]

\* Mutant: the rules are appended to whatever an older run left.
ChainUpWithoutFlush(f, c, bad) ==
    EnsureJump(AppendRules(NewChain(f, bad), c, bad), bad)

ChainUp(f, c, bad) ==
    EnsureJump(AppendRules(FlushChain(NewChain(f, bad), bad), c, bad), bad)

RemoveJump(f, bad) ==
    IF "delete" \in bad \/ f.jumps = 0 THEN f ELSE [f EXCEPT !.jumps = @ - 1]

\* A chain with rules, or with jumps to it, cannot be removed.
RemoveChain(f, bad) ==
    IF "remove" \in bad \/ f.jumps > 0 \/ f.rules # <<>> THEN f ELSE NoChain

ChainDown(f, bad) == RemoveChain(FlushChain(RemoveJump(f, bad), bad), bad)
=============================================================================
