------------------------------ MODULE Dataplane ------------------------------
(***************************************************************************)
(* What the daemon wants and what the kernel holds: the configuration      *)
(* documents, the AppliedState record, and the effect of each group of     *)
(* commands of SystemBackend on the kernel's IPv6 state.                   *)
(*                                                                         *)
(* A profile stands for the whole content of a profile's config; editing a *)
(* profile is choosing another member of Profiles.  An address stands for  *)
(* one "address/length on one interface".  The fields that no property     *)
(* tells apart (TTL, MTU, broker, DNS, port, token) are left out, and so   *)
(* are the firewall chains, whose commands are all best effort.            *)
(***************************************************************************)
CONSTANTS
    Profiles,       \* contents a profile may have
    ProfileConfig,  \* the fields of each of them, a function on Profiles
    Endpoints,      \* remote IPv4 endpoints of the brokers
    TunnelAddrs,    \* local IPv6 addresses on the tunnel interface
    LanAddrs,       \* gateway addresses on the LAN interfaces
    WanAddrs,       \* IPv4 addresses the WAN interface may be given
    None            \* no value: no tunnel, no endpoint, no lock holder

Addresses == TunnelAddrs \union LanAddrs

(***************************************************************************)
(* complete: remote_endpoint and local_ipv6 are present and well formed.   *)
(* health / autoRestart: health.enabled and health.auto_restart.           *)
(***************************************************************************)
ProfileConfigs ==
    [ endpoint: Endpoints, localIPv6: TunnelAddrs, complete: BOOLEAN,
      lanEnabled: BOOLEAN, networks: SUBSET LanAddrs,
      health: BOOLEAN, autoRestart: BOOLEAN ]

ASSUME ProfileAssumption == ProfileConfig \in [Profiles -> ProfileConfigs]
ASSUME AddressAssumption == TunnelAddrs \intersect LanAddrs = {}
ASSUME NoneAssumption ==
    None \notin Profiles \union Endpoints \union WanAddrs \union Addresses

-----------------------------------------------------------------------------
(***************************************************************************)
(* The desired configuration.  The legacy format holds exactly one         *)
(* profile; the active effective config is a function of the document.     *)
(***************************************************************************)
Document == [format: {"legacy", "profiles"}, enabled: BOOLEAN, profile: Profiles]

Config(d) == ProfileConfig[d.profile]

Valid(d) ==
    /\ Config(d).lanEnabled => Config(d).networks # {}
    /\ d.enabled => Config(d).complete

\* The config is valid and asks for a tunnel: the guard of every step that
\* builds, repairs or looks for managed addresses.
Wants(d) == d.enabled /\ Valid(d)

WantsRA(d) == Wants(d) /\ Config(d).lanEnabled /\ Config(d).networks # {}

\* The addresses RepairAddresses ensures and Observe looks for.
Managed(d) ==
    {Config(d).localIPv6} \union
        (IF Config(d).lanEnabled THEN Config(d).networks ELSE {})

-----------------------------------------------------------------------------
(***************************************************************************)
(* AppliedState: what teardown has to remove besides the tunnel itself.    *)
(***************************************************************************)
Applied == [endpoint: Endpoints \union {None}, networks: SUBSET LanAddrs]

EmptyApplied == [endpoint |-> None, networks |-> {}]

BuildApplied(d) ==
    [endpoint |-> Config(d).endpoint, networks |-> Config(d).networks]

-----------------------------------------------------------------------------
(***************************************************************************)
(* The kernel: the sit interface (its endpoints, or None), whether its     *)
(* link is up, the state of every address, the host routes to broker       *)
(* endpoints and the IPv6 default route through the tunnel.                *)
(***************************************************************************)
Tunnel == [remote: Endpoints, local: WanAddrs]

AddrState == {"missing", "healthy", "unhealthy"}

Kernel ==
    [ tunnel: Tunnel \union {None}, linkUp: BOOLEAN,
      addr: [Addresses -> AddrState],
      routes: SUBSET Endpoints, defaultRoute: BOOLEAN ]

EmptyKernel ==
    [ tunnel |-> None, linkUp |-> FALSE,
      addr |-> [a \in Addresses |-> "missing"],
      routes |-> {}, defaultRoute |-> FALSE ]

TunnelExists(k) == k.tunnel # None

SetAddrs(k, A, s) ==
    [k EXCEPT !.addr = [a \in Addresses |-> IF a \in A THEN s ELSE k.addr[a]]]

\* Deleting the interface takes its addresses and its routes along.
DropTunnel(k) ==
    [SetAddrs(k, TunnelAddrs, "missing")
        EXCEPT !.tunnel = None, !.linkUp = FALSE, !.defaultRoute = FALSE]

\* The gateway addresses on the LAN interfaces.
OnLan(k) == {a \in LanAddrs : k.addr[a] # "missing"}

(***************************************************************************)
(* Teardown.  The tunnel and its default route are deleted whatever the    *)
(* record says, gateway addresses and the host route only as recorded.     *)
(* Every deletion is best effort: one that fails leaves what it was for,   *)
(* and nobody is told.  The default route goes with the tunnel if not      *)
(* before.                                                                 *)
(***************************************************************************)
Leftover ==
    [ tunnel: BOOLEAN, defaultRoute: BOOLEAN,
      addrs: SUBSET LanAddrs, routes: SUBSET Endpoints ]

NoLeftover == [tunnel |-> FALSE, defaultRoute |-> FALSE, addrs |-> {}, routes |-> {}]

\* What the failing deletions of a teardown may leave.
Undeletable(k, applied) ==
    { left \in Leftover :
        /\ left.tunnel => TunnelExists(k)
        /\ left.defaultRoute => left.tunnel /\ k.defaultRoute
        /\ left.addrs \subseteq applied.networks \intersect OnLan(k)
        /\ left.routes \subseteq {applied.endpoint} \intersect k.routes }

\* The deletions of what the record lists.
DropRecorded(k, applied, left) ==
    [SetAddrs(k, applied.networks \ left.addrs, "missing")
        EXCEPT !.routes = (@ \ {applied.endpoint}) \union left.routes]

\* Mutant: the interface itself is forgotten.
TeardownKeepsTunnel(k, applied, left) == DropRecorded(k, applied, left)

Teardown(k, applied, left) ==
    LET rest == DropRecorded(k, applied, left)
    IN  IF left.tunnel
        THEN [rest EXCEPT !.defaultRoute = left.defaultRoute]
        ELSE DropTunnel(rest)

AddRoute(k, d) == [k EXCEPT !.routes = @ \union {Config(d).endpoint}]

AddTunnel(k, d, wanIP) ==
    [k EXCEPT !.tunnel = [remote |-> Config(d).endpoint, local |-> wanIP]]

LinkUp(k) == [k EXCEPT !.linkUp = TRUE]

EnsureAddresses(k, A) == SetAddrs(k, A, "healthy")

\* What ensuring A leaves when a command fails: some addresses are there, and
\* an unusable one may be deleted and not yet added again.
PartlyEnsured(k, A) ==
    { SetAddrs(EnsureAddresses(k, done), gone, "missing") :
        done \in SUBSET A,
        gone \in {{}} \union {{a} : a \in {b \in A : k.addr[b] = "unhealthy"}} }

AddDefaultRoute(k) == [k EXCEPT !.defaultRoute = TRUE]

-----------------------------------------------------------------------------
(***************************************************************************)
(* Observe: whether the interface exists, and the first problem met while  *)
(* looking up the managed addresses.  Asking for the addresses of an       *)
(* interface that does not exist is an error, not a missing address.       *)
(***************************************************************************)
AddrReport == {"clean", "missing", "error"}

MissingAddresses(d, k) == {a \in Managed(d) : k.addr[a] # "healthy"}

ObserveAddrs(d, k) ==
    CASE ~Wants(d)                   -> "clean"
      [] Wants(d) /\ ~TunnelExists(k) -> "error"
      [] OTHER -> IF MissingAddresses(d, k) # {} THEN "missing" ELSE "clean"

(***************************************************************************)
(* External: the ping leaves through the tunnel and comes back only when   *)
(* the tunnel is bound to the WAN's present address.                       *)
(***************************************************************************)
PathWorks(k, wan) ==
    /\ TunnelExists(k)
    /\ k.tunnel.local = wan
    /\ k.linkUp /\ k.defaultRoute
    /\ \E a \in TunnelAddrs : k.addr[a] = "healthy"

\* Everything the config asks of the dataplane is there.
Built(d, k, wan) ==
    /\ TunnelExists(k)
    /\ k.tunnel = [remote |-> Config(d).endpoint, local |-> wan]
    /\ k.linkUp /\ k.defaultRoute
    /\ Config(d).endpoint \in k.routes
    /\ MissingAddresses(d, k) = {}
=============================================================================
