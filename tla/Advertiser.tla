----------------------------- MODULE Advertiser -----------------------------
(***************************************************************************)
(* ra.Advertiser (internal/ra/advertiser.go): NewAdvertiser opens one NDP  *)
(* socket per network and starts a send and a listen goroutine on each;    *)
(* Stop cancels them, closes the sockets and waits.  The service holds its *)
(* mutex over both calls.                                                  *)
(*                                                                         *)
(* A message is its MTU option: the prefix, DNS and lifetime options are   *)
(* fixed when the advertiser is created and never change.                  *)
(***************************************************************************)
EXTENDS Naturals

CONSTANTS
    Networks,   \* networks that may be advertised
    LanMTU      \* MTU of the LAN interfaces

VARIABLES
    life,       \* where the calls of NewAdvertiser and Stop are
    config,     \* AdvertiserConfig: networks left to open, and the tunnel's MTU
    conns,      \* open sockets
    sender,     \* the send goroutine of each network
    listener,   \* the listen goroutine of each network
    sent        \* MTUs advertised on each network since the start

advVars == <<life, config, conns, sender, listener, sent>>

AdvTypeOK ==
    /\ life \in {"none", "opening", "running", "cancelled", "waiting"}
    /\ config \in [todo: SUBSET Networks, mtu: Nat]
    /\ conns \subseteq Networks
    /\ sender \in [Networks -> {"off", "write", "tick"}]
    /\ listener \in [Networks -> {"off", "read", "reply"}]
    /\ sent \in [Networks -> SUBSET Nat]

AdvInit ==
    /\ life = "none"
    /\ config = [todo |-> {}, mtu |-> 0]
    /\ conns = {}
    /\ sender = [n \in Networks |-> "off"] /\ listener = [n \in Networks |-> "off"]
    /\ sent = [n \in Networks |-> {}]

\* The process is gone, and its sockets with it.
AdvDies ==
    /\ life' = "none"
    /\ config' = [todo |-> {}, mtu |-> 0]
    /\ conns' = {}
    /\ sender' = [n \in Networks |-> "off"] /\ listener' = [n \in Networks |-> "off"]
    /\ sent' = [n \in Networks |-> {}]

-----------------------------------------------------------------------------
(* NewAdvertiser. *)

Open(networks, mtu) ==
    /\ life = "none"
    /\ life' = "opening"
    /\ config' = [todo |-> networks, mtu |-> mtu]
    /\ sent' = [n \in Networks |-> {}]
    /\ UNCHANGED <<conns, sender, listener>>

Listen(n) ==
    /\ life = "opening" /\ n \in config.todo
    /\ conns' = conns \union {n}
    /\ config' = [config EXCEPT !.todo = @ \ {n}]
    /\ UNCHANGED <<life, sender, listener, sent>>

\* Mutant: the sockets opened so far are forgotten.
ListenFailsOpen(n) ==
    /\ life = "opening" /\ n \in config.todo
    /\ life' = "none"
    /\ conns' = conns
    /\ config' = [config EXCEPT !.todo = {}]
    /\ UNCHANGED <<sender, listener, sent>>

\* InterfaceByName or ndp.Listen fails.
ListenFails(n) ==
    /\ life = "opening" /\ n \in config.todo
    /\ life' = "none"
    /\ conns' = {}
    /\ config' = [config EXCEPT !.todo = {}]
    /\ UNCHANGED <<sender, listener, sent>>

Launch ==
    /\ life = "opening" /\ config.todo = {}
    /\ life' = "running"
    /\ sender' = [n \in Networks |-> IF n \in conns THEN "write" ELSE "off"]
    /\ listener' = [n \in Networks |-> IF n \in conns THEN "read" ELSE "off"]
    /\ UNCHANGED <<config, conns, sent>>

-----------------------------------------------------------------------------
(* The goroutines. *)

\* Mutant: the MTU of the LAN interface wins.
BuildRALan(mtu) == IF LanMTU > 0 THEN LanMTU ELSE mtu

\* The MTU option of BuildRA.
BuildRA(mtu) == IF mtu > 0 THEN mtu ELSE LanMTU

Cancelled == life \in {"cancelled", "waiting"}

WriteTo(n) == sent' = [sent EXCEPT ![n] = @ \union {BuildRA(config.mtu)}]

\* A write on a closed socket fails, and one on an open socket may.
Send(n) ==
    /\ sender[n] = "write"
    /\ \/ /\ n \in conns
          /\ WriteTo(n)
          /\ sender' = [sender EXCEPT ![n] = "tick"]
       \/ /\ sender' = [sender EXCEPT ![n] = IF Cancelled THEN "off" ELSE "tick"]
          /\ UNCHANGED sent
    /\ UNCHANGED <<life, config, conns, listener>>

\* The ticker, or the context: with both ready, select picks either.
Wake(n) ==
    /\ sender[n] = "tick"
    /\ sender' \in {[sender EXCEPT ![n] = "write"]} \union
                   (IF Cancelled THEN {[sender EXCEPT ![n] = "off"]} ELSE {})
    /\ UNCHANGED <<life, config, conns, listener, sent>>

\* A router solicitation arrives; other messages are skipped.
Receive(n) ==
    /\ listener[n] = "read" /\ n \in conns
    /\ listener' = [listener EXCEPT ![n] = "reply"]
    /\ UNCHANGED <<life, config, conns, sender, sent>>

\* ReadFrom returns an error, which ends the goroutine once cancelled.
ReceiveFails(n) ==
    /\ listener[n] = "read" /\ n \notin conns /\ Cancelled
    /\ listener' = [listener EXCEPT ![n] = "off"]
    /\ UNCHANGED <<life, config, conns, sender, sent>>

Reply(n) ==
    /\ listener[n] = "reply"
    /\ \/ /\ n \in conns
          /\ WriteTo(n)
          /\ listener' = [listener EXCEPT ![n] = "read"]
       \/ /\ listener' = [listener EXCEPT ![n] = IF Cancelled THEN "off" ELSE "read"]
          /\ UNCHANGED sent
    /\ UNCHANGED <<life, config, conns, sender>>

-----------------------------------------------------------------------------
(* Stop. *)

Cancel ==
    /\ life = "running"
    /\ life' = "cancelled"
    /\ UNCHANGED <<config, conns, sender, listener, sent>>

\* Mutant: Stop relies on the context alone.
CloseConnsNot ==
    /\ life = "cancelled"
    /\ life' = "waiting"
    /\ conns' = conns
    /\ UNCHANGED <<config, sender, listener, sent>>

CloseConns ==
    /\ life = "cancelled"
    /\ life' = "waiting"
    /\ conns' = {}
    /\ UNCHANGED <<config, sender, listener, sent>>

Quiet == \A n \in Networks : sender[n] = "off" /\ listener[n] = "off"

Wait ==
    /\ life = "waiting" /\ Quiet
    /\ life' = "none"
    /\ UNCHANGED <<config, conns, sender, listener, sent>>
=============================================================================
