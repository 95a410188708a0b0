---------------------------- MODULE MCReconciler ----------------------------
(***************************************************************************)
(* Small instances of Reconciler.  "home" is a broker's tunnel with two    *)
(* networks on one bridge and an automatic MTU; "private" has an address   *)
(* that is no source for the Internet, so that a LAN gateway has to be the *)
(* source, and a configured MTU.                                           *)
(***************************************************************************)
EXTENDS Reconciler, TLC

CONSTANTS home, private, e1, t1, t2, l1, l2, br0

AllConfigs ==
    home :> [ endpoint |-> e1, localIPv6 |-> t1, complete |-> TRUE, lanEnabled |-> TRUE,
              networks |-> {l1, l2}, health |-> TRUE, autoRestart |-> TRUE ] @@
    private :> [ endpoint |-> e1, localIPv6 |-> t2, complete |-> TRUE, lanEnabled |-> TRUE,
                 networks |-> {l1}, health |-> TRUE, autoRestart |-> TRUE ]

MCProfileConfig == [p \in Profiles |-> AllConfigs[p]]

MCInterfaceOf == [a \in LanAddrs |-> br0]

MCConfiguredMTU == [p \in Profiles |-> IF p = home THEN 0 ELSE 1400]

Enabled == {[format |-> "profiles", enabled |-> TRUE, profile |-> p] : p \in Profiles}
=============================================================================
