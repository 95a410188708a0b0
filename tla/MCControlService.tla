-------------------------- MODULE MCControlService --------------------------
(***************************************************************************)
(* Small instances of ControlService: two complete profiles with different *)
(* endpoints, tunnel addresses and LAN networks, and the incomplete one a  *)
(* fresh install holds.                                                    *)
(***************************************************************************)
EXTENDS ControlService, TLC

CONSTANTS home, office, blank, e1, e2, t1, t2, l1, l2

AllConfigs ==
    home :> [ endpoint |-> e1, localIPv6 |-> t1, complete |-> TRUE, lanEnabled |-> TRUE,
              networks |-> {l1}, health |-> TRUE, autoRestart |-> TRUE ] @@
    office :> [ endpoint |-> e2, localIPv6 |-> t2, complete |-> TRUE, lanEnabled |-> TRUE,
                networks |-> {l2}, health |-> TRUE, autoRestart |-> TRUE ] @@
    blank :> [ endpoint |-> e1, localIPv6 |-> t1, complete |-> FALSE, lanEnabled |-> FALSE,
               networks |-> {}, health |-> TRUE, autoRestart |-> TRUE ]

MCProfileConfig == [p \in Profiles |-> AllConfigs[p]]

Legacy(e, p) == [format |-> "legacy", enabled |-> e, profile |-> p]

\* A running install.
RunningInstall == {Legacy(TRUE, home)}

\* A running install that has migrated: every PUT keeps the format.
MigratedInstall == {[Legacy(TRUE, home) EXCEPT !.format = "profiles"]}

\* A running install, a switched-off one, and a legacy file someone enabled
\* by hand before filling it in.
AnyInstall == {Legacy(TRUE, home), Legacy(FALSE, home), Legacy(TRUE, blank)}

Symmetry == Permutations(Clients)
=============================================================================
