---------------------------- MODULE DesiredStore ----------------------------
(***************************************************************************)
(* What the control service promises about the desired configuration: it   *)
(* is a durable atomic register.  A proposal either becomes the desired    *)
(* document at the moment its client is told "ok", or changes nothing and  *)
(* its client is told "error"; the daemon's own work, crashes and reboots  *)
(* never change it.                                                        *)
(***************************************************************************)
CONSTANTS Clients, Document, InitDocuments, None

VARIABLES
    desired,  \* what a reader of the configuration gets, now or after a boot
    pending,  \* the document each client has proposed, or None
    reply     \* what each client was last told

vars == <<desired, pending, reply>>

Init ==
    /\ desired \in InitDocuments
    /\ pending = [c \in Clients |-> None]
    /\ reply = [c \in Clients |-> "none"]

Propose(c, d) ==
    /\ pending[c] = None
    /\ pending' = [pending EXCEPT ![c] = d]
    /\ reply' = [reply EXCEPT ![c] = "none"]
    /\ UNCHANGED desired

Commit(c) ==
    /\ pending[c] # None
    /\ desired' = pending[c]
    /\ pending' = [pending EXCEPT ![c] = None]
    /\ reply' = [reply EXCEPT ![c] = "ok"]

Abort(c) ==
    /\ pending[c] # None
    /\ pending' = [pending EXCEPT ![c] = None]
    /\ reply' = [reply EXCEPT ![c] = "error"]
    /\ UNCHANGED desired

\* A request that proposes nothing is asked and answered.
Answer(c, r) ==
    /\ pending[c] = None
    /\ reply' = [reply EXCEPT ![c] = r]
    /\ UNCHANGED <<desired, pending>>

\* Clients lose their connection; the register does not.
Crash ==
    /\ pending' = [c \in Clients |-> None]
    /\ reply' = [c \in Clients |-> "none"]
    /\ UNCHANGED desired

Next ==
    \/ Crash
    \/ \E c \in Clients :
          \/ \E d \in Document : Propose(c, d)
          \/ Commit(c) \/ Abort(c)
          \/ \E r \in {"none", "ok", "error"} : Answer(c, r)

Spec == Init /\ [][Next]_vars
=============================================================================
