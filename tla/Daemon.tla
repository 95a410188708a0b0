------------------------------- MODULE Daemon -------------------------------
(***************************************************************************)
(* The daemon as a process (cmd/server/main.go): how the scripts start and *)
(* kill it, what it does between its start and its two listening sockets,  *)
(* and what the ctl client (internal/tunnel/manager.go) sees of it.  It    *)
(* composes the log and the atomic writes of state.json.                   *)
(*                                                                         *)
(* A process that is killed runs none of its deferred calls, nor does one  *)
(* that ends in os.Exit: the socket's file and a temporary file stay.      *)
(***************************************************************************)
EXTENDS Logging

CONSTANTS
    Clients,        \* ctl commands, each given once
    Boots,          \* runs of "tunnel.sh boot"
    Installs,       \* runs of install.sh
    Torn,           \* content of a file that is only partly written
    MaxTailLines,   \* the largest number of lines /api/logs returns
    MaxFaults,      \* bound on system calls that fail and processes that are killed
    MaxRecords      \* bound on log records

ASSUME DaemonAssumption ==
    /\ IsFiniteSet(Processes)
    /\ {None, Torn} \intersect Processes = {} /\ None # Torn
    /\ MaxFaults \in Nat /\ MaxRecords \in Nat
    /\ Boots \intersect Installs = {}
    /\ MaxTailLines \in Nat \ {0}

VARIABLES
    stage,      \* how far each process has come in runServe
    ending,     \* why it ended, or "none"
    socket,     \* the process daemon.sock was bound by, or None
    port,       \* the process that listens on server.port, or None
    script,     \* where each run of a script is
    ctl,        \* what each client knows
    server,     \* the process that has its request, or None
    handled,    \* what became of the request: "no", "done" or "failed"
    crowded,    \* history: the processes that ever had another one beside them
    faults,
    target, temp, phase    \* state.json

State == INSTANCE AtomicFile WITH Writers <- Processes

life    == <<stage, ending, crowded>>
sockets == <<socket, port>>
client  == <<ctl, server, handled>>
file    == <<target, temp, phase>>
vars    == <<life, sockets, script, client, faults, file, logVars>>

Scripts == Boots \union Installs

Stages ==
    {"none", "rotate", "open", "load", "start", "saving", "unlink", "bind", "chmod",
     "port", "serving", "ended"}

\* Every variable keeps its type, and the bounds are respected, in every order
\* of starts, failures and kills (runServe).
DaemonTypeOK ==
    /\ stage \in [Processes -> Stages]
    /\ ending \in [Processes -> {"none", "killed", "fault", "torn", "in use", "port"}]
    /\ socket \in Processes \union {None} /\ port \in Processes \union {None}
    /\ script \in [Scripts -> {"idle", "spawn", "done"}]
    /\ ctl \in [Clients -> {"idle", "waiting", "ok", "error", "refused", "lost"}]
    /\ server \in [Clients -> Processes \union {None}]
    /\ handled \in [Clients -> {"no", "done", "failed"}]
    /\ crowded \subseteq Processes
    /\ faults \in 0..MaxFaults
    /\ records <= MaxRecords + Cardinality(Processes)
    /\ State!FileTypeOK /\ LogTypeOK

Init ==
    /\ stage = [p \in Processes |-> "none"] /\ ending = [p \in Processes |-> "none"]
    /\ socket = None /\ port = None
    /\ script = [s \in Scripts |-> "idle"]
    /\ ctl = [c \in Clients |-> "idle"] /\ server = [c \in Clients |-> None]
    /\ handled = [c \in Clients |-> "no"]
    /\ crowded = {}
    /\ faults = 0
    /\ State!FileInit /\ LogInit

-----------------------------------------------------------------------------
(* Processes: started by a script, ended by os.Exit or by a signal. *)

Alive == {p \in Processes : stage[p] \notin {"none", "ended"}}

\* Everything the kernel does for processes that end.
End(dead, why) ==
    /\ stage' = [p \in Processes |-> IF p \in dead THEN "ended" ELSE stage[p]]
    /\ ending' = [p \in Processes |-> IF p \in dead THEN why ELSE ending[p]]
    /\ port' = IF port \in dead THEN None ELSE port
    /\ State!WritersDie(dead) /\ LogDies(dead)
    /\ UNCHANGED <<socket, crowded>>

\* pgrep matches a ctl client of the same binary as well.
IsServerRunning == Alive # {} \/ \E c \in Clients : ctl[c] = "waiting"

\* start_server of tunnel.sh looks first and starts a daemon later.
BootCheck(s) ==
    /\ s \in Boots /\ script[s] = "idle"
    /\ script' = [script EXCEPT ![s] = IF IsServerRunning THEN "done" ELSE "spawn"]
    /\ UNCHANGED <<life, sockets, client, faults, file, logVars>>

\* pkill of install.sh takes every daemon and every client.
InstallKill(s) ==
    /\ s \in Installs /\ script[s] = "idle"
    /\ script' = [script EXCEPT ![s] = "spawn"]
    /\ End(Alive, "killed")
    /\ ctl' = [c \in Clients |-> IF ctl[c] = "waiting" THEN "lost" ELSE ctl[c]]
    /\ UNCHANGED <<server, handled, faults>>

Spawn(s) ==
    /\ script[s] = "spawn"
    /\ \E q \in Processes : stage[q] = "none"
    /\ LET p == CHOOSE q \in Processes : stage[q] = "none"
       IN  /\ stage' = [stage EXCEPT ![p] = "rotate"]
           /\ crowded' = IF Alive = {} THEN crowded ELSE crowded \union Alive \union {p}
    /\ script' = [script EXCEPT ![s] = "done"]
    /\ UNCHANGED <<ending, sockets, client, faults, file, logVars>>

Kill(p) ==
    /\ p \in Alive /\ faults < MaxFaults
    /\ faults' = faults + 1
    /\ End({p}, "killed")
    /\ UNCHANGED <<script, client>>

-----------------------------------------------------------------------------
(* runServe. *)

Goto(p, from, to) == stage[p] = from /\ stage' = [stage EXCEPT ![p] = to]

Others == UNCHANGED <<ending, crowded, script, client, faults>>

Rotate(p) ==
    /\ Goto(p, "rotate", "open")
    /\ RotateIfLarge /\ Others /\ UNCHANGED <<sockets, file>>

\* The log is opened, and "daemon starting" is the first record.
Open(p) ==
    /\ Goto(p, "open", "load")
    /\ \E len \in Lengths : OpenLog(p, len)
    /\ Others /\ UNCHANGED <<sockets, file>>

\* What the requests and the health loop log.
LogRecord(p) ==
    \E len \in Lengths :
        /\ stage[p] = "serving" /\ records < MaxRecords
        /\ Log(p, len)
        /\ UNCHANGED <<life, sockets, script, client, faults, file>>

\* LoadState: no file is the default state, one that does not parse an error.
StateUnreadable == target = Torn

\* NewService; a state.json that cannot be parsed ends the process.
Load(p) ==
    /\ stage[p] = "load"
    /\ IF StateUnreadable
       THEN End({p}, "torn")
       ELSE /\ stage' = [stage EXCEPT ![p] = "start"]
            /\ UNCHANGED <<ending, crowded, sockets, file, logVars>>
    /\ UNCHANGED <<script, client, faults>>

\* Start reconciles and saves the state; the health loop, whose first round
\* comes seconds later, saves it again.
BeginSave(p) ==
    /\ \/ Goto(p, "start", "saving")
       \/ stage[p] = "serving" /\ UNCHANGED stage
    /\ State!CreateTemp(p) /\ Others /\ UNCHANGED <<sockets, logVars>>

SaveStep(p) ==
    /\ State!Writing(p)
    /\ Others /\ UNCHANGED <<stage, sockets, logVars>>

AfterSave(p) == stage' = [stage EXCEPT ![p] = IF @ = "saving" THEN "unlink" ELSE @]

EndSave(p) ==
    /\ State!Rename(p)
    /\ AfterSave(p) /\ Others /\ UNCHANGED <<sockets, logVars>>

\* Mutant: the socket of the last process is not removed first.
UnlinkNot(p) ==
    /\ Goto(p, "unlink", "bind")
    /\ Others /\ UNCHANGED <<sockets, file, logVars>>

\* listenUnixSocket: os.Remove, net.Listen and os.Chmod.
Unlink(p) ==
    /\ Goto(p, "unlink", "bind")
    /\ socket' = None
    /\ Others /\ UNCHANGED <<port, file, logVars>>

Bind(p) ==
    /\ socket = None
    /\ Goto(p, "bind", "chmod")
    /\ socket' = p
    /\ Others /\ UNCHANGED <<port, file, logVars>>

BindInUse(p) ==
    /\ stage[p] = "bind" /\ socket # None
    /\ End({p}, "in use")
    /\ UNCHANGED <<script, client, faults>>

\* Mutant: a stale socket is removed after the new one is bound.
ChmodThenUnlink(p) ==
    /\ Goto(p, "chmod", "port")
    /\ socket' = None
    /\ Others /\ UNCHANGED <<port, file, logVars>>

\* From here on http.Serve answers on the socket.
Chmod(p) ==
    /\ Goto(p, "chmod", "port")
    /\ Others /\ UNCHANGED <<sockets, file, logVars>>

ListenAndServe(p) ==
    /\ port = None
    /\ Goto(p, "port", "serving")
    /\ port' = p
    /\ Others /\ UNCHANGED <<socket, file, logVars>>

PortTaken(p) ==
    /\ stage[p] = "port" /\ port # None
    /\ End({p}, "port")
    /\ UNCHANGED <<script, client, faults>>

\* A system call fails.  A failed save is only logged; a chmod that fails
\* removes the socket; all others end the process.
Fail(p) ==
    /\ faults < MaxFaults /\ faults' = faults + 1
    /\ \/ /\ State!WriteFails(p) /\ AfterSave(p)
          /\ UNCHANGED <<ending, crowded, sockets, logVars>>
       \/ /\ Goto(p, "start", "unlink")
          /\ UNCHANGED <<ending, crowded, sockets, file, logVars>>
       \/ /\ stage[p] \in {"rotate", "open", "load", "unlink", "bind", "port"}
          /\ End({p}, "fault")
       \/ /\ stage[p] = "chmod"
          /\ stage' = [stage EXCEPT ![p] = "ended"]
          /\ ending' = [ending EXCEPT ![p] = "fault"]
          /\ socket' = None
          /\ State!WritersDie({p}) /\ LogDies({p})
          /\ UNCHANGED <<port, crowded>>
    /\ UNCHANGED <<script, client>>

-----------------------------------------------------------------------------
(***************************************************************************)
(* ctl: one request over the socket, with a timeout of five seconds.  The  *)
(* handler does not look at the client again, so a request whose client    *)
(* has given up is carried out all the same.                               *)
(***************************************************************************)
Processing == UNCHANGED <<life, sockets, script, faults, file, logVars>>

Listening == {p \in Alive : stage[p] \in {"chmod", "port", "serving"}}

Connect(c) ==
    /\ ctl[c] = "idle"
    /\ \/ /\ socket \in Listening
          /\ ctl' = [ctl EXCEPT ![c] = "waiting"]
          /\ server' = [server EXCEPT ![c] = socket]
       \/ /\ socket \notin Listening
          /\ ctl' = [ctl EXCEPT ![c] = "refused"]
          /\ UNCHANGED server
    /\ Processing /\ UNCHANGED handled

Handle(c) ==
    /\ server[c] # None /\ handled[c] = "no"
    /\ stage[server[c]] \in {"port", "serving"}
    /\ handled' \in {[handled EXCEPT ![c] = r] : r \in {"done", "failed"}}
    /\ Processing /\ UNCHANGED <<ctl, server>>

\* Mutant: the status is not looked at.
AnswerOk(c) ==
    /\ ctl[c] = "waiting" /\ handled[c] # "no"
    /\ ctl' = [ctl EXCEPT ![c] = "ok"]
    /\ Processing /\ UNCHANGED <<server, handled>>

\* Mutant: the body of a refusal is taken for an answer.
AnswerBody(c) ==
    /\ ctl[c] = "waiting" /\ handled[c] # "no"
    /\ ctl' = [ctl EXCEPT ![c] = handled[c]]
    /\ Processing /\ UNCHANGED <<server, handled>>

Answer(c) ==
    /\ ctl[c] = "waiting" /\ handled[c] # "no"
    /\ ctl' = [ctl EXCEPT ![c] = IF handled[c] = "done" THEN "ok" ELSE "error"]
    /\ Processing /\ UNCHANGED <<server, handled>>

\* The time is up, or the connection breaks.
GiveUp(c) ==
    /\ ctl[c] = "waiting"
    /\ ctl' = [ctl EXCEPT ![c] = "lost"]
    /\ Processing /\ UNCHANGED <<server, handled>>

-----------------------------------------------------------------------------
Starting(p) ==
    \/ Rotate(p) \/ Open(p) \/ Load(p) \/ Unlink(p) \/ Bind(p)
    \/ BindInUse(p) \/ Chmod(p) \/ ListenAndServe(p) \/ PortTaken(p)

Saving(p) == BeginSave(p) \/ SaveStep(p) \/ EndSave(p)

Next ==
    \/ \E s \in Scripts : BootCheck(s) \/ InstallKill(s) \/ Spawn(s)
    \/ \E p \in Processes : Starting(p) \/ Saving(p) \/ LogRecord(p) \/ Fail(p) \/ Kill(p)
    \/ \E c \in Clients : Connect(c) \/ Handle(c) \/ Answer(c) \/ GiveUp(c)

Spec == Init /\ [][Next]_vars

(***************************************************************************)
(* System calls return and timers fire.  A request may hang in its handler *)
(* for ever, behind a command that does not return.                        *)
(***************************************************************************)
Fairness == \A p \in Processes : WF_vars(Starting(p)) /\ WF_vars(Saving(p))

FairSpec == Spec /\ Fairness

-----------------------------------------------------------------------------
(* Safety. *)

\* state.json is never half written, with two daemons writing it, failing
\* writes and kills at any point (WriteAtomically).
StateFileWhole == target # Torn

\* A temporary file belongs to a write that is going on or to a process that
\* was killed in one: a write that fails cleans up (WriteAtomically).
TempsAccounted ==
    \A p \in Processes : temp[p] # None => phase[p] # "idle" \/ stage[p] = "ended"

\* A daemon that never had another beside it and serves is the one that ctl
\* reaches, that holds the port and whose log is the file at the log's path,
\* whatever its predecessors left behind when they were killed (runServe).
AloneIsReached ==
    \A p \in Processes \ crowded : stage[p] = "serving" =>
        socket = p /\ port = p /\ handle[p] = logPath

\* /api/logs returns the last lines of the log, whole and in order, wherever
\* the records fall on the chunks it is read in (tailFile).
TailIsLastLines ==
    logPath # None => \A asked \in 1..(MaxTailLines + 1) :
        LET n == TailLimit(asked, MaxTailLines)
        IN  TailFile(bytes[logPath], n) = LastOf(SplitLines(bytes[logPath]), n)

\* A client is told "ok" only of a command that was carried out, and one that
\* could not connect never is; a client that gave up knows neither (requestJSON).
AnswersAreTrue ==
    \A c \in Clients :
        /\ ctl[c] = "ok" => handled[c] = "done"
        /\ ctl[c] \in {"idle", "refused"} => handled[c] = "no"

-----------------------------------------------------------------------------
(* Liveness, under Fairness. *)

\* Every daemon that is started comes to serve, unless it is killed, a system
\* call fails or another daemon is already there: neither the socket nor the
\* state file of a predecessor that was killed keeps it from starting.
ComesUp ==
    \A p \in Processes : stage[p] = "rotate" ~>
        \/ stage[p] = "serving"
        \/ ending[p] \in {"killed", "fault"}
        \/ ending[p] \in {"in use", "port"} /\ p \in crowded

=============================================================================
