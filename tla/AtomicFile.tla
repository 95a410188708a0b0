----------------------------- MODULE AtomicFile -----------------------------
(***************************************************************************)
(* fileutil.WriteAtomically (internal/fileutil/atomic.go) on one file: the *)
(* data go to a temporary file in the same directory, which is then        *)
(* renamed over the target.  A writer may fail at any call or die between  *)
(* two of them.                                                            *)
(*                                                                         *)
(* The code never calls fsync: the model is about processes that die, not  *)
(* about power that fails before the data reach the disk.                  *)
(***************************************************************************)
CONSTANTS
    Writers,    \* processes that may write, each named for what it writes
    Torn,       \* content that is only partly there
    None        \* no content: the file does not exist

VARIABLES
    target,     \* content at the path
    temp,       \* content of each temporary file
    phase       \* where each writer's call is

fileVars == <<target, temp, phase>>

Phases == {"idle", "created", "written", "closed", "chmodded"}

FileTypeOK ==
    /\ target \in Writers \union {Torn, None}
    /\ temp \in [Writers -> Writers \union {Torn, None}]
    /\ phase \in [Writers -> Phases]

FileInit ==
    /\ target = None
    /\ temp = [w \in Writers |-> None]
    /\ phase = [w \in Writers |-> "idle"]

\* Mutant: all writers use the same name.
TempNameFixed(w) == CHOOSE n \in Writers : TRUE

\* os.CreateTemp picks a name nobody else uses.
TempName(w) == w

Advance(w, from, to) == phase[w] = from /\ phase' = [phase EXCEPT ![w] = to]

Content(w, c) == temp' = [temp EXCEPT ![TempName(w)] = c]

CreateTemp(w) == Advance(w, "idle", "created") /\ Content(w, Torn) /\ UNCHANGED target

WriteData(w) == Advance(w, "created", "written") /\ Content(w, w) /\ UNCHANGED target

CloseTemp(w) == Advance(w, "written", "closed") /\ UNCHANGED <<target, temp>>

ChmodTemp(w) == Advance(w, "closed", "chmodded") /\ UNCHANGED <<target, temp>>

Rename(w) ==
    /\ Advance(w, "chmodded", "idle")
    /\ target' = temp[TempName(w)]
    /\ Content(w, None)

\* Mutant: the temporary file of a failed write stays.
WriteFailsKeepsTemp(w) ==
    /\ phase[w] # "idle"
    /\ phase' = [phase EXCEPT ![w] = "idle"]
    /\ UNCHANGED <<target, temp>>

\* A write, close, chmod or rename fails, and the temporary file is removed.
WriteFails(w) ==
    /\ phase[w] # "idle"
    /\ phase' = [phase EXCEPT ![w] = "idle"]
    /\ Content(w, None)
    /\ UNCHANGED target

\* Writers die and their temporary files stay.
WritersDie(dead) ==
    /\ phase' = [w \in Writers |-> IF w \in dead THEN "idle" ELSE phase[w]]
    /\ UNCHANGED <<target, temp>>

Writing(w) == WriteData(w) \/ CloseTemp(w) \/ ChmodTemp(w)
=============================================================================
