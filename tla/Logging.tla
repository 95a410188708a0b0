------------------------------ MODULE Logging ------------------------------
(***************************************************************************)
(* The log (internal/logging/logging.go): one file, rotated when a daemon  *)
(* starts and finds it large, appended to by every daemon that has it      *)
(* open, and read backwards in chunks by Tail.                             *)
(*                                                                         *)
(* A file is the sequence of its bytes.  A byte of a record is the         *)
(* record's number, and NL is the newline that ends it; slog writes one    *)
(* non-empty line per record.                                              *)
(***************************************************************************)
EXTENDS Naturals, Sequences, FiniteSetsExt

CONSTANTS
    Processes,      \* daemons, each started at most once
    MaxLogBytes,    \* MaxLogFileBytes
    ChunkSize,      \* bytes Tail reads at a time
    Lengths,        \* lengths a record may have
    None            \* no file

NL == 0

ASSUME LogAssumption ==
    /\ ChunkSize \in Nat \ {0} /\ MaxLogBytes \in Nat \ {0}
    /\ Lengths \subseteq Nat \ {0}

VARIABLES
    logPath,    \* the file at daemon.log, named after the daemon that created it
    backup,     \* the file at daemon.log.1
    bytes,      \* the content of every file
    handle,     \* the file each daemon has open
    records     \* records written so far

logVars == <<logPath, backup, bytes, handle, records>>

Files == Processes \union {None}

LogTypeOK ==
    /\ logPath \in Files /\ backup \in Files
    /\ \A p \in Processes : \A n \in DOMAIN bytes[p] : bytes[p][n] \in Nat
    /\ handle \in [Processes -> Files]
    /\ records \in Nat

LogInit ==
    /\ logPath = None /\ backup = None
    /\ bytes = [p \in Processes |-> <<>>]
    /\ handle = [p \in Processes |-> None]
    /\ records = 0

-----------------------------------------------------------------------------
(* Init: rotateIfLarge, then open for appending. *)

Large == logPath # None /\ Len(bytes[logPath]) >= MaxLogBytes

RotateIfLarge ==
    /\ backup' = IF Large THEN logPath ELSE backup
    /\ logPath' = IF Large THEN None ELSE logPath
    /\ UNCHANGED <<bytes, handle, records>>

Record(id, len) == [n \in 1..(len + 1) |-> IF n <= len THEN id ELSE NL]

\* The file is created if it is not there, and gets the first record.
OpenLog(p, len) ==
    LET f == IF logPath = None THEN p ELSE logPath
    IN  /\ logPath' = f
        /\ handle' = [handle EXCEPT ![p] = f]
        /\ bytes' = [bytes EXCEPT ![f] = @ \o Record(records + 1, len)]
        /\ records' = records + 1
        /\ UNCHANGED backup

\* A record goes to the end of the file that was opened, wherever its name is.
Log(p, len) ==
    /\ handle[p] # None
    /\ bytes' = [bytes EXCEPT ![handle[p]] = @ \o Record(records + 1, len)]
    /\ records' = records + 1
    /\ UNCHANGED <<logPath, backup, handle>>

\* A descriptor goes with its process.
LogDies(dead) ==
    /\ handle' = [p \in Processes |-> IF p \in dead THEN None ELSE handle[p]]
    /\ UNCHANGED <<logPath, backup, bytes, records>>

-----------------------------------------------------------------------------
(* Tail. *)

Newlines(s) == Cardinality({n \in DOMAIN s : s[n] = NL})

\* splitLines: trailing newlines are trimmed, then the rest is cut at each
\* newline.  A line is the sequence of its bytes.
SplitLines(s) ==
    LET texts   == {n \in DOMAIN s : s[n] # NL}
        trimmed == IF texts = {} THEN <<>> ELSE SubSeq(s, 1, Max(texts))
        cuts    == {n \in DOMAIN trimmed : trimmed[n] = NL} \union {0, Len(trimmed) + 1}
        Nth(k)  == CHOOSE c \in cuts : Cardinality({d \in cuts : d < c}) = k - 1
    IN  IF trimmed = <<>> THEN <<>>
        ELSE [k \in 1..(Cardinality(cuts) - 1) |-> SubSeq(trimmed, Nth(k) + 1, Nth(k + 1) - 1)]

LastOf(s, n) == IF Len(s) > n THEN SubSeq(s, Len(s) - n + 1, Len(s)) ELSE s

\* The offsets the loop of tailFile reaches, from the end backwards.
Offsets(size) ==
    {IF k * ChunkSize >= size THEN 0 ELSE size - k * ChunkSize : k \in 1..size}

\* Mutant: the loop stops one newline early.
EnoughEarly(s, n) == Newlines(s) >= n

Enough(s, n) == Newlines(s) > n

\* The loop ends at the first offset with enough newlines behind it.
TailFile(s, n) ==
    LET From(o) == SubSeq(s, o + 1, Len(s))
        stops   == {o \in Offsets(Len(s)) : o = 0 \/ Enough(From(o), n)}
    IN  IF s = <<>> THEN <<>> ELSE LastOf(SplitLines(From(Max(stops))), n)

\* The query's limit: HandleGetLogs refuses what is not positive and caps the
\* rest, so Tail always gets a positive number.
TailLimit(asked, cap) == IF asked > cap THEN cap ELSE asked
=============================================================================
