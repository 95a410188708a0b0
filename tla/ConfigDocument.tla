--------------------------- MODULE ConfigDocument ---------------------------
(***************************************************************************)
(* The configuration document (internal/config/config.go): what the two    *)
(* formats of config.json and of PUT /api/config mean, when a document is  *)
(* valid, and which format it is saved in.                                 *)
(*                                                                         *)
(* The JSON texts are raw records in which a field may be absent (None).   *)
(* The content of a profile (tunnel, lan, health) is a model value, told   *)
(* apart by what validation and migration ask of it.  A request reads the  *)
(* document, and submits its edit of that copy in a second critical        *)
(* section.  One that passes validation is taken to succeed here:          *)
(* ControlService has the failures.                                        *)
(***************************************************************************)
EXTENDS Integers, Sequences

CONSTANTS
    Clients,             \* requests that may have read the document at a time
    Ids, Names,          \* profile ids and names, Blank among them
    Contents,            \* contents of a profile
    Filled, Complete,    \* those with both tunnel fields given / well formed
    Sane,                \* those whose other fields validate
    DefaultContent,      \* DefaultProfileConfig
    Blank, DefaultId, DefaultName, DefaultPort,
    Ports,               \* ports a text may give
    ProfileLists,        \* profile lists a text may give
    HandWritten,         \* texts an operator may put into config.json
    None

ASSUME NamesAssumption ==
    /\ {Blank, DefaultId} \subseteq Ids /\ {Blank, DefaultName} \subseteq Names
    /\ DefaultId # Blank /\ DefaultName # Blank
ASSUME ContentsAssumption ==
    Complete \subseteq Filled /\ Filled \subseteq Contents /\ Sane \subseteq Contents
        /\ DefaultContent \in Sane \ Filled
ASSUME PortsAssumption ==
    DefaultPort \in Nat \ {0} /\ Ports \subseteq Int

Profile == [id: Ids, name: Names, content: Contents]

ASSUME ListsAssumption == ProfileLists \subseteq Seq(Profile)

-----------------------------------------------------------------------------
(* The texts. *)

RawLegacy ==
    [kind: {"legacy"}, enabled: BOOLEAN \union {None}, content: Contents,
     port: Ports \union {None}]

RawProfiles ==
    [kind: {"profiles"}, enabled: BOOLEAN \union {None}, active: Ids \union {None},
     profiles: ProfileLists, port: Ports \union {None}]

-----------------------------------------------------------------------------
(* Defaults and validation. *)

\* Mutant: an explicit zero is taken for a port.
PortOrDefaultKeepsZero(port) == IF port = None THEN DefaultPort ELSE port

\* applyDefaults: zero and an omitted port are the same.
PortOrDefault(port) == IF port \in {None, 0} THEN DefaultPort ELSE port

ProfileValid(p, enabled) ==
    p.content \in Sane /\ (enabled => p.content \in Complete)

\* ids or names, one per profile and none of them blank.
Distinct(seq) ==
    /\ \A i \in DOMAIN seq : seq[i] # Blank
    /\ \A i, j \in DOMAIN seq : seq[i] = seq[j] => i = j

ValidServer(d) == d.port > 0

\* Only the active profile's content counts: the others may be drafts.
ValidDocument(d) ==
    /\ ValidServer(d)
    /\ Distinct([i \in DOMAIN d.profiles |-> d.profiles[i].id])
    /\ Distinct([i \in DOMAIN d.profiles |-> d.profiles[i].name])
    /\ \E i \in DOMAIN d.profiles :
          d.profiles[i].id = d.active /\ ProfileValid(d.profiles[i], d.enabled)

-----------------------------------------------------------------------------
(* Reading a text.  None stands for an error. *)

\* Mutant: the migration rule overrides a switch the file does hold.
LegacyEnabledFromContent(raw) == raw.content \in Filled

\* applyLegacyTunnelEnabled: an old file without the switch is on when filled in.
LegacyEnabled(raw) ==
    IF raw.enabled = None THEN raw.content \in Filled ELSE raw.enabled

DocumentFromConfig(enabled, content, port) ==
    [ format |-> "legacy", enabled |-> enabled, active |-> DefaultId, port |-> port,
      profiles |-> <<[id |-> DefaultId, name |-> DefaultName, content |-> content]>> ]

DefaultDocument == DocumentFromConfig(FALSE, DefaultContent, DefaultPort)

IsProfilesFormat(raw) == raw.kind = "profiles"

ParseLegacyConfig(raw) ==
    DocumentFromConfig(LegacyEnabled(raw), raw.content, PortOrDefault(raw.port))

ParseProfiles(raw) ==
    LET d == [ format |-> "profiles",
               enabled |-> IF raw.enabled = None THEN FALSE ELSE raw.enabled,
               active |-> IF raw.active \in {None, Blank} THEN DefaultId ELSE raw.active,
               port |-> PortOrDefault(raw.port),
               profiles |-> raw.profiles ]
    IN  IF ValidDocument(d) THEN d ELSE None

\* A legacy file is loaded whether it is valid or not.
ParseDocument(raw) ==
    IF IsProfilesFormat(raw) THEN ParseProfiles(raw) ELSE ParseLegacyConfig(raw)

\* Mutant: a legacy body replaces the first profile, not the active one.
ReplaceFirstContent(d, content) ==
    [d EXCEPT !.profiles[1].content = content]

ReplaceActiveContent(d, content) ==
    [d EXCEPT !.profiles = [i \in DOMAIN d.profiles |->
        IF d.profiles[i].id = d.active
        THEN [d.profiles[i] EXCEPT !.content = content] ELSE d.profiles[i]]]

\* A legacy body edits the active profile and keeps what it leaves out.
ParseLegacyUpdate(raw, current) ==
    LET d == ReplaceActiveContent(
                [current EXCEPT
                    !.enabled = IF raw.enabled = None THEN @ ELSE raw.enabled,
                    !.port = IF raw.port = None THEN @ ELSE PortOrDefault(raw.port)],
                raw.content)
    IN  IF ValidDocument(d) THEN d ELSE None

\* A profiles body stands for itself.
ParseUpdateDocument(raw, current) ==
    IF IsProfilesFormat(raw) THEN ParseProfiles(raw) ELSE ParseLegacyUpdate(raw, current)

-----------------------------------------------------------------------------
(* Writing a text. *)

\* Mutant: a document that would fit the legacy format is always saved in it.
ShouldSaveLegacyAnyFormat(d) ==
    /\ Len(d.profiles) = 1 /\ d.active = DefaultId
    /\ d.profiles[1].id = DefaultId /\ d.profiles[1].name = DefaultName

ShouldSaveLegacy(d) ==
    /\ d.format = "legacy"
    /\ Len(d.profiles) = 1 /\ d.active = DefaultId
    /\ d.profiles[1].id = DefaultId /\ d.profiles[1].name = DefaultName

Save(d) ==
    [kind |-> "legacy", enabled |-> d.enabled, content |-> d.profiles[1].content,
     port |-> d.port]

BuildRawProfileDocument(d) ==
    [kind |-> "profiles", enabled |-> d.enabled, active |-> d.active,
     profiles |-> d.profiles, port |-> d.port]

SaveDocument(d) == IF ShouldSaveLegacy(d) THEN Save(d) ELSE BuildRawProfileDocument(d)

-----------------------------------------------------------------------------
(***************************************************************************)
(* The document over the life of an install: the daemon boots from the     *)
(* file, requests change both, and an operator edits the file by hand.     *)
(***************************************************************************)
VARIABLES
    file,      \* config.json, None before the first boot
    author,    \* who wrote it last
    proc,      \* "off", "running" or "failed" (the daemon exited at boot)
    document,  \* the document of a running daemon, or None
    clone      \* the copy a request has read and not yet submitted, or None

vars == <<file, author, proc, document, clone>>

Document ==
    [ format: {"legacy", "profiles"}, enabled: BOOLEAN, active: Ids \ {Blank},
      port: (Ports \union {DefaultPort}) \ {0}, profiles: Seq(Profile) ]

ASSUME HandWrittenAssumption == HandWritten \subseteq RawLegacy \union RawProfiles
ASSUME NoneAssumption ==
    None \notin Ids /\ None \notin Int /\ None \notin BOOLEAN /\ None \notin Document

\* A document in memory has the defaults filled in (applyDefaults), and what
\* the daemon itself writes leaves out nothing (SaveDocument).
TypeOK ==
    /\ proc \in {"off", "running", "failed"} /\ author \in {"operator", "daemon"}
    /\ proc = "running" => document \in Document
    /\ proc # "running" => document = None
    /\ clone \in [Clients -> Document \union {None}]
    /\ file # None /\ author = "daemon" =>
          file.enabled \in BOOLEAN /\ file.port \notin {None, 0}

Init ==
    /\ file \in HandWritten \union {None}
    /\ author = "operator"
    /\ proc = "off" /\ document = None
    /\ clone = [c \in Clients |-> None]

\* loadOrCreateConfigDocument: a missing file is created from the defaults.
Create ==
    /\ proc = "off" /\ file = None
    /\ document' = DefaultDocument
    /\ file' = SaveDocument(document') /\ author' = "daemon"
    /\ proc' = "running"
    /\ UNCHANGED clone

Load ==
    /\ proc = "off" /\ file # None
    /\ document' = ParseDocument(file)
    /\ proc' = IF document' = None THEN "failed" ELSE "running"
    /\ UNCHANGED <<file, author, clone>>

PreserveStartupFields(d, current) ==
    IF d.port = 0 THEN [d EXCEPT !.port = current.port] ELSE d

\* Mutant: UpdateConfigDocument and SaveDocument do not validate.
UpdateUnvalidated(d) ==
    /\ document' = d
    /\ file' = SaveDocument(d) /\ author' = "daemon"

\* UpdateConfigDocument when its reconcile succeeds, and when it refuses.
Update(d) ==
    LET updated == PreserveStartupFields(d, document)
    IN  IF ValidDocument(updated)
        THEN /\ document' = updated
             /\ file' = SaveDocument(updated) /\ author' = "daemon"
        ELSE UNCHANGED <<document, file, author>>

\* The copy that mutateDocument and HandleUpdateConfig take.
GetConfigDocument(c) ==
    /\ proc = "running" /\ clone[c] = None
    /\ clone' = [clone EXCEPT ![c] = document]
    /\ UNCHANGED <<file, author, proc, document>>

\* The request goes on with the edited copy, or with the error (None).
Submit(c, edited) ==
    /\ clone[c] # None
    /\ clone' = [clone EXCEPT ![c] = None]
    /\ IF edited = None THEN UNCHANGED <<document, file, author>> ELSE Update(edited)
    /\ UNCHANGED proc

MutateDocument(c) ==
    \E e \in BOOLEAN : clone[c] # None /\ Submit(c, [clone[c] EXCEPT !.enabled = e])

PutLegacy(c) ==
    \E raw \in RawLegacy : clone[c] # None /\ Submit(c, ParseUpdateDocument(raw, clone[c]))

\* A profiles body stands for itself: the copy read for it is not looked at.
PutProfiles ==
    \E raw \in RawProfiles :
        LET edited == ParseUpdateDocument(raw, document)
        IN  /\ proc = "running" /\ edited # None
            /\ Update(edited)
            /\ UNCHANGED <<proc, clone>>

Exit ==
    /\ proc # "off"
    /\ proc' = "off" /\ document' = None
    /\ clone' = [c \in Clients |-> None]
    /\ UNCHANGED <<file, author>>

HandEdit ==
    /\ proc = "off"
    /\ file' \in HandWritten /\ author' = "operator"
    /\ UNCHANGED <<proc, document, clone>>

Next ==
    \/ Create \/ Load \/ PutProfiles \/ Exit \/ HandEdit
    \/ \E c \in Clients : GetConfigDocument(c) \/ MutateDocument(c) \/ PutLegacy(c)

Spec == Init /\ [][Next]_vars

-----------------------------------------------------------------------------
\* A restart loads exactly the document that was running, whichever format it
\* was saved in and whatever the file left out (SaveDocument, LoadDocument):
\* a tunnel switched off stays off, a migrated document stays migrated.
RestartKeepsDocument == proc = "running" => ParseDocument(file) = document

\* The daemon never writes a file it then refuses to boot from: NewService
\* only fails on a file edited by hand since (loadOrCreateConfigDocument).
OwnFilesBoot == proc = "failed" => author = "operator"

\* The same format, profiles and identities; the active content may differ.
SameShape(r, d) ==
    /\ r.format = d.format /\ r.active = d.active
    /\ Len(r.profiles) = Len(d.profiles)
    /\ \A i \in DOMAIN d.profiles :
          \/ r.profiles[i] = d.profiles[i]
          \/ /\ d.profiles[i].id = d.active
             /\ r.profiles[i].id = d.active
             /\ r.profiles[i].name = d.profiles[i].name

\* Up, Down and a legacy PUT edit the copy they have read in the switch, the
\* port and the active profile's content only: what they submit has the copy's
\* shape, and only an update by somebody else in between makes it another than
\* the document's (mutateDocument, parseLegacyUpdateDocument; README, Named
\* Profiles and Legacy Compatibility).
EditsKeepShape ==
    [][\A c \in Clients : MutateDocument(c) \/ PutLegacy(c) =>
            UNCHANGED document \/ SameShape(document', clone[c])]_vars

\* Once the file holds the profiles format, only a request that read the
\* document before the migration brings the legacy one back: no request that
\* began later does, in any order (SaveDocument's shouldSaveLegacy).
OnlyStaleClonesGoBack ==
    [][proc = "running" /\ file.kind = "profiles" /\ file'.kind = "legacy" =>
        \E c \in Clients :
            clone[c] # None /\ clone[c].format = "legacy" /\ clone'[c] = None]_vars
=============================================================================
