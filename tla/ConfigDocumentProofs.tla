------------------------- MODULE ConfigDocumentProofs -------------------------
(***************************************************************************)
(* Proofs about ConfigDocument, for all profiles, contents and texts.      *)
(*                                                                         *)
(* The invariant is about the two formats: a document in memory that is    *)
(* called legacy has the one profile the legacy text can hold, and one     *)
(* with profiles is valid, so that what is written for it is read back as  *)
(* the same document (OwnInv).                                             *)
(***************************************************************************)
EXTENDS ConfigDocument, SequenceTheorems, TLAPS

\* A document that is saved in its own format and loads again.
Loadable(d) ==
    /\ d \in Document
    /\ d.format = "legacy" => ShouldSaveLegacy(d)
    /\ d.format = "profiles" => ValidDocument(d)

\* What the daemon wrote is complete and is read back.
OwnInv ==
    /\ proc \in {"off", "running", "failed"} /\ author \in {"operator", "daemon"}
    /\ proc = "running" => Loadable(document) /\ ParseDocument(file) = document
    /\ proc # "running" => document = None
    /\ clone \in [Clients -> Document \union {None}]
    /\ \A c \in Clients : clone[c] # None => Loadable(clone[c]) /\ proc = "running"
    /\ author = "operator" => file \in HandWritten \union {None}
    /\ author = "daemon" => \E d : Loadable(d) /\ file = SaveDocument(d)
    /\ proc = "failed" => author = "operator"

-----------------------------------------------------------------------------
(***************************************************************************)
(* Reading and writing texts.                                              *)
(***************************************************************************)

\* The defaults are ports.
LEMMA PortTypes ==
    ASSUME NEW port \in Ports \union {None}
    PROVE  PortOrDefault(port) \in (Ports \union {DefaultPort}) \ {0}
  BY PortsAssumption DEF PortOrDefault

\* A port of a document is one that stays.
LEMMA PortStays ==
    ASSUME NEW port \in (Ports \union {DefaultPort}) \ {0}
    PROVE  port # None /\ PortOrDefault(port) = port
<1>1. port \in Int
  BY PortsAssumption
<1>. QED BY <1>1, NoneAssumption DEF PortOrDefault

\* The document of a legacy text has the one profile.
LEMMA OneProfile ==
    ASSUME NEW e \in BOOLEAN, NEW c \in Contents, NEW port \in (Ports \union {DefaultPort}) \ {0}
    PROVE  Loadable(DocumentFromConfig(e, c, port)) /\ DocumentFromConfig(e, c, port).format = "legacy"
<1>. DEFINE p == [id |-> DefaultId, name |-> DefaultName, content |-> c]
            d == DocumentFromConfig(e, c, port)
<1>1. p \in Profile /\ p.id = DefaultId /\ p.name = DefaultName
  BY NamesAssumption DEF Profile
<1>2. /\ d.format = "legacy" /\ d.enabled = e /\ d.active = DefaultId /\ d.port = port
      /\ d.profiles = <<p>>
      /\ d = [format |-> "legacy", enabled |-> e, active |-> DefaultId, port |-> port,
              profiles |-> <<p>>]
  BY DEF DocumentFromConfig
<1>. HIDE DEF p
<1>3. <<p>> \in Seq(Profile) /\ Len(<<p>>) = 1 /\ <<p>>[1] = p
  BY <1>1
<1>4. d \in Document
  BY <1>2, <1>3, NamesAssumption DEF Document
<1>. HIDE DEF d
<1>5. ShouldSaveLegacy(d)
  BY <1>1, <1>2, <1>3 DEF ShouldSaveLegacy
<1>6. Loadable(d)
  BY <1>2, <1>4, <1>5 DEF Loadable
<1>. QED BY <1>2, <1>6 DEF d

\* The default document.
LEMMA Default == Loadable(DefaultDocument)
<1>1. DefaultContent \in Contents
  BY ContentsAssumption
<1>2. DefaultPort \in (Ports \union {DefaultPort}) \ {0}
  BY PortsAssumption
<1>. QED BY <1>1, <1>2, OneProfile DEF DefaultDocument

\* A legacy text.
LEMMA ParseLegacyType ==
    ASSUME NEW raw \in RawLegacy
    PROVE  Loadable(ParseLegacyConfig(raw))
<1>1. LegacyEnabled(raw) \in BOOLEAN
  <2>1. CASE raw.enabled = None
    <3>1. LegacyEnabled(raw) = (raw.content \in Filled)
      BY <2>1 DEF LegacyEnabled
    <3>2. (raw.content \in Filled) \in BOOLEAN
      OBVIOUS
    <3>. QED BY <3>1, <3>2
  <2>2. CASE raw.enabled # None
    BY <2>2 DEF RawLegacy, LegacyEnabled
  <2>. QED BY <2>1, <2>2
<1>2. raw.content \in Contents /\ PortOrDefault(raw.port) \in (Ports \union {DefaultPort}) \ {0}
  BY PortTypes DEF RawLegacy
<1>. QED BY <1>1, <1>2, OneProfile DEF ParseLegacyConfig

\* A text with profiles is an error or a valid document.
LEMMA ParseProfilesType ==
    ASSUME NEW raw \in RawProfiles
    PROVE  \/ ParseProfiles(raw) = None
           \/ Loadable(ParseProfiles(raw)) /\ ParseProfiles(raw).format = "profiles"
<1>. DEFINE d == [ format |-> "profiles",
                   enabled |-> IF raw.enabled = None THEN FALSE ELSE raw.enabled,
                   active |-> IF raw.active \in {None, Blank} THEN DefaultId ELSE raw.active,
                   port |-> PortOrDefault(raw.port),
                   profiles |-> raw.profiles ]
<1>1. PortOrDefault(raw.port) \in (Ports \union {DefaultPort}) \ {0}
  BY PortTypes DEF RawProfiles
<1>2. d \in Document /\ d.format = "profiles"
  BY <1>1, ListsAssumption, NamesAssumption DEF RawProfiles, Document
<1>3. ParseProfiles(raw) = IF ValidDocument(d) THEN d ELSE None
  BY DEF ParseProfiles
<1>. HIDE DEF d
<1>. QED BY <1>2, <1>3 DEF Loadable

\* Whatever is loaded has one of the two shapes.
LEMMA ParseType ==
    ASSUME NEW raw \in HandWritten, ParseDocument(raw) # None
    PROVE  Loadable(ParseDocument(raw))
<1>1. raw \in RawLegacy \/ raw \in RawProfiles
  BY HandWrittenAssumption
<1>2. CASE raw \in RawLegacy
  BY <1>2, ParseLegacyType DEF ParseDocument, IsProfilesFormat, RawLegacy
<1>3. CASE raw \in RawProfiles
  BY <1>3, ParseProfilesType DEF ParseDocument, IsProfilesFormat, RawProfiles
<1>. QED BY <1>1, <1>2, <1>3

\* A sequence of one profile.
LEMMA Single ==
    ASSUME NEW s \in Seq(Profile), Len(s) = 1 PROVE s[1] \in Profile /\ s = <<s[1]>>
<1>0. 1 \in 1..Len(s)
  OBVIOUS
<1>1. s[1] \in Profile
  BY <1>0, ElementOfSeq
<1>2. <<s[1]>> \in Seq(Profile) /\ Len(<<s[1]>>) = 1 /\ <<s[1]>>[1] = s[1]
  BY <1>1
<1>. QED BY <1>1, <1>2, SeqEqual

\* What is written for a document is read back as the same document, in the
\* format the document has (SaveDocument, LoadDocument).
LEMMA RoundTrip ==
    ASSUME NEW d, Loadable(d)
    PROVE  /\ ParseDocument(SaveDocument(d)) = d /\ SaveDocument(d).kind = d.format
           /\ SaveDocument(d).enabled \in BOOLEAN /\ SaveDocument(d).port \notin {None, 0}
<1>0. /\ d \in Document /\ d.enabled \in BOOLEAN /\ d.active \in Ids \ {Blank}
      /\ d.port \in (Ports \union {DefaultPort}) \ {0} /\ d.profiles \in Seq(Profile)
      /\ d.format \in {"legacy", "profiles"}
      /\ d = [format |-> d.format, enabled |-> d.enabled, active |-> d.active, port |-> d.port,
              profiles |-> d.profiles]
  BY DEF Loadable, Document
<1>1. d.port \notin {None, 0} /\ PortOrDefault(d.port) = d.port
  BY <1>0, PortStays
<1>2. d.enabled # None /\ d.active \notin {None, Blank}
  BY <1>0, NoneAssumption
<1>3. CASE d.format = "legacy"
  <2>. DEFINE p == d.profiles[1]
              raw == Save(d)
  <2>1. /\ ShouldSaveLegacy(d) /\ Len(d.profiles) = 1 /\ d.active = DefaultId
        /\ p.id = DefaultId /\ p.name = DefaultName
    BY <1>3 DEF Loadable, ShouldSaveLegacy
  <2>2. p \in Profile /\ d.profiles = <<p>>
    BY <1>0, <2>1, Single
  <2>. HIDE DEF p
  <2>3. p = [id |-> DefaultId, name |-> DefaultName, content |-> p.content]
    BY <2>1, <2>2 DEF Profile
  <2>4. /\ raw.kind = "legacy" /\ raw.enabled = d.enabled /\ raw.content = p.content
        /\ raw.port = d.port
    BY DEF Save, p
  <2>. HIDE DEF raw
  <2>5. SaveDocument(d) = raw
    BY <2>1 DEF SaveDocument, raw
  <2>6. ParseDocument(raw) = DocumentFromConfig(d.enabled, p.content, d.port)
    BY <1>1, <1>2, <2>4 DEF ParseDocument, IsProfilesFormat, ParseLegacyConfig, LegacyEnabled
  <2>7. DocumentFromConfig(d.enabled, p.content, d.port) = d
    BY <1>0, <1>3, <2>1, <2>2, <2>3 DEF DocumentFromConfig
  <2>. QED BY <1>0, <1>1, <1>3, <2>4, <2>5, <2>6, <2>7
<1>4. CASE d.format = "profiles"
  <2>. DEFINE raw == BuildRawProfileDocument(d)
  <2>1. SaveDocument(d) = raw
    BY <1>4 DEF SaveDocument, ShouldSaveLegacy
  <2>2. /\ raw.kind = "profiles" /\ raw.enabled = d.enabled /\ raw.active = d.active
        /\ raw.profiles = d.profiles /\ raw.port = d.port
    BY DEF BuildRawProfileDocument
  <2>. HIDE DEF raw
  <2>3. ValidDocument(d)
    BY <1>4 DEF Loadable
  <2>4. [ format |-> "profiles",
          enabled |-> IF raw.enabled = None THEN FALSE ELSE raw.enabled,
          active |-> IF raw.active \in {None, Blank} THEN DefaultId ELSE raw.active,
          port |-> PortOrDefault(raw.port),
          profiles |-> raw.profiles ] = d
    BY <1>0, <1>1, <1>2, <1>4, <2>2
  <2>5. ParseDocument(raw) = d
    BY <2>2, <2>3, <2>4 DEF ParseDocument, IsProfilesFormat, ParseProfiles
  <2>. QED BY <1>0, <1>1, <1>4, <2>1, <2>2, <2>5
<1>. QED BY <1>0, <1>3, <1>4

-----------------------------------------------------------------------------
(***************************************************************************)
(* Updates.                                                                *)
(***************************************************************************)

\* What has the shape of a document that is saved in its own format is saved in
\* the same one.
LEMMA ShapeSaves ==
    ASSUME NEW r \in Document, NEW d, Loadable(d), SameShape(r, d), ValidDocument(r)
    PROVE  Loadable(r)
<1>1. CASE d.format = "legacy"
  <2>1. /\ ShouldSaveLegacy(d) /\ Len(d.profiles) = 1 /\ d.profiles \in Seq(Profile)
        /\ d.profiles[1].id = DefaultId /\ d.profiles[1].name = DefaultName
    BY <1>1 DEF Loadable, ShouldSaveLegacy, Document
  <2>2. 1 \in DOMAIN d.profiles
    BY <2>1
  <2>3. r.profiles[1].id = DefaultId /\ r.profiles[1].name = DefaultName
    BY <2>1, <2>2 DEF SameShape, ShouldSaveLegacy
  <2>4. r.format = "legacy" /\ Len(r.profiles) = 1 /\ r.active = DefaultId
    BY <1>1, <2>1 DEF SameShape, ShouldSaveLegacy
  <2>5. ShouldSaveLegacy(r)
    BY <2>3, <2>4 DEF ShouldSaveLegacy
  <2>. QED BY <2>4, <2>5 DEF Loadable
<1>2. CASE d.format # "legacy"
  BY <1>2 DEF SameShape, Loadable
<1>. QED BY <1>1, <1>2

\* A legacy body edits the content of the active profile and nothing else of
\* the profiles.
LEMMA ReplaceShape ==
    ASSUME NEW d \in Document, NEW c \in Contents
    PROVE  /\ ReplaceActiveContent(d, c) \in Document
           /\ SameShape(ReplaceActiveContent(d, c), d)
<1>. DEFINE New(i) == IF d.profiles[i].id = d.active
                      THEN [d.profiles[i] EXCEPT !.content = c] ELSE d.profiles[i]
            ps == [i \in DOMAIN d.profiles |-> New(i)]
            r  == ReplaceActiveContent(d, c)
<1>1. d.profiles \in Seq(Profile)
  BY DEF Document
<1>2. Len(d.profiles) \in Nat /\ DOMAIN d.profiles = 1..Len(d.profiles)
  BY <1>1
<1>3. \A i \in 1..Len(d.profiles) : d.profiles[i] \in Profile
  BY <1>1, ElementOfSeq
<1>4. \A i \in 1..Len(d.profiles) :
         /\ New(i) \in Profile
         /\ New(i).id = d.profiles[i].id /\ New(i).name = d.profiles[i].name
         /\ New(i) = d.profiles[i] \/ d.profiles[i].id = d.active
  BY <1>3 DEF Profile
<1>. HIDE DEF New
<1>5. ps \in [1..Len(d.profiles) -> Profile]
  BY <1>2, <1>4
<1>6. \A i \in DOMAIN d.profiles : ps[i] = New(i)
  OBVIOUS
<1>7. r = [d EXCEPT !.profiles = ps]
  BY DEF ReplaceActiveContent, New
<1>. HIDE DEF ps, r
<1>8. ps \in Seq(Profile) /\ Len(ps) = Len(d.profiles)
  BY <1>2, <1>5
<1>9. r \in Document /\ r.profiles = ps /\ r.format = d.format /\ r.active = d.active
  BY <1>7, <1>8 DEF Document
<1>10. SameShape(r, d)
  BY <1>2, <1>4, <1>6, <1>8, <1>9 DEF SameShape
<1>. QED BY <1>9, <1>10 DEF r

\* What a legacy PUT makes of the current document.
LEMMA LegacyUpdate ==
    ASSUME NEW raw \in RawLegacy, NEW d, Loadable(d), ParseUpdateDocument(raw, d) # None
    PROVE  /\ Loadable(ParseUpdateDocument(raw, d))
           /\ SameShape(ParseUpdateDocument(raw, d), d)
<1>. DEFINE e == IF raw.enabled = None THEN d.enabled ELSE raw.enabled
            port == IF raw.port = None THEN d.port ELSE PortOrDefault(raw.port)
            base == [d EXCEPT !.enabled = e, !.port = port]
            r == ReplaceActiveContent(base, raw.content)
<1>1. d \in Document
  BY DEF Loadable
<1>2. e \in BOOLEAN /\ raw.content \in Contents /\ raw.kind = "legacy"
  BY <1>1 DEF Document, RawLegacy
<1>3. port \in (Ports \union {DefaultPort}) \ {0}
  BY <1>1, PortTypes DEF Document, RawLegacy
<1>4. ParseUpdateDocument(raw, d) = IF ValidDocument(r) THEN r ELSE None
  BY <1>2 DEF ParseUpdateDocument, IsProfilesFormat, ParseLegacyUpdate
<1>. HIDE DEF e, port
<1>5. /\ base \in Document /\ base.format = d.format /\ base.active = d.active
      /\ base.profiles = d.profiles
  BY <1>1, <1>2, <1>3 DEF Document
<1>. HIDE DEF base
<1>6. r \in Document /\ SameShape(r, base)
  BY <1>2, <1>5, ReplaceShape
<1>. HIDE DEF r
<1>7. SameShape(r, d)
  BY <1>5, <1>6 DEF SameShape
<1>8. ValidDocument(r) => Loadable(r)
  BY <1>6, <1>7, ShapeSaves
<1>. QED BY <1>4, <1>7, <1>8

\* What Up and Down make of it.
LEMMA SwitchUpdate ==
    ASSUME NEW e \in BOOLEAN, NEW d, Loadable(d)
    PROVE  /\ [d EXCEPT !.enabled = e] \in Document /\ SameShape([d EXCEPT !.enabled = e], d)
           /\ ValidDocument([d EXCEPT !.enabled = e]) => Loadable([d EXCEPT !.enabled = e])
<1>. DEFINE r == [d EXCEPT !.enabled = e]
<1>1. /\ r \in Document /\ r.format = d.format /\ r.active = d.active
      /\ r.profiles = d.profiles
  BY DEF Loadable, Document
<1>. HIDE DEF r
<1>2. SameShape(r, d)
  BY <1>1 DEF SameShape
<1>3. ValidDocument(r) => Loadable(r)
  BY <1>1, <1>2, ShapeSaves
<1>. QED BY <1>1, <1>2, <1>3 DEF r

\* Nothing is updated.
Refused == UNCHANGED <<document, file, author>>

\* An update stores the document it is given, or refuses it.
LEMMA UpdateStores ==
    ASSUME NEW d \in Document, Update(d), ValidDocument(d) => Loadable(d)
    PROVE  \/ Refused
           \/ /\ document' = d /\ Loadable(d)
              /\ file' = SaveDocument(d) /\ author' = "daemon"
<1>1. PreserveStartupFields(d, document) = d
  BY DEF PreserveStartupFields, Document
<1>. QED BY <1>1 DEF Update, Refused

\* What a request that had read the document submits.
LEMMA EditStores ==
    ASSUME OwnInv, NEW c \in Clients, MutateDocument(c) \/ PutLegacy(c)
    PROVE  /\ clone[c] # None /\ clone' = [clone EXCEPT ![c] = None] /\ proc' = proc
           /\ \/ Refused
              \/ /\ Loadable(document') /\ SameShape(document', clone[c])
                 /\ file' = SaveDocument(document') /\ author' = "daemon"
<1>1. CASE MutateDocument(c)
  <2>1. PICK e \in BOOLEAN : clone[c] # None /\ Submit(c, [clone[c] EXCEPT !.enabled = e])
    BY <1>1 DEF MutateDocument
  <2>. DEFINE r == [clone[c] EXCEPT !.enabled = e]
  <2>2. Loadable(clone[c])
    BY <2>1 DEF OwnInv
  <2>3. r \in Document /\ SameShape(r, clone[c]) /\ (ValidDocument(r) => Loadable(r))
    BY <2>2, SwitchUpdate
  <2>4. Submit(c, r)
    BY <2>1
  <2>. HIDE DEF r
  <2>5. r # None
    BY <2>3, NoneAssumption
  <2>. QED BY <2>1, <2>3, <2>4, <2>5, UpdateStores DEF Submit
<1>2. CASE PutLegacy(c)
  <2>1. PICK raw \in RawLegacy :
           clone[c] # None /\ Submit(c, ParseUpdateDocument(raw, clone[c]))
    BY <1>2 DEF PutLegacy
  <2>. DEFINE r == ParseUpdateDocument(raw, clone[c])
  <2>2. Loadable(clone[c])
    BY <2>1 DEF OwnInv
  <2>3. r # None => Loadable(r) /\ SameShape(r, clone[c])
    BY <2>2, LegacyUpdate
  <2>4. Submit(c, r)
    BY <2>1
  <2>. HIDE DEF r
  <2>5. CASE r = None
    BY <2>1, <2>4, <2>5 DEF Submit, Refused
  <2>6. CASE r # None
    BY <2>1, <2>3, <2>4, <2>6, UpdateStores DEF Submit, Loadable
  <2>. QED BY <2>5, <2>6
<1>. QED BY <1>1, <1>2

\* A PUT of profiles.
LEMMA ProfilesStore ==
    ASSUME PutProfiles
    PROVE  /\ proc = "running" /\ UNCHANGED <<proc, clone>>
           /\ \/ Refused
              \/ /\ Loadable(document') /\ document'.format = "profiles"
                 /\ file' = SaveDocument(document') /\ author' = "daemon"
<1>1. PICK raw \in RawProfiles :
        /\ proc = "running" /\ ParseUpdateDocument(raw, document) # None
        /\ Update(ParseUpdateDocument(raw, document))
        /\ UNCHANGED <<proc, clone>>
  BY DEF PutProfiles
<1>. DEFINE r == ParseUpdateDocument(raw, document)
<1>2. Loadable(r) /\ r.format = "profiles"
  BY <1>1, ParseProfilesType DEF ParseUpdateDocument, IsProfilesFormat, RawProfiles
<1>. HIDE DEF r
<1>3. Update(r)
  BY <1>1 DEF r
<1>. QED BY <1>1, <1>2, <1>3, UpdateStores DEF Loadable

-----------------------------------------------------------------------------
(***************************************************************************)
(* The life of an install.                                                 *)
(***************************************************************************)

\* A first boot has nothing to read.
LEMMA InitOwn == Init => OwnInv
  BY DEF Init, OwnInv

\* A boot loads what the daemon wrote, or what the operator did.
LEMMA LoadOwn == ASSUME OwnInv, Load PROVE OwnInv'
<1>1. document' = ParseDocument(file) /\ UNCHANGED <<file, author, clone>> /\ file # None
  BY DEF Load
<1>2. \A c \in Clients : clone'[c] = None
  BY DEF Load, OwnInv
<1>3. CASE document' = None
  <2>1. proc' = "failed"
    BY <1>3 DEF Load
  <2>2. author = "operator"
    <3>. SUFFICES ASSUME author = "daemon" PROVE FALSE
      BY DEF OwnInv
    <3>1. PICK d : Loadable(d) /\ file = SaveDocument(d)
      BY DEF OwnInv
    <3>2. d = None
      BY <1>1, <1>3, <3>1, RoundTrip
    <3>. QED BY <3>1, <3>2, NoneAssumption DEF Loadable
  <2>. QED BY <1>1, <1>2, <1>3, <2>1, <2>2 DEF OwnInv
<1>4. CASE document' # None
  <2>1. proc' = "running"
    BY <1>4 DEF Load
  <2>2. CASE author = "operator"
    <3>1. file \in HandWritten
      BY <1>1, <2>2 DEF OwnInv
    <3>2. Loadable(document')
      BY <1>1, <1>4, <3>1, ParseType
    <3>. QED BY <1>1, <1>2, <2>1, <2>2, <3>2 DEF OwnInv
  <2>3. CASE author = "daemon"
    <3>1. PICK d : Loadable(d) /\ file = SaveDocument(d)
      BY <2>3 DEF OwnInv
    <3>2. document' = d
      BY <1>1, <3>1, RoundTrip
    <3>. QED BY <1>1, <1>2, <2>1, <2>3, <3>1, <3>2 DEF OwnInv
  <2>. QED BY <2>2, <2>3 DEF OwnInv
<1>. QED BY <1>3, <1>4

\* A request that reads the document, submits its edit, or is refused.
LEMMA RequestOwn ==
    ASSUME OwnInv,
           \/ \E c \in Clients : GetConfigDocument(c) \/ MutateDocument(c) \/ PutLegacy(c)
           \/ PutProfiles
    PROVE  OwnInv'
<1>1. ASSUME Loadable(document'), file' = SaveDocument(document'), author' = "daemon",
             proc' = "running", clone' \in [Clients -> Document \union {None}],
             \A c \in Clients : clone'[c] # None => Loadable(clone'[c])
      PROVE  OwnInv'
  BY <1>1, RoundTrip DEF OwnInv
<1>2. ASSUME Refused, proc' = proc, clone' \in [Clients -> Document \union {None}],
             \A c \in Clients : clone'[c] # None => Loadable(clone'[c]) /\ proc = "running"
      PROVE  OwnInv'
  BY <1>2 DEF OwnInv, Refused
<1>3. ASSUME NEW c \in Clients, GetConfigDocument(c) PROVE OwnInv'
  <2>1. Loadable(document) /\ proc = "running" /\ clone' = [clone EXCEPT ![c] = document]
    BY <1>3 DEF GetConfigDocument, OwnInv
  <2>2. /\ clone' \in [Clients -> Document \union {None}]
        /\ \A x \in Clients : clone'[x] # None => Loadable(clone'[x]) /\ proc = "running"
    BY <2>1 DEF OwnInv, Loadable
  <2>. QED BY <1>2, <1>3, <2>2 DEF GetConfigDocument, Refused
<1>4. ASSUME NEW c \in Clients, MutateDocument(c) \/ PutLegacy(c) PROVE OwnInv'
  <2>1. clone[c] # None /\ clone' = [clone EXCEPT ![c] = None] /\ proc' = proc
    BY <1>4, EditStores
  <2>2. /\ proc = "running" /\ clone' \in [Clients -> Document \union {None}]
        /\ \A x \in Clients : clone'[x] # None => Loadable(clone'[x]) /\ proc = "running"
    BY <2>1 DEF OwnInv
  <2>. QED BY <1>1, <1>2, <1>4, <2>1, <2>2, EditStores
<1>5. CASE PutProfiles
  <2>1. /\ clone' \in [Clients -> Document \union {None}]
        /\ \A x \in Clients : clone'[x] # None => Loadable(clone'[x]) /\ proc = "running"
    BY <1>5, ProfilesStore DEF OwnInv
  <2>. QED BY <1>1, <1>2, <1>5, <2>1, ProfilesStore
<1>. QED BY <1>3, <1>4, <1>5

\* Every boot, request, exit and edit keeps what is written loadable.
LEMMA NextOwn == ASSUME OwnInv, [Next]_vars PROVE OwnInv'
<1>1. CASE Create
  <2>1. \A c \in Clients : clone'[c] = None
    BY <1>1 DEF Create, OwnInv
  <2>. QED BY <1>1, <2>1, Default, RoundTrip DEF Create, OwnInv
<1>2. CASE Load
  BY <1>2, LoadOwn
<1>3. CASE Exit
  BY <1>3 DEF Exit, OwnInv
<1>4. CASE HandEdit
  BY <1>4 DEF HandEdit, OwnInv
<1>5. CASE UNCHANGED vars
  BY <1>5 DEF vars, OwnInv
<1>. QED BY <1>1, <1>2, <1>3, <1>4, <1>5, RequestOwn DEF Next

\* The invariant.
LEMMA AlwaysOwn == Spec => []OwnInv
  BY InitOwn, NextOwn, PTL DEF Spec

\* A document in memory has its defaults filled in, and what the daemon itself
\* writes leaves out nothing (applyDefaults, SaveDocument).
THEOREM DocumentTypes == Spec => []TypeOK
<1>1. ASSUME OwnInv PROVE TypeOK
  <2>1. file # None /\ author = "daemon" => file.enabled \in BOOLEAN /\ file.port \notin {None, 0}
    BY <1>1, RoundTrip DEF OwnInv
  <2>. QED BY <1>1, <2>1 DEF OwnInv, TypeOK, Loadable
<1>. QED BY <1>1, AlwaysOwn, PTL

\* A restart loads exactly the document that was running, in whichever format it
\* was saved and whatever the file it came from left out (LoadDocument, SaveDocument).
THEOREM RestartsKeepDocument == Spec => []RestartKeepsDocument
<1>1. OwnInv => RestartKeepsDocument
  BY DEF OwnInv, RestartKeepsDocument
<1>. QED BY <1>1, AlwaysOwn, PTL

\* The daemon never writes a file that it then refuses to boot from.
THEOREM OwnFilesAlwaysBoot == Spec => []OwnFilesBoot
<1>1. OwnInv => OwnFilesBoot
  BY DEF OwnInv, OwnFilesBoot
<1>. QED BY <1>1, AlwaysOwn, PTL

\* Up, Down and a legacy PUT submit the copy they have read in its shape: they
\* edit the switch, the port and the active content only (mutateDocument,
\* parseLegacyUpdateDocument).
THEOREM EditsAlwaysKeepShape == Spec => EditsKeepShape
<1>1. ASSUME OwnInv, [Next]_vars, NEW c \in Clients, MutateDocument(c) \/ PutLegacy(c)
      PROVE  UNCHANGED document \/ SameShape(document', clone[c])
  BY <1>1, EditStores DEF Refused
<1>2. OwnInv /\ [Next]_vars =>
        [\A c \in Clients : MutateDocument(c) \/ PutLegacy(c) =>
            UNCHANGED document \/ SameShape(document', clone[c])]_vars
  BY <1>1
<1>. QED BY <1>2, AlwaysOwn, PTL DEF Spec, EditsKeepShape

\* Once the file holds the profiles format, no request that reads the document
\* later brings the legacy one back, whatever the order in which they are
\* submitted (SaveDocument's shouldSaveLegacy).
THEOREM NeverBackWithoutStaleClone == Spec => OnlyStaleClonesGoBack
<1>1. ASSUME OwnInv, [Next]_vars, proc = "running", file.kind = "profiles",
             file'.kind = "legacy"
      PROVE  \E c \in Clients :
                clone[c] # None /\ clone[c].format = "legacy" /\ clone'[c] = None
  <2>1. Loadable(document') /\ file' = SaveDocument(document') =>
            (document'.format = "profiles" => file'.kind = "profiles")
    BY RoundTrip
  <2>2. file' # file
    BY <1>1
  <2>3. ~PutProfiles
    BY <1>1, <2>1, <2>2, ProfilesStore DEF Refused
  <2>4. PICK c \in Clients : MutateDocument(c) \/ PutLegacy(c)
    BY <1>1, <2>2, <2>3 DEF Next, Create, Load, Exit, HandEdit, GetConfigDocument, vars
  <2>5. /\ clone[c] # None /\ clone' = [clone EXCEPT ![c] = None]
        /\ Loadable(document') /\ SameShape(document', clone[c])
        /\ file' = SaveDocument(document')
    BY <1>1, <2>2, <2>4, EditStores DEF Refused
  <2>6. clone[c].format \in {"legacy", "profiles"} /\ clone'[c] = None
    BY <1>1, <2>4, <2>5 DEF OwnInv, Loadable, Document
  <2>7. clone[c].format = "legacy"
    BY <1>1, <2>1, <2>5, <2>6 DEF SameShape
  <2>. QED BY <2>5, <2>6, <2>7
<1>2. OwnInv /\ [Next]_vars =>
        [proc = "running" /\ file.kind = "profiles" /\ file'.kind = "legacy" =>
            \E c \in Clients :
                clone[c] # None /\ clone[c].format = "legacy" /\ clone'[c] = None]_vars
  BY <1>1
<1>. QED BY <1>2, AlwaysOwn, PTL DEF Spec, OnlyStaleClonesGoBack
=============================================================================
