-------------------------- MODULE ConfigStoreProofs -------------------------
(***************************************************************************)
(* The copies of the configuration agree, and a pushed topic prefix waits  *)
(* for the restart, whatever documents are pushed, posted, edited and      *)
(* enrolled, in any order, and whichever write or load fails.              *)
(***************************************************************************)
EXTENDS ConfigStore, TLAPS

\* What is held live is a prefix the node can speak under.
HeldIsUsable == held => live.prefix \notin {"absent", "number", "long"}

\* Until something moves the prefix, the file's is the one a save would write.
FilePrefixKnown == ~moved => Parsed(file).prefix = DiskDoc.prefix

ConfigInv ==
  /\ TypeOK
  /\ CopiesAgree
  /\ HeldIsUsable
  /\ FilePrefixKnown
  /\ PrefixDeferred

-----------------------------------------------------------------------------
(* The operators of Config.                                                   *)

LEMMA ParsedType ==
  ASSUME NEW f \in Docs \cup {Garbage} PROVE Parsed(f) \in Docs
BY DEF Parsed, Docs, EmptyDoc, Prefixes

LEMMA DocNotGarbage ==
  ASSUME NEW doc \in Docs PROVE Parsed(doc) = doc
<1>1. doc.other # "garbage"
  BY DEF Docs
<1>2. Garbage.other = "garbage"
  BY DEF Garbage, EmptyDoc
<1>3. QED
  BY <1>1, <1>2 DEF Parsed

LEMMA DiskDocType ==
  ASSUME TypeOK PROVE DiskDoc \in Docs
BY DEF TypeOK, DiskDoc, Docs

\* What a call leaves behind: a document, the hold, and the document a save
\* would write.
Left(c) == IF c.held THEN [c.doc EXCEPT !.prefix = c.onDisk] ELSE c.doc

\* Letting go of a hold, as a load does: a save writes the document as it is.
LEMMA LooseLeaves ==
  ASSUME NEW doc \in Docs
  PROVE  /\ Loose(doc).doc = doc /\ Loose(doc).held = FALSE
         /\ Loose(doc).onDisk = "absent"
         /\ Left(Loose(doc)) = doc
BY DEF Loose, Left

\* Holding a prefix changes what is live and nothing of what a save writes.
LEMMA HoldLeaves ==
  ASSUME NEW doc \in Docs, NEW p \in Prefixes
  PROVE  LET c == Hold(Loose(doc), p)
         IN /\ c.doc \in Docs /\ c.held \in BOOLEAN
            /\ c.onDisk \in Prefixes \ {"number", "long"}
            /\ Left(c) = doc
            /\ c.held => c.doc.prefix = p /\ p # "long"
            /\ ~c.held => c.doc = doc
            /\ doc.prefix \notin {"number", "long"} /\ p # "long" => c.held
            /\ c.doc.web = doc.web
<1> DEFINE c == Hold(Loose(doc), p)
<1>1. CASE doc.prefix \in {"number", "long"} \/ p = "long"
  <2>1. c = Loose(doc)
    BY <1>1 DEF Hold, Loose
  <2>2. QED
    BY <1>1, <2>1, LooseLeaves DEF Prefixes
<1>2. CASE ~(doc.prefix \in {"number", "long"} \/ p = "long")
  <2>1. c = [doc |-> [doc EXCEPT !.prefix = p], held |-> TRUE, onDisk |-> doc.prefix]
    BY <1>2 DEF Hold, Loose
  <2>2. doc.prefix \in Prefixes
    BY DEF Docs
  <2>3. [doc EXCEPT !.prefix = p] \in Docs
    BY DEF Docs
  <2>4. [[doc EXCEPT !.prefix = p] EXCEPT !.prefix = doc.prefix] = doc
    BY DEF Docs
  <2>5. [doc EXCEPT !.prefix = p].prefix = p /\ [doc EXCEPT !.prefix = p].web = doc.web
    BY DEF Docs
  <2>6. /\ c.doc = [doc EXCEPT !.prefix = p] /\ c.held = TRUE
        /\ c.onDisk = doc.prefix
    BY <2>1
  <2>7. Left(c) = doc
    BY <2>4, <2>6 DEF Left
  <2> HIDE DEF c
  <2>8. QED
    BY <1>2, <2>2, <2>3, <2>5, <2>6, <2>7 DEF c
<1>3. QED
  BY <1>1, <1>2

LEMMA EditType ==
  ASSUME NEW doc \in Docs, NEW e \in Sets
  PROVE  /\ Edit(doc, e.key, e.value) \in Docs
         /\ ~NamesPrefix(e.key) => Edit(doc, e.key, e.value).prefix = doc.prefix
<1>1. CASE e \in [key : {"mqtt"}, value : {"absent"}]
  BY <1>1 DEF Edit, NamesPrefix, Docs, Prefixes
<1>2. CASE e \in [key : {"prefix"}, value : Prefixes]
  BY <1>2 DEF Edit, NamesPrefix, Docs
<1>3. CASE e \in [key : {"broker"}, value : {"absent", "b", "c"}]
  BY <1>3 DEF Edit, NamesPrefix, Docs
<1>4. CASE e \in [key : {"web"}, value : {"absent", "u", "v"}]
  BY <1>4 DEF Edit, NamesPrefix, Docs
<1>5. CASE e \in [key : {"other"}, value : {"absent", "x", "y"}]
  BY <1>5 DEF Edit, NamesPrefix, Docs
<1>6. QED
  BY <1>1, <1>2, <1>3, <1>4, <1>5, DocAssumption

-----------------------------------------------------------------------------
(* A rebuilt document.                                                        *)

\* A prefix that can be held live.
Usable == Prefixes \ {"absent", "number", "long"}

\* What a command, a push or a load makes of the document it is given.
Rebuilt(doc) == {Loose(doc)} \cup {Hold(Loose(doc), p) : p \in Usable}

\* Whatever rebuilds the document, it ends well typed, is what HTTP handlers
\* see, and is saved as it was given.
LEMMA RebuiltKeeps ==
  ASSUME NEW doc \in Docs, NEW c \in Rebuilt(doc), Becomes(c)
  PROVE  /\ live' \in Docs /\ held' \in BOOLEAN
         /\ onDisk' \in Prefixes \ {"number", "long"}
         /\ snap' \in {"absent", "u", "v"} /\ snap' = Snapshot(live')
         /\ DiskDoc' = doc
         /\ HeldIsUsable'
<1>1. /\ c.doc \in Docs /\ c.held \in BOOLEAN
      /\ c.onDisk \in Prefixes \ {"number", "long"}
      /\ Left(c) = doc
      /\ c.held => c.doc.prefix \in Usable
  <2>1. CASE c = Loose(doc)
    BY <2>1, LooseLeaves DEF Prefixes
  <2>2. ASSUME NEW p \in Usable, c = Hold(Loose(doc), p) PROVE <1>1!:
    BY <2>2, HoldLeaves DEF Usable
  <2>3. QED
    BY <2>1, <2>2 DEF Rebuilt
<1>2. live' = c.doc /\ held' = c.held /\ onDisk' = c.onDisk /\ snap' = c.doc.web
  BY DEF Becomes, Snapshot
<1>3. DiskDoc' = Left(c)
  BY <1>2 DEF DiskDoc, Left
<1>4. c.doc.web \in {"absent", "u", "v"}
  BY <1>1 DEF Docs
<1>5. QED
  BY <1>1, <1>2, <1>3, <1>4 DEF Snapshot, HeldIsUsable, Usable

LEMMA EffectiveType ==
  ASSUME NEW p \in Prefixes
  PROVE  /\ Effective(p) \in Prefixes \ {"absent", "number"}
         /\ Effective(Effective(p)) = Effective(p)
         /\ Effective(p) # "long" => Effective(p) \in Usable
BY DEF Effective, Prefixes, Usable

LEMMA ConfigInit == Init => ConfigInv
<1> SUFFICES ASSUME Init PROVE ConfigInv
  OBVIOUS
<1>1. Start \in Docs /\ Parsed(Start) = Start
  <2>1. Start \in Docs
    BY DEF Start, Docs, Prefixes
  <2>2. QED
    BY <2>1, DocNotGarbage
<1>2. TypeOK
  BY <1>1 DEF Init, TypeOK, Prefixes
<1>3. CopiesAgree
  BY <1>1 DEF Init, CopiesAgree, SameBesideConnection, DiskDoc, Snapshot, Start
<1>4. QED
  BY <1>1, <1>2, <1>3
     DEF Init, ConfigInv, HeldIsUsable, FilePrefixKnown, PrefixDeferred, DiskDoc,
         Effective, Start

-----------------------------------------------------------------------------
(* One lemma per operation, or per pair that differ in a key.                 *)

\* A load hands back the file, or what it was given, with no hold.
LEMMA LoadGives ==
  ASSUME NEW f \in Docs \cup {Garbage}, NEW doc \in Docs, NEW opened \in BOOLEAN
  PROVE  /\ opened => Load(f, opened, doc) = Loose(Parsed(f))
         /\ ~opened => Load(f, opened, doc) = Loose(doc)
         /\ Load(f, opened, doc).held = FALSE
         /\ Parsed(f) \in Docs
BY ParsedType, LooseLeaves DEF Load

\* A copy that agrees with itself, and one that agrees with what a save writes.
LEMMA SameIsSame ==
  ASSUME NEW a, NEW b, a = b PROVE SameBesideConnection(a, b)
BY DEF SameBesideConnection

\* The prefix of a document a push or a failed write leaves live.
LEMMA ApplyKeeps ==
  ASSUME ConfigInv, NEW landed \in BOOLEAN, NEW opened \in BOOLEAN,
         Apply(landed, opened)
  PROVE  ConfigInv'
<1> USE DEF ConfigInv
<1>t. live.prefix \in Prefixes /\ file \in Docs \cup {Garbage} /\ moved \in BOOLEAN
  BY DEF TypeOK, Docs
<1>1. PICK doc \in staged :
        IF Refused(doc) THEN UNCHANGED <<file, live, holdVars, snap, history>>
        ELSE /\ Write(doc, landed)
             /\ Becomes(IF landed THEN Replaced(doc) ELSE NotReplaced(doc, opened))
             /\ ahead' = ~(landed \/ opened) /\ unsaved' = FALSE
             /\ moved' = (moved \/ ahead')
  BY DEF Apply
<1>2. doc \in Docs /\ doc.prefix \in Prefixes
  BY DocAssumption DEF TypeOK, Docs
<1>3. staged' = {} /\ subscribed' = subscribed
  BY DEF Apply
<1>h. held => live.prefix \in Usable
  BY <1>t DEF HeldIsUsable, Usable
<1>4. CASE Refused(doc)
  BY <1>1, <1>3, <1>4
     DEF TypeOK, holdVars, history, CopiesAgree, HeldIsUsable, FilePrefixKnown,
         PrefixDeferred, DiskDoc
<1>5. CASE ~Refused(doc) /\ landed
  <2> DEFINE was == Effective(live.prefix)
             c   == Replaced(doc)
  <2>1. was \in Usable /\ Effective(was) = was
    BY <1>5, <1>t, EffectiveType DEF Refused
  <2>2. c \in Rebuilt(doc)
    BY <2>1 DEF Replaced, Rebuilt
  <2>3. /\ file' = doc /\ Becomes(c) /\ ahead' = FALSE /\ unsaved' = FALSE
        /\ moved' = moved
    BY <1>1, <1>5, <1>t DEF Write
  <2>4. Effective(c.doc.prefix) = was
    <3>1. CASE Effective(doc.prefix) # was
      <4>1. c = Hold(Loose(doc), was) /\ doc.prefix \notin {"number", "long"}
        BY <1>5, <3>1 DEF Replaced, Refused
      <4>2. c.held /\ c.doc.prefix = was
        BY <1>2, <2>1, <4>1, HoldLeaves DEF Usable
      <4>3. QED
        BY <2>1, <4>2
    <3>2. CASE Effective(doc.prefix) = was
      BY <1>2, <3>2, LooseLeaves DEF Replaced
    <3>3. QED
      BY <3>1, <3>2
  <2>5. live' = c.doc
    BY <2>3 DEF Becomes
  <2>6. Parsed(doc) = doc
    BY <1>2, DocNotGarbage
  <2> HIDE DEF c, was
  <2>7. /\ live' \in Docs /\ held' \in BOOLEAN
        /\ onDisk' \in Prefixes \ {"number", "long"}
        /\ snap' \in {"absent", "u", "v"} /\ snap' = Snapshot(live')
        /\ DiskDoc' = doc /\ HeldIsUsable'
    BY <1>2, <2>2, <2>3, RebuiltKeeps
  <2>8. ~moved => Effective(live'.prefix) = subscribed
    BY <2>4, <2>5 DEF PrefixDeferred, was
  <2>9. QED
    BY <1>2, <1>3, <1>t, <2>3, <2>6, <2>7, <2>8
       DEF TypeOK, CopiesAgree, SameBesideConnection, FilePrefixKnown, PrefixDeferred
<1>6. CASE ~Refused(doc) /\ ~landed /\ opened
  <2> DEFINE c == NotReplaced(doc, opened)
             f == Parsed(file)
  <2>2. Load(file, opened, doc) = Loose(f) /\ f \in Docs
    BY <1>2, <1>6, <1>t, LoadGives
  <2>4. c \in Rebuilt(f)
    BY <2>2, <1>h DEF NotReplaced, Rebuilt
  <2>5. /\ file' = file /\ Becomes(c) /\ ahead' = FALSE /\ unsaved' = FALSE
        /\ moved' = moved
    BY <1>1, <1>6, <1>t DEF Write
  <2>6. ~moved => c.doc.prefix = live.prefix
    <3> SUFFICES ASSUME ~moved PROVE c.doc.prefix = live.prefix
      OBVIOUS
    <3>1. f.prefix = DiskDoc.prefix
      BY DEF FilePrefixKnown
    <3>2. CASE held
      <4>1. DiskDoc.prefix = onDisk
        BY <3>2 DEF DiskDoc, TypeOK, Docs
      <4>2. f.prefix \notin {"number", "long"}
        BY <3>1, <4>1 DEF TypeOK
      <4>3. c = Hold(Loose(f), live.prefix)
        BY <2>2, <3>2 DEF NotReplaced
      <4>4. QED
        BY <1>t, <1>h, <2>2, <3>2, <4>2, <4>3, HoldLeaves DEF Usable
    <3>3. CASE ~held
      BY <2>2, <3>1, <3>3, LooseLeaves DEF NotReplaced, DiskDoc
    <3>4. QED
      BY <3>2, <3>3
  <2>7. live' = c.doc
    BY <2>5 DEF Becomes
  <2> HIDE DEF c, f
  <2>8. /\ live' \in Docs /\ held' \in BOOLEAN
        /\ onDisk' \in Prefixes \ {"number", "long"}
        /\ snap' \in {"absent", "u", "v"} /\ snap' = Snapshot(live')
        /\ DiskDoc' = f /\ HeldIsUsable'
    BY <2>2, <2>4, <2>5, RebuiltKeeps
  <2>9. Parsed(file)' = f
    BY <2>5 DEF f, Parsed
  <2>10. QED
    BY <1>t, <1>3, <2>5, <2>6, <2>7, <2>8, <2>9
       DEF TypeOK, CopiesAgree, SameBesideConnection, FilePrefixKnown, PrefixDeferred
<1>7. CASE ~Refused(doc) /\ ~landed /\ ~opened
  <2> DEFINE c == NotReplaced(doc, opened)
  <2>1. Load(file, opened, doc) = Loose(doc)
    BY <1>2, <1>7, <1>t, LoadGives
  <2>2. c \in Rebuilt(doc)
    BY <2>1, <1>h DEF NotReplaced, Rebuilt
  <2>3. /\ file' = file /\ Becomes(c) /\ ahead' = TRUE /\ unsaved' = FALSE
        /\ moved' = TRUE
    BY <1>1, <1>7, <1>t DEF Write
  <2> HIDE DEF c
  <2>4. /\ live' \in Docs /\ held' \in BOOLEAN
        /\ onDisk' \in Prefixes \ {"number", "long"}
        /\ snap' \in {"absent", "u", "v"} /\ snap' = Snapshot(live') /\ HeldIsUsable'
    BY <1>2, <2>2, <2>3, RebuiltKeeps
  <2>5. QED
    BY <1>t, <1>3, <2>3, <2>4
       DEF TypeOK, CopiesAgree, FilePrefixKnown, PrefixDeferred
<1>8. QED
  BY <1>4, <1>5, <1>6, <1>7

LEMMA ConfigSetKeeps ==
  ASSUME ConfigInv, NEW e \in Sets, NEW landed \in BOOLEAN, NEW opened \in BOOLEAN,
         ConfigSet(e.key, e.value, landed, opened)
  PROVE  ConfigInv'
<1> USE DEF ConfigInv
<1> DEFINE key == e.key
           doc == Edit(file, key, e.value)
           c   == Reloaded(doc, key, opened)
<1>t. live \in Docs /\ live.prefix \in Prefixes /\ moved \in BOOLEAN
  BY DEF TypeOK, Docs
<1>1. /\ file # Garbage /\ Write(doc, landed)
      /\ IF landed THEN Becomes(c) /\ ahead' = ~opened /\ unsaved' = FALSE
                   ELSE UNCHANGED <<live, holdVars, snap, ahead, unsaved>>
      /\ moved' = (moved \/ (landed /\ (NamesPrefix(key) \/ (held /\ ~opened))))
      /\ UNCHANGED <<staged, subscribed>>
  BY DEF ConfigSet
<1>2. file \in Docs /\ Parsed(file) = file
  BY <1>1, DocNotGarbage DEF TypeOK
<1>3. /\ doc \in Docs /\ Parsed(doc) = doc
      /\ ~NamesPrefix(key) => doc.prefix = file.prefix
  BY <1>2, EditType, DocNotGarbage
<1>h. held => live.prefix \in Usable
  BY <1>t DEF HeldIsUsable, Usable
<1>k. ~held => DiskDoc = live
  BY DEF DiskDoc
<1>4. CASE ~landed
  <2>1. file' = file /\ moved' = moved
    BY <1>1, <1>4, <1>t DEF Write
  <2>2. QED
    BY <1>1, <1>4, <2>1
       DEF TypeOK, holdVars, CopiesAgree, HeldIsUsable, FilePrefixKnown, PrefixDeferred,
           DiskDoc
<1>5. CASE landed /\ opened
  <2>1. file' = doc /\ Becomes(c) /\ ahead' = FALSE /\ unsaved' = FALSE
    BY <1>1, <1>5 DEF Write
  <2>2. Load(doc, opened, live) = Loose(doc)
    BY <1>3, <1>5 DEF Load
  <2>4. c \in Rebuilt(doc)
    BY <2>2, <1>h DEF Reloaded, Rebuilt
  <2>5. ~moved' => ~moved /\ c.doc.prefix = live.prefix
    <3> SUFFICES ASSUME ~moved' PROVE ~moved /\ c.doc.prefix = live.prefix
      OBVIOUS
    <3>1. ~moved /\ ~NamesPrefix(key)
      BY <1>1, <1>5
    <3>2. doc.prefix = DiskDoc.prefix
      BY <1>2, <1>3, <3>1 DEF FilePrefixKnown
    <3>3. CASE held
      <4>1. DiskDoc.prefix = onDisk
        BY <3>3 DEF DiskDoc, TypeOK, Docs
      <4>2. doc.prefix \notin {"number", "long"}
        BY <3>2, <4>1 DEF TypeOK
      <4>3. c = Hold(Loose(doc), live.prefix)
        BY <2>2, <3>1, <3>3 DEF Reloaded
      <4>4. QED
        BY <1>t, <1>3, <1>h, <3>1, <3>3, <4>2, <4>3, HoldLeaves DEF Usable
    <3>4. CASE ~held
      <4>1. c = Loose(doc)
        BY <2>2, <3>4 DEF Reloaded
      <4>2. QED
        BY <1>3, <1>k, <3>1, <3>2, <3>4, <4>1, LooseLeaves
    <3>5. QED
      BY <3>3, <3>4
  <2>6. live' = c.doc
    BY <2>1 DEF Becomes
  <2> HIDE DEF c, doc
  <2>7. /\ live' \in Docs /\ held' \in BOOLEAN
        /\ onDisk' \in Prefixes \ {"number", "long"}
        /\ snap' \in {"absent", "u", "v"} /\ snap' = Snapshot(live')
        /\ DiskDoc' = doc /\ HeldIsUsable'
    BY <1>3, <2>1, <2>4, RebuiltKeeps
  <2>8. moved' \in BOOLEAN
    BY <1>1
  <2>9. QED
    BY <1>1, <1>3, <2>1, <2>5, <2>6, <2>7, <2>8
       DEF TypeOK, CopiesAgree, SameBesideConnection, FilePrefixKnown, PrefixDeferred
<1>6. CASE landed /\ ~opened
  <2>1. file' = doc /\ Becomes(c) /\ ahead' = TRUE /\ unsaved' = FALSE
    BY <1>1, <1>6 DEF Write
  <2>2. Load(doc, opened, live) = Loose(live)
    BY <1>6 DEF Load
  <2>3. c \in Rebuilt(live)
    BY <2>2, <1>h DEF Reloaded, Rebuilt
  <2>4. ~moved' => ~moved /\ ~held /\ ~NamesPrefix(key)
    BY <1>1, <1>6
  <2>5. ~held => live' = live
    <3> SUFFICES ASSUME ~held PROVE live' = live
      OBVIOUS
    <3>1. c = Loose(live)
      BY <2>2 DEF Reloaded
    <3>2. QED
      BY <1>t, <2>1, <3>1, LooseLeaves DEF Becomes
  <2> HIDE DEF c, doc
  <2>6. /\ live' \in Docs /\ held' \in BOOLEAN
        /\ onDisk' \in Prefixes \ {"number", "long"}
        /\ snap' \in {"absent", "u", "v"} /\ snap' = Snapshot(live')
        /\ DiskDoc' = live /\ HeldIsUsable'
    BY <1>t, <2>1, <2>3, RebuiltKeeps
  <2>7. moved' \in BOOLEAN
    BY <1>1
  <2>8. QED
    BY <1>1, <1>2, <1>3, <1>k, <2>1, <2>4, <2>5, <2>6, <2>7
       DEF TypeOK, CopiesAgree, FilePrefixKnown, PrefixDeferred
<1>7. QED
  BY <1>4, <1>5, <1>6

\* A save writes DiskDoc, so the file agrees with it and its prefix is known.
LEMMA ConfigSaveKeeps ==
  ASSUME ConfigInv, NEW landed \in BOOLEAN, ConfigSave(landed)
  PROVE  ConfigInv'
<1> USE DEF ConfigInv
<1>1. /\ DiskDoc' = DiskDoc /\ DiskDoc \in Docs
      /\ Parsed(DiskDoc) = DiskDoc
  BY DiskDocType, DocNotGarbage DEF ConfigSave, holdVars, DiskDoc
<1>2. CASE landed
  BY <1>1, <1>2
     DEF ConfigSave, Write, holdVars, TypeOK, CopiesAgree, SameBesideConnection,
         HeldIsUsable, FilePrefixKnown, PrefixDeferred
<1>3. CASE ~landed
  <2>1. file' = file /\ ahead' = ahead /\ unsaved' = unsaved
    BY <1>3 DEF ConfigSave, Write, TypeOK
  <2>2. QED
    BY <1>1, <2>1
       DEF ConfigSave, holdVars, TypeOK, CopiesAgree, HeldIsUsable, FilePrefixKnown,
           PrefixDeferred
<1>4. QED
  BY <1>2, <1>3

\* What a load, a restart or a portal leaves: a document with no hold.
LEMMA LooseKeeps ==
  ASSUME NEW doc \in Docs, Becomes(Loose(doc))
  PROVE  /\ live' \in Docs /\ live' = doc
         /\ held' = FALSE /\ onDisk' = "absent"
         /\ onDisk' \in Prefixes \ {"number", "long"}
         /\ snap' \in {"absent", "u", "v"} /\ snap' = Snapshot(live')
         /\ DiskDoc' = doc /\ HeldIsUsable'
<1>1. Loose(doc) \in Rebuilt(doc)
  BY DEF Rebuilt
<1>2. live' = doc /\ held' = FALSE /\ onDisk' = "absent"
  BY LooseLeaves DEF Becomes
<1>3. QED
  BY <1>1, <1>2, RebuiltKeeps

\* A document a save would write differs from the live one in its prefix alone.
LEMMA LiveBesideDisk ==
  ASSUME TypeOK PROVE DiskDoc.web = live.web /\ DiskDoc.other = live.other
BY DEF TypeOK, DiskDoc, Docs

LEMMA ReloadKeeps ==
  ASSUME ConfigInv, NEW opened \in BOOLEAN, ConfigReload(opened)
  PROVE  ConfigInv'
<1> USE DEF ConfigInv
<1>t. file \in Docs \cup {Garbage} /\ live \in Docs /\ moved \in BOOLEAN
  BY DEF TypeOK
<1>1. /\ Becomes(Load(file, opened, live)) /\ UNCHANGED <<file, staged>>
      /\ ahead' = (ahead /\ ~opened) /\ unsaved' = (~opened /\ (unsaved \/ held))
  BY DEF ConfigReload
<1>2. CASE opened
  <2> DEFINE f == Parsed(file)
  <2>1. Load(file, opened, live) = Loose(f) /\ f \in Docs
    BY <1>t, <1>2, LoadGives
  <2>2. Parsed(file)' = f
    BY <1>1 DEF Parsed
  <2> HIDE DEF f
  <2>3. /\ live' \in Docs /\ live' = f
        /\ held' = FALSE /\ onDisk' \in Prefixes \ {"number", "long"}
        /\ snap' \in {"absent", "u", "v"} /\ snap' = Snapshot(live')
        /\ DiskDoc' = f /\ HeldIsUsable'
    BY <1>1, <2>1, LooseKeeps
  <2>4. \/ subscribed' = Effective(f.prefix) /\ moved' = FALSE
        \/ /\ subscribed' = subscribed /\ moved' = moved
           /\ Effective(f.prefix) = Effective(live.prefix)
    BY <1>t, <1>2, <2>3 DEF ConfigReload
  <2>5. Effective(f.prefix) \in Prefixes \ {"absent", "number"}
    BY <2>1, EffectiveType DEF Docs
  <2>6. TypeOK'
    BY <1>1, <1>2, <2>3, <2>4, <2>5 DEF TypeOK
  <2>7. QED
    BY <1>1, <1>2, <2>2, <2>3, <2>4, <2>6
       DEF CopiesAgree, SameBesideConnection, FilePrefixKnown, PrefixDeferred
<1>3. CASE ~opened
  <2>1. Load(file, opened, live) = Loose(live)
    BY <1>3 DEF Load
  <2>2. /\ live' = live
        /\ held' = FALSE /\ onDisk' \in Prefixes \ {"number", "long"}
        /\ snap' \in {"absent", "u", "v"} /\ snap' = Snapshot(live')
        /\ DiskDoc' = live /\ HeldIsUsable'
    BY <1>t, <1>1, <2>1, LooseKeeps
  <2>3. subscribed' = subscribed /\ moved' = (moved \/ held)
    BY <1>3, <2>2 DEF ConfigReload
  <2>4. ahead' = ahead /\ unsaved' = (unsaved \/ held)
    BY <1>1, <1>3 DEF TypeOK
  <2>5. ~held => DiskDoc = live
    BY DEF DiskDoc
  <2>6. Parsed(file)' = Parsed(file)
    BY <1>1 DEF Parsed
  <2>7. TypeOK'
    BY <1>1, <2>2, <2>3, <2>4 DEF TypeOK
  <2>8. CopiesAgree'
    <3>1. ~ahead' /\ ~unsaved' => Parsed(file)' = DiskDoc'
      BY <2>2, <2>4, <2>5, <2>6 DEF CopiesAgree
    <3>2. ~ahead' => SameBesideConnection(Parsed(file)', DiskDoc')
      BY <2>2, <2>4, <2>6, LiveBesideDisk DEF CopiesAgree, SameBesideConnection
    <3>3. QED
      BY <2>2, <3>1, <3>2 DEF CopiesAgree, SameBesideConnection
  <2>9. QED
    BY <2>2, <2>3, <2>5, <2>6, <2>7, <2>8 DEF FilePrefixKnown, PrefixDeferred
<1>4. QED
  BY <1>2, <1>3

\* The portal saves what DiskDoc says beside its own key, or falls back to the
\* file; the hold it loses that way may move the prefix.
LEMMA PortalSaveKeeps ==
  ASSUME ConfigInv, NEW landed \in BOOLEAN, NEW opened \in BOOLEAN,
         PortalSave(landed, opened)
  PROVE  ConfigInv'
<1> USE DEF ConfigInv
<1> DEFINE edited == [live EXCEPT !.other = "y"]
<1>e. /\ edited \in Docs /\ edited.prefix = live.prefix /\ edited.web = live.web
  BY DEF TypeOK, Docs
<1>1. CASE landed
  <2> DEFINE doc == [DiskDoc EXCEPT !.other = "y"]
  <2>1. /\ file' = doc /\ live' = edited
        /\ UNCHANGED <<held, onDisk, snap, moved, staged, subscribed>>
        /\ ahead' = FALSE /\ unsaved' = FALSE
    BY <1>1 DEF PortalSave, holdVars
  <2>2. doc \in Docs /\ Parsed(doc) = doc /\ doc.prefix = DiskDoc.prefix
    <3>1. doc \in Docs /\ doc.prefix = DiskDoc.prefix
      BY DiskDocType DEF Docs
    <3>2. QED
      BY <3>1, DocNotGarbage
  <2>4. DiskDoc' = doc
    <3>1. CASE held
      <4>1. DiskDoc' = [live' EXCEPT !.prefix = onDisk]
        BY <2>1, <3>1 DEF DiskDoc
      <4>2. DiskDoc = [live EXCEPT !.prefix = onDisk]
        BY <3>1 DEF DiskDoc
      <4>3. QED
        BY <2>1, <4>1, <4>2 DEF TypeOK, Docs
    <3>2. CASE ~held
      BY <2>1, <3>2 DEF DiskDoc
    <3>3. QED
      BY <3>1, <3>2
  <2> HIDE DEF doc, edited
  <2>5. QED
    BY <1>e, <2>1, <2>2, <2>4
       DEF TypeOK, CopiesAgree, SameBesideConnection, Snapshot, HeldIsUsable,
           FilePrefixKnown, PrefixDeferred
<1>2. CASE ~landed
  <2>1. /\ Becomes(Load(file, opened, edited)) /\ UNCHANGED file /\ ahead' = ~opened
        /\ unsaved' = FALSE /\ moved' = (moved \/ held) /\ UNCHANGED <<staged, subscribed>>
    BY <1>2 DEF PortalSave
  <2>2. Parsed(file)' = Parsed(file) /\ file \in Docs \cup {Garbage}
    BY <2>1 DEF Parsed, TypeOK
  <2>3. ~held => DiskDoc = live
    BY DEF DiskDoc
  <2>4. moved' \in BOOLEAN /\ ahead' \in BOOLEAN
    BY <2>1
  <2> HIDE DEF edited
  <2>5. CASE opened
    <3>1. Load(file, opened, edited) = Loose(Parsed(file)) /\ Parsed(file) \in Docs
      BY <1>e, <2>2, <2>5, LoadGives
    <3>2. /\ live' = Parsed(file) /\ live' \in Docs
          /\ held' = FALSE /\ onDisk' \in Prefixes \ {"number", "long"}
          /\ snap' \in {"absent", "u", "v"} /\ snap' = Snapshot(live')
          /\ DiskDoc' = Parsed(file) /\ HeldIsUsable'
      BY <2>1, <3>1, LooseKeeps
    <3>3. ~moved' => live'.prefix = live.prefix /\ ~moved
      BY <2>1, <2>3, <3>2 DEF FilePrefixKnown
    <3>4. QED
      BY <2>1, <2>2, <2>4, <3>2, <3>3
         DEF TypeOK, CopiesAgree, SameBesideConnection, FilePrefixKnown, PrefixDeferred
  <2>6. CASE ~opened
    <3>1. Load(file, opened, edited) = Loose(edited)
      BY <2>6 DEF Load
    <3>2. /\ live' = edited /\ live' \in Docs
          /\ held' = FALSE /\ onDisk' \in Prefixes \ {"number", "long"}
          /\ snap' \in {"absent", "u", "v"} /\ snap' = Snapshot(live')
          /\ DiskDoc' = edited /\ HeldIsUsable'
      BY <1>e, <2>1, <3>1, LooseKeeps
    <3>3. ~moved' => ~moved /\ DiskDoc'.prefix = DiskDoc.prefix
      BY <1>e, <2>1, <2>3, <3>2
    <3>4. QED
      BY <1>e, <2>1, <2>2, <2>4, <2>6, <3>2, <3>3
         DEF TypeOK, CopiesAgree, FilePrefixKnown, PrefixDeferred
  <2>7. QED
    BY <2>5, <2>6
<1>3. QED
  BY <1>1, <1>2

\* An enrollment edits connection keys alone, with no hold to lose.
LEMMA EnrollSaveKeeps ==
  ASSUME ConfigInv, NEW reply \in Replies, NEW landed \in BOOLEAN,
         EnrollSave(reply, landed)
  PROVE  ConfigInv'
<1> USE DEF ConfigInv
<1> DEFINE doc == [live EXCEPT !.prefix = reply.prefix, !.broker = reply.broker]
<1>1. reply.prefix \in Prefixes /\ reply.broker \in {"b", "c"}
  BY DocAssumption
<1>2. doc \in Docs /\ doc.web = live.web /\ doc.other = live.other
  BY <1>1 DEF TypeOK, Docs
<1>3. /\ ~held /\ live' = doc /\ file' = (IF landed THEN doc ELSE file)
      /\ ahead' = (ahead /\ ~landed) /\ unsaved' = ~landed /\ moved' = TRUE
      /\ UNCHANGED <<held, onDisk, staged, snap, subscribed>>
  BY DEF EnrollSave, Write, holdVars
<1>4. Parsed(doc) = doc
  BY <1>2, DocNotGarbage
<1> HIDE DEF doc
<1>5. DiskDoc = live /\ DiskDoc' = doc
  BY <1>3 DEF DiskDoc
<1>6. TypeOK'
  BY <1>2, <1>3 DEF TypeOK
<1>7. CASE landed
  BY <1>2, <1>3, <1>4, <1>5, <1>6, <1>7
     DEF CopiesAgree, SameBesideConnection, Snapshot, HeldIsUsable, FilePrefixKnown,
         PrefixDeferred
<1>8. CASE ~landed
  <2>1. Parsed(file)' = Parsed(file) /\ (ahead' = ahead) /\ unsaved' = TRUE
    BY <1>3, <1>8 DEF Parsed, TypeOK
  <2>2. QED
    BY <1>2, <1>3, <1>5, <1>6, <2>1
       DEF CopiesAgree, SameBesideConnection, Snapshot, HeldIsUsable, FilePrefixKnown,
           PrefixDeferred
<1>9. QED
  BY <1>7, <1>8

-----------------------------------------------------------------------------
(* Booting.                                                                   *)

\* A boot reads the hold off the document and subscribes under its prefix.
LEMMA BootKeeps ==
  ASSUME TypeOK, NEW doc \in Docs, BootsOnto(doc)
  PROVE  /\ live' = doc /\ live' \in Docs /\ DiskDoc' = doc
         /\ held' \in BOOLEAN /\ onDisk' \in Prefixes \ {"number", "long"}
         /\ snap' \in {"absent", "u", "v"} /\ snap' = Snapshot(live') /\ HeldIsUsable'
         /\ subscribed' = Effective(live'.prefix) /\ staged' = {}
         /\ subscribed' \in Prefixes \ {"absent", "number"}
<1>1. Becomes(Loose(doc)) /\ subscribed' = Effective(doc.prefix) /\ staged' = {}
  BY DEF BootsOnto
<1>2. Effective(doc.prefix) \in Prefixes \ {"absent", "number"}
  BY EffectiveType DEF Docs
<1>3. QED
  BY <1>1, <1>2, LooseKeeps

LEMMA ConfigRestartKeeps ==
  ASSUME ConfigInv, NEW opened \in BOOLEAN, Restart(opened)
  PROVE  ConfigInv'
<1> USE DEF ConfigInv
<1> DEFINE doc == Load(file, opened, EmptyDoc).doc
<1>1. /\ BootsOnto(doc) /\ ahead' = ~opened /\ unsaved' = FALSE /\ moved' = ~opened
      /\ file' = file
  BY DEF Restart
<1>2. EmptyDoc \in Docs /\ file \in Docs \cup {Garbage}
  BY DEF EmptyDoc, Docs, Prefixes, TypeOK
<1>3. doc \in Docs /\ (opened => doc = Parsed(file))
  BY <1>2, LoadGives, LooseLeaves
<1>4. Parsed(file)' = Parsed(file)
  BY <1>1 DEF Parsed
<1> HIDE DEF doc
<1>5. /\ live' = doc /\ live' \in Docs /\ DiskDoc' = doc
      /\ held' \in BOOLEAN /\ onDisk' \in Prefixes \ {"number", "long"}
      /\ snap' \in {"absent", "u", "v"} /\ snap' = Snapshot(live') /\ HeldIsUsable'
      /\ subscribed' = Effective(live'.prefix) /\ staged' = {}
      /\ subscribed' \in Prefixes \ {"absent", "number"}
  BY <1>1, <1>3, BootKeeps
<1>6. TypeOK'
  BY <1>1, <1>5 DEF TypeOK
<1>7. QED
  BY <1>1, <1>3, <1>4, <1>5, <1>6
     DEF CopiesAgree, SameBesideConnection, FilePrefixKnown, PrefixDeferred

\* A rollback changes the broker alone, so a failed save leaves the rest equal.
LEMMA RollBackKeeps ==
  ASSUME ConfigInv, NEW broker \in {"b", "c"}, NEW landed \in BOOLEAN,
         RollBack(broker, landed)
  PROVE  ConfigInv'
<1> USE DEF ConfigInv
<1> DEFINE f   == Parsed(file)
           doc == IF HasSection(f) THEN [f EXCEPT !.broker = broker] ELSE f
<1>1. /\ BootsOnto(doc) /\ file' = (IF landed THEN doc ELSE file)
      /\ ahead' = FALSE /\ unsaved' = ~landed /\ moved' = FALSE
  BY DEF RollBack, Write
<1>2. f \in Docs
  BY ParsedType DEF TypeOK
<1> HIDE DEF f
<1>3. /\ doc \in Docs /\ doc.prefix = f.prefix /\ doc.web = f.web
      /\ doc.other = f.other
  BY <1>2 DEF Docs
<1>4. Parsed(doc) = doc
  BY <1>3, DocNotGarbage
<1>5. Parsed(file)' = (IF landed THEN doc ELSE f)
  BY <1>1, <1>4 DEF f, Parsed
<1> HIDE DEF doc
<1>6. /\ live' = doc /\ live' \in Docs /\ DiskDoc' = doc
      /\ held' \in BOOLEAN /\ onDisk' \in Prefixes \ {"number", "long"}
      /\ snap' \in {"absent", "u", "v"} /\ snap' = Snapshot(live') /\ HeldIsUsable'
      /\ subscribed' = Effective(live'.prefix) /\ staged' = {}
      /\ subscribed' \in Prefixes \ {"absent", "number"}
  BY <1>1, <1>3, BootKeeps
<1>7. TypeOK'
  BY <1>1, <1>3, <1>6 DEF TypeOK
<1>8. QED
  BY <1>1, <1>3, <1>5, <1>6, <1>7
     DEF CopiesAgree, SameBesideConnection, FilePrefixKnown, PrefixDeferred

-----------------------------------------------------------------------------
(* Every step.                                                                *)

LEMMA ConfigNext == ConfigInv /\ [Next]_vars => ConfigInv'
<1> SUFFICES ASSUME ConfigInv, [Next]_vars PROVE ConfigInv'
  OBVIOUS
<1>1. ASSUME NEW doc \in Pushed, NEW verified \in BOOLEAN, Inbound(doc, verified)
      PROVE  ConfigInv'
  BY <1>1
     DEF Inbound, holdVars, history, ConfigInv, TypeOK, CopiesAgree, HeldIsUsable,
         FilePrefixKnown, PrefixDeferred, DiskDoc
<1>2. ASSUME NEW e \in Sets, NEW landed \in BOOLEAN, NEW opened \in BOOLEAN,
             ConfigSet(e.key, e.value, landed, opened)
      PROVE  ConfigInv'
  BY <1>2, ConfigSetKeeps
<1>3. ASSUME NEW doc \in Posted, NEW landed \in BOOLEAN, PostFile(doc, landed)
      PROVE  ConfigInv'
  <2>1. doc \in Docs \cup {Garbage}
    BY DocAssumption
  <2>2. QED
    BY <1>3, <2>1
       DEF PostFile, holdVars, ConfigInv, TypeOK, CopiesAgree, HeldIsUsable,
           FilePrefixKnown, PrefixDeferred, DiskDoc
<1>4. ASSUME NEW reply \in Replies, NEW landed \in BOOLEAN, EnrollSave(reply, landed)
      PROVE  ConfigInv'
  BY <1>4, EnrollSaveKeeps
<1>5. ASSUME NEW broker \in {"b", "c"}, NEW landed \in BOOLEAN, RollBack(broker, landed)
      PROVE  ConfigInv'
  BY <1>5, RollBackKeeps
<1>6. ASSUME NEW landed \in BOOLEAN, NEW opened \in BOOLEAN, Apply(landed, opened)
      PROVE  ConfigInv'
  BY <1>6, ApplyKeeps
<1>7. ASSUME NEW landed \in BOOLEAN, NEW opened \in BOOLEAN, PortalSave(landed, opened)
      PROVE  ConfigInv'
  BY <1>7, PortalSaveKeeps
<1>8. ASSUME NEW landed \in BOOLEAN, ConfigSave(landed) PROVE ConfigInv'
  BY <1>8, ConfigSaveKeeps
<1>9. ASSUME NEW landed \in BOOLEAN, SaveDiscovered(landed) PROVE ConfigInv'
  <2> USE DEF ConfigInv
  <2> DEFINE doc == [file EXCEPT !.other = "y"]
  <2>1. file \in Docs /\ Parsed(file) = file
    BY <1>9, DocNotGarbage DEF SaveDiscovered, TypeOK
  <2>2. doc \in Docs /\ doc.prefix = file.prefix
    BY <2>1 DEF Docs
  <2>3. Parsed(doc) = doc
    BY <2>2, DocNotGarbage
  <2>4. file' = doc \/ file' = file
    BY <1>9 DEF SaveDiscovered, Write
  <2>5. Parsed(file').prefix = Parsed(file).prefix
    BY <2>1, <2>2, <2>3, <2>4
  <2>6. ahead' = (ahead \/ landed) /\ (landed \/ file' = file)
    BY <1>9 DEF SaveDiscovered, Write
  <2>7. UNCHANGED <<live, held, onDisk, staged, snap, subscribed, unsaved, moved>>
    BY <1>9 DEF SaveDiscovered, holdVars
  <2> HIDE DEF doc
  <2>8. TypeOK'
    BY <2>1, <2>2, <2>4, <2>6, <2>7 DEF TypeOK
  <2>9. QED
    BY <2>5, <2>6, <2>7, <2>8
       DEF CopiesAgree, Snapshot, HeldIsUsable, FilePrefixKnown, PrefixDeferred, DiskDoc
<1>10. ASSUME NEW opened \in BOOLEAN, ConfigReload(opened) PROVE ConfigInv'
  BY <1>10, ReloadKeeps
<1>11. ASSUME NEW opened \in BOOLEAN, Restart(opened) PROVE ConfigInv'
  BY <1>11, ConfigRestartKeeps
<1>12. CASE UNCHANGED vars
  BY <1>12
     DEF vars, holdVars, history, ConfigInv, TypeOK, CopiesAgree, HeldIsUsable,
         FilePrefixKnown, PrefixDeferred, DiskDoc
<1>13. QED
  BY <1>1, <1>2, <1>3, <1>4, <1>5, <1>6, <1>7, <1>8, <1>9, <1>10, <1>11, <1>12 DEF Next

LEMMA ConfigAlways == Spec => []ConfigInv
BY ConfigInit, ConfigNext, PTL DEF Spec

-----------------------------------------------------------------------------
(* The theorems.                                                              *)

\* The file, the document, the hold and the copy HTTP handlers read stay within
\* their types: what is held back is always a prefix a save can write.
THEOREM TypeCorrect == Spec => []TypeOK
BY ConfigAlways, PTL DEF ConfigInv

\* Unless the file is one RAM did not load, Config::save would write the file as
\* it stands, but for connection keys an enrollment, a rollback or a reload left
\* in RAM when its write or read failed; and HTTP handlers check the credential of
\* the live document: through pushes, edits, holds, failures and boots in any order.
THEOREM CopiesStayEqual == Spec => []CopiesAgree
BY ConfigAlways, PTL DEF ConfigInv

\* The live topic prefix is the one the subscriptions were made with until an
\* operator names it, an enrollment is answered, or a hold is lost to the portal
\* or to a file that does not open: no sequence of pushed documents moves it.
THEOREM PushDefersPrefix == Spec => []PrefixDeferred
BY ConfigAlways, PTL DEF ConfigInv
=============================================================================
