----------------------------- MODULE ConfigStore ----------------------------
(* The configuration: /config.json, the document in RAM, the prefix a pushed  *)
(* document leaves for the next boot, and the copy HTTP handlers read.  All   *)
(* of it runs on the main loop; what varies is who writes what, in which      *)
(* order, whether each write lands, and whether a load can open the file.     *)
EXTENDS Integers

CONSTANTS Pushed,    \* documents a broker pushes to cmd/config
          Posted,    \* documents an operator posts or writes as a file
          Sets,      \* [key, value] pairs a shell command may set
          Replies    \* [prefix, broker] an enrollment may be answered

(* A document is its topic prefix, its broker, its web credential and one     *)
(* other key.  "absent" is a missing key, "number" a prefix that is no        *)
(* string, "long" one past TOPIC_PREFIX_CAP, "default" is thesada/node.       *)
Prefixes == {"absent", "default", "p", "q", "number", "long"}
Docs     == [prefix : Prefixes, broker : {"absent", "b", "c"},
             web : {"absent", "u", "v"}, other : {"absent", "x", "y"}]
EmptyDoc == [prefix |-> "absent", broker |-> "absent", web |-> "absent", other |-> "absent"]
Garbage  == [EmptyDoc EXCEPT !.other = "garbage"]   \* text that does not parse

(* A broker pushes and a command edits documents; a file may be given any     *)
(* text.  "mqtt" is the section a command deletes whole.  The prefix of a     *)
(* certificate's answer is a usable one (enrollReplyUsable).                  *)
ASSUME DocAssumption ==
  /\ Pushed \subseteq Docs
  /\ Posted \subseteq Docs \cup {Garbage}
  /\ Sets \subseteq UNION {[key : {"mqtt"}, value : {"absent"}],
                         [key : {"prefix"}, value : Prefixes],
                         [key : {"broker"}, value : {"absent", "b", "c"}],
                         [key : {"web"}, value : {"absent", "u", "v"}],
                         [key : {"other"}, value : {"absent", "x", "y"}]}
  /\ Replies \subseteq [prefix : Prefixes \ {"absent", "number", "long"}, broker : {"b", "c"}]

VARIABLES
  file,     \* /config.json: a document, or text that does not parse
  live,     \* Config::_doc
  held,     \* _topicPrefixHeld
  onDisk,   \* _diskTopicPrefix, "absent" when _diskTopicPrefixPresent is false
  staged,   \* _cmdConfigBuf: {} or one document
  snap,     \* _webSnap: the credential HTTP handlers check
  subscribed, \* the prefix the subscriptions were made with
  \* history
  ahead,    \* the file was written, or could not be read, and is not what RAM holds
  unsaved,  \* connection keys were changed in RAM and the file not written
  moved     \* something other than a pushed document may have moved the prefix

holdVars == <<held, onDisk>>
history  == <<ahead, unsaved, moved>>
vars == <<file, live, holdVars, staged, snap, subscribed, history>>

Start == [prefix |-> "p", broker |-> "b", web |-> "u", other |-> "x"]

TypeOK ==
  /\ file \in Docs \cup {Garbage} /\ live \in Docs
  /\ held \in BOOLEAN /\ onDisk \in Prefixes \ {"number", "long"}
  /\ staged = {} \/ \E doc \in Pushed : staged = {doc}
  /\ snap \in {"absent", "u", "v"} /\ subscribed \in Prefixes \ {"absent", "number"}
  /\ ahead \in BOOLEAN /\ unsaved \in BOOLEAN /\ moved \in BOOLEAN

Init ==
  /\ file = Start /\ live = Start /\ held = FALSE /\ onDisk = "absent"
  /\ staged = {} /\ snap = "u" /\ subscribed = "p"
  /\ ahead = FALSE /\ unsaved = FALSE /\ moved = FALSE

-----------------------------------------------------------------------------
(* Config.  Each operator is what the call leaves behind, as a record of the  *)
(* document and the hold.                                                     *)

Parsed(f)  == IF f = Garbage THEN EmptyDoc ELSE f
HasSection(doc) == {doc.prefix, doc.broker} # {"absent"}   \* "mqtt"
Effective(p) == IF p \in {"absent", "number"} THEN "default" ELSE p

Loose(doc) == [doc |-> doc, held |-> FALSE, onDisk |-> "absent"]

(* Config::load.  A file that cannot be opened leaves the document as it is,  *)
(* and the hold is gone all the same.                                         *)
Load(f, opened, doc) == IF opened THEN Loose(Parsed(f)) ELSE Loose(doc)

\* Mutant: what a save writes is the prefix that is live.
HoldForgets(c, prefix) ==
  IF c.doc.prefix \in {"number", "long"} \/ prefix = "long" THEN c
  ELSE [doc |-> [c.doc EXCEPT !.prefix = prefix], held |-> TRUE, onDisk |-> prefix]

(* holdTopicPrefix: the document keeps `prefix` live and remembers its own.   *)
(* A prefix of its own that is no string or too long is not held.             *)
Hold(c, prefix) ==
  IF c.doc.prefix \in {"number", "long"} \/ prefix = "long" THEN c
  ELSE [doc |-> [c.doc EXCEPT !.prefix = prefix], held |-> TRUE,
        onDisk |-> c.doc.prefix]

(* What a save writes: copyDiskDoc, and the swap in save.                     *)
DiskDoc == IF held THEN [live EXCEPT !.prefix = onDisk] ELSE live

(* _webSnapRefresh: what HTTP handlers keep of the document.                  *)
Snapshot(doc) == doc.web

(* configChanged: the hook refills the snapshot before the caller resumes.    *)
Becomes(c) ==
  /\ live' = c.doc /\ held' = c.held /\ onDisk' = c.onDisk
  /\ snap' = Snapshot(c.doc)

(* writeFile: tmp and rename, so the old file stays unless the new one landed *)
Write(doc, landed) == file' = IF landed THEN doc ELSE file

-----------------------------------------------------------------------------
(* cmd/config.                                                                *)

(* cmdConfigVerdict: the payload scans as an object whose mqtt section names  *)
(* a broker, and the session verified the broker's certificate.               *)
Verdict(doc, verified) == verified /\ doc.broker # "absent"

(* cmdConfigInbound: one document at a time.                                  *)
Inbound(doc, verified) ==
  /\ Verdict(doc, verified) /\ staged = {}
  /\ staged' = {doc}
  /\ UNCHANGED <<file, live, holdVars, snap, subscribed, history>>

(* mqttApplyCmdConfig's own refusals.                                         *)
Refused(doc) ==
  \/ Effective(live.prefix) = "long"
  \/ doc.prefix \in {"number", "long"}

(* Config::replace, and the hold that keeps the subscriptions' prefix live.   *)
Replaced(doc) ==
  LET was == Effective(live.prefix)
  IN IF Effective(doc.prefix) # was THEN Hold(Loose(doc), was) ELSE Loose(doc)

(* The write failed: the file is reloaded and a held prefix is put back.      *)
NotReplaced(doc, opened) ==
  LET c == Load(file, opened, doc) IN IF held THEN Hold(c, live.prefix) ELSE c

\* Mutant: the snapshot is left to a change hook that replace does not run.
ApplyNoHook(landed, opened) ==
  /\ \E doc \in staged :
       /\ ~Refused(doc) /\ landed
       /\ live' = doc /\ held' = FALSE /\ onDisk' = "absent" /\ UNCHANGED snap
       /\ Write(doc, landed)
  /\ staged' = {} /\ ahead' = FALSE /\ unsaved' = FALSE
  /\ UNCHANGED <<subscribed, moved>>

(* Applied on the next loop tick.  A change of connection keys reconnects     *)
(* and keeps the subscription table.  When the write fails and the file does  *)
(* not open either, RAM keeps the document that was refused.                  *)
Apply(landed, opened) ==
  /\ \E doc \in staged :
       IF Refused(doc) THEN UNCHANGED <<file, live, holdVars, snap, history>>
       ELSE /\ Write(doc, landed)
            /\ Becomes(IF landed THEN Replaced(doc) ELSE NotReplaced(doc, opened))
            /\ ahead' = ~(landed \/ opened) /\ unsaved' = FALSE
            /\ moved' = (moved \/ ahead')
  /\ staged' = {}
  /\ UNCHANGED subscribed

-----------------------------------------------------------------------------
(* Shell commands.                                                            *)

NamesPrefix(key) == key \in {"prefix", "mqtt"}
Edit(doc, key, value) ==
  IF key = "mqtt" THEN [doc EXCEPT !.prefix = "absent", !.broker = "absent"]
                  ELSE [doc EXCEPT ![key] = value]

\* Mutant: the reload after a write lets go of the boot prefix.
ReloadedLoose(doc, key, opened) == Load(doc, opened, live)

(* restoreBootPrefix, after the reload: the boot prefix is put back unless    *)
(* the command named it.                                                      *)
Reloaded(doc, key, opened) ==
  LET c == Load(doc, opened, live)
  IN IF held /\ ~NamesPrefix(key) THEN Hold(c, live.prefix) ELSE c

(* config.set, config.set --delete and config.del edit a copy of the file,    *)
(* write it and reload.  A file that does not parse is refused.               *)
ConfigSet(key, value, landed, opened) ==
  /\ file # Garbage /\ (key = "mqtt" => HasSection(file))
  /\ LET doc == Edit(file, key, value)
     IN /\ Write(doc, landed)
        /\ IF landed THEN /\ Becomes(Reloaded(doc, key, opened))
                          /\ ahead' = ~opened /\ unsaved' = FALSE
                     ELSE UNCHANGED <<live, holdVars, snap, ahead, unsaved>>
        /\ moved' = (moved \/ (landed /\ (NamesPrefix(key) \/ (held /\ ~opened))))
  /\ UNCHANGED <<staged, subscribed>>

(* config.save, for a document edited in RAM.                                 *)
ConfigSave(landed) ==
  /\ Write(DiskDoc, landed)
  /\ ahead' = (ahead /\ ~landed) /\ unsaved' = (unsaved /\ ~landed)
  /\ UNCHANGED <<live, holdVars, staged, snap, subscribed, moved>>

(* config.reload: the subscriptions are remade when the file's connection     *)
(* keys differ from the document's.  After config.set they no longer do.      *)
ConfigReload(opened) ==
  /\ Becomes(Load(file, opened, live))
  /\ IF \/ Effective(live'.prefix) # Effective(live.prefix)
        \/ live'.broker # live.broker
       THEN subscribed' = Effective(live'.prefix) /\ moved' = FALSE
       ELSE UNCHANGED subscribed /\ moved' = (moved \/ (held /\ ~opened))
  /\ ahead' = (ahead /\ ~opened) /\ unsaved' = (~opened /\ (unsaved \/ held))
  /\ UNCHANGED <<file, staged>>

-----------------------------------------------------------------------------
(* Writers that leave the document in RAM alone.                              *)

(* POST /api/config (which then restarts), POST /api/file on the config       *)
(* file, and fs.write, which may leave anything.                              *)
PostFile(doc, landed) ==
  /\ landed /\ file' = doc /\ ahead' = TRUE /\ moved' = TRUE
  /\ UNCHANGED <<live, holdVars, staged, snap, subscribed, unsaved>>

(* Temperature discovery and prune edit a copy of the file.                   *)
SaveDiscovered(landed) ==
  /\ file # Garbage
  /\ Write([file EXCEPT !.other = "y"], landed)
  /\ ahead' = (ahead \/ landed)
  /\ UNCHANGED <<live, holdVars, staged, snap, subscribed, unsaved, moved>>

-----------------------------------------------------------------------------
(* Writers that edit the document in RAM and save it whole.                   *)

(* The setup portal.  A save that fails reloads the file and does not put a   *)
(* held prefix back.                                                          *)
PortalSave(landed, opened) ==
  /\ LET edited == [live EXCEPT !.other = "y"]
     IN IF landed
          THEN /\ file' = [DiskDoc EXCEPT !.other = "y"] /\ live' = edited
               /\ ahead' = FALSE /\ UNCHANGED <<holdVars, snap, moved>>
          ELSE /\ Becomes(Load(file, opened, edited)) /\ moved' = (moved \/ held)
               /\ ahead' = ~opened /\ UNCHANGED file
  /\ unsaved' = FALSE
  /\ UNCHANGED <<staged, subscribed>>

(* onCert: the broker and the prefix of a certificate's answer, never while a *)
(* prefix is held.  The unit restarts onto them when the save and the         *)
(* certificate land; a save that fails leaves them in RAM.                    *)
EnrollSave(reply, landed) ==
  /\ ~held
  /\ live' = [live EXCEPT !.prefix = reply.prefix, !.broker = reply.broker]
  /\ Write(live', landed)
  /\ ahead' = (ahead /\ ~landed) /\ unsaved' = ~landed /\ moved' = TRUE
  /\ UNCHANGED <<holdVars, staged, snap, subscribed>>

-----------------------------------------------------------------------------
(* Booting.                                                                   *)

(* The document main and rollbackIfUncommitted leave is the one the           *)
(* subscriptions are made with.                                               *)
BootsOnto(doc) ==
  /\ Becomes(Loose(doc)) /\ subscribed' = Effective(doc.prefix)
  /\ staged' = {}

Restart(opened) ==
  /\ BootsOnto(Load(file, opened, EmptyDoc).doc)
  /\ ahead' = ~opened /\ unsaved' = FALSE /\ moved' = ~opened
  /\ UNCHANGED file

(* A boot that takes the broker back to the last good one; a save that fails  *)
(* leaves it in RAM.  A document without the section takes no key.            *)
RollBack(broker, landed) ==
  /\ LET f   == Parsed(file)
         doc == IF HasSection(f) THEN [f EXCEPT !.broker = broker] ELSE f
     IN BootsOnto(doc) /\ Write(doc, landed)
  /\ ahead' = FALSE /\ unsaved' = ~landed /\ moved' = FALSE

Next ==
  \/ \E doc \in Pushed, verified \in BOOLEAN : Inbound(doc, verified)
  \/ \E e \in Sets, landed, opened \in BOOLEAN : ConfigSet(e.key, e.value, landed, opened)
  \/ \E doc \in Posted, landed \in BOOLEAN : PostFile(doc, landed)
  \/ \E reply \in Replies, landed \in BOOLEAN : EnrollSave(reply, landed)
  \/ \E broker \in {"b", "c"}, landed \in BOOLEAN : RollBack(broker, landed)
  \/ \E landed, opened \in BOOLEAN : Apply(landed, opened) \/ PortalSave(landed, opened)
  \/ \E landed \in BOOLEAN : ConfigSave(landed) \/ SaveDiscovered(landed)
  \/ \E opened \in BOOLEAN : ConfigReload(opened) \/ Restart(opened)

Spec == Init /\ [][Next]_vars

-----------------------------------------------------------------------------
(* Properties.                                                                *)

(* What a save or a reload that failed may leave different: the connection    *)
(* keys.                                                                      *)
SameBesideConnection(a, b) == a.web = b.web /\ a.other = b.other

(* The copies of one configuration agree.  Unless the file is one RAM did not *)
(* load, it holds what Config::save would write, but for connection keys that *)
(* an enrollment, a rollback or a reload left in RAM when its write or its    *)
(* read failed: those the next save of anyone writes, and no sequence of      *)
(* pushes, edits, failed writes and reloads makes it change any other key.    *)
(* HTTP handlers authenticate against the credential the document holds now,  *)
(* whichever command, push or reload rebuilt it.                              *)
CopiesAgree ==
  /\ ~ahead /\ ~unsaved => Parsed(file) = DiskDoc
  /\ ~ahead => SameBesideConnection(Parsed(file), DiskDoc)
  /\ snap = Snapshot(live)

(* However many documents are pushed, and whatever else is set, saved or      *)
(* fails to be, the live prefix stays the one the subscriptions were made     *)
(* with: a pushed prefix waits on disk for the restart.  What moves the live  *)
(* one is an operator who named it, the answer to an enrollment, the portal   *)
(* letting go of a hold, or a file that could not be opened.                  *)
PrefixDeferred == ~moved => Effective(live.prefix) = subscribed
=============================================================================
