---------------------------- MODULE MqttRecovery ----------------------------
(***************************************************************************)
(* How lib/thesada-core/src/MQTTClient.cpp recovers from a broker it       *)
(* cannot reach: the reboot budget kept in NVS, the last-good snapshot of  *)
(* the connection keys, and the rollback to it at boot, together with the  *)
(* ways the configuration is edited (Config.cpp, Shell.cpp, cmd/config).   *)
(*                                                                         *)
(* Phases follow the main loop task:                                       *)
(*   boot (rollbackIfUncommitted) -> restored, restoredRb (its NVS writes) *)
(*   -> begin -> connect -> up, upRb, upLg, upSet (a session's NVS writes) *)
(*   -> run (loop); a failed connect goes to run, or through exhaust and   *)
(*   bump to a restart.  A reset may hit between any two of them.          *)
(*                                                                         *)
(* A configuration is its connection keys.  The topic prefix, the mTLS     *)
(* verdict and a missing mqtt.broker are left out; a transport is always   *)
(* up, and one backoff interval is one Tick.                               *)
(***************************************************************************)
EXTENDS Naturals

CONSTANTS
  Hosts,          \* broker names; NoHost is none of them
  LongHosts,      \* the ones mqttHostCopy refuses
  Ports,          \* ports an operator writes
  Creds,          \* user and password
  Good,           \* the targets <<host, port, cred>> a working broker accepts
  Written,        \* the configurations an operator may write
  Edits,          \* "set", "reload", "file", "cmd": the ways he writes them
  Resets,         \* BOOLEAN: operator restarts and crashes happen
  Outages,        \* BOOLEAN: the broker goes away and comes back
  LowHeap,        \* BOOLEAN: the TLS handshake may fail for want of heap
  Faults,         \* which writes may fail: "nvs", "fs"
  Ageing,         \* BOOLEAN: RB_STALE_WINDOW_S may pass
  MaxReboots,     \* mqtt.max_exhaust_reboots
  RebootAfter,    \* mqtt.reboot_after_fails
  DefragAfter,    \* the 3 of mqttDefragRebootDue
  MaxEdits        \* bound on the operator's edits

DefaultPort == 8883
Missing     == 65536      \* the key is not in the file
NoHost      == "no host"
NoCred      == "no cred"

Configs == [host: Hosts, port: Ports \cup {0, Missing}, cred: Creds]
NoConf  == [host |-> NoHost, port |-> 0, cred |-> NoCred]
Stored  == Configs \cup {NoConf}
Dials   == [host: Hosts \cup {NoHost}, port: Nat]
Targets == (Hosts \cup {NoHost}) \X Nat \X (Creds \cup {NoCred})

ASSUME ConfigAssumption ==
  /\ NoHost \notin Hosts
  /\ Ports \subseteq Nat
  /\ Written \subseteq Configs /\ Written # {}
ASSUME BudgetAssumption ==
  /\ MaxReboots \in Nat
  /\ RebootAfter \in Nat /\ RebootAfter >= 1
  /\ DefragAfter \in Nat
  /\ MaxEdits \in Nat
ASSUME SwitchAssumption ==
  /\ Resets \in BOOLEAN
  /\ Outages \in BOOLEAN /\ LowHeap \in BOOLEAN /\ Ageing \in BOOLEAN

VARIABLES
  disk,      \* /config.json
  doc,       \* Config::_doc
  nvs,       \* NVS namespace thesada-boot
  phase,
  ram,       \* what a reset loses of MQTTClient
  down,      \* the broker does not answer
  edits,     \* edits so far
  tried,     \* history: targets dialed
  proven,    \* history: targets that connected
  asked,     \* history: what the last config.reload was asked to apply
  reboots    \* history: broker restarts since a session, an edit or ageing, counted
             \* to one past the bound RebootsBounded states

vars == <<disk, doc, nvs, phase, ram, down, edits, tried, proven, asked, reboots>>

Phases == {"boot", "restored", "restoredRb", "begin", "connect", "up", "upRb",
           "upLg", "upSet", "run", "exhaust", "bump"}

ResetRam ==
  [dial |-> [host |-> NoHost, port |-> 0], used |-> NoCred, link |-> FALSE,
   retry |-> 0, halted |-> FALSE, reinit |-> FALSE, staged |-> NoConf, count |-> 0]

NvsType == [count: 0..MaxReboots, aged: BOOLEAN, lg: Stored, lgSet: BOOLEAN, rb: Stored]

RamType == [dial: Dials, used: Creds \cup {NoCred}, link: BOOLEAN, retry: Nat,
            halted: BOOLEAN, reinit: BOOLEAN, staged: Stored, count: 0..MaxReboots]

\* The type invariant; mqtt_reboots never passes the configured budget.
TypeOK ==
  /\ disk \in Configs
  /\ doc \in Configs
  /\ nvs \in NvsType
  /\ phase \in Phases
  /\ ram \in RamType
  /\ down \in BOOLEAN
  /\ edits \in Nat
  /\ tried \subseteq Targets
  /\ proven \subseteq Targets
  /\ asked \in Stored
  /\ reboots \in Nat

-----------------------------------------------------------------------------
Outcome(call) == IF call \in Faults THEN BOOLEAN ELSE {TRUE}

\* mqtt.port | 8883, what begin() and the reinit dial.
EffPort(c) == IF c.port = Missing THEN DefaultPort ELSE c.port

\* mqttCriticalJson writes mqtt.port | 0.
mqttCriticalJson(c) == [c EXCEPT !.port = IF @ = Missing THEN 0 ELSE @]

\* What a connect with this configuration dials and sends.
Target(c) == <<c.host, EffPort(c), c.cred>>

DialTarget == <<ram.dial.host, ram.dial.port, ram.used>>

\* Mutant: any recorded candidate rolls back, whatever is configured now.
RollbackAny(lg, haveLg, rb, cur) ==
  haveLg /\ lg # NoConf /\ rb # NoConf /\ cur # lg

\* Mutant: a candidate that is the snapshot itself rolls back too.
RollbackToSame(lg, haveLg, rb, cur) ==
  haveLg /\ lg # NoConf /\ rb # NoConf /\ cur = rb

mqttRollbackShould(lg, haveLg, rb, cur) ==
  /\ haveLg /\ lg # NoConf
  /\ rb # NoConf
  /\ cur = rb
  /\ cur # lg

\* Mutant: the snapshot is taken of a configuration that was not dialed.
SnapshotUnchecked(c, dial) == TRUE

mqttSnapshotProven(c, dial) == c.host = dial.host /\ EffPort(c) = dial.port

\* tls: resolved, rc -2 and the heap under 40 KB.
mqttDefragRebootDue(retry, tls, halted) == retry >= DefragAfter /\ tls /\ ~halted

\* mqttRebootCount: an aged streak, or one that cannot be read, counts as none.
Counts == {IF nvs.aged THEN 0 ELSE nvs.count}
          \cup (IF "nvs" \in Faults THEN {0} ELSE {})

-----------------------------------------------------------------------------
Init ==
  /\ disk \in Written
  /\ doc = disk
  /\ nvs = [count |-> 0, aged |-> FALSE, lg |-> NoConf, lgSet |-> FALSE, rb |-> NoConf]
  /\ phase = "boot"
  /\ ram = ResetRam
  /\ down \in {FALSE, Outages}
  /\ edits = 0
  /\ tried = {}
  /\ proven = {}
  /\ asked = NoConf
  /\ reboots = 0

\* rollbackIfUncommitted: the snapshot goes into the document and the file; a
\* failed save leaves it in the document alone.
RollBack ==
  /\ phase = "boot"
  /\ \E opened \in Outcome("nvs"), saved \in Outcome("fs") :
       IF opened /\ mqttRollbackShould(nvs.lg, nvs.lgSet, nvs.rb, mqttCriticalJson(doc))
       THEN /\ doc' = nvs.lg
            /\ disk' = IF saved THEN nvs.lg ELSE disk
            /\ phase' = IF saved THEN "restored" ELSE "begin"
       ELSE /\ phase' = "begin"
            /\ UNCHANGED <<doc, disk>>
  /\ UNCHANGED <<nvs, ram, down, edits, tried, proven, asked, reboots>>

\* mqttRebootCountClear, after a rollback and after a connect.
mqttRebootCountClear ==
  /\ phase \in {"restored", "up"}
  /\ \E done \in Outcome("nvs") :
       nvs' = IF done THEN [nvs EXCEPT !.count = 0, !.aged = FALSE] ELSE nvs
  /\ phase' = IF phase = "restored" THEN "restoredRb" ELSE "upRb"
  /\ UNCHANGED <<disk, doc, ram, down, edits, tried, proven, asked, reboots>>

mqttClearRbCfg ==
  /\ phase \in {"restoredRb", "upRb"}
  /\ \E done \in Outcome("nvs") :
       nvs' = IF done THEN [nvs EXCEPT !.rb = NoConf] ELSE nvs
  /\ phase' = IF phase = "restoredRb" THEN "begin" ELSE "upLg"
  /\ UNCHANGED <<disk, doc, ram, down, edits, tried, proven, asked, reboots>>

\* Entering connect() captures the credentials of the live document.
Connecting(dial) ==
  /\ phase' = "connect"
  /\ ram' = [ram EXCEPT !.dial = dial, !.used = doc.cred, !.reinit = FALSE]
  /\ tried' = tried \cup {<<dial.host, dial.port, doc.cred>>}

\* Mutant: the reinit does not refresh the host and port it copied at boot.
CopiedDialOnce ==
  IF ram.dial.host # NoHost \/ doc.host \in LongHosts THEN ram.dial
  ELSE [host |-> doc.host, port |-> EffPort(doc)]

\* mqttHostCopy: a host that does not fit keeps the pair there was.
CopiedDial ==
  IF doc.host \in LongHosts THEN ram.dial
  ELSE [host |-> doc.host, port |-> EffPort(doc)]

Begin ==
  /\ phase = "begin"
  /\ Connecting(CopiedDial)
  /\ UNCHANGED <<disk, doc, nvs, down, edits, proven, asked, reboots>>

-----------------------------------------------------------------------------
(* connect() *)

ConnectOk ==
  /\ phase = "connect"
  /\ ~down /\ DialTarget \in Good
  /\ phase' = "up"
  /\ ram' = [ram EXCEPT !.link = TRUE, !.retry = 0, !.halted = FALSE]
  /\ proven' = proven \cup {DialTarget}
  /\ reboots' = 0
  /\ UNCHANGED <<disk, doc, nvs, down, edits, tried, asked>>

\* snapshotGoodConfig: the keys first, then the flag that says they are there.
SnapshotKeys ==
  /\ phase = "upLg"
  /\ LET cur == mqttCriticalJson(doc)
     IN IF mqttSnapshotProven(doc, ram.dial) /\ cur # nvs.lg
        THEN \E opened, put \in Outcome("nvs") :
               /\ nvs' = IF opened /\ put THEN [nvs EXCEPT !.lg = cur] ELSE nvs
               /\ phase' = IF opened THEN "upSet" ELSE "run"
        ELSE phase' = "run" /\ UNCHANGED nvs
  /\ UNCHANGED <<disk, doc, ram, down, edits, tried, proven, asked, reboots>>

SnapshotFlag ==
  /\ phase = "upSet"
  /\ \E put \in Outcome("nvs") :
       nvs' = IF put THEN [nvs EXCEPT !.lgSet = TRUE] ELSE nvs
  /\ phase' = "run"
  /\ UNCHANGED <<disk, doc, ram, down, edits, tried, proven, asked, reboots>>

\* Mutant: the low-heap reboot does not look at the budget.
DefragUnbudgeted(n, tls, count) ==
  mqttDefragRebootDue(n, tls, ram.halted) /\ count <= MaxReboots

\* The two reboot branches of a failed connect, both within the budget.
DefragReboot(n, tls, count) ==
  mqttDefragRebootDue(n, tls, ram.halted) /\ count < MaxReboots

\* A failed connect counts, and may use up its attempts.  _retryCount is not
\* read past these limits, so it stops there.
RetryOrReboot(tls, defragCount, count) ==
  LET n      == IF ram.retry >= RebootAfter /\ ram.retry >= DefragAfter
                THEN ram.retry ELSE ram.retry + 1
      defrag == DefragReboot(n, tls, defragCount)
      spent  == ~defrag /\ n >= RebootAfter /\ ~ram.halted
  IN /\ ram' = [ram EXCEPT !.retry = n,
                           !.halted = @ \/ (spent /\ count >= MaxReboots),
                           !.count = IF defrag THEN defragCount ELSE count]
     /\ phase' = IF defrag THEN "bump"
                 ELSE IF spent /\ count < MaxReboots THEN "exhaust"
                 ELSE "run"

\* The failures: no answer, keys the broker refuses, or no heap for TLS.
ConnectFails ==
  /\ phase = "connect"
  /\ down \/ DialTarget \notin Good \/ LowHeap
  /\ \E tls \in {FALSE, LowHeap}, defragCount, count \in Counts :
       RetryOrReboot(tls, defragCount, count)
  /\ UNCHANGED <<disk, doc, nvs, down, edits, tried, proven, asked, reboots>>

\* Mutant: the reboot does not record what failed.
RecordNothing ==
  /\ phase = "exhaust"
  /\ phase' = "bump"
  /\ UNCHANGED <<disk, doc, nvs, ram, down, edits, tried, proven, asked, reboots>>

\* mqttWriteRbCfg: the critical keys of the live document.
RecordFailing ==
  /\ phase = "exhaust"
  /\ \E put \in Outcome("nvs") :
       nvs' = IF put THEN [nvs EXCEPT !.rb = mqttCriticalJson(doc)] ELSE nvs
  /\ phase' = "bump"
  /\ UNCHANGED <<disk, doc, ram, down, edits, tried, proven, asked, reboots>>

Restarting ==
  /\ phase' = "boot"
  /\ ram' = ResetRam
  /\ doc' = disk
  /\ asked' = NoConf

\* mqttRebootCountBump(count + 1); the new epoch ends the ageing.
Bumped == [nvs EXCEPT !.count = ram.count + 1, !.aged = FALSE]

\* The bump and brokerRestart.  A failed count write may leave the epoch new.
BrokerRestart ==
  /\ phase = "bump"
  /\ \E opened, put, dated \in Outcome("nvs") :
       nvs' = IF opened /\ put THEN [Bumped EXCEPT !.aged = IF dated THEN FALSE ELSE nvs.aged]
              ELSE IF opened /\ dated THEN [nvs EXCEPT !.aged = FALSE]
              ELSE nvs
  /\ reboots' = IF reboots <= 2 * MaxReboots THEN reboots + 1 ELSE reboots
  /\ Restarting
  /\ UNCHANGED <<disk, down, edits, tried, proven>>

-----------------------------------------------------------------------------
(* loop() *)

\* A staged cmd/config comes first, then a pending reinit, then the retry.
Idle == phase = "run" /\ ram.staged = NoConf

Reinit ==
  /\ Idle /\ ram.reinit
  /\ Connecting(CopiedDial)
  /\ UNCHANGED <<disk, doc, nvs, down, edits, proven, asked, reboots>>

\* Mutant: a spent budget also stops the retries.
TickUnlessHalted ==
  /\ Idle /\ ~ram.reinit /\ ~ram.link /\ ~ram.halted
  /\ Connecting(ram.dial)
  /\ UNCHANGED <<disk, doc, nvs, down, edits, proven, asked, reboots>>

Tick ==
  /\ Idle /\ ~ram.reinit /\ ~ram.link
  /\ Connecting(ram.dial)
  /\ UNCHANGED <<disk, doc, nvs, down, edits, proven, asked, reboots>>

\* A session ends: the broker went, the keepalive or the activity watchdog.
LinkLost ==
  /\ phase = "run" /\ ram.link /\ down
  /\ ram' = [ram EXCEPT !.link = FALSE]
  /\ UNCHANGED <<disk, doc, nvs, phase, down, edits, tried, proven, asked, reboots>>

\* cmdConfigInbound stages one document; a second one waits refused.
CmdInbound(c) ==
  /\ "cmd" \in Edits /\ edits < MaxEdits
  /\ Idle /\ ram.link
  /\ ram' = [ram EXCEPT !.staged = c]
  /\ edits' = edits + 1
  /\ UNCHANGED <<disk, doc, nvs, phase, down, tried, proven, asked, reboots>>

\* reconnectWithCurrentConfig and reinitSubscriptions drop the session.
Dropped == [ram EXCEPT !.staged = NoConf, !.link = FALSE, !.reinit = TRUE]

\* mqttApplyCmdConfig: refuse a host too long, replace the file and the
\* document, reconnect when a critical key moved.  A failed save reloads the file.
ApplyCmdConfig ==
  /\ phase = "run" /\ ram.staged # NoConf
  /\ LET kept == [ram EXCEPT !.staged = NoConf]
         c    == ram.staged
     IN \/ /\ c.host \in LongHosts
           /\ ram' = kept
           /\ UNCHANGED <<disk, doc>>
        \/ /\ c.host \notin LongHosts
           /\ disk' = c /\ doc' = c
           /\ ram' = IF mqttCriticalJson(c) # mqttCriticalJson(doc) THEN Dropped ELSE kept
        \/ /\ c.host \notin LongHosts /\ "fs" \in Faults
           /\ doc' = disk
           /\ ram' = kept
           /\ UNCHANGED disk
  /\ reboots' = 0
  /\ asked' = NoConf
  /\ UNCHANGED <<nvs, phase, down, edits, tried, proven>>

\* The documents config.set and config.del make of the file: one key differs.
OneKey(c) ==
  \/ c.port = disk.port /\ c.cred = disk.cred
  \/ c.host = disk.host /\ c.cred = disk.cred
  \/ c.host = disk.host /\ c.port = disk.port

\* config.set: writes the file and loads it; no reconnect.
ConfigSet(c) ==
  /\ "set" \in Edits /\ edits < MaxEdits /\ phase = "run"
  /\ OneKey(c)
  /\ disk' = c /\ doc' = c
  /\ edits' = edits + 1
  /\ reboots' = 0
  /\ asked' = NoConf
  /\ UNCHANGED <<nvs, phase, ram, down, tried, proven>>

\* The web server's and the temperature module's writes leave the document.
FileWrite(c) ==
  /\ "file" \in Edits /\ edits < MaxEdits /\ phase = "run"
  /\ disk' = c
  /\ edits' = edits + 1
  /\ reboots' = 0
  /\ asked' = NoConf
  /\ UNCHANGED <<doc, nvs, phase, ram, down, tried, proven>>

\* config.reload: reconnects when the document it had differs from the file; a
\* host too long for the copy it compares always does.
ConfigReload ==
  /\ "reload" \in Edits /\ phase = "run"
  /\ doc' = disk
  /\ ram' = IF Target(disk) # Target(doc) \/ doc.host \in LongHosts
            THEN [ram EXCEPT !.link = FALSE, !.reinit = TRUE] ELSE ram
  /\ asked' = disk
  /\ UNCHANGED <<disk, nvs, phase, down, edits, tried, proven, reboots>>

-----------------------------------------------------------------------------
(* Environment *)

\* An operator's restart, a crash or a power cut.
Restart ==
  /\ Resets
  /\ Restarting
  /\ UNCHANGED <<disk, nvs, down, edits, tried, proven, reboots>>

\* The broker goes away or comes back.
Outage ==
  /\ Outages
  /\ down' = ~down
  /\ UNCHANGED <<disk, doc, nvs, phase, ram, edits, tried, proven, asked, reboots>>

\* Six hours pass since the last counted reboot.
Age ==
  /\ Ageing /\ phase = "run" /\ nvs.count > 0
  /\ nvs' = [nvs EXCEPT !.aged = TRUE]
  /\ reboots' = 0
  /\ UNCHANGED <<disk, doc, phase, ram, down, edits, tried, proven, asked>>

BootStep    == RollBack \/ Begin
RecordStep  == mqttRebootCountClear \/ mqttClearRbCfg \/ SnapshotKeys \/ SnapshotFlag
ConnectStep == ConnectOk \/ ConnectFails \/ RecordFailing \/ BrokerRestart
LoopStep    == Reinit \/ Tick \/ ApplyCmdConfig \/ LinkLost
EditStep    == ConfigReload \/ \E c \in Written : CmdInbound(c) \/ ConfigSet(c) \/ FileWrite(c)
EnvStep     == Restart \/ Outage \/ Age

Next == BootStep \/ RecordStep \/ ConnectStep \/ LoopStep \/ EditStep \/ EnvStep

Spec == Init /\ [][Next]_vars

\* The main loop turns; nothing is assumed of operators, resets and outages.
FairSpec == Spec /\ WF_vars(BootStep \/ RecordStep \/ ConnectStep \/ LoopStep)

-----------------------------------------------------------------------------
\* Broker exhaustion reboots are bounded: while nothing is edited, no session
\* comes up and the six hours do not pass, connect() restarts the unit at most
\* twice max_exhaust_reboots times, one budget for the configuration that fails
\* and one for the snapshot it rolls back to.
RebootsBounded == reboots <= 2 * MaxReboots

\* A rollback only replaces a configuration that was dialed, or whose host was
\* refused as too long: rollbackIfUncommitted never undoes an untried edit.
OnlyTried == phase = "boot" /\ phase' # "boot" /\ doc' # doc =>
               Target(doc) \in tried \/ doc.host \in LongHosts

\* What the snapshot restores, byte for byte, is a target that has connected.
LastGoodWorks == nvs.lgSet /\ nvs.lg # NoConf => Target(nvs.lg) \in proven

\* A reload leaves the client on the broker the file names, or about to dial it.
ReloadApplies ==
  asked # NoConf /\ phase = "run" =>
    \/ ram.reinit
    \/ asked.host \in LongHosts
    \/ ram.dial = [host |-> asked.host, port |-> EffPort(asked)]

\* A configuration nothing accepts does not stay: with a snapshot to fall back
\* to, a live one without a session is rolled back, or replaced by hand.
BadConfigRollsBack ==
  \A c \in {w \in Written : Target(w) \notin Good} :
    (disk = c /\ doc = c /\ nvs.lgSet /\ ~ram.link)
      ~> (disk # c \/ doc # c \/ ram.link)

\* A spent budget never ends the retries: a broker that is back and accepts
\* what the client dials gets its session.
Reconnects ==
  []<>ram.link \/ []<>(down \/ DialTarget \notin Good)
=============================================================================
