------------------------------ MODULE OtaGuard ------------------------------
(***************************************************************************)
(* The image guard of lib/thesada-core/src/OTAUpdate.cpp on a board with   *)
(* two app slots: how a written image is booted pending, confirmed by the  *)
(* health gate, rejected, or left by a slot switch after a crash loop.     *)
(*                                                                         *)
(* One boot is the sequence of phases                                      *)
(*    boot (bootloader) -> init (initArduino) -> streak (recordBootStreak) *)
(*    -> guard (rollbackIfCrashLoop) -> run (loop)                         *)
(* and a reset may hit between any two steps.  "armed", "switched" and     *)
(* "reject" are the points inside rollbackIfCrashLoop between two flash    *)
(* writes; "download" and "staged" the points inside check().  The web     *)
(* upload runs on the AsyncTCP task and interleaves with the main loop.    *)
(*                                                                         *)
(* The bootloader, the otadata calls and Update are external: they are     *)
(* modelled as this code and docs/invariants.md use them.                  *)
(***************************************************************************)
EXTENDS OtaHealthPolicy

CONSTANTS
  Builds,       \* image builds, a set of naturals ordered as their versions
  Platform,     \* [Builds -> set]: the descriptor strings a build carries
  Faults,       \* which calls may fail: "nvs", "desc", "otadata", "activate"
  Causes,       \* the resets and restarts the environment may cause
  Uploads,      \* BOOLEAN: web uploads happen
  Pulls,        \* BOOLEAN: OTA checks happen
  Overrides,    \* what lifts a refusal: "force", and "expiry" of its day
  MaxStreak,    \* bound: no counted reset past this crash_n
  MaxSwitches   \* bound: no crash loop past so many switches without a write

Slots    == {0, 1}
Other(s) == 1 - s
NoId     == <<>>
NoBuild  == 0

\* An image id is its slot and its ELF hash (otaHealthImageId).
ImageIds == {NoId} \cup (Slots \X Builds)

ASSUME BuildsAssumption == Builds \subseteq Nat \ {NoBuild} /\ Builds # {}
ASSUME FlagsAssumption  == /\ Uploads \in BOOLEAN
                           /\ Pulls \in BOOLEAN
                           /\ MaxStreak \in Nat
                           /\ MaxSwitches \in Nat

VARIABLES
  build,       \* [Slots -> Builds]: the descriptor each slot holds
  whole,       \* [Slots -> BOOLEAN]: esp_image_verify passes
  otaState,    \* [Slots -> ImageStates]: the slot's otadata entry
  newest,      \* the slot of the otadata entry with the highest sequence
  nvs,         \* NVS namespace "boot"
  marker,      \* _otaPlannedRestart, RTC memory
  phase, reason, running,
  ram,         \* everything a reset loses
  earned,      \* history: the image in the slot passed the health gate
  switches,    \* history: slot switches since an image was last written
  unrecorded,  \* history: those whose arrival record has not landed
  refused      \* history: the slot's image was the last one recorded as
               \* installed or left, and has not been confirmed since

flash == <<build, whole, otaState, newest>>
hist  == <<earned, switches, unrecorded, refused>>
vars  == <<flash, nvs, marker, phase, reason, running, ram, hist>>

Phases == {"boot", "init", "streak", "guard", "armed", "switched", "reject",
           "run", "download", "staged"}

\* RAM as a reset leaves it: bootRescue and bootPending are what initArduino
\* saw, install is recordBootStreak's reading of a planned restart into a
\* pending image, runState caches the running slot's state, upload and
\* restartPending belong to the web server.
ResetRam ==
  [bootRescue |-> 0, bootPending |-> FALSE, streakKnown |-> FALSE, streak |-> 0,
   install |-> FALSE, mqttUp |-> FALSE, provenDone |-> FALSE, runState |-> "unread",
   settled |-> FALSE, up |-> FreshBoot, failWait |-> FALSE,
   upload |-> "idle", restartPending |-> FALSE]

NvsType == [crash_n: Nat, rescue: {0, RescueOlderGuard, RescueId},
            left_id: ImageIds, proven_id: ImageIds, fled_ver: Builds \cup {NoBuild}]

RamType == [bootRescue: {0, RescueOlderGuard, RescueId}, bootPending: BOOLEAN,
            streakKnown: BOOLEAN, streak: Nat, install: BOOLEAN, mqttUp: BOOLEAN,
            provenDone: BOOLEAN, runState: ImageStates \cup {"unread"},
            settled: BOOLEAN, up: Uptimes, failWait: BOOLEAN,
            upload: {"idle", "writing", "staged"}, restartPending: BOOLEAN]

\* The type invariant: crash_n is the only number the code lets grow.
TypeOK ==
  /\ build \in [Slots -> Builds]
  /\ whole \in [Slots -> BOOLEAN]
  /\ otaState \in [Slots -> ImageStates]
  /\ newest \in Slots
  /\ nvs \in NvsType
  /\ marker \in Markers
  /\ phase \in Phases
  /\ reason \in ResetReasons
  /\ running \in Slots
  /\ ram \in RamType
  /\ earned \in [Slots -> BOOLEAN]
  /\ switches \in Nat
  /\ unrecorded \in Nat
  /\ refused \in [Slots -> BOOLEAN]

-----------------------------------------------------------------------------
\* What a call that may fail returns.
Outcome(call) == IF call \in Faults THEN BOOLEAN ELSE {TRUE}

ImageId(s) == <<s, build[s]>>

\* The otadata entry the bootloader and the IDF take as active: the newest one
\* that is neither invalid nor aborted, else the first app slot.
Selected(states, latest) ==
  IF states[latest] \notin {"invalid", "aborted"} THEN latest
  ELSE IF states[Other(latest)] \notin {"invalid", "aborted"} THEN Other(latest)
  ELSE 0

ActiveSlot == Selected(otaState, newest)

\* A reset loses RAM; the RTC word survives every reset but a power-on.
Reset(why, word) ==
  /\ phase' = "boot"
  /\ reason' = why
  /\ marker' = word
  /\ ram' = ResetRam
  /\ UNCHANGED running

\* The bounds on resets that may count: crash_n stops at MaxStreak, and after
\* MaxSwitches switches the limit is not reached again.
MayCount ==
  /\ nvs.crash_n < MaxStreak
  /\ switches < MaxSwitches \/ nvs.crash_n + 1 < CrashLimit

\* Init: a USB flash of slot 0, or the first boot after an older guard's switch.
Init ==
  /\ build \in [Slots -> Builds]
  /\ newest = 0
  /\ marker = "none"
  /\ phase = "boot"
  /\ running = 0
  /\ ram = ResetRam
  /\ switches = 0
  /\ unrecorded = 0
  /\ refused = [s \in Slots |-> FALSE]
  /\ \/ /\ whole = [s \in Slots |-> s = 0]
        /\ otaState = [s \in Slots |-> "undefined"]
        /\ reason = "poweron"
        /\ earned = [s \in Slots |-> s = 0]
        /\ nvs = [crash_n |-> 0, rescue |-> 0, left_id |-> NoId,
                  proven_id |-> NoId, fled_ver |-> NoBuild]
     \/ /\ whole = [s \in Slots |-> TRUE]
        /\ otaState = [s \in Slots |-> IF s = 0 THEN "new" ELSE "valid"]
        /\ reason = "sw"
        /\ earned = [s \in Slots |-> TRUE]
        /\ nvs = [crash_n |-> 0, rescue |-> RescueOlderGuard, left_id |-> NoId,
                  proven_id |-> NoId, fled_ver |-> NoBuild]

-----------------------------------------------------------------------------
(* Boot *)

\* A boot that finds an image still pending aborts it; a new image boots
\* pending.  An image that does not load leaves the other slot to be tried.
Bootloader ==
  /\ phase = "boot"
  /\ LET settledStates == [s \in Slots |-> IF otaState[s] = "pending"
                                           THEN "aborted" ELSE otaState[s]]
         selected == Selected(settledStates, newest)
     IN /\ otaState' = [settledStates EXCEPT ![selected] =
                          IF @ = "new" THEN "pending" ELSE @]
        /\ running' = IF whole[selected] THEN selected ELSE Other(selected)
        /\ whole[running']
  /\ phase' = "init"
  /\ UNCHANGED <<build, whole, newest, nvs, marker, reason, ram, hist>>

\* initArduino with this image's verifyRollbackLater: a rescue flag is cleared,
\* and confirms a pending image only when the clear landed and no planned
\* restart led here.
InitArduino ==
  /\ phase = "init"
  /\ \E opened, cleared \in Outcome("nvs"), marked \in Outcome("otadata") :
       LET pending == otaState[running] = "pending"
           rescue  == IF opened THEN otaHealthRescue(nvs.rescue, marker) ELSE 0
           confirm == opened /\ cleared /\ rescue # 0 /\ pending /\ marked
       IN /\ nvs' = [nvs EXCEPT !.rescue = IF opened /\ cleared THEN 0 ELSE @]
          /\ ram' = [ram EXCEPT !.bootRescue = rescue,
                                !.bootPending = opened /\ pending]
          /\ otaState' = [otaState EXCEPT ![running] =
                            IF confirm THEN "valid" ELSE @]
  /\ phase' = "streak"
  /\ UNCHANGED <<build, whole, newest, marker, reason, running, hist>>

otaHealthLeftIsStale(left, slot) == left # NoId /\ left[1] = slot

\* updateLeftRecord: drop a record of the running slot, then record the slot a
\* switch came from.
LeftRecord(removed, recorded, idRead) ==
  IF /\ otaHealthIsArrival(ram.bootRescue, ram.bootPending)
     /\ otaHealthRecordArrival(ram.bootRescue,
          Platform[build[Other(running)]] = Platform[build[running]])
     /\ recorded /\ idRead
  THEN ImageId(Other(running))
  ELSE IF otaHealthLeftIsStale(nvs.left_id, running) /\ removed
  THEN NoId
  ELSE nvs.left_id

\* What recordBootStreak makes of this reset.
RecordsProven(idRead) == idRead /\ nvs.proven_id = ImageId(running)

NextStreak(idRead) ==
  otaHealthNextCrashStreak(nvs.crash_n,
    otaHealthBootClass(reason, marker, otaHealthStateConfirmed(otaState[running]),
                       RecordsProven(idRead), otaState[running] = "pending"))

\* The writes of recordBootStreak, given which calls worked; counted is the
\* brownout count's write.  A streak that cannot be read or stored is unknown,
\* and reads as the limit.
StoreStreak(opened, removed, recorded, counted, stored, idRead) ==
  LET left  == LeftRecord(removed, recorded, idRead)
      past  == opened /\ (reason = "brownout" => counted)
      known == past /\ stored
  IN /\ nvs' = [nvs EXCEPT !.left_id = IF opened THEN left ELSE @,
                           !.crash_n = IF known THEN NextStreak(idRead) ELSE @]
     /\ ram' = [ram EXCEPT
          !.streakKnown = known,
          !.install     = /\ reason = "sw" /\ marker # "none"
                          /\ otaState[running] = "pending",
          !.streak      = IF known THEN NextStreak(idRead) ELSE CrashLimit,
          !.provenDone  = past /\ RecordsProven(idRead)]
     /\ unrecorded' =
          IF opened /\ otaHealthIsArrival(ram.bootRescue, ram.bootPending)
             /\ left = ImageId(Other(running)) /\ unrecorded > 0
          THEN unrecorded - 1 ELSE unrecorded

RecordBootStreak ==
  /\ phase = "streak"
  /\ marker' = "none"
  /\ \E opened, removed, recorded, counted, stored \in Outcome("nvs"),
        idRead \in Outcome("desc") :
       StoreStreak(opened, removed, recorded, counted, stored, idRead)
  /\ phase' = "guard"
  /\ UNCHANGED <<flash, reason, running, earned, switches, refused>>

-----------------------------------------------------------------------------
(* rollbackIfCrashLoop *)

\* Mutant: the slot a switch left is a target again.
AbandonedNever(slot) == FALSE

imageAbandoned(slot) == nvs.left_id = ImageId(slot)

\* Mutant: otadata alone picks the target.
TargetUnverified ==
  otaState[Other(running)] = "valid" /\ ~imageAbandoned(Other(running))

\* The other slot, when it is a valid image that verifies and was not left.
rollbackTarget ==
  /\ otaState[Other(running)] = "valid"
  /\ ~imageAbandoned(Other(running))
  /\ whole[Other(running)]

AtLimit == ram.streakKnown /\ otaHealthShouldRollback(ram.streak)

\* Below the limit, an unknown streak, a state that never switches, no target,
\* or an id or streak write that failed: setup() goes on.
GuardPasses ==
  /\ phase = "guard"
  /\ \/ ~AtLimit
     \/ otaState[running] \notin {"pending", "valid"}
     \/ otaState[running] = "valid" /\ ~rollbackTarget
     \/ {"nvs", "desc"} \cap Faults # {}
        /\ (otaState[running] = "pending" => "nvs" \in Faults /\ rollbackTarget)
  /\ phase' = "run"
  /\ UNCHANGED <<flash, nvs, marker, reason, running, ram, hist>>

\* A pending image at the limit with nowhere to go is kept.
GuardKeepsPending ==
  /\ phase = "guard" /\ AtLimit
  /\ otaState[running] = "pending"
  /\ {"nvs", "desc"} \cap Faults = {} => ~rollbackTarget
  /\ \E cleared \in Outcome("nvs"), marked \in Outcome("otadata") :
       /\ nvs' = [nvs EXCEPT !.crash_n = IF cleared THEN 0 ELSE @]
       /\ ram' = [ram EXCEPT !.streak = IF cleared THEN 0 ELSE @]
       /\ otaState' = [otaState EXCEPT ![running] = IF marked THEN "valid" ELSE @]
       /\ earned' = [earned EXCEPT ![running] = @ \/ marked]
  /\ phase' = "run"
  /\ UNCHANGED <<build, whole, newest, marker, reason, running, switches,
                 unrecorded, refused>>

\* A pending image at the limit with a target: the streak is cleared first.
GuardClearsStreak ==
  /\ phase = "guard" /\ AtLimit
  /\ otaState[running] = "pending" /\ rollbackTarget
  /\ nvs' = [nvs EXCEPT !.crash_n = 0]
  /\ phase' = "reject"
  /\ UNCHANGED <<flash, marker, reason, running, ram, hist>>

\* esp_ota_mark_app_invalid_rollback_and_reboot, and its failure.
RejectPending ==
  /\ phase = "reject"
  /\ otaState' = [otaState EXCEPT ![running] = "invalid"]
  /\ Reset("sw", marker)
  /\ UNCHANGED <<build, whole, newest, nvs, hist>>

RejectFails ==
  /\ phase = "reject" /\ "otadata" \in Faults
  /\ phase' = "run"
  /\ UNCHANGED <<flash, nvs, marker, reason, running, ram, hist>>

\* armRescue on a valid image at the limit: the streak is zeroed, then the
\* rescue flag set.  Only both together go on to the switch.
ArmRescue ==
  /\ phase = "guard" /\ AtLimit
  /\ otaState[running] = "valid" /\ rollbackTarget
  /\ \E armed \in Outcome("nvs") :
       /\ nvs' = [nvs EXCEPT !.crash_n = 0, !.rescue = IF armed THEN RescueId ELSE @]
       /\ phase' = IF armed THEN "armed" ELSE "run"
  /\ ram' = [ram EXCEPT !.streak = 0]
  /\ UNCHANGED <<flash, marker, reason, running, hist>>

\* esp_ota_set_boot_partition writes the chosen slot as new.
SetBootSlot ==
  /\ phase = "armed"
  /\ otaState' = [otaState EXCEPT ![Other(running)] = "new"]
  /\ newest' = Other(running)
  /\ switches' = switches + 1
  /\ unrecorded' = unrecorded + 1
  /\ phase' = "switched"
  /\ UNCHANGED <<build, whole, nvs, marker, reason, running, ram, earned, refused>>

\* It failed: disarmRescue, and the crash-looping image goes on.
SwitchFails ==
  /\ phase = "armed" /\ "otadata" \in Faults
  /\ \E cleared \in Outcome("nvs") :
       nvs' = [nvs EXCEPT !.rescue = IF cleared THEN 0 ELSE @]
  /\ phase' = "run"
  /\ UNCHANGED <<flash, marker, reason, running, ram, hist>>

\* recordFledRelease, then the restart without a marker.
SwitchRestart ==
  /\ phase = "switched"
  /\ \E wrote \in Outcome("nvs") :
       /\ nvs' = [nvs EXCEPT !.fled_ver = IF wrote THEN build[running] ELSE @]
       /\ refused' = [s \in Slots |-> IF s = running THEN wrote
                                     ELSE refused[s] /\ ~wrote]
  /\ Reset("sw", marker)
  /\ UNCHANGED <<flash, earned, switches, unrecorded>>

-----------------------------------------------------------------------------
(* loop() *)

\* MQTTClient reports the first broker session of the boot.
NoteMqttUp ==
  /\ phase = "run" /\ ~ram.mqttUp
  /\ ram' = [ram EXCEPT !.mqttUp = TRUE]
  /\ UNCHANGED <<flash, nvs, marker, phase, reason, running, hist>>

\* Uptime passes five minutes, then the hour, then each retry hour.
Uptime ==
  /\ phase = "run"
  /\ ram.up < Settled \/ ram.failWait
  /\ ram' = [ram EXCEPT !.up = IF @ < Settled THEN @ + 1 ELSE @,
                        !.failWait = FALSE]
  /\ UNCHANGED <<flash, nvs, marker, phase, reason, running, hist>>

\* markProvenOnBroker: once a boot, after the first session.
ProvenId(put, idRead) ==
  IF ram.mqttUp /\ ~ram.provenDone /\ put /\ idRead THEN ImageId(running) ELSE nvs.proven_id

\* dropOwnFledRecord: a confirmed image's own record would only refuse it later.
FledAfterDrop(removed) ==
  IF nvs.fled_ver = build[running] /\ removed THEN NoBuild ELSE nvs.fled_ver

\* The running slot's state, read once a boot.
RunState == IF ram.runState = "unread" THEN otaState[running] ELSE ram.runState

NewlyRead == ram.runState = "unread" /\ RunState # "pending"

\* Mutant: the confirm no longer waits for the health gate.
ConfirmPendingUngated ==
  /\ RunState = "pending" /\ ram.streakKnown
  /\ otaState' = [otaState EXCEPT ![ActiveSlot] = "valid"]
  /\ earned' = [earned EXCEPT ![running] = @ \/ ram.mqttUp \/ ram.up >= HealthyMin]
  /\ nvs' = [nvs EXCEPT !.crash_n = 0]
  /\ UNCHANGED refused
  /\ ram' = [ram EXCEPT !.settled = TRUE, !.runState = "pending",
                        !.provenDone = @ \/ ram.mqttUp]

\* The pending branch of confirmIfHealthy, given which calls worked: clear the
\* streak, then mark the active otadata entry.
MarkActive(put, cleared, removed, idRead, marked) ==
  LET done == cleared /\ marked
  IN /\ otaState' = [otaState EXCEPT ![ActiveSlot] = IF done THEN "valid" ELSE @]
     /\ earned' = [earned EXCEPT ![running] = @ \/ done]
     /\ refused' = [refused EXCEPT ![running] = @ /\ ~done]
     /\ nvs' = [nvs EXCEPT
          !.proven_id = ProvenId(put, idRead),
          !.crash_n   = IF cleared THEN 0 ELSE @,
          !.fled_ver  = IF done THEN FledAfterDrop(removed) ELSE @]
     /\ ram' = [ram EXCEPT !.settled = done, !.runState = "pending",
                           !.provenDone = @ \/ ram.mqttUp]

ConfirmPending ==
  /\ RunState = "pending" /\ ram.streakKnown
  /\ otaHealthShouldMark(TRUE, ram.mqttUp, ram.up, ram.streak)
  /\ \E put, cleared, removed \in Outcome("nvs"), idRead \in Outcome("desc"),
        marked \in Outcome("otadata") :
       MarkActive(put, cleared, removed, idRead, marked)

\* The other branch: an image up an hour clears its streak, and one flashed
\* over USB is then marked valid while the boot slot is still its own.
SettleRunning(put, cleared, removed, idRead, marked) ==
  LET usb     == RunState = "undefined"
      idle    == ~ram.streakKnown \/ (ram.streak = 0 /\ ~usb)
      due     == ~idle /\ otaHealthSettleDue(ram.up, ram.failWait)
      clear   == due /\ ram.streak # 0
      tryMark == due /\ usb /\ (clear => cleared)
      markOk  == tryMark /\ ActiveSlot = running /\ marked
      failed  == (clear /\ ~cleared) \/ (tryMark /\ ~markOk)
  IN /\ otaState' = [otaState EXCEPT ![running] = IF markOk THEN "valid" ELSE @]
     /\ earned' = [earned EXCEPT ![running] = @ \/ markOk]
     /\ refused' = [refused EXCEPT ![running] = @ /\ ~NewlyRead]
     /\ nvs' = [nvs EXCEPT
          !.proven_id = ProvenId(put, idRead),
          !.crash_n   = IF clear /\ cleared THEN 0 ELSE @,
          !.fled_ver  = IF NewlyRead THEN FledAfterDrop(removed) ELSE @]
     /\ ram' = [ram EXCEPT
          !.runState   = RunState,
          !.streak     = IF clear /\ cleared THEN 0 ELSE @,
          !.settled    = idle \/ (due /\ ~failed),
          !.failWait   = @ \/ failed,
          !.provenDone = @ \/ ram.mqttUp]

SettleImage ==
  /\ RunState # "pending"
  /\ \E put, cleared, removed \in Outcome("nvs"), idRead \in Outcome("desc"),
        marked \in Outcome("otadata") :
       SettleRunning(put, cleared, removed, idRead, marked)

\* Otherwise only the proven record, and the state read, move.
RecordProven ==
  /\ \/ ram.settled
     \/ RunState = "pending" /\ ~(/\ ram.streakKnown
                                  /\ otaHealthShouldMark(TRUE, ram.mqttUp, ram.up, ram.streak))
  /\ \E put \in Outcome("nvs"), idRead \in Outcome("desc") :
       nvs' = [nvs EXCEPT !.proven_id = ProvenId(put, idRead)]
  /\ ram' = [ram EXCEPT !.provenDone = @ \/ ram.mqttUp,
                        !.runState = IF ram.settled THEN @ ELSE RunState]
  /\ UNCHANGED <<otaState, earned, refused>>

\* confirmIfHealthy, every turn of the main loop.
ConfirmIfHealthy ==
  /\ phase = "run"
  /\ \/ ~ram.settled /\ (ConfirmPending \/ SettleImage)
     \/ RecordProven
  /\ UNCHANGED <<build, whole, newest, marker, phase, reason, running,
                 switches, unrecorded>>

-----------------------------------------------------------------------------
(* Images written into the other slot *)

\* A download or upload overwrites the slot; its otadata entry stays.
OverwriteOther(b) ==
  /\ build' = [build EXCEPT ![Other(running)] = b]
  /\ whole' = [whole EXCEPT ![Other(running)] = FALSE]
  /\ earned' = [earned EXCEPT ![Other(running)] = FALSE]
  /\ switches' = 0
  /\ unrecorded' = 0
  /\ refused' = [refused EXCEPT ![Other(running)] = FALSE]
  /\ UNCHANGED <<otaState, newest>>

\* Update.end: the image becomes bootable and its slot the boot slot.  (Not
\* modelled when the boot slot already differs from the running one.)
ActivateOther ==
  /\ ActiveSlot = running
  /\ whole' = [whole EXCEPT ![Other(running)] = TRUE]
  /\ otaState' = [otaState EXCEPT ![Other(running)] = "new"]
  /\ newest' = Other(running)
  /\ UNCHANGED <<build, hist>>

\* Mutant: the fled record is not consulted.
FledNever(v, force, read) == FALSE

\* check() refuses the recorded release until its day is over.
FledRefuses(v, force, read) == read /\ v = nvs.fled_ver /\ ~force

\* check(): a newer or forced manifest version starts the download, which
\* blocks the main loop.
StartDownload(v, force) ==
  /\ Pulls /\ phase = "run" /\ ram.upload # "writing"
  /\ force => "force" \in Overrides
  /\ force \/ v > build[running]
  /\ \E read \in Outcome("nvs") : FledRefuses(v, force, read) => "expiry" \in Overrides
  /\ OverwriteOther(v)
  /\ phase' = "download"
  /\ UNCHANGED <<nvs, marker, reason, running, ram>>

\* Transport, write, size or SHA256 failure: Update.abort().
DownloadFails ==
  /\ phase = "download"
  /\ phase' = "run"
  /\ UNCHANGED <<flash, nvs, marker, reason, running, ram, hist>>

DownloadVerified ==
  /\ phase = "download"
  /\ ActivateOther
  /\ phase' = "staged"
  /\ UNCHANGED <<nvs, marker, reason, running, ram>>

\* Update.end wrote the image head but could not set the boot slot.
ActivateFails ==
  /\ phase = "download" /\ "activate" \in Faults
  /\ whole' = [whole EXCEPT ![Other(running)] = TRUE]
  /\ phase' = "run"
  /\ UNCHANGED <<build, otaState, newest, nvs, marker, reason, running, ram, hist>>

\* recordInstalledBuild, then plannedRestart.
InstallRestart ==
  /\ phase = "staged"
  /\ \E wrote \in Outcome("nvs") :
       /\ nvs' = [nvs EXCEPT !.fled_ver = IF wrote THEN build[Other(running)] ELSE @]
       /\ refused' = [s \in Slots |-> IF s = Other(running) THEN wrote
                                     ELSE refused[s] /\ ~wrote]
  /\ Reset("sw", "operator")
  /\ UNCHANGED <<flash, earned, switches, unrecorded>>

\* POST /ota on the AsyncTCP task: first chunk, last chunk, then the request
\* handler, which may find the session gone.
UploadBegin(b) ==
  /\ Uploads /\ phase = "run" /\ ram.upload = "idle"
  /\ OverwriteOther(b)
  /\ ram' = [ram EXCEPT !.upload = "writing"]
  /\ UNCHANGED <<nvs, marker, phase, reason, running>>

UploadEnd ==
  /\ phase = "run" /\ ram.upload = "writing"
  /\ ActivateOther
  /\ ram' = [ram EXCEPT !.upload = "staged"]
  /\ UNCHANGED <<nvs, marker, phase, reason, running>>

\* A write or Update.end error: nothing is staged, unless only the boot slot
\* could not be set.
UploadFails ==
  /\ phase = "run" /\ ram.upload = "writing"
  /\ \E head \in BOOLEAN :
       /\ head => "activate" \in Faults
       /\ whole' = [whole EXCEPT ![Other(running)] = @ \/ head]
  /\ ram' = [ram EXCEPT !.upload = "idle"]
  /\ UNCHANGED <<build, otaState, newest, nvs, marker, phase, reason, running, hist>>

UploadReply ==
  /\ phase = "run" /\ ram.upload = "staged"
  /\ \E authorized \in BOOLEAN :
       ram' = [ram EXCEPT !.upload = "idle", !.restartPending = @ \/ authorized]
  /\ UNCHANGED <<flash, nvs, marker, phase, reason, running, hist>>

\* HttpServer::loop with _restartPending.
WebRestart ==
  /\ phase = "run" /\ ram.restartPending /\ MayCount
  /\ Reset("sw", "operator")
  /\ UNCHANGED <<flash, nvs, hist>>

-----------------------------------------------------------------------------
(* Resets *)

Restarts(cause, word) ==
  /\ cause \in Causes /\ phase = "run" /\ MayCount
  /\ Reset("sw", word)
  /\ UNCHANGED <<flash, nvs, hist>>

\* Shell restart, config save, cert reboot, ...; the MQTT reboot budget; the
\* heap watchdog, which carries no marker.
PlannedRestart == Restarts("operator", "operator")
BrokerRestart  == Restarts("broker", "broker")
HeapRestart    == Restarts("heap", marker)

\* Panic or watchdog at any point of the boot or the loop.
Crash ==
  /\ "crash" \in Causes /\ phase # "boot" /\ MayCount
  /\ Reset("crash", marker)
  /\ UNCHANGED <<flash, nvs, hist>>

Brownout ==
  /\ "brownout" \in Causes /\ phase # "boot"
  /\ \E why \in {"brownout", "hold"} : Reset(why, marker)
  /\ UNCHANGED <<flash, nvs, hist>>

\* The RTC word is noise after a power-on.
PowerOn ==
  /\ "poweron" \in Causes
  /\ \E noise \in Markers : Reset("poweron", noise)
  /\ UNCHANGED <<flash, nvs, hist>>

DeepSleep ==
  /\ "deepsleep" \in Causes /\ phase = "run"
  /\ Reset("deepsleep", marker)
  /\ UNCHANGED <<flash, nvs, hist>>

BootStep == Bootloader \/ InitArduino \/ RecordBootStreak
GuardStep == \/ GuardPasses \/ GuardKeepsPending \/ GuardClearsStreak
             \/ RejectPending \/ RejectFails
             \/ ArmRescue \/ SetBootSlot \/ SwitchFails \/ SwitchRestart
LoopStep  == NoteMqttUp \/ Uptime \/ ConfirmIfHealthy
WriteStep == \/ \E v \in Builds, force \in BOOLEAN : StartDownload(v, force)
             \/ DownloadFails \/ DownloadVerified \/ ActivateFails \/ InstallRestart
             \/ \E b \in Builds : UploadBegin(b)
             \/ UploadEnd \/ UploadFails \/ UploadReply \/ WebRestart
ResetStep == \/ PlannedRestart \/ BrokerRestart \/ HeapRestart
             \/ Crash \/ Brownout \/ PowerOn \/ DeepSleep

Next == BootStep \/ GuardStep \/ LoopStep \/ WriteStep \/ ResetStep

Spec == Init /\ [][Next]_vars

\* An image that crash-loops: each boot gets through setup() now and then, and
\* a boot that stays up crashes sooner or later.
CrashFairness ==
  /\ WF_vars(Bootloader) /\ WF_vars(Uptime) /\ WF_vars(SwitchRestart \/ RejectPending)
  /\ SF_vars(InitArduino) /\ SF_vars(RecordBootStreak)
  /\ SF_vars(phase = "guard" /\ GuardStep) /\ SF_vars(SetBootSlot)
  /\ SF_vars(phase = "run" /\ Crash)

\* A main loop that turns: boots run to their end, time passes, and every turn
\* confirms before it checks for an update.
LoopFairness ==
  /\ WF_vars(BootStep) /\ WF_vars(GuardStep)
  /\ SF_vars(Uptime) /\ SF_vars(ConfirmIfHealthy)
  /\ WF_vars(DownloadFails) /\ WF_vars(InstallRestart)

CrashSpec == Spec /\ CrashFairness
LoopSpec  == Spec /\ LoopFairness

-----------------------------------------------------------------------------
\* An otadata entry reads valid only on an image that passed the health gate,
\* or was kept because there was no other: confirmIfHealthy, the rescue confirm
\* in initArduino and the USB mark never vouch for an image that did not run.
ConfirmedHasRun ==
  \A s \in Slots : otaState[s] = "valid" /\ whole[s] => earned[s]

\* Between two image writes the guard switches once, and once more for each
\* arrival whose record was lost to a reset or a failed write.
PingPongBounded == switches <= 1 + unrecorded

\* Whatever is interrupted, one slot still boots, the running image is never
\* the one being overwritten, and the guard leaves it only for an image that
\* loads: a slot half overwritten still reads valid in otadata.
AlwaysBootable ==
  /\ \E s \in Slots : whole[s]
  /\ phase # "boot" => whole[running]
  /\ phase \in {"armed", "switched", "reject"} => whole[Other(running)]

\* A crash-looping image may install its fix: the guard never rejects an image
\* at the boot its own install restart led to, whatever streak the installer had.
InstallNotRejected == phase = "reject" => ~ram.install

\* The release last installed or fled is not pulled again by a check after it
\* aborted, was rolled back or was left, while its day runs and nobody forces it.
NoRepull ==
  [][phase = "run" /\ phase' = "download" =>
       LET o == Other(running)
       IN ~(refused[o] /\ whole[o] /\ build'[o] = build[o])]_vars

\* A broker outage does not switch slots: while restarts are planned or come
\* from the MQTT budget, the guard never leaves the image proven on the broker.
KeepsProven == phase = "guard" /\ phase' = "armed" => nvs.proven_id # ImageId(running)

\* A confirmed image that keeps crashing within the hour is left, as long as
\* the other slot holds a target.
EscapesCrashLoop ==
  \A s \in Slots :
    phase = "run" /\ running = s /\ otaState[s] = "valid" /\ rollbackTarget
      ~> running # s \/ ram.up = Settled \/ ~whole[Other(s)]

\* An image does not stay pending: it is confirmed once it has shown it can
\* run, with or without a broker, or it is gone.
PendingResolved ==
  \A s \in Slots : otaState[s] = "pending" ~> otaState[s] # "pending"
=============================================================================
