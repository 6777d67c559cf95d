--------------------------- MODULE OtaGuardProofs ---------------------------
(***************************************************************************)
(* Theorems about OtaGuard, for every set of builds, platforms, faults and *)
(* causes, every crash limit of two or more and every bound.               *)
(***************************************************************************)
EXTENDS OtaGuard, TLAPS

\* The two slots are each other's other.
LEMMA OtherSlot ==
  \A s \in Slots : /\ Other(s) \in Slots /\ Other(s) # s /\ Other(Other(s)) = s
                   /\ \A t \in Slots : t = s \/ t = Other(s)
  BY DEF Slots, Other

\* The active otadata entry always names a slot.
LEMMA SelectedIsSlot ==
  ASSUME NEW states, NEW latest \in Slots
  PROVE  Selected(states, latest) \in Slots
  BY DEF Selected, Slots, Other

\* A call returns TRUE or FALSE.
LEMMA OutcomeIsBoolean == ASSUME NEW call, NEW r \in Outcome(call) PROVE r \in BOOLEAN
  BY DEF Outcome

LEMMA ResetRamType == ResetRam \in RamType
  BY DEF ResetRam, RamType, Uptimes, FreshBoot

LEMMA ImageIdType ==
  ASSUME TypeOK, NEW s \in Slots PROVE ImageId(s) \in ImageIds
  BY DEF TypeOK, ImageId, ImageIds

\* A reset keeps the types as long as what it leaves in flash has them.
LEMMA ResetKeepsType ==
  ASSUME TypeOK, NEW why \in ResetReasons, NEW word \in Markers, Reset(why, word),
         UNCHANGED <<build, whole, newest, earned, switches, unrecorded>>,
         otaState' \in [Slots -> ImageStates],
         refused' \in [Slots -> BOOLEAN],
         nvs' \in NvsType
  PROVE  TypeOK'
  BY ResetRamType DEF TypeOK, Reset, Phases

LEMMA NextStreakIsNat ==
  ASSUME NEW n \in Nat, NEW kind PROVE otaHealthNextCrashStreak(n, kind) \in Nat
  BY DEF otaHealthNextCrashStreak

LEMMA LeftRecordType ==
  ASSUME TypeOK, NEW removed, NEW recorded, NEW idRead
  PROVE  LeftRecord(removed, recorded, idRead) \in ImageIds
  BY ImageIdType, OtherSlot DEF LeftRecord, TypeOK, NvsType, ImageIds

-----------------------------------------------------------------------------
(* Type correctness *)

LEMMA InitType == Init => TypeOK
  <1> SUFFICES ASSUME Init PROVE TypeOK
    OBVIOUS
  <1>1. nvs \in NvsType
    BY DEF Init, NvsType, ImageIds
  <1>2. whole \in [Slots -> BOOLEAN] /\ earned \in [Slots -> BOOLEAN]
    BY DEF Init
  <1>3. otaState \in [Slots -> ImageStates]
    BY DEF Init, ImageStates
  <1> QED
    BY <1>1, <1>2, <1>3, ResetRamType
    DEF Init, TypeOK, Slots, Markers, Phases, ResetReasons

LEMMA BootType == TypeOK /\ BootStep => TypeOK'
  <1> SUFFICES ASSUME TypeOK, BootStep PROVE TypeOK'
    OBVIOUS
  <1>1. CASE Bootloader
    <2> DEFINE settledStates == [s \in Slots |-> IF otaState[s] = "pending"
                                                 THEN "aborted" ELSE otaState[s]]
    <2>1. Selected(settledStates, newest) \in Slots
      BY SelectedIsSlot DEF TypeOK
    <2>2. settledStates \in [Slots -> ImageStates]
      BY DEF TypeOK, ImageStates
    <2>3. otaState' \in [Slots -> ImageStates] /\ running' \in Slots
      BY <1>1, <2>1, <2>2, OtherSlot DEF Bootloader, ImageStates
    <2> QED BY <1>1, <2>3 DEF Bootloader, TypeOK, Phases, hist
  <1>2. CASE InitArduino
    <2>1. nvs' \in NvsType /\ ram' \in RamType /\ otaState' \in [Slots -> ImageStates]
      <3>1. PICK opened \in Outcome("nvs"), cleared \in Outcome("nvs"),
                 marked \in Outcome("otadata") :
                 LET pending == otaState[running] = "pending"
                     rescue  == IF opened THEN otaHealthRescue(nvs.rescue, marker) ELSE 0
                     confirm == opened /\ cleared /\ rescue # 0 /\ pending /\ marked
                 IN /\ nvs' = [nvs EXCEPT !.rescue = IF opened /\ cleared THEN 0 ELSE @]
                    /\ ram' = [ram EXCEPT !.bootRescue = rescue,
                                          !.bootPending = opened /\ pending]
                    /\ otaState' = [otaState EXCEPT ![running] =
                                      IF confirm THEN "valid" ELSE @]
        BY <1>2 DEF InitArduino
      <3> QED BY <3>1, OutcomeIsBoolean DEF TypeOK, NvsType, RamType, otaHealthRescue, ImageStates
    <2> QED BY <1>2, <2>1 DEF InitArduino, TypeOK, Phases, hist
  <1>3. CASE RecordBootStreak
    <2>1. /\ \A idRead : NextStreak(idRead) \in Nat
          /\ \A removed, recorded, idRead : LeftRecord(removed, recorded, idRead) \in ImageIds
      BY NextStreakIsNat, LeftRecordType DEF NextStreak, TypeOK, NvsType
    <2>2. PICK opened \in Outcome("nvs"), removed \in Outcome("nvs"),
               recorded \in Outcome("nvs"), counted \in Outcome("nvs"),
               stored \in Outcome("nvs"), idRead \in Outcome("desc") :
            StoreStreak(opened, removed, recorded, counted, stored, idRead)
      BY <1>3, Zenon DEF RecordBootStreak
    <2>3. nvs' \in NvsType
      BY <2>1, <2>2 DEF StoreStreak, TypeOK, NvsType
    <2>4. ram' \in RamType
      <3> DEFINE past     == opened /\ (reason = "brownout" => counted)
                 known    == past /\ stored
                 install  == reason = "sw" /\ marker # "none" /\ otaState[running] = "pending"
                 streak   == IF known THEN NextStreak(idRead) ELSE CrashLimit
                 proven   == past /\ RecordsProven(idRead)
      <3>1. ram' = [ram EXCEPT !.streakKnown = known, !.install = install,
                               !.streak = streak, !.provenDone = proven]
        BY <2>2, Zenon DEF StoreStreak
      <3>2. known \in BOOLEAN /\ install \in BOOLEAN /\ proven \in BOOLEAN
        OBVIOUS
      <3>3. streak \in Nat
        BY <2>1, CrashLimitAssumption
      <3> HIDE DEF past, known, install, streak, proven
      <3> QED BY <3>1, <3>2, <3>3 DEF TypeOK, RamType
    <2>5. unrecorded' \in Nat
      BY <2>2 DEF StoreStreak, TypeOK
    <2> QED
      BY <1>3, <2>3, <2>4, <2>5 DEF RecordBootStreak, TypeOK, flash, Markers, Phases
  <1> QED BY <1>1, <1>2, <1>3 DEF BootStep

LEMMA GuardType == TypeOK /\ GuardStep => TypeOK'
  <1> SUFFICES ASSUME TypeOK, GuardStep PROVE TypeOK'
    OBVIOUS
  <1> USE DEF Phases
  <1>1. CASE GuardPasses
    BY <1>1 DEF GuardPasses, TypeOK, flash, hist
  <1>2. CASE GuardKeepsPending
    <2>1. nvs' \in NvsType /\ ram' \in RamType
      BY <1>2 DEF GuardKeepsPending, TypeOK, NvsType, RamType
    <2>2. otaState' \in [Slots -> ImageStates] /\ earned' \in [Slots -> BOOLEAN]
      BY <1>2 DEF GuardKeepsPending, TypeOK, ImageStates
    <2> QED BY <1>2, <2>1, <2>2 DEF GuardKeepsPending, TypeOK
  <1>3. CASE GuardClearsStreak
    BY <1>3 DEF GuardClearsStreak, TypeOK, NvsType, flash, hist
  <1>4. CASE RejectPending
    BY <1>4, ResetKeepsType DEF RejectPending, TypeOK, ImageStates, ResetReasons, hist
  <1>5. CASE RejectFails
    BY <1>5 DEF RejectFails, TypeOK, flash, hist
  <1>6. CASE ArmRescue
    <2>1. PICK armed \in Outcome("nvs") :
            nvs' = [nvs EXCEPT !.crash_n = 0, !.rescue = IF armed THEN RescueId ELSE @]
      BY <1>6 DEF ArmRescue
    <2>2. nvs' \in NvsType
      BY <2>1 DEF TypeOK, NvsType
    <2>3. ram' \in RamType
      BY <1>6 DEF ArmRescue, TypeOK, RamType
    <2> QED BY <1>6, <2>2, <2>3 DEF ArmRescue, TypeOK, flash, hist
  <1>7. CASE SetBootSlot
    BY <1>7, OtherSlot DEF SetBootSlot, TypeOK, ImageStates
  <1>8. CASE SwitchFails
    BY <1>8 DEF SwitchFails, TypeOK, NvsType, flash, hist
  <1>9. CASE SwitchRestart
    <2>1. nvs' \in NvsType
      BY <1>9 DEF SwitchRestart, TypeOK, NvsType
    <2>2. refused' \in [Slots -> BOOLEAN]
      BY <1>9, OutcomeIsBoolean DEF SwitchRestart, TypeOK
    <2> QED BY <1>9, <2>1, <2>2, ResetKeepsType DEF SwitchRestart, TypeOK, ResetReasons, flash
  <1> QED BY <1>1, <1>2, <1>3, <1>4, <1>5, <1>6, <1>7, <1>8, <1>9 DEF GuardStep

LEMMA LoopType == TypeOK /\ LoopStep => TypeOK'
  <1> SUFFICES ASSUME TypeOK, LoopStep PROVE TypeOK'
    OBVIOUS
  <1>1. CASE NoteMqttUp
    BY <1>1 DEF NoteMqttUp, TypeOK, RamType, flash, hist
  <1>2. CASE Uptime
    <2> DEFINE up == IF ram.up < Settled THEN ram.up + 1 ELSE ram.up
    <2>1. up \in Uptimes
      BY DEF TypeOK, RamType, Uptimes, FreshBoot, HealthyMin, Settled
    <2>2. ram' = [ram EXCEPT !.up = up, !.failWait = FALSE]
      BY <1>2 DEF Uptime
    <2> HIDE DEF up
    <2>3. ram' \in RamType
      BY <2>1, <2>2 DEF TypeOK, RamType
    <2> QED BY <1>2, <2>3 DEF Uptime, TypeOK, flash, hist
  <1>3. CASE ConfirmIfHealthy
    <2> DEFINE Typed == /\ otaState' \in [Slots -> ImageStates]
                        /\ earned' \in [Slots -> BOOLEAN]
                        /\ refused' \in [Slots -> BOOLEAN]
                        /\ nvs' \in NvsType
                        /\ ram' \in RamType
    <2>1. /\ \A put, idRead : ProvenId(put, idRead) \in ImageIds
          /\ \A removed : FledAfterDrop(removed) \in Builds \cup {NoBuild}
          /\ RunState \in ImageStates \cup {"unread"}
          /\ ActiveSlot \in Slots
      BY ImageIdType, SelectedIsSlot
      DEF ProvenId, FledAfterDrop, RunState, ActiveSlot, TypeOK, NvsType, RamType
    <2>2. ASSUME ConfirmPending PROVE Typed
      <3>1. PICK put \in Outcome("nvs"), cleared \in Outcome("nvs"), removed \in Outcome("nvs"),
                 idRead \in Outcome("desc"), marked \in Outcome("otadata") :
                 MarkActive(put, cleared, removed, idRead, marked)
        BY <2>2, Zenon DEF ConfirmPending
      <3>2. nvs' \in NvsType
        BY <2>1, <3>1 DEF MarkActive, TypeOK, NvsType
      <3>3. ram' \in RamType
        <4> DEFINE done == cleared /\ marked
                   proven == ram.provenDone \/ ram.mqttUp
        <4>1. ram' = [ram EXCEPT !.settled = done, !.runState = "pending",
                                 !.provenDone = proven]
          BY <3>1, Zenon DEF MarkActive
        <4>2. done \in BOOLEAN /\ proven \in BOOLEAN
          OBVIOUS
        <4> HIDE DEF done, proven
        <4> QED BY <4>1, <4>2 DEF TypeOK, RamType, ImageStates
      <3>4. otaState' \in [Slots -> ImageStates]
        BY <2>1, <3>1 DEF MarkActive, TypeOK, ImageStates
      <3>5. earned' \in [Slots -> BOOLEAN] /\ refused' \in [Slots -> BOOLEAN]
        BY <3>1 DEF MarkActive, TypeOK
      <3> QED BY <3>2, <3>3, <3>4, <3>5
    <2>3. ASSUME SettleImage PROVE Typed
      <3>1. PICK put \in Outcome("nvs"), cleared \in Outcome("nvs"), removed \in Outcome("nvs"),
                 idRead \in Outcome("desc"), marked \in Outcome("otadata") :
                 SettleRunning(put, cleared, removed, idRead, marked)
        BY <2>3, Zenon DEF SettleImage
      <3>2. nvs' \in NvsType
        BY <2>1, <3>1 DEF SettleRunning, TypeOK, NvsType
      <3>3. ram' \in RamType
        <4> DEFINE
          usb     == RunState = "undefined"
          idle    == ~ram.streakKnown \/ (ram.streak = 0 /\ ~usb)
          due     == ~idle /\ otaHealthSettleDue(ram.up, ram.failWait)
          clear   == due /\ ram.streak # 0
          tryMark == due /\ usb /\ (clear => cleared)
          markOk  == tryMark /\ ActiveSlot = running /\ marked
          failed  == (clear /\ ~cleared) \/ (tryMark /\ ~markOk)
          streak  == IF clear /\ cleared THEN 0 ELSE ram.streak
          settled == idle \/ (due /\ ~failed)
          wait    == ram.failWait \/ failed
          proven  == ram.provenDone \/ ram.mqttUp
        <4>1. ram' = [ram EXCEPT !.runState = RunState, !.streak = streak,
                        !.settled = settled, !.failWait = wait, !.provenDone = proven]
          BY <3>1, Zenon DEF SettleRunning
        <4>2. settled \in BOOLEAN /\ wait \in BOOLEAN /\ proven \in BOOLEAN
          OBVIOUS
        <4>3. streak \in Nat
          BY DEF TypeOK, RamType
        <4> HIDE DEF streak, settled, wait, proven
        <4> QED BY <2>1, <4>1, <4>2, <4>3 DEF TypeOK, RamType
      <3>4. otaState' \in [Slots -> ImageStates]
        BY <3>1 DEF SettleRunning, TypeOK, ImageStates
      <3>5. earned' \in [Slots -> BOOLEAN] /\ refused' \in [Slots -> BOOLEAN]
        BY <3>1 DEF SettleRunning, TypeOK
      <3> QED BY <3>2, <3>3, <3>4, <3>5
    <2>4. ASSUME RecordProven PROVE Typed
      <3>1. nvs' \in NvsType
        BY <2>1, <2>4 DEF RecordProven, TypeOK, NvsType
      <3>2. ram' \in RamType
        BY <2>1, <2>4 DEF RecordProven, TypeOK, RamType
      <3> QED BY <2>4, <3>1, <3>2 DEF RecordProven, TypeOK
    <2> QED BY <1>3, <2>2, <2>3, <2>4 DEF ConfirmIfHealthy, TypeOK
  <1> QED BY <1>1, <1>2, <1>3 DEF LoopStep

LEMMA OverwriteType ==
  ASSUME TypeOK, NEW b \in Builds, OverwriteOther(b)
  PROVE  /\ build' \in [Slots -> Builds] /\ whole' \in [Slots -> BOOLEAN]
         /\ otaState' \in [Slots -> ImageStates] /\ newest' \in Slots
         /\ earned' \in [Slots -> BOOLEAN] /\ refused' \in [Slots -> BOOLEAN]
         /\ switches' \in Nat /\ unrecorded' \in Nat
  BY OtherSlot DEF OverwriteOther, TypeOK

LEMMA ActivateType ==
  ASSUME TypeOK, ActivateOther
  PROVE  /\ build' \in [Slots -> Builds] /\ whole' \in [Slots -> BOOLEAN]
         /\ otaState' \in [Slots -> ImageStates] /\ newest' \in Slots
         /\ UNCHANGED hist
  BY OtherSlot DEF ActivateOther, TypeOK, ImageStates

LEMMA WriteType == TypeOK /\ WriteStep => TypeOK'
  <1> SUFFICES ASSUME TypeOK, WriteStep PROVE TypeOK'
    OBVIOUS
  <1> USE DEF Phases
  <1>1. ASSUME NEW v \in Builds, NEW force \in BOOLEAN, StartDownload(v, force) PROVE TypeOK'
    BY <1>1, OverwriteType DEF StartDownload, TypeOK
  <1>2. CASE DownloadFails
    BY <1>2 DEF DownloadFails, TypeOK, flash, hist
  <1>3. CASE DownloadVerified
    BY <1>3, ActivateType DEF DownloadVerified, TypeOK, hist
  <1>4. CASE ActivateFails
    BY <1>4, OtherSlot DEF ActivateFails, TypeOK, hist
  <1>5. CASE InstallRestart
    <2>1. nvs' \in NvsType
      BY <1>5, OtherSlot DEF InstallRestart, TypeOK, NvsType
    <2>2. refused' \in [Slots -> BOOLEAN]
      BY <1>5, OutcomeIsBoolean DEF InstallRestart, TypeOK
    <2> QED BY <1>5, <2>1, <2>2, ResetKeepsType
            DEF InstallRestart, TypeOK, ResetReasons, Markers, flash
  <1>6. ASSUME NEW b \in Builds, UploadBegin(b) PROVE TypeOK'
    BY <1>6, OverwriteType DEF UploadBegin, TypeOK, RamType
  <1>7. CASE UploadEnd
    BY <1>7, ActivateType DEF UploadEnd, TypeOK, RamType, hist
  <1>8. CASE UploadReply
    <2>1. ram' \in RamType
      BY <1>8 DEF UploadReply, TypeOK, RamType
    <2> QED BY <1>8, <2>1 DEF UploadReply, TypeOK, flash, hist
  <1>9. CASE WebRestart
    BY <1>9, ResetKeepsType DEF WebRestart, TypeOK, ResetReasons, Markers, flash, hist
  <1>10. CASE UploadFails
    <2>1. ram' \in RamType
      BY <1>10 DEF UploadFails, TypeOK, RamType
    <2>2. whole' \in [Slots -> BOOLEAN]
      BY <1>10, OtherSlot DEF UploadFails, TypeOK
    <2> QED BY <1>10, <2>1, <2>2 DEF UploadFails, TypeOK, hist
  <1> QED BY <1>1, <1>2, <1>3, <1>4, <1>5, <1>6, <1>7, <1>8, <1>9, <1>10 DEF WriteStep

LEMMA ResetType == TypeOK /\ ResetStep => TypeOK'
  <1> SUFFICES ASSUME TypeOK, ResetStep PROVE TypeOK'
    OBVIOUS
  <1>1. UNCHANGED <<flash, nvs, hist>>
    BY DEF ResetStep, PlannedRestart, BrokerRestart, HeapRestart, Restarts,
           Crash, Brownout, PowerOn, DeepSleep
  <1>2. \E why \in ResetReasons, word \in Markers : Reset(why, word)
    BY DEF ResetStep, PlannedRestart, BrokerRestart, HeapRestart, Restarts,
           Crash, Brownout, PowerOn, DeepSleep, ResetReasons, Markers, TypeOK
  <1> QED BY <1>1, <1>2, ResetKeepsType DEF TypeOK, flash, hist

LEMMA NextType == TypeOK /\ [Next]_vars => TypeOK'
  <1> SUFFICES ASSUME TypeOK, [Next]_vars PROVE TypeOK'
    OBVIOUS
  <1>1. CASE UNCHANGED vars
    BY <1>1 DEF vars, flash, hist, TypeOK
  <1> QED BY <1>1, BootType, GuardType, LoopType, WriteType, ResetType DEF Next

\* Every variable keeps its type; the crash streak is the only counter the
\* code lets grow, and it never goes below zero.
THEOREM TypeCorrect == Spec => []TypeOK
  <1>1. Init => TypeOK
    BY InitType
  <1>2. TypeOK /\ [Next]_vars => TypeOK'
    BY NextType
  <1> QED BY <1>1, <1>2, PTL DEF Spec

-----------------------------------------------------------------------------
(* AlwaysBootable is inductive relative to TypeOK. *)

LEMMA BootableStep == TypeOK /\ AlwaysBootable /\ [Next]_vars => AlwaysBootable'
  <1> SUFFICES ASSUME TypeOK, AlwaysBootable, [Next]_vars PROVE AlwaysBootable'
    OBVIOUS
  <1> USE OtherSlot DEF AlwaysBootable, TypeOK
  <1>1. CASE UNCHANGED vars
    BY <1>1 DEF vars, flash
  <1>2. CASE BootStep
    <2>1. UNCHANGED whole
      BY <1>2 DEF BootStep, Bootloader, InitArduino, RecordBootStreak, flash
    <2>2. CASE Bootloader
      BY <2>1, <2>2 DEF Bootloader
    <2>3. CASE InitArduino \/ RecordBootStreak
      BY <2>1, <2>3 DEF InitArduino, RecordBootStreak
    <2> QED BY <1>2, <2>2, <2>3 DEF BootStep
  <1>3. CASE GuardStep
    <2>1. UNCHANGED <<whole, running>>
      BY <1>3 DEF GuardStep, GuardPasses, GuardKeepsPending, GuardClearsStreak, RejectPending,
                  RejectFails, ArmRescue, SetBootSlot, SwitchFails, SwitchRestart, Reset, flash
    <2>2. phase # "boot"
      BY <1>3 DEF GuardStep, GuardPasses, GuardKeepsPending, GuardClearsStreak, RejectPending,
                  RejectFails, ArmRescue, SetBootSlot, SwitchFails, SwitchRestart
    <2>3. phase' \in {"armed", "switched", "reject"} => whole[Other(running)]
      BY <1>3 DEF GuardStep, GuardPasses, GuardKeepsPending, GuardClearsStreak, RejectPending,
                  RejectFails, ArmRescue, SetBootSlot, SwitchFails, SwitchRestart, Reset,
                  rollbackTarget
    <2> QED BY <2>1, <2>2, <2>3
  <1>4. CASE LoopStep
    BY <1>4 DEF LoopStep, NoteMqttUp, Uptime, ConfirmIfHealthy, flash
  <1>5. CASE WriteStep
    <2>1. ASSUME NEW v \in Builds, NEW force \in BOOLEAN, StartDownload(v, force)
          PROVE AlwaysBootable'
      BY <2>1 DEF StartDownload, OverwriteOther
    <2>2. ASSUME NEW b \in Builds, UploadBegin(b) PROVE AlwaysBootable'
      BY <2>2 DEF UploadBegin, OverwriteOther
    <2>3. CASE DownloadVerified \/ UploadEnd \/ ActivateFails \/ UploadFails
      BY <2>3 DEF DownloadVerified, UploadEnd, ActivateFails, UploadFails, ActivateOther
    <2>4. CASE DownloadFails \/ UploadReply
      <3>1. UNCHANGED <<whole, running>> /\ phase' = "run" /\ phase # "boot"
        BY <2>4 DEF DownloadFails, UploadReply, flash
      <3> QED BY <3>1
    <2>5. CASE InstallRestart \/ WebRestart
      BY <2>5 DEF InstallRestart, WebRestart, Reset, flash
    <2> QED BY <1>5, <2>1, <2>2, <2>3, <2>4, <2>5 DEF WriteStep
  <1>6. CASE ResetStep
    BY <1>6 DEF ResetStep, PlannedRestart, BrokerRestart, HeapRestart, Restarts,
                Crash, Brownout, PowerOn, DeepSleep, Reset, flash
  <1> QED BY <1>1, <1>2, <1>3, <1>4, <1>5, <1>6 DEF Next

\* Whatever fails or resets, a slot boots, the running image is intact, and the
\* guard leaves it only for an image that loads.
THEOREM Bootable == Spec => []AlwaysBootable
  <1>1. Init => AlwaysBootable
    BY DEF Init, AlwaysBootable, Slots
  <1>2. TypeOK /\ AlwaysBootable /\ [Next]_vars => AlwaysBootable'
    BY BootableStep
  <1> QED BY <1>1, <1>2, TypeCorrect, PTL DEF Spec

-----------------------------------------------------------------------------
(* A planned install is not rejected at its first boot. *)

InstallInv ==
  /\ phase = "guard" /\ ram.install => ~AtLimit
  /\ InstallNotRejected

\* An install restart is classed fresh, so the streak it stores is one.
LEMMA InstallStreak ==
  ASSUME reason = "sw", marker # "none", otaState[running] = "pending", NEW idRead
  PROVE  NextStreak(idRead) = 1
  BY DEF NextStreak, otaHealthBootClass, otaHealthNextCrashStreak

LEMMA InstallStep == TypeOK /\ InstallInv /\ [Next]_vars => InstallInv'
  <1> SUFFICES ASSUME TypeOK, InstallInv, [Next]_vars PROVE InstallInv'
    OBVIOUS
  <1> USE DEF InstallInv, InstallNotRejected
  <1>1. CASE UNCHANGED vars
    BY <1>1 DEF vars, AtLimit
  <1>2. CASE RecordBootStreak
    <2>1. PICK opened \in Outcome("nvs"), removed \in Outcome("nvs"),
               recorded \in Outcome("nvs"), counted \in Outcome("nvs"),
               stored \in Outcome("nvs"), idRead \in Outcome("desc") :
            StoreStreak(opened, removed, recorded, counted, stored, idRead)
      BY <1>2, Zenon DEF RecordBootStreak
    <2>2. ram'.install => ~ram'.streakKnown \/ ram'.streak = 1
      BY <2>1, InstallStreak DEF StoreStreak, TypeOK, RamType
    <2> QED
      BY <1>2, <2>2, CrashLimitAssumption
      DEF RecordBootStreak, AtLimit, otaHealthShouldRollback
  <1>3. CASE GuardStep
    BY <1>3 DEF GuardStep, GuardPasses, GuardKeepsPending, GuardClearsStreak, RejectPending,
                RejectFails, ArmRescue, SetBootSlot, SwitchFails, SwitchRestart, Reset
  <1>4. CASE Bootloader \/ InitArduino \/ LoopStep \/ WriteStep \/ ResetStep
    <2>1. phase' \notin {"guard", "reject"}
      BY <1>4 DEF Bootloader, InitArduino, LoopStep, NoteMqttUp, Uptime, ConfirmIfHealthy,
           WriteStep, StartDownload, DownloadFails, DownloadVerified, ActivateFails,
           InstallRestart, UploadBegin, UploadEnd, UploadFails, UploadReply, WebRestart, ResetStep,
           PlannedRestart, BrokerRestart, HeapRestart, Restarts, Crash, Brownout, PowerOn,
           DeepSleep, Reset
    <2> QED BY <2>1
  <1> QED BY <1>1, <1>2, <1>3, <1>4 DEF Next, BootStep

\* The guard never rejects an image at the boot its install restart led to,
\* whatever streak the installing image had collected.
THEOREM InstallSurvives == Spec => []InstallNotRejected
  <1>1. Init => InstallInv
    BY DEF Init, InstallInv, InstallNotRejected
  <1>2. TypeOK /\ InstallInv /\ [Next]_vars => InstallInv'
    BY InstallStep
  <1>3. InstallInv => InstallNotRejected
    BY DEF InstallInv
  <1> QED BY <1>1, <1>2, <1>3, TypeCorrect, PTL DEF Spec

-----------------------------------------------------------------------------
(* The ping-pong bound.  Since the last image write:                       *)
(*  - once a switch has happened both images are whole and the slot it     *)
(*    left stays valid, so the boot slot decides which image runs;         *)
(*  - when the bound is reached the last arrival was recorded, and until   *)
(*    the next write either that record names the other slot or the image  *)
(*    switched to was aborted and the other slot is no target.             *)

Dropped(s) == otaState[s] \in {"invalid", "aborted"}

WritesClearSwitches ==
  /\ phase \in {"download", "staged"} \/ ram.upload # "idle" => switches = 0
  /\ phase \notin {"run", "download", "staged"} => ram.upload = "idle"

ArmedInv ==
  phase = "armed" =>
    /\ \A s \in Slots : whole[s] /\ otaState[s] = "valid"
    /\ switches <= unrecorded

RejectInv == phase = "reject" => otaState[running] = "pending"

SwitchedInv ==
  switches > 0 =>
    /\ \A s \in Slots : whole[s]
    /\ otaState[Other(newest)] = "valid"
    /\ otaState[newest] # "undefined"
    /\ phase = "switched" => running = Other(newest) /\ otaState[newest] = "new"
    /\ phase \notin {"boot", "switched"} =>
         /\ otaState[newest] # "new"
         /\ running = IF Dropped(newest) THEN Other(newest) ELSE newest
    /\ phase = "streak" /\ ram.bootPending => otaState[newest] \in {"pending", "valid"}

BoundReachedInv ==
  switches = 1 + unrecorded =>
    /\ phase \notin {"armed", "switched", "reject"}
    /\ \/ Dropped(newest)
       \/ /\ otaState[newest] \in {"valid", "pending"}
          /\ nvs.left_id = ImageId(Other(newest))
    /\ phase = "init" => otaState[newest] # "pending"
    /\ phase = "streak" => ~ram.bootPending

PingPongInv == /\ WritesClearSwitches /\ ArmedInv /\ RejectInv /\ SwitchedInv
               /\ PingPongBounded /\ BoundReachedInv

\* When the bound is reached the guard finds no target.
LEMMA BoundRefusesTarget ==
  ASSUME TypeOK, PingPongInv, phase = "guard", rollbackTarget
  PROVE  switches <= unrecorded
  BY OtherSlot DEF PingPongInv, PingPongBounded, BoundReachedInv, SwitchedInv, TypeOK,
     rollbackTarget, imageAbandoned, Dropped

\* A reset keeps every part: it changes neither flash nor history.
LEMMA PingPongReset ==
  ASSUME TypeOK, PingPongInv, phase' = "boot", ram' = ResetRam,
         UNCHANGED <<build, whole, otaState, newest, switches, unrecorded>>,
         nvs'.left_id = nvs.left_id
  PROVE  PingPongInv'
  BY OtherSlot DEF PingPongInv, WritesClearSwitches, ArmedInv, RejectInv, SwitchedInv,
     PingPongBounded, BoundReachedInv, Dropped, ImageId, TypeOK, ResetRam

LEMMA PingPongBoot == TypeOK /\ PingPongInv /\ BootStep => PingPongInv'
  <1> SUFFICES ASSUME TypeOK, PingPongInv, BootStep PROVE PingPongInv'
    OBVIOUS
  <1> USE OtherSlot
  <1>1. CASE Bootloader
    <2> DEFINE settledStates == [s \in Slots |-> IF otaState[s] = "pending"
                                                 THEN "aborted" ELSE otaState[s]]
               selected == Selected(settledStates, newest)
    <2>1. /\ otaState' = [settledStates EXCEPT ![selected] = IF @ = "new" THEN "pending" ELSE @]
          /\ running' = IF whole[selected] THEN selected ELSE Other(selected)
          /\ phase = "boot" /\ phase' = "init"
          /\ UNCHANGED <<build, whole, newest, nvs, ram, switches, unrecorded>>
      BY <1>1 DEF Bootloader, hist
    <2>2. selected \in Slots
      BY SelectedIsSlot DEF TypeOK
    <2>3. ASSUME switches > 0
          PROVE  /\ otaState'[Other(newest)] = "valid"
                 /\ otaState'[newest] = IF otaState[newest] = "pending" THEN "aborted"
                                        ELSE IF otaState[newest] = "new" THEN "pending"
                                        ELSE otaState[newest]
                 /\ running' = IF Dropped(newest) \/ otaState[newest] = "pending"
                               THEN Other(newest) ELSE newest
      <3>1. selected = IF Dropped(newest) \/ otaState[newest] = "pending"
                       THEN Other(newest) ELSE newest
        BY <2>3 DEF Selected, Dropped, PingPongInv, SwitchedInv, TypeOK
      <3> HIDE DEF selected
      <3> QED BY <2>1, <2>2, <2>3, <3>1 DEF Dropped, PingPongInv, SwitchedInv, TypeOK
    <2> HIDE DEF selected
    <2>4. SwitchedInv'
      BY <2>1, <2>3 DEF PingPongInv, SwitchedInv, Dropped, TypeOK
    <2>5. BoundReachedInv'
      BY <2>1, <2>3 DEF PingPongInv, BoundReachedInv, Dropped, TypeOK, ImageId
    <2> QED
      BY <2>1, <2>4, <2>5 DEF PingPongInv, WritesClearSwitches, ArmedInv, RejectInv, PingPongBounded
  <1>2. CASE InitArduino
    <2>1. /\ phase = "init" /\ phase' = "streak"
          /\ UNCHANGED <<build, whole, newest, running, switches, unrecorded>>
          /\ nvs'.left_id = nvs.left_id /\ ram'.upload = ram.upload
      BY <1>2 DEF InitArduino, hist, TypeOK, NvsType, RamType
    <2>2. /\ ram'.bootPending => otaState[running] = "pending"
          /\ \/ otaState' = otaState
             \/ /\ otaState[running] = "pending"
                /\ otaState' = [otaState EXCEPT ![running] = "valid"]
      <3>1. PICK opened \in Outcome("nvs"), cleared \in Outcome("nvs"),
                 marked \in Outcome("otadata") :
                 LET pending == otaState[running] = "pending"
                     rescue  == IF opened THEN otaHealthRescue(nvs.rescue, marker) ELSE 0
                     confirm == opened /\ cleared /\ rescue # 0 /\ pending /\ marked
                 IN /\ ram' = [ram EXCEPT !.bootRescue = rescue,
                                          !.bootPending = opened /\ pending]
                    /\ otaState' = [otaState EXCEPT ![running] =
                                      IF confirm THEN "valid" ELSE @]
        BY <1>2 DEF InitArduino
      <3>2. ram'.bootPending => otaState[running] = "pending"
        BY <3>1 DEF TypeOK, RamType
      <3> QED BY <3>1, <3>2 DEF TypeOK
    <2> QED
      BY <2>1, <2>2 DEF PingPongInv, WritesClearSwitches, ArmedInv, RejectInv, SwitchedInv,
         PingPongBounded, BoundReachedInv, Dropped, ImageId, TypeOK
  <1>3. CASE RecordBootStreak
    <2>1. PICK opened \in Outcome("nvs"), removed \in Outcome("nvs"),
               recorded \in Outcome("nvs"), counted \in Outcome("nvs"),
               stored \in Outcome("nvs"), idRead \in Outcome("desc") :
            StoreStreak(opened, removed, recorded, counted, stored, idRead)
      BY <1>3, Zenon DEF RecordBootStreak
    <2> DEFINE left == LeftRecord(removed, recorded, idRead)
               arrival == otaHealthIsArrival(ram.bootRescue, ram.bootPending)
    <2>2. /\ phase = "streak" /\ phase' = "guard"
          /\ UNCHANGED <<build, whole, otaState, newest, running, switches>>
          /\ ram'.upload = ram.upload
          /\ nvs'.left_id = IF opened THEN left ELSE nvs.left_id
          /\ unrecorded' = IF opened /\ arrival /\ left = ImageId(Other(running))
                              /\ unrecorded > 0
                           THEN unrecorded - 1 ELSE unrecorded
      BY <1>3, <2>1 DEF RecordBootStreak, StoreStreak, flash, TypeOK, NvsType, RamType
    <2>3. arrival => ram.bootPending
      BY DEF otaHealthIsArrival
    <2>4. ~arrival => left = nvs.left_id \/ (left = NoId /\ nvs.left_id[1] = running)
      BY DEF LeftRecord, otaHealthLeftIsStale
    <2> HIDE DEF left, arrival
    <2>5. /\ WritesClearSwitches' /\ ArmedInv' /\ RejectInv' /\ SwitchedInv'
      BY <2>2 DEF PingPongInv, WritesClearSwitches, ArmedInv, RejectInv, SwitchedInv, Dropped
    <2>6. CASE switches = 1 + unrecorded
      <3>1. ~arrival /\ unrecorded' = unrecorded
        BY <2>2, <2>3, <2>6 DEF PingPongInv, BoundReachedInv
      <3>2. Dropped(newest) \/ nvs'.left_id = ImageId(Other(newest))
        BY <2>2, <2>4, <2>6, <3>1
        DEF PingPongInv, BoundReachedInv, SwitchedInv, Dropped, ImageId, TypeOK
      <3>3. BoundReachedInv'
        BY <2>2, <2>6, <3>1, <3>2 DEF PingPongInv, BoundReachedInv, Dropped, ImageId
      <3> QED BY <2>2, <2>5, <2>6, <3>1, <3>3 DEF PingPongInv, PingPongBounded, TypeOK
    <2>7. CASE switches <= unrecorded
      <3>1. switches' <= 1 + unrecorded'
        BY <2>2, <2>7 DEF TypeOK
      <3>2. ASSUME switches' = 1 + unrecorded'
            PROVE  /\ otaState[newest] \in {"pending", "valid"} /\ running = newest
                   /\ nvs'.left_id = ImageId(Other(newest))
        BY <2>2, <2>3, <2>7, <3>2 DEF PingPongInv, SwitchedInv, Dropped, TypeOK
      <3>3. BoundReachedInv'
        BY <2>2, <3>2 DEF BoundReachedInv, Dropped, ImageId
      <3> QED BY <2>5, <3>1, <3>3 DEF PingPongInv, PingPongBounded
    <2> QED BY <2>6, <2>7 DEF PingPongInv, PingPongBounded, TypeOK
  <1> QED BY <1>1, <1>2, <1>3 DEF BootStep

LEMMA PingPongGuard == TypeOK /\ AlwaysBootable /\ PingPongInv /\ GuardStep => PingPongInv'
  <1> SUFFICES ASSUME TypeOK, AlwaysBootable, PingPongInv, GuardStep PROVE PingPongInv'
    OBVIOUS
  <1> USE OtherSlot DEF PingPongInv, WritesClearSwitches, ArmedInv, RejectInv, SwitchedInv,
          PingPongBounded, BoundReachedInv, Dropped, ImageId
  <1>1. CASE GuardPasses
    BY <1>1 DEF GuardPasses, flash, hist
  <1>2. CASE GuardKeepsPending
    BY <1>2 DEF GuardKeepsPending, TypeOK, NvsType, RamType
  <1>3. CASE GuardClearsStreak
    BY <1>3, BoundRefusesTarget DEF GuardClearsStreak, TypeOK, NvsType, flash, hist
  <1>4. CASE RejectPending
    BY <1>4 DEF RejectPending, Reset, ResetRam, TypeOK, hist
  <1>5. CASE RejectFails
    BY <1>5 DEF RejectFails, flash, hist
  <1>6. CASE ArmRescue
    <2>1. switches <= unrecorded
      BY <1>6, BoundRefusesTarget DEF ArmRescue
    <2>2. \A s \in Slots : whole[s] /\ otaState[s] = "valid"
      BY <1>6 DEF ArmRescue, rollbackTarget, AlwaysBootable, TypeOK
    <2>3. /\ phase = "guard" /\ phase' \in {"armed", "run"}
          /\ UNCHANGED <<build, whole, otaState, newest, running, switches, unrecorded>>
          /\ nvs'.left_id = nvs.left_id /\ ram'.upload = ram.upload
      BY <1>6 DEF ArmRescue, TypeOK, NvsType, RamType, flash, hist
    <2> QED BY <2>1, <2>2, <2>3 DEF TypeOK
  <1>7. CASE SetBootSlot
    <2>1. /\ switches' = switches + 1 /\ unrecorded' = unrecorded + 1
          /\ phase = "armed" /\ phase' = "switched" /\ newest' = Other(running)
          /\ otaState' = [otaState EXCEPT ![Other(running)] = "new"]
          /\ UNCHANGED <<build, whole, nvs, running, ram>>
      BY <1>7 DEF SetBootSlot
    <2>2. switches' <= unrecorded'
      BY <2>1 DEF TypeOK
    <2>3. SwitchedInv'
      <3>1. /\ otaState'[Other(newest')] = "valid" /\ otaState'[newest'] = "new"
            /\ \A s \in Slots : whole'[s]
            /\ running' = Other(newest')
        BY <2>1 DEF TypeOK
      <3> QED BY <2>1, <3>1
    <2>4. WritesClearSwitches'
      BY <2>1
    <2>5. switches' # 1 + unrecorded' /\ switches' <= 1 + unrecorded'
      BY <2>1, <2>2 DEF TypeOK
    <2> QED BY <2>1, <2>3, <2>4, <2>5
  <1>8. CASE SwitchFails
    BY <1>8 DEF SwitchFails, TypeOK, NvsType, flash, hist
  <1>9. CASE SwitchRestart
    BY <1>9 DEF SwitchRestart, Reset, ResetRam, TypeOK, NvsType, flash
  <1> QED BY <1>1, <1>2, <1>3, <1>4, <1>5, <1>6, <1>7, <1>8, <1>9 DEF GuardStep

LEMMA PingPongLoop == TypeOK /\ PingPongInv /\ LoopStep => PingPongInv'
  <1> SUFFICES ASSUME TypeOK, PingPongInv, LoopStep PROVE PingPongInv'
    OBVIOUS
  <1> USE OtherSlot DEF PingPongInv, WritesClearSwitches, ArmedInv, RejectInv, SwitchedInv,
          PingPongBounded, BoundReachedInv, Dropped, ImageId
  <1>1. CASE NoteMqttUp \/ Uptime
    <2>1. /\ phase = "run" /\ UNCHANGED <<flash, nvs, phase, running, hist>>
          /\ ram'.upload = ram.upload
      BY <1>1 DEF NoteMqttUp, Uptime, TypeOK, RamType
    <2> QED BY <2>1 DEF flash, hist
  <1>2. CASE ConfirmIfHealthy
    <2>1. /\ phase = "run" /\ phase' = "run"
          /\ UNCHANGED <<build, whole, newest, running, switches, unrecorded>>
      BY <1>2 DEF ConfirmIfHealthy
    <2>2. /\ nvs'.left_id = nvs.left_id /\ ram'.upload = ram.upload
          /\ \/ otaState' = otaState
             \/ otaState' = [otaState EXCEPT ![ActiveSlot] = "valid"]
             \/ otaState' = [otaState EXCEPT ![running] = "valid"]
      <3>1. CASE ConfirmPending
        <4>1. PICK put \in Outcome("nvs"), cleared \in Outcome("nvs"),
                   removed \in Outcome("nvs"), idRead \in Outcome("desc"),
                   marked \in Outcome("otadata") :
                MarkActive(put, cleared, removed, idRead, marked)
          BY <3>1, Zenon DEF ConfirmPending
        <4> QED BY <4>1, SelectedIsSlot DEF MarkActive, ActiveSlot, TypeOK, NvsType, RamType
      <3>2. CASE SettleImage
        <4>1. PICK put \in Outcome("nvs"), cleared \in Outcome("nvs"),
                   removed \in Outcome("nvs"), idRead \in Outcome("desc"),
                   marked \in Outcome("otadata") :
                SettleRunning(put, cleared, removed, idRead, marked)
          BY <3>2, Zenon DEF SettleImage
        <4> QED BY <4>1 DEF SettleRunning, TypeOK, NvsType, RamType
      <3>3. CASE RecordProven
        BY <3>3 DEF RecordProven, TypeOK, NvsType, RamType
      <3> QED BY <1>2, <3>1, <3>2, <3>3 DEF ConfirmIfHealthy
    <2>3. switches > 0 => ActiveSlot = running
      BY <2>1 DEF ActiveSlot, Selected, TypeOK
    <2> QED BY <2>1, <2>2, <2>3 DEF TypeOK
  <1> QED BY <1>1, <1>2 DEF LoopStep

LEMMA PingPongWrite == TypeOK /\ PingPongInv /\ WriteStep => PingPongInv'
  <1> SUFFICES ASSUME TypeOK, PingPongInv, WriteStep PROVE PingPongInv'
    OBVIOUS
  <1>1. CASE InstallRestart \/ WebRestart
    BY <1>1, PingPongReset DEF InstallRestart, WebRestart, Reset, flash, hist, TypeOK, NvsType
  <1> USE DEF PingPongInv, WritesClearSwitches, ArmedInv, RejectInv, SwitchedInv,
          PingPongBounded, BoundReachedInv
  <1>2. CASE \/ \E v \in Builds, force \in BOOLEAN : StartDownload(v, force)
             \/ \E b \in Builds : UploadBegin(b)
    <2>1. switches' = 0 /\ unrecorded' = 0 /\ phase' \in {"download", "run"}
      BY <1>2 DEF StartDownload, UploadBegin, OverwriteOther
    <2> QED BY <2>1
  <1>3. CASE \/ DownloadFails \/ DownloadVerified \/ ActivateFails
             \/ UploadEnd \/ UploadFails \/ UploadReply
    <2>1. /\ switches = 0 /\ switches' = 0 /\ unrecorded' = unrecorded
          /\ phase' \in {"run", "staged"}
      BY <1>3 DEF DownloadFails, DownloadVerified, ActivateFails, UploadEnd, UploadFails, UploadReply,
         ActivateOther, hist
    <2> QED BY <2>1 DEF TypeOK
  <1> QED BY <1>1, <1>2, <1>3 DEF WriteStep

LEMMA PingPongStep ==
  TypeOK /\ AlwaysBootable /\ PingPongInv /\ [Next]_vars => PingPongInv'
  <1> SUFFICES ASSUME TypeOK, AlwaysBootable, PingPongInv, [Next]_vars PROVE PingPongInv'
    OBVIOUS
  <1>1. CASE UNCHANGED vars
    BY <1>1 DEF vars, flash, hist, PingPongInv, WritesClearSwitches, ArmedInv, RejectInv,
       SwitchedInv, PingPongBounded, BoundReachedInv, Dropped, ImageId
  <1>2. CASE ResetStep
    BY <1>2, PingPongReset DEF ResetStep, PlannedRestart, BrokerRestart, HeapRestart,
       Restarts, Crash, Brownout, PowerOn, DeepSleep, Reset, flash, hist
  <1> QED BY <1>1, <1>2, PingPongBoot, PingPongGuard, PingPongLoop, PingPongWrite DEF Next

\* Two images that both crash-loop do not hand over to each other forever:
\* between two image writes the guard switches at most once more than the
\* number of arrival records that were lost.
THEOREM NoPingPong == Spec => []PingPongBounded
  <1>1. Init => PingPongInv
    BY DEF Init, PingPongInv, WritesClearSwitches, ArmedInv, RejectInv, SwitchedInv,
       PingPongBounded, BoundReachedInv, ResetRam
  <1>2. TypeOK /\ AlwaysBootable /\ PingPongInv /\ [Next]_vars => PingPongInv'
    BY PingPongStep
  <1>3. PingPongInv => PingPongBounded
    BY DEF PingPongInv
  <1> QED BY <1>1, <1>2, <1>3, TypeCorrect, Bootable, PTL DEF Spec

-----------------------------------------------------------------------------
(* What reads valid has run.  This is proved of a unit whose NVS works and *)
(* whose images come one at a time and whole: with a web upload beside the *)
(* main loop, a rescue flag that cannot be removed, or an image head that  *)
(* is written although Update.end fails, it does not hold.                 *)

\* A rescue flag is set only from the arming to the boot it was set for, and
\* meanwhile every image that loads is one that has run.
RescueEarned ==
  nvs.rescue # 0 =>
    /\ phase \in {"boot", "init", "armed", "switched"}
    /\ \A s \in Slots : whole[s] => earned[s]

\* A slot is new from its staging to its first boot, and is the boot slot.
NewIsStaged ==
  \A s \in Slots : otaState[s] = "new" =>
    whole[s] /\ newest = s /\ phase \in {"boot", "staged", "switched"}

\* Only the running image is pending, and until it stages another it is the
\* boot slot: what confirmIfHealthy marks is itself.
PendingRuns ==
  \A s \in Slots : phase # "boot" /\ otaState[s] = "pending" =>
    s = running /\ (phase \notin {"staged", "switched"} => newest = s)

\* The state read once a boot is still the state while it matters.
ReadPending ==
  ram.runState = "pending" /\ ~ram.settled =>
    phase \in {"run", "download", "staged"} /\ otaState[running] = "pending"

EarnedInv ==
  /\ RescueEarned
  /\ NewIsStaged
  /\ PendingRuns
  /\ ReadPending
  /\ ram.upload = "idle"
  /\ ConfirmedHasRun

\* A release that is refused is the recorded one, or the other slot holds one
\* at least as new, and then a check does not offer it.
RefusedKnown ==
  \A s \in Slots : refused[s] => nvs.fled_ver = build[s] \/ build[Other(s)] >= build[s]

OneAtATime == Uploads = FALSE /\ "nvs" \notin Faults /\ "activate" \notin Faults

LEMMA NvsWorks == ASSUME OneAtATime, NEW r \in Outcome("nvs") PROVE r = TRUE
  BY DEF OneAtATime, Outcome

\* Every reset leaves flash, NVS and what has run.
LEMMA EarnedReset ==
  ASSUME TypeOK, EarnedInv, Reset(reason', marker'),
         UNCHANGED <<build, whole, otaState, newest, earned>>, nvs'.rescue = nvs.rescue
  PROVE  EarnedInv'
  BY DEF EarnedInv, RescueEarned, NewIsStaged, PendingRuns, ReadPending, ConfirmedHasRun,
     Reset, ResetRam

LEMMA EarnedBoot ==
  ASSUME OneAtATime
  PROVE  TypeOK /\ AlwaysBootable /\ EarnedInv /\ BootStep => EarnedInv'
  <1> SUFFICES ASSUME TypeOK, AlwaysBootable, EarnedInv, BootStep PROVE EarnedInv'
    OBVIOUS
  <1> USE OtherSlot DEF EarnedInv
  <1>1. CASE Bootloader
    <2> DEFINE settledStates == [s \in Slots |-> IF otaState[s] = "pending"
                                                 THEN "aborted" ELSE otaState[s]]
               selected == Selected(settledStates, newest)
    <2>1. /\ phase = "boot" /\ phase' = "init" /\ UNCHANGED <<build, whole, newest, nvs, ram, hist>>
          /\ otaState' = [settledStates EXCEPT ![selected] =
                            IF settledStates[selected] = "new" THEN "pending"
                            ELSE settledStates[selected]]
          /\ running' = IF whole[selected] THEN selected ELSE Other(selected)
      BY <1>1, Zenon DEF Bootloader
    <2>2. selected \in Slots
      BY SelectedIsSlot DEF TypeOK
    <2>3. \A s \in Slots : otaState'[s] =
            IF otaState[s] = "pending" THEN "aborted"
            ELSE IF s = selected /\ otaState[s] = "new" THEN "pending" ELSE otaState[s]
      BY <2>1, <2>2
    <2>4. \A s \in Slots : otaState[s] = "new" => s = selected /\ running' = s /\ newest = s
      BY <2>1 DEF NewIsStaged, Selected, TypeOK
    <2> HIDE DEF settledStates, selected
    <2>5. NewIsStaged' /\ PendingRuns'
      BY <2>1, <2>3, <2>4 DEF NewIsStaged, PendingRuns
    <2>6. RescueEarned' /\ ReadPending' /\ ram'.upload = "idle"
      BY <2>1 DEF RescueEarned, ReadPending, hist
    <2>7. ConfirmedHasRun'
      BY <2>1, <2>3 DEF ConfirmedHasRun, hist
    <2> QED BY <2>5, <2>6, <2>7
  <1>2. CASE InitArduino
    <2>1. PICK opened \in Outcome("nvs"), cleared \in Outcome("nvs"), marked \in Outcome("otadata") :
            LET pending == otaState[running] = "pending"
                rescue  == IF opened THEN otaHealthRescue(nvs.rescue, marker) ELSE 0
                confirm == opened /\ cleared /\ rescue # 0 /\ pending /\ marked
            IN /\ nvs' = [nvs EXCEPT !.rescue = IF opened /\ cleared THEN 0 ELSE @]
               /\ ram' = [ram EXCEPT !.bootRescue = rescue,
                                     !.bootPending = opened /\ pending]
               /\ otaState' = [otaState EXCEPT ![running] =
                                 IF confirm THEN "valid" ELSE @]
      BY <1>2, Zenon DEF InitArduino
    <2>2. opened = TRUE /\ cleared = TRUE
      BY NvsWorks
    <2>3. /\ phase = "init" /\ phase' = "streak"
          /\ UNCHANGED <<build, whole, newest, running, earned>>
      BY <1>2 DEF InitArduino, hist
    <2>4. nvs'.rescue = 0 /\ ram'.runState = ram.runState /\ ram'.settled = ram.settled
          /\ ram'.upload = ram.upload
      BY <2>1, <2>2 DEF TypeOK, NvsType, RamType
    <2>5. \/ otaState' = otaState
          \/ /\ nvs.rescue # 0
             /\ otaState' = [otaState EXCEPT ![running] = "valid"]
      BY <2>1 DEF otaHealthRescue, TypeOK
    <2>6. whole[running]
      BY <2>3 DEF AlwaysBootable
    <2>7. ReadPending'
      BY <2>3, <2>4 DEF ReadPending
    <2>8. RescueEarned' /\ NewIsStaged' /\ PendingRuns'
      BY <2>3, <2>4, <2>5 DEF RescueEarned, NewIsStaged, PendingRuns, TypeOK
    <2>9. ConfirmedHasRun'
      BY <2>3, <2>5, <2>6 DEF RescueEarned, ConfirmedHasRun, TypeOK
    <2> QED BY <2>4, <2>7, <2>8, <2>9
  <1>3. CASE RecordBootStreak
    <2>1. PICK opened \in Outcome("nvs"), removed \in Outcome("nvs"),
               recorded \in Outcome("nvs"), counted \in Outcome("nvs"),
               stored \in Outcome("nvs"), idRead \in Outcome("desc") :
            StoreStreak(opened, removed, recorded, counted, stored, idRead)
      BY <1>3, Zenon DEF RecordBootStreak
    <2>2. /\ nvs'.rescue = nvs.rescue /\ ram'.runState = ram.runState
          /\ ram'.settled = ram.settled /\ ram'.upload = ram.upload
      BY <2>1 DEF StoreStreak, TypeOK, NvsType, RamType
    <2>3. /\ phase = "streak" /\ phase' = "guard"
          /\ UNCHANGED <<build, whole, otaState, newest, running, earned>>
      BY <1>3 DEF RecordBootStreak, flash
    <2> QED BY <2>2, <2>3 DEF RescueEarned, NewIsStaged, PendingRuns, ReadPending, ConfirmedHasRun
  <1> QED BY <1>1, <1>2, <1>3 DEF BootStep

LEMMA EarnedGuard ==
  ASSUME OneAtATime
  PROVE  TypeOK /\ AlwaysBootable /\ EarnedInv /\ GuardStep => EarnedInv'
  <1> SUFFICES ASSUME TypeOK, AlwaysBootable, EarnedInv, GuardStep PROVE EarnedInv'
    OBVIOUS
  <1> USE OtherSlot DEF EarnedInv, RescueEarned, NewIsStaged, PendingRuns, ReadPending,
                        ConfirmedHasRun
  <1>1. CASE GuardPasses \/ RejectFails
    <2>1. /\ phase \in {"guard", "reject"} /\ phase' = "run"
          /\ UNCHANGED <<build, whole, otaState, newest, nvs, ram, running, earned>>
      BY <1>1 DEF GuardPasses, RejectFails, flash, hist
    <2> QED BY <2>1
  <1>2. CASE GuardKeepsPending
    <2>1. PICK cleared \in Outcome("nvs"), marked \in Outcome("otadata") :
            /\ nvs' = [nvs EXCEPT !.crash_n = IF cleared THEN 0 ELSE @]
            /\ ram' = [ram EXCEPT !.streak = IF cleared THEN 0 ELSE @]
            /\ otaState' = [otaState EXCEPT ![running] = IF marked THEN "valid" ELSE @]
            /\ earned' = [earned EXCEPT ![running] = @ \/ marked]
      BY <1>2, Zenon DEF GuardKeepsPending
    <2>2. /\ phase = "guard" /\ phase' = "run" /\ UNCHANGED <<build, whole, newest, running>>
          /\ nvs'.rescue = nvs.rescue /\ ram'.runState = ram.runState
          /\ ram'.settled = ram.settled /\ ram'.upload = ram.upload
      BY <1>2, <2>1 DEF GuardKeepsPending, TypeOK, NvsType, RamType
    <2>3. CASE marked
      BY <2>1, <2>2, <2>3 DEF TypeOK
    <2>4. CASE ~marked
      BY <2>1, <2>2, <2>4 DEF TypeOK
    <2> QED BY <2>3, <2>4
  <1>3. CASE GuardClearsStreak
    <2>1. /\ phase = "guard" /\ phase' = "reject"
          /\ UNCHANGED <<build, whole, otaState, newest, ram, running, earned>>
          /\ nvs'.rescue = nvs.rescue
      BY <1>3 DEF GuardClearsStreak, flash, hist, TypeOK, NvsType
    <2> QED BY <2>1
  <1>4. CASE RejectPending
    <2>1. /\ phase = "reject" /\ phase' = "boot" /\ ram' = ResetRam
          /\ otaState' = [otaState EXCEPT ![running] = "invalid"]
          /\ UNCHANGED <<build, whole, newest, nvs, running, earned>>
      BY <1>4 DEF RejectPending, Reset, hist
    <2> QED BY <2>1 DEF ResetRam, TypeOK
  <1>5. CASE ArmRescue
    <2>1. /\ phase = "guard" /\ otaState[running] = "valid" /\ rollbackTarget
          /\ UNCHANGED <<build, whole, otaState, newest, running, earned>>
          /\ phase' \in {"armed", "run"} /\ nvs'.rescue \in {nvs.rescue, RescueId}
          /\ (phase' = "run" => nvs'.rescue = nvs.rescue)
          /\ ram'.runState = ram.runState /\ ram'.settled = ram.settled
          /\ ram'.upload = ram.upload
      BY <1>5 DEF ArmRescue, flash, hist, TypeOK, NvsType, RamType
    <2>2. \A s \in Slots : earned[s]
      BY <2>1 DEF AlwaysBootable, rollbackTarget, TypeOK
    <2> QED BY <2>1, <2>2 DEF TypeOK
  <1>6. CASE SetBootSlot
    <2>1. /\ phase = "armed" /\ phase' = "switched" /\ newest' = Other(running)
          /\ otaState' = [otaState EXCEPT ![Other(running)] = "new"]
          /\ UNCHANGED <<build, whole, nvs, ram, running, earned>>
      BY <1>6 DEF SetBootSlot
    <2>2. whole[Other(running)]
      BY <2>1 DEF AlwaysBootable
    <2> QED BY <2>1, <2>2 DEF TypeOK
  <1>7. CASE SwitchFails
    <2>1. /\ phase = "armed" /\ phase' = "run" /\ nvs'.rescue = 0
          /\ UNCHANGED <<build, whole, otaState, newest, ram, running, earned>>
      BY <1>7, NvsWorks DEF SwitchFails, flash, hist, TypeOK, NvsType
    <2> QED BY <2>1
  <1>8. CASE SwitchRestart
    <2>1. /\ phase' = "boot" /\ ram' = ResetRam /\ nvs'.rescue = nvs.rescue
          /\ phase = "switched"
          /\ UNCHANGED <<build, whole, otaState, newest, running, earned>>
      BY <1>8 DEF SwitchRestart, Reset, flash, TypeOK, NvsType
    <2> QED BY <2>1 DEF ResetRam
  <1> QED BY <1>1, <1>2, <1>3, <1>4, <1>5, <1>6, <1>7, <1>8 DEF GuardStep

\* confirmIfHealthy marks only the running image, and with that it has run.
LEMMA ConfirmFacts ==
  ASSUME TypeOK, EarnedInv, ConfirmIfHealthy
  PROVE  /\ nvs'.rescue = nvs.rescue /\ ram'.upload = ram.upload
         /\ \/ otaState' = otaState /\ earned' \in [Slots -> BOOLEAN]
               /\ (\A s \in Slots : earned[s] => earned'[s])
               /\ (ram'.runState = "pending" /\ ~ram'.settled => otaState[running] = "pending")
            \/ /\ otaState' = [otaState EXCEPT ![running] = "valid"] /\ earned'[running]
               /\ (\A s \in Slots : earned[s] => earned'[s])
               /\ ram'.runState # "pending" \/ ram'.settled
  <1> USE DEF EarnedInv
  <1>0. phase = "run"
    BY DEF ConfirmIfHealthy
  <1>1. RunState = "pending" /\ ~ram.settled => otaState[running] = "pending"
    BY DEF RunState, ReadPending
  <1>2. CASE ConfirmPending /\ ~ram.settled
    <2>1. PICK put \in Outcome("nvs"), cleared \in Outcome("nvs"), removed \in Outcome("nvs"),
               idRead \in Outcome("desc"), marked \in Outcome("otadata") :
               MarkActive(put, cleared, removed, idRead, marked)
      BY <1>2, Zenon DEF ConfirmPending
    <2>2. otaState[running] = "pending"
      BY <1>1, <1>2 DEF ConfirmPending
    <2>3. ActiveSlot = running
      BY <1>0, <2>2 DEF PendingRuns, ActiveSlot, Selected, TypeOK
    <2>4. nvs'.rescue = nvs.rescue /\ ram'.upload = ram.upload /\ ram'.runState = "pending"
          /\ ram'.settled = (cleared /\ marked)
      BY <2>1 DEF MarkActive, TypeOK, NvsType, RamType, ImageStates
    <2>5. CASE cleared /\ marked
      BY <2>1, <2>3, <2>4, <2>5 DEF MarkActive, TypeOK
    <2>6. CASE ~(cleared /\ marked)
      <3>1. otaState' = otaState /\ earned' = [earned EXCEPT ![running] = earned[running] \/ FALSE]
        BY <2>1, <2>3, <2>6 DEF MarkActive, TypeOK
      <3> QED BY <2>2, <2>4, <3>1 DEF TypeOK
    <2> QED BY <2>5, <2>6
  <1>3. CASE SettleImage /\ ~ram.settled
    <2>1. PICK put \in Outcome("nvs"), cleared \in Outcome("nvs"), removed \in Outcome("nvs"),
               idRead \in Outcome("desc"), marked \in Outcome("otadata") :
               SettleRunning(put, cleared, removed, idRead, marked)
      BY <1>3, Zenon DEF SettleImage
    <2>2. nvs'.rescue = nvs.rescue /\ ram'.upload = ram.upload /\ ram'.runState = RunState
      BY <2>1 DEF SettleRunning, TypeOK, NvsType, RamType
    <2>3. ram'.runState # "pending"
      BY <1>3, <2>2 DEF SettleImage
    <2>4. PICK markOk \in BOOLEAN :
            /\ otaState' = [otaState EXCEPT ![running] = IF markOk THEN "valid" ELSE @]
            /\ earned' = [earned EXCEPT ![running] = @ \/ markOk]
      BY <2>1 DEF SettleRunning
    <2>5. CASE markOk
      BY <2>2, <2>3, <2>4, <2>5 DEF TypeOK
    <2>6. CASE ~markOk
      BY <2>2, <2>3, <2>4, <2>6 DEF TypeOK
    <2> QED BY <2>5, <2>6
  <1>4. CASE RecordProven
    <2>1. /\ nvs'.rescue = nvs.rescue /\ ram'.upload = ram.upload /\ ram'.settled = ram.settled
          /\ otaState' = otaState /\ earned' = earned
      BY <1>4 DEF RecordProven, TypeOK, NvsType, RamType
    <2>2. ram'.runState = IF ram.settled THEN ram.runState ELSE RunState
      BY <1>4 DEF RecordProven, TypeOK, RamType
    <2> QED BY <1>1, <2>1, <2>2 DEF TypeOK
  <1> QED BY <1>2, <1>3, <1>4 DEF ConfirmIfHealthy

LEMMA EarnedLoop == TypeOK /\ EarnedInv /\ LoopStep => EarnedInv'
  <1> SUFFICES ASSUME TypeOK, EarnedInv, LoopStep PROVE EarnedInv'
    OBVIOUS
  <1>1. CASE NoteMqttUp \/ Uptime
    <2>1. /\ phase = "run" /\ phase' = "run"
          /\ UNCHANGED <<build, whole, otaState, newest, nvs, running, earned>>
          /\ ram'.upload = ram.upload /\ ram'.runState = ram.runState
          /\ ram'.settled = ram.settled
      BY <1>1 DEF NoteMqttUp, Uptime, TypeOK, RamType, flash, hist
    <2> QED BY <2>1 DEF EarnedInv, RescueEarned, NewIsStaged, PendingRuns, ReadPending,
                        ConfirmedHasRun
  <1>2. CASE ConfirmIfHealthy
    <2>1. /\ phase = "run" /\ phase' = "run" /\ UNCHANGED <<build, whole, newest, running>>
      BY <1>2 DEF ConfirmIfHealthy
    <2>2. ram'.upload = "idle" /\ nvs'.rescue = nvs.rescue
      BY <1>2, ConfirmFacts DEF EarnedInv
    <2>3. RescueEarned'
      BY <2>1, <2>2 DEF EarnedInv, RescueEarned
    <2>4. NewIsStaged' /\ PendingRuns' /\ ReadPending' /\ ConfirmedHasRun'
      <3>1. CASE /\ otaState' = otaState /\ (\A s \in Slots : earned[s] => earned'[s])
                 /\ ram'.runState = "pending" /\ ~ram'.settled => otaState[running] = "pending"
        BY <2>1, <3>1 DEF EarnedInv, NewIsStaged, PendingRuns, ReadPending, ConfirmedHasRun
      <3>2. CASE /\ otaState' = [otaState EXCEPT ![running] = "valid"] /\ earned'[running]
                 /\ (\A s \in Slots : earned[s] => earned'[s])
                 /\ ram'.runState # "pending" \/ ram'.settled
        BY <2>1, <3>2 DEF EarnedInv, NewIsStaged, PendingRuns, ReadPending, ConfirmedHasRun, TypeOK
      <3> QED BY <1>2, <3>1, <3>2, ConfirmFacts
    <2> QED BY <2>2, <2>3, <2>4 DEF EarnedInv
  <1> QED BY <1>1, <1>2 DEF LoopStep

LEMMA EarnedWrite ==
  ASSUME OneAtATime
  PROVE  TypeOK /\ EarnedInv /\ WriteStep => EarnedInv'
  <1> SUFFICES ASSUME TypeOK, EarnedInv, WriteStep PROVE EarnedInv'
    OBVIOUS
  <1> USE OtherSlot
  <1>1. ASSUME NEW v \in Builds, NEW force \in BOOLEAN, StartDownload(v, force) PROVE EarnedInv'
    <2>1. /\ phase = "run" /\ phase' = "download"
          /\ UNCHANGED <<otaState, newest, nvs, ram, running>>
          /\ whole' = [whole EXCEPT ![Other(running)] = FALSE]
          /\ earned' = [earned EXCEPT ![Other(running)] = FALSE]
      BY <1>1 DEF StartDownload, OverwriteOther
    <2> QED BY <2>1 DEF EarnedInv, RescueEarned, NewIsStaged, PendingRuns, ReadPending,
                        ConfirmedHasRun, TypeOK
  <1>2. CASE DownloadFails
    BY <1>2 DEF DownloadFails, flash, hist, EarnedInv, RescueEarned, NewIsStaged, PendingRuns,
       ReadPending, ConfirmedHasRun
  <1>3. CASE DownloadVerified
    <2>1. /\ phase = "download" /\ phase' = "staged" /\ newest' = Other(running)
          /\ whole' = [whole EXCEPT ![Other(running)] = TRUE]
          /\ otaState' = [otaState EXCEPT ![Other(running)] = "new"]
          /\ UNCHANGED <<build, nvs, ram, running, earned>>
      BY <1>3 DEF DownloadVerified, ActivateOther, hist
    <2> QED BY <2>1 DEF EarnedInv, RescueEarned, NewIsStaged, PendingRuns, ReadPending,
                        ConfirmedHasRun, TypeOK
  <1>4. CASE ActivateFails \/ UploadEnd \/ UploadFails \/ UploadReply
             \/ \E b \in Builds : UploadBegin(b)
    BY <1>4 DEF ActivateFails, UploadEnd, UploadFails, UploadReply, UploadBegin, OneAtATime,
       EarnedInv
  <1>5. CASE InstallRestart \/ WebRestart
    <2>1. /\ Reset(reason', marker') /\ nvs'.rescue = nvs.rescue
          /\ UNCHANGED <<build, whole, otaState, newest, earned>>
      BY <1>5 DEF InstallRestart, WebRestart, Reset, flash, hist, TypeOK, NvsType
    <2> QED BY <2>1, EarnedReset
  <1> QED BY <1>1, <1>2, <1>3, <1>4, <1>5 DEF WriteStep

LEMMA EarnedStep ==
  ASSUME OneAtATime
  PROVE  TypeOK /\ AlwaysBootable /\ EarnedInv /\ [Next]_vars => EarnedInv'
  <1> SUFFICES ASSUME TypeOK, AlwaysBootable, EarnedInv, [Next]_vars PROVE EarnedInv'
    OBVIOUS
  <1>1. CASE UNCHANGED vars
    BY <1>1 DEF vars, flash, hist, EarnedInv, RescueEarned, NewIsStaged, PendingRuns, ReadPending,
       ConfirmedHasRun
  <1>2. CASE ResetStep
    <2>1. /\ Reset(reason', marker') /\ UNCHANGED <<build, whole, otaState, newest, nvs, earned>>
      BY <1>2 DEF ResetStep, PlannedRestart, BrokerRestart, HeapRestart, Restarts, Crash, Brownout,
         PowerOn, DeepSleep, Reset, flash, hist
    <2> QED BY <2>1, EarnedReset
  <1> QED BY <1>1, <1>2, EarnedBoot, EarnedGuard, EarnedLoop, EarnedWrite DEF Next

\* An otadata entry reads valid only on an image that passed the health gate, or
\* was kept because there was no other, whatever restarts, crashes, rejections
\* and switches happen: neither the rescue confirm of initArduino nor the mark
\* of confirmIfHealthy vouches for another image than it means to.
THEOREM ValidHasRun ==
  ASSUME OneAtATime
  PROVE  Spec => []ConfirmedHasRun
  <1>1. Init => EarnedInv
    BY DEF Init, EarnedInv, RescueEarned, NewIsStaged, PendingRuns, ReadPending,
       ConfirmedHasRun, ResetRam, Slots
  <1>2. TypeOK /\ AlwaysBootable /\ EarnedInv /\ [Next]_vars => EarnedInv'
    BY EarnedStep
  <1>3. EarnedInv => ConfirmedHasRun
    BY DEF EarnedInv
  <1> QED BY <1>1, <1>2, <1>3, TypeCorrect, Bootable, PTL DEF Spec

-----------------------------------------------------------------------------
(* A release that was left is not pulled again.                            *)

\* Nobody forces the release and its day runs.
NotOverridden == OneAtATime /\ "force" \notin Overrides /\ "expiry" \notin Overrides

LEMMA RefusedStep ==
  ASSUME NotOverridden
  PROVE  TypeOK /\ RefusedKnown /\ [Next]_vars => RefusedKnown'
  <1> SUFFICES ASSUME TypeOK, RefusedKnown, [Next]_vars PROVE RefusedKnown'
    OBVIOUS
  <1>0. OneAtATime /\ Uploads = FALSE
    BY DEF NotOverridden, OneAtATime
  <1> USE OtherSlot DEF RefusedKnown
  <1>t. \A s \in Slots : build[s] \in Nat
    BY BuildsAssumption DEF TypeOK
  <1>1. CASE UNCHANGED <<build, refused>> /\ nvs'.fled_ver = nvs.fled_ver
    BY <1>1
  <1>2. CASE SwitchRestart
    <2>1. /\ UNCHANGED build /\ nvs'.fled_ver = build[running]
          /\ \A s \in Slots : refused'[s] => s = running
      BY <1>0, <1>2, NvsWorks DEF SwitchRestart, flash, TypeOK, NvsType
    <2> QED BY <2>1
  <1>3. CASE InstallRestart
    <2>1. /\ UNCHANGED build /\ nvs'.fled_ver = build[Other(running)]
          /\ \A s \in Slots : refused'[s] => s = Other(running)
      BY <1>0, <1>3, NvsWorks DEF InstallRestart, flash, TypeOK, NvsType
    <2> QED BY <2>1
  <1>4. CASE ConfirmIfHealthy
    <2>1. UNCHANGED build /\ running \in Slots
      BY <1>4 DEF ConfirmIfHealthy, TypeOK
    <2>2. /\ \A s \in Slots : refused'[s] => refused[s]
          /\ \/ nvs'.fled_ver = nvs.fled_ver
             \/ nvs.fled_ver = build[running] /\ ~refused'[running]
      <3>1. CASE ConfirmPending
        <4>1. PICK put \in Outcome("nvs"), cleared \in Outcome("nvs"),
                   removed \in Outcome("nvs"), idRead \in Outcome("desc"),
                   marked \in Outcome("otadata") :
                MarkActive(put, cleared, removed, idRead, marked)
          BY <3>1, Zenon DEF ConfirmPending
        <4> QED BY <4>1 DEF MarkActive, FledAfterDrop, TypeOK, NvsType
      <3>2. CASE SettleImage
        <4>1. PICK put \in Outcome("nvs"), cleared \in Outcome("nvs"),
                   removed \in Outcome("nvs"), idRead \in Outcome("desc"),
                   marked \in Outcome("otadata") :
                SettleRunning(put, cleared, removed, idRead, marked)
          BY <3>2, Zenon DEF SettleImage
        <4>2. /\ refused' = [refused EXCEPT ![running] = @ /\ ~NewlyRead]
              /\ nvs'.fled_ver = IF NewlyRead THEN FledAfterDrop(removed) ELSE nvs.fled_ver
          BY <4>1 DEF SettleRunning, TypeOK, NvsType
        <4> QED BY <4>2 DEF FledAfterDrop, TypeOK
      <3>3. CASE RecordProven
        BY <3>3 DEF RecordProven, TypeOK, NvsType
      <3> QED BY <1>4, <3>1, <3>2, <3>3 DEF ConfirmIfHealthy
    <2>3. CASE nvs'.fled_ver = nvs.fled_ver
      BY <2>1, <2>2, <2>3
    <2>4. CASE nvs.fled_ver = build[running] /\ ~refused'[running]
      BY <1>t, <2>1, <2>2, <2>4
    <2> QED BY <2>2, <2>3, <2>4
  <1>5. ASSUME NEW v \in Builds, NEW force \in BOOLEAN, StartDownload(v, force)
        PROVE  RefusedKnown'
    <2>1. /\ build' = [build EXCEPT ![Other(running)] = v] /\ UNCHANGED nvs
          /\ refused' = [refused EXCEPT ![Other(running)] = FALSE]
          /\ v > build[running] /\ v \in Nat
      BY <1>5, BuildsAssumption DEF StartDownload, OverwriteOther, NotOverridden
    <2> QED BY <1>t, <2>1 DEF TypeOK
  <1>6. CASE \/ DownloadFails \/ DownloadVerified \/ ActivateFails \/ UploadEnd \/ UploadFails
             \/ UploadReply \/ WebRestart \/ ResetStep
    BY <1>1, <1>6 DEF DownloadFails, DownloadVerified, ActivateFails, UploadEnd, UploadFails,
       UploadReply, WebRestart, ActivateOther, ResetStep, PlannedRestart, BrokerRestart,
       HeapRestart, Restarts, Crash, Brownout, PowerOn, DeepSleep, flash, hist
  <1>7. CASE Bootloader \/ NoteMqttUp \/ Uptime
    BY <1>1, <1>7 DEF Bootloader, NoteMqttUp, Uptime, flash, hist
  <1>8. CASE InitArduino \/ RecordBootStreak
    <2>1. UNCHANGED <<build, refused>>
      BY <1>8 DEF InitArduino, RecordBootStreak, flash, hist
    <2>2. nvs'.fled_ver = nvs.fled_ver
      <3>1. CASE InitArduino
        BY <3>1 DEF InitArduino, TypeOK, NvsType
      <3>2. CASE RecordBootStreak
        <4>1. PICK opened \in Outcome("nvs"), removed \in Outcome("nvs"),
                   recorded \in Outcome("nvs"), counted \in Outcome("nvs"),
                   stored \in Outcome("nvs"), idRead \in Outcome("desc") :
                StoreStreak(opened, removed, recorded, counted, stored, idRead)
          BY <3>2, Zenon DEF RecordBootStreak
        <4> QED BY <4>1 DEF StoreStreak, TypeOK, NvsType
      <3> QED BY <1>8, <3>1, <3>2
    <2> QED BY <1>1, <2>1, <2>2
  <1>9. CASE \/ GuardPasses \/ GuardKeepsPending \/ GuardClearsStreak \/ RejectPending \/ RejectFails
             \/ ArmRescue \/ SetBootSlot \/ SwitchFails
    BY <1>1, <1>9 DEF GuardPasses, GuardKeepsPending, GuardClearsStreak, RejectPending, RejectFails,
       ArmRescue, SetBootSlot, SwitchFails, flash, hist, TypeOK, NvsType
  <1>10. CASE \E b \in Builds : UploadBegin(b)
    BY <1>0, <1>10 DEF UploadBegin
  <1>11. CASE UNCHANGED vars
    BY <1>1, <1>11 DEF vars, flash, hist
  <1> QED BY <1>2, <1>3, <1>4, <1>5, <1>6, <1>7, <1>8, <1>9, <1>10, <1>11
          DEF Next, BootStep, GuardStep, LoopStep, WriteStep

\* A check does not download again the release last installed or fled, while it
\* lies in the other slot unconfirmed (otaFledAction in OTAUpdate::check).
THEOREM LeftNotRepulled ==
  ASSUME NotOverridden
  PROVE  Spec => NoRepull
  <1>1. Init => RefusedKnown
    BY DEF Init, RefusedKnown
  <1>2. TypeOK /\ RefusedKnown /\ [Next]_vars => RefusedKnown'
    BY RefusedStep
  <1>3. TypeOK /\ RefusedKnown /\ [Next]_vars =>
          [phase = "run" /\ phase' = "download" =>
             LET o == Other(running)
             IN ~(refused[o] /\ whole[o] /\ build'[o] = build[o])]_vars
    <2> SUFFICES ASSUME TypeOK, RefusedKnown, Next, phase = "run", phase' = "download",
                        refused[Other(running)], build'[Other(running)] = build[Other(running)]
                 PROVE  FALSE
      OBVIOUS
    <2>1. PICK v \in Builds, force \in BOOLEAN : StartDownload(v, force)
      BY DEF Next, BootStep, Bootloader, InitArduino, RecordBootStreak, GuardStep, GuardPasses,
         GuardKeepsPending, GuardClearsStreak, RejectPending, RejectFails, ArmRescue, SetBootSlot,
         SwitchFails, SwitchRestart, LoopStep, NoteMqttUp, Uptime, ConfirmIfHealthy, WriteStep,
         DownloadFails, DownloadVerified, ActivateFails, InstallRestart, UploadBegin, UploadEnd,
         UploadFails, UploadReply, WebRestart, ResetStep, PlannedRestart, BrokerRestart,
         HeapRestart, Restarts, Crash, Brownout, PowerOn, DeepSleep, Reset
    <2>2. /\ ~force /\ v > build[running] /\ v # nvs.fled_ver
          /\ build'[Other(running)] = v
      <3>1. ~force
        BY <2>1 DEF StartDownload, NotOverridden
      <3>2. v > build[running] /\ build' = [build EXCEPT ![Other(running)] = v]
        BY <2>1, <3>1 DEF StartDownload, OverwriteOther
      <3>3. \E read \in Outcome("nvs") : ~FledRefuses(v, force, read)
        BY <2>1 DEF StartDownload, NotOverridden
      <3>4. v # nvs.fled_ver
        BY <3>1, <3>3, NvsWorks DEF FledRefuses, NotOverridden
      <3> QED BY <3>1, <3>2, <3>4, OtherSlot DEF TypeOK
    <2>3. /\ Other(running) \in Slots /\ Other(Other(running)) = running
          /\ build[running] \in Nat /\ v \in Nat
      BY OtherSlot, BuildsAssumption DEF TypeOK
    <2>4. nvs.fled_ver = build[Other(running)] \/ build[running] >= build[Other(running)]
      BY <2>3 DEF RefusedKnown
    <2>5. build[Other(running)] = v
      BY <2>2
    <2> QED BY <2>2, <2>3, <2>4, <2>5
  <1> QED BY <1>1, <1>2, <1>3, TypeCorrect, PTL DEF Spec, NoRepull

-----------------------------------------------------------------------------
(* An outage does not change images.  This is proved of a unit whose calls *)
(* all work and that only restarts by plan or by the MQTT budget: a crash, *)
(* or a planned restart whose marker a failed write lost, counts on a      *)
(* proven image as on any other.                                           *)

BrokerIsAway ==
  Faults = {} /\ Uploads = FALSE /\ Causes \subseteq {"operator", "broker"}

AtCrashLimit == otaHealthShouldRollback(nvs.crash_n)

\* A valid image that runs has nowhere to go.
NoTarget == otaState[running] = "valid" => ~rollbackTarget

\* The marker is read and cleared once a boot.
MarkerRead == phase \notin {"boot", "init", "streak"} => marker = "none"

\* A boot without a marker is the first one, or the guard led to it.
UnplannedStartsAtZero ==
  phase \in {"boot", "init", "streak"} =>
    IF marker = "none" THEN nvs.crash_n = 0 ELSE reason = "sw"

ClearedFirst == phase \in {"armed", "switched", "reject"} => nvs.crash_n = 0

\* The streak in RAM is the stored one until the stored one is cleared.
StreakRead ==
  phase \in {"guard", "run", "download"} =>
    /\ ram.streakKnown
    /\ ram.streak = nvs.crash_n \/ (phase # "guard" /\ nvs.crash_n = 0)

\* The boot slot is the running one, or holds an image cut short.
SelectedRuns == ActiveSlot = running \/ ~whole[ActiveSlot]

RunsSelected == phase \notin {"boot", "switched", "staged"} => SelectedRuns

StagedIsNew == phase = "staged" => otaState[newest] = "new"

OnlyRunningPends == \A s \in Slots : otaState[s] = "pending" => s = running

\* At the limit a boot leads to a new image, or to the one that ran before and
\* had nowhere to go then; nothing but an install gives it a target.
LimitReached ==
  AtCrashLimit =>
    /\ phase = "boot" =>
         \/ otaState[newest] = "new"
         \/ /\ SelectedRuns /\ whole[running]
            /\ otaState[running] # "pending" /\ NoTarget
    /\ phase \in {"init", "streak"} => NoTarget
    /\ phase = "guard" /\ nvs.proven_id = ImageId(running) => NoTarget
    /\ phase \in {"run", "download"} => otaState[running] # "pending" /\ NoTarget

OutageInv ==
  /\ MarkerRead
  /\ UnplannedStartsAtZero
  /\ ClearedFirst
  /\ StreakRead
  /\ RunsSelected
  /\ StagedIsNew
  /\ OnlyRunningPends
  /\ LimitReached

LEMMA EveryCallWorks == ASSUME BrokerIsAway, NEW call, NEW r \in Outcome(call) PROVE r = TRUE
  BY DEF BrokerIsAway, Outcome

\* Turning a new entry pending, or any entry valid that is selected already,
\* does not move the selection.
LEMMA SelectionStays ==
  ASSUME NEW states \in [Slots -> ImageStates], NEW latest \in Slots,
         NEW s \in Slots, NEW state \in {"pending", "valid"},
         states[s] \notin {"invalid", "aborted"} \/ s = Selected(states, latest)
  PROVE  Selected([states EXCEPT ![s] = state], latest) = Selected(states, latest)
  <1> USE OtherSlot
  <1>1. CASE states[latest] \notin {"invalid", "aborted"}
    BY <1>1 DEF Selected
  <1>2. CASE states[latest] \in {"invalid", "aborted"}
    BY <1>2 DEF Selected, Slots, Other
  <1> QED BY <1>1, <1>2

\* One reset takes a streak of zero to at most one.
LEMMA StreakFromZero ==
  ASSUME NEW n, n = 0, NEW kind PROVE otaHealthNextCrashStreak(n, kind) \in {0, 1}
  BY DEF otaHealthNextCrashStreak

\* The bootloader runs a new image, or at the limit the one that ran before.
LEMMA OutageBootloader ==
  TypeOK /\ EarnedInv /\ OutageInv /\ Bootloader => OutageInv'
  <1> SUFFICES ASSUME TypeOK, EarnedInv, OutageInv, Bootloader PROVE OutageInv'
    OBVIOUS
  <1> USE OtherSlot
  <1> DEFINE settledStates == [s \in Slots |-> IF otaState[s] = "pending"
                                               THEN "aborted" ELSE otaState[s]]
             selected == Selected(settledStates, newest)
  <1>1. /\ phase = "boot" /\ phase' = "init"
        /\ UNCHANGED <<build, whole, newest, nvs, marker, reason, ram>>
        /\ otaState' = [settledStates EXCEPT ![selected] =
                          IF settledStates[selected] = "new" THEN "pending"
                          ELSE settledStates[selected]]
        /\ running' = IF whole[selected] THEN selected ELSE Other(selected)
    BY Zenon DEF Bootloader
  <1>2. selected \in Slots
    BY SelectedIsSlot DEF TypeOK
  <1>3. \A s \in Slots : otaState'[s] =
          IF otaState[s] = "pending" THEN "aborted"
          ELSE IF s = selected /\ otaState[s] = "new" THEN "pending" ELSE otaState[s]
    BY <1>1, <1>2
  <1>4. \A s \in Slots : otaState[s] = "new" => s = selected /\ running' = s /\ newest = s
    BY <1>1 DEF EarnedInv, NewIsStaged, Selected, TypeOK
  <1>5. ActiveSlot' = selected
    BY <1>1, <1>3, <1>2 DEF ActiveSlot, Selected, TypeOK
  <1>6. AtCrashLimit /\ otaState[newest] # "new" => selected = ActiveSlot
    <2> SUFFICES ASSUME AtCrashLimit, otaState[newest] # "new" PROVE selected = ActiveSlot
      OBVIOUS
    <2>1. \A s \in Slots : otaState[s] # "pending"
      BY <1>1 DEF OutageInv, LimitReached, OnlyRunningPends
    <2>2. settledStates = otaState
      BY <2>1 DEF TypeOK
    <2> QED BY <2>2 DEF ActiveSlot
  <1> HIDE DEF settledStates, selected
  <1>7. RunsSelected' /\ OnlyRunningPends'
    BY <1>1, <1>2, <1>3, <1>4, <1>5 DEF RunsSelected, SelectedRuns, OnlyRunningPends
  <1>8. MarkerRead' /\ UnplannedStartsAtZero' /\ ClearedFirst' /\ StreakRead' /\ StagedIsNew'
    BY <1>1 DEF OutageInv, MarkerRead, UnplannedStartsAtZero, ClearedFirst, StreakRead, StagedIsNew
  <1>9. LimitReached'
    <2> SUFFICES ASSUME AtCrashLimit PROVE NoTarget'
      BY <1>1 DEF LimitReached, AtCrashLimit
    <2>1. CASE otaState[newest] = "new"
      <3>1. newest \in Slots /\ newest = selected /\ running' = newest
        BY <1>4, <2>1 DEF TypeOK
      <3>2. otaState'[running'] = "pending"
        BY <1>3, <2>1, <3>1
      <3> QED BY <3>2 DEF NoTarget
    <2>2. CASE otaState[newest] # "new"
      <3>1. selected = ActiveSlot /\ SelectedRuns /\ whole[running] /\ NoTarget
        BY <1>1, <1>6, <2>2 DEF OutageInv, LimitReached
      <3>2. running' = running
        BY <1>1, <1>2, <3>1 DEF SelectedRuns, TypeOK
      <3> QED BY <1>1, <1>3, <3>1, <3>2 DEF NoTarget, rollbackTarget, imageAbandoned, ImageId, TypeOK
    <2> QED BY <2>1, <2>2
  <1> QED BY <1>7, <1>8, <1>9 DEF OutageInv

\* The rescue confirm needs a boot without a marker, which starts at zero.
LEMMA OutageInitArduino ==
  ASSUME BrokerIsAway
  PROVE  TypeOK /\ EarnedInv /\ OutageInv /\ InitArduino => OutageInv'
  <1> SUFFICES ASSUME TypeOK, EarnedInv, OutageInv, InitArduino PROVE OutageInv'
    OBVIOUS
  <1> USE OtherSlot
  <1>1. PICK opened \in Outcome("nvs"), cleared \in Outcome("nvs"), marked \in Outcome("otadata") :
          LET pending == otaState[running] = "pending"
              rescue  == IF opened THEN otaHealthRescue(nvs.rescue, marker) ELSE 0
              confirm == opened /\ cleared /\ rescue # 0 /\ pending /\ marked
          IN /\ nvs' = [nvs EXCEPT !.rescue = IF opened /\ cleared THEN 0 ELSE @]
             /\ ram' = [ram EXCEPT !.bootRescue = rescue,
                                   !.bootPending = opened /\ pending]
             /\ otaState' = [otaState EXCEPT ![running] =
                               IF confirm THEN "valid" ELSE @]
    BY Zenon DEF InitArduino
  <1>2. opened = TRUE /\ cleared = TRUE
    BY EveryCallWorks
  <1>3. /\ phase = "init" /\ phase' = "streak"
        /\ UNCHANGED <<build, whole, newest, running, marker, reason>>
    BY DEF InitArduino
  <1>4. nvs'.crash_n = nvs.crash_n /\ nvs'.left_id = nvs.left_id
    BY <1>1 DEF TypeOK, NvsType
  <1>5. \/ otaState' = otaState
        \/ /\ otaState[running] = "pending" /\ marker = "none"
           /\ otaState' = [otaState EXCEPT ![running] = "valid"]
    BY <1>1 DEF otaHealthRescue, TypeOK
  <1>6. ActiveSlot' = ActiveSlot
    BY <1>3, <1>5, SelectionStays DEF ActiveSlot, TypeOK
  <1>7. RunsSelected' /\ OnlyRunningPends'
    BY <1>3, <1>5, <1>6 DEF OutageInv, RunsSelected, SelectedRuns, OnlyRunningPends, TypeOK
  <1>8. MarkerRead' /\ UnplannedStartsAtZero' /\ ClearedFirst' /\ StreakRead' /\ StagedIsNew'
    BY <1>3, <1>4 DEF OutageInv, MarkerRead, UnplannedStartsAtZero, ClearedFirst, StreakRead,
       StagedIsNew
  <1>9. LimitReached'
    <2> SUFFICES ASSUME AtCrashLimit PROVE NoTarget'
      BY <1>3, <1>4 DEF LimitReached, AtCrashLimit
    <2>1. marker # "none" /\ NoTarget
      BY <1>3, CrashLimitAssumption DEF OutageInv, LimitReached, UnplannedStartsAtZero, AtCrashLimit,
         otaHealthShouldRollback
    <2> QED BY <1>3, <1>4, <1>5, <2>1 DEF NoTarget, rollbackTarget, imageAbandoned, ImageId
  <1> QED BY <1>7, <1>8, <1>9 DEF OutageInv

\* Only a boot without a marker, or a broker restart of an image not yet proven,
\* counts on a confirmed image.
LEMMA OutageStreak ==
  ASSUME BrokerIsAway
  PROVE  TypeOK /\ EarnedInv /\ OutageInv /\ RecordBootStreak => OutageInv'
  <1> SUFFICES ASSUME TypeOK, EarnedInv, OutageInv, RecordBootStreak PROVE OutageInv'
    OBVIOUS
  <1> USE OtherSlot
  <1>1. PICK opened \in Outcome("nvs"), removed \in Outcome("nvs"),
             recorded \in Outcome("nvs"), counted \in Outcome("nvs"),
             stored \in Outcome("nvs"), idRead \in Outcome("desc") :
          StoreStreak(opened, removed, recorded, counted, stored, idRead)
    BY Zenon DEF RecordBootStreak
  <1>2. /\ opened = TRUE /\ removed = TRUE /\ recorded = TRUE /\ counted = TRUE
        /\ stored = TRUE /\ idRead = TRUE
    BY EveryCallWorks
  <1>3. /\ phase = "streak" /\ phase' = "guard" /\ marker' = "none"
        /\ UNCHANGED <<build, whole, otaState, newest, running, reason>>
    BY DEF RecordBootStreak, flash
  <1>4. /\ nvs' = [nvs EXCEPT !.left_id = LeftRecord(TRUE, TRUE, TRUE), !.crash_n = NextStreak(TRUE)]
        /\ ram'.streakKnown /\ ram'.streak = NextStreak(TRUE)
    BY <1>1, <1>2 DEF StoreStreak, TypeOK, RamType
  <1>5. /\ nvs'.crash_n = NextStreak(TRUE) /\ nvs'.left_id = LeftRecord(TRUE, TRUE, TRUE)
        /\ nvs'.proven_id = nvs.proven_id
    BY <1>4 DEF TypeOK, NvsType
  <1>6. RunsSelected' /\ OnlyRunningPends'
    BY <1>3 DEF OutageInv, RunsSelected, SelectedRuns, OnlyRunningPends, ActiveSlot
  <1>7. MarkerRead' /\ UnplannedStartsAtZero' /\ ClearedFirst' /\ StreakRead' /\ StagedIsNew'
    BY <1>3, <1>4, <1>5 DEF OutageInv, MarkerRead, UnplannedStartsAtZero, ClearedFirst, StreakRead,
       StagedIsNew
  <1>8. LimitReached'
    <2> SUFFICES ASSUME AtCrashLimit', nvs.proven_id = ImageId(running), otaState[running] = "valid"
                 PROVE  ~rollbackTarget'
      BY <1>3, <1>5 DEF LimitReached, NoTarget, ImageId
    <2>1. nvs.crash_n \in Nat /\ CrashLimit \in Nat /\ CrashLimit >= 2
      BY CrashLimitAssumption DEF TypeOK, NvsType
    <2>2. RecordsProven(TRUE)
      BY DEF RecordsProven
    <2>3. AtCrashLimit
      <3>1. nvs'.crash_n >= CrashLimit
        BY DEF AtCrashLimit, otaHealthShouldRollback
      <3>2. CASE marker = "none"
        <4>1. nvs.crash_n = 0
          BY <1>3, <3>2 DEF OutageInv, UnplannedStartsAtZero
        <4>2. PICK kind : nvs'.crash_n = otaHealthNextCrashStreak(nvs.crash_n, kind)
          BY <1>5, Zenon DEF NextStreak
        <4>3. nvs'.crash_n \in {0, 1}
          BY <4>1, <4>2, StreakFromZero
        <4> QED BY <2>1, <3>1, <4>3
      <3>3. CASE marker # "none"
        <4>1. reason = "sw" /\ marker \in {"operator", "broker"}
          BY <1>3, <3>3 DEF OutageInv, UnplannedStartsAtZero, TypeOK, Markers
        <4>2. nvs'.crash_n = nvs.crash_n
          BY <1>5, <2>2, <4>1 DEF NextStreak, otaHealthBootClass, otaHealthStateConfirmed,
             otaHealthNextCrashStreak
        <4> QED BY <3>1, <4>2 DEF AtCrashLimit, otaHealthShouldRollback
      <3> QED BY <3>2, <3>3
    <2>4. ~rollbackTarget
      BY <1>3, <2>3 DEF OutageInv, LimitReached, NoTarget
    <2>5. \/ nvs'.left_id \in {ImageId(Other(running)), nvs.left_id}
          \/ nvs.left_id[1] = running /\ nvs'.left_id = NoId
      BY <1>5 DEF LeftRecord, otaHealthLeftIsStale
    <2>6. imageAbandoned(Other(running)) => imageAbandoned(Other(running))'
      BY <1>3, <2>5 DEF imageAbandoned, ImageId, TypeOK
    <2> QED BY <1>3, <2>4, <2>6 DEF rollbackTarget
  <1> QED BY <1>6, <1>7, <1>8 DEF OutageInv

\* A planned restart hands the next boot what the running image leaves.
LEMMA OutageReset ==
  ASSUME TypeOK, AlwaysBootable, OutageInv, phase = "run", Reset("sw", marker'), marker' # "none",
         UNCHANGED <<flash, nvs>>
  PROVE  OutageInv'
  <1>1. /\ phase' = "boot" /\ reason' = "sw"
        /\ UNCHANGED <<build, whole, otaState, newest, nvs, running>>
    BY DEF Reset, flash
  <1>2. RunsSelected' /\ OnlyRunningPends'
    BY <1>1 DEF RunsSelected, OutageInv, OnlyRunningPends
  <1>3. MarkerRead' /\ UnplannedStartsAtZero' /\ ClearedFirst' /\ StreakRead' /\ StagedIsNew'
    BY <1>1 DEF MarkerRead, UnplannedStartsAtZero, ClearedFirst, StreakRead, StagedIsNew
  <1>4. AtCrashLimit => SelectedRuns /\ whole[running] /\ otaState[running] # "pending" /\ NoTarget
    BY DEF OutageInv, LimitReached, RunsSelected, AlwaysBootable
  <1>5. AtCrashLimit' = AtCrashLimit /\ SelectedRuns' = SelectedRuns /\ NoTarget' = NoTarget
    BY <1>1, Zenon DEF AtCrashLimit, SelectedRuns, NoTarget, rollbackTarget, imageAbandoned, ImageId,
       ActiveSlot
  <1>6. LimitReached'
    BY <1>1, <1>4, <1>5 DEF LimitReached
  <1> QED BY <1>2, <1>3, <1>6 DEF OutageInv

\* Past the guard an image at the limit has nowhere to go.
LEMMA OutageGuard ==
  ASSUME BrokerIsAway
  PROVE  TypeOK /\ AlwaysBootable /\ OutageInv /\ GuardStep => OutageInv'
  <1> SUFFICES ASSUME TypeOK, AlwaysBootable, OutageInv, GuardStep PROVE OutageInv'
    OBVIOUS
  <1> USE OtherSlot DEF OutageInv
  <1>0. "nvs" \notin Faults /\ "desc" \notin Faults /\ "otadata" \notin Faults
    BY DEF BrokerIsAway
  <1>l. nvs.crash_n \in Nat /\ CrashLimit \in Nat /\ ~otaHealthShouldRollback(0)
    BY CrashLimitAssumption DEF TypeOK, NvsType, otaHealthShouldRollback
  <1>a. phase = "guard" => (AtLimit <=> AtCrashLimit)
    BY DEF AtLimit, AtCrashLimit, StreakRead
  <1>1. CASE GuardPasses
    <2>1. /\ phase = "guard" /\ phase' = "run"
          /\ UNCHANGED <<build, whole, otaState, newest, nvs, marker, reason, running, ram>>
      BY <1>1 DEF GuardPasses, flash
    <2>2. AtCrashLimit => otaState[running] # "pending" /\ NoTarget
      BY <1>0, <1>1, <1>a, <2>1 DEF GuardPasses, NoTarget
    <2>3. LimitReached'
      BY <2>1, <2>2 DEF LimitReached, AtCrashLimit, NoTarget, rollbackTarget, imageAbandoned, ImageId
    <2> QED BY <2>1, <2>3 DEF MarkerRead, UnplannedStartsAtZero, ClearedFirst, StreakRead,
               RunsSelected, SelectedRuns, ActiveSlot, StagedIsNew, OnlyRunningPends
  <1>2. CASE GuardKeepsPending
    <2>1. PICK cleared \in Outcome("nvs"), marked \in Outcome("otadata") :
            /\ nvs' = [nvs EXCEPT !.crash_n = IF cleared THEN 0 ELSE @]
            /\ ram' = [ram EXCEPT !.streak = IF cleared THEN 0 ELSE @]
            /\ otaState' = [otaState EXCEPT ![running] = IF marked THEN "valid" ELSE @]
      BY <1>2, Zenon DEF GuardKeepsPending
    <2>2. cleared = TRUE /\ marked = TRUE
      BY EveryCallWorks
    <2>3. /\ phase = "guard" /\ phase' = "run" /\ otaState[running] = "pending"
          /\ UNCHANGED <<build, whole, newest, marker, reason, running>>
          /\ nvs'.crash_n = 0 /\ ram'.streak = 0 /\ ram'.streakKnown = ram.streakKnown
          /\ otaState' = [otaState EXCEPT ![running] = "valid"]
      BY <1>2, <2>1, <2>2 DEF GuardKeepsPending, TypeOK, NvsType, RamType
    <2>4. ActiveSlot' = ActiveSlot
      BY <2>3, SelectionStays DEF ActiveSlot, TypeOK
    <2>5. LimitReached'
      BY <1>l, <2>3 DEF LimitReached, AtCrashLimit
    <2> QED BY <2>3, <2>4, <2>5 DEF MarkerRead, UnplannedStartsAtZero, ClearedFirst, StreakRead,
               RunsSelected, SelectedRuns, StagedIsNew, OnlyRunningPends, TypeOK
  <1>3. CASE GuardClearsStreak
    <2>1. /\ phase = "guard" /\ phase' = "reject" /\ nvs'.crash_n = 0
          /\ UNCHANGED <<build, whole, otaState, newest, marker, reason, running, ram>>
      BY <1>3 DEF GuardClearsStreak, flash, TypeOK, NvsType
    <2> QED BY <1>l, <2>1 DEF MarkerRead, UnplannedStartsAtZero, ClearedFirst, StreakRead,
               RunsSelected, SelectedRuns, ActiveSlot, StagedIsNew, OnlyRunningPends, LimitReached,
               AtCrashLimit
  <1>4. CASE RejectPending
    <2>1. /\ phase = "reject" /\ phase' = "boot" /\ marker' = marker
          /\ otaState' = [otaState EXCEPT ![running] = "invalid"]
          /\ UNCHANGED <<build, whole, newest, nvs, running>>
      BY <1>4 DEF RejectPending, Reset
    <2> QED BY <1>l, <2>1 DEF MarkerRead, UnplannedStartsAtZero, ClearedFirst, StreakRead,
               RunsSelected, StagedIsNew, OnlyRunningPends, LimitReached, AtCrashLimit, TypeOK
  <1>5. CASE ArmRescue
    <2>1. /\ phase = "guard" /\ phase' \in {"armed", "run"}
          /\ UNCHANGED <<build, whole, otaState, newest, marker, reason, running>>
          /\ nvs'.crash_n = 0 /\ ram'.streak = 0 /\ ram'.streakKnown = ram.streakKnown
      BY <1>5 DEF ArmRescue, flash, TypeOK, NvsType, RamType
    <2> QED BY <1>l, <2>1 DEF MarkerRead, UnplannedStartsAtZero, ClearedFirst, StreakRead,
               RunsSelected, SelectedRuns, ActiveSlot, StagedIsNew, OnlyRunningPends, LimitReached,
               AtCrashLimit
  <1>6. CASE SetBootSlot
    <2>1. /\ phase = "armed" /\ phase' = "switched" /\ newest' = Other(running)
          /\ otaState' = [otaState EXCEPT ![Other(running)] = "new"]
          /\ UNCHANGED <<nvs, marker, reason, running, ram>>
      BY <1>6 DEF SetBootSlot
    <2> QED BY <1>l, <2>1 DEF MarkerRead, UnplannedStartsAtZero, ClearedFirst, StreakRead,
               RunsSelected, StagedIsNew, OnlyRunningPends, LimitReached, AtCrashLimit, TypeOK
  <1>7. CASE SwitchRestart
    <2>1. /\ phase = "switched" /\ phase' = "boot" /\ marker' = marker
          /\ nvs'.crash_n = nvs.crash_n
          /\ UNCHANGED <<build, whole, otaState, newest, running>>
      BY <1>7 DEF SwitchRestart, Reset, flash, TypeOK, NvsType
    <2> QED BY <1>l, <2>1 DEF MarkerRead, UnplannedStartsAtZero, ClearedFirst, StreakRead,
               RunsSelected, StagedIsNew, OnlyRunningPends, LimitReached, AtCrashLimit
  <1>8. ~RejectFails /\ ~SwitchFails
    BY <1>0 DEF RejectFails, SwitchFails
  <1> QED BY <1>1, <1>2, <1>3, <1>4, <1>5, <1>6, <1>7, <1>8 DEF GuardStep

\* The health gate moves the streak only to zero, and marks only with that.
LEMMA OutageConfirm ==
  ASSUME BrokerIsAway
  PROVE  TypeOK /\ OutageInv /\ ConfirmIfHealthy =>
           /\ phase = "run" /\ phase' = "run"
           /\ UNCHANGED <<build, whole, newest, marker, running>>
           /\ nvs'.left_id = nvs.left_id /\ ram'.streakKnown
           /\ \/ nvs'.crash_n = nvs.crash_n /\ ram'.streak = ram.streak /\ otaState' = otaState
              \/ /\ nvs'.crash_n = 0
                 /\ otaState' \in {otaState, [otaState EXCEPT ![ActiveSlot] = "valid"]}
  <1> SUFFICES ASSUME TypeOK, OutageInv, ConfirmIfHealthy
               PROVE  /\ nvs'.left_id = nvs.left_id /\ ram'.streakKnown
                      /\ \/ nvs'.crash_n = nvs.crash_n /\ ram'.streak = ram.streak /\ otaState' = otaState
                         \/ /\ nvs'.crash_n = 0
                            /\ otaState' \in {otaState, [otaState EXCEPT ![ActiveSlot] = "valid"]}
    BY DEF ConfirmIfHealthy
  <1>0. ram.streakKnown /\ (ram.streak = nvs.crash_n \/ nvs.crash_n = 0)
    BY DEF OutageInv, StreakRead, ConfirmIfHealthy
  <1>1. CASE ConfirmPending
    <2>1. PICK put \in Outcome("nvs"), cleared \in Outcome("nvs"), removed \in Outcome("nvs"),
               idRead \in Outcome("desc"), marked \in Outcome("otadata") :
               MarkActive(put, cleared, removed, idRead, marked)
      BY <1>1, Zenon DEF ConfirmPending
    <2>2. cleared = TRUE /\ marked = TRUE
      BY EveryCallWorks
    <2>3. otaState' = [otaState EXCEPT ![ActiveSlot] = "valid"]
      BY <2>1, <2>2 DEF MarkActive
    <2>4. nvs'.left_id = nvs.left_id /\ nvs'.crash_n = 0 /\ ram'.streakKnown = ram.streakKnown
      BY <2>1, <2>2 DEF MarkActive, TypeOK, NvsType, RamType
    <2> QED BY <1>0, <2>3, <2>4
  <1>2. CASE SettleImage
    <2>1. PICK put \in Outcome("nvs"), cleared \in Outcome("nvs"), removed \in Outcome("nvs"),
               idRead \in Outcome("desc"), marked \in Outcome("otadata") :
               SettleRunning(put, cleared, removed, idRead, marked)
      BY <1>2, Zenon DEF SettleImage
    <2>2. cleared = TRUE
      BY EveryCallWorks
    <2>3. PICK clear \in BOOLEAN, markOk \in BOOLEAN :
            /\ ~clear /\ markOk => ram.streak = 0
            /\ markOk => ActiveSlot = running
            /\ otaState' = [otaState EXCEPT ![running] = IF markOk THEN "valid" ELSE @]
            /\ nvs' = [nvs EXCEPT !.proven_id = ProvenId(put, idRead),
                                  !.crash_n = IF clear THEN 0 ELSE @,
                                  !.fled_ver = IF NewlyRead THEN FledAfterDrop(removed) ELSE @]
            /\ ram'.streak = IF clear THEN 0 ELSE ram.streak
            /\ ram'.streakKnown = ram.streakKnown
      <3> DEFINE usb     == RunState = "undefined"
                 idle    == ~ram.streakKnown \/ (ram.streak = 0 /\ ~usb)
                 due     == ~idle /\ otaHealthSettleDue(ram.up, ram.failWait)
                 clear   == due /\ ram.streak # 0
                 tryMark == due /\ usb /\ (clear => cleared)
                 markOk  == tryMark /\ ActiveSlot = running /\ marked
      <3>1. /\ clear \in BOOLEAN /\ markOk \in BOOLEAN
            /\ ~clear /\ markOk => ram.streak = 0
            /\ markOk => ActiveSlot = running
        OBVIOUS
      <3>2. /\ otaState' = [otaState EXCEPT ![running] = IF markOk THEN "valid" ELSE @]
            /\ nvs' = [nvs EXCEPT !.proven_id = ProvenId(put, idRead),
                                  !.crash_n = IF clear /\ cleared THEN 0 ELSE @,
                                  !.fled_ver = IF NewlyRead THEN FledAfterDrop(removed) ELSE @]
        BY <2>1, Zenon DEF SettleRunning
      <3>3. /\ ram'.streak = IF clear /\ cleared THEN 0 ELSE ram.streak
            /\ ram'.streakKnown = ram.streakKnown
        BY <2>1 DEF SettleRunning, TypeOK, RamType
      <3> HIDE DEF clear, markOk
      <3> QED BY <2>2, <3>1, <3>2, <3>3
    <2>4. /\ nvs'.left_id = nvs.left_id
          /\ nvs'.crash_n = IF clear THEN 0 ELSE nvs.crash_n
      BY <2>3 DEF TypeOK, NvsType
    <2>5. otaState' = IF markOk THEN [otaState EXCEPT ![ActiveSlot] = "valid"] ELSE otaState
      BY <2>3 DEF TypeOK
    <2> QED BY <1>0, <2>3, <2>4, <2>5
  <1>3. CASE RecordProven
    BY <1>0, <1>3 DEF RecordProven, TypeOK, NvsType, RamType
  <1> QED BY <1>1, <1>2, <1>3 DEF ConfirmIfHealthy

LEMMA OutageLoop ==
  ASSUME BrokerIsAway
  PROVE  TypeOK /\ OutageInv /\ LoopStep => OutageInv'
  <1> SUFFICES ASSUME TypeOK, OutageInv, LoopStep PROVE OutageInv'
    OBVIOUS
  <1> USE OtherSlot
  <1>l. ~otaHealthShouldRollback(0)
    BY CrashLimitAssumption DEF otaHealthShouldRollback
  <1>1. CASE NoteMqttUp \/ Uptime
    <2>1. /\ phase = "run" /\ phase' = "run"
          /\ UNCHANGED <<build, whole, otaState, newest, nvs, marker, running>>
          /\ ram'.streak = ram.streak /\ ram'.streakKnown = ram.streakKnown
      BY <1>1 DEF NoteMqttUp, Uptime, TypeOK, RamType, flash
    <2> QED BY <2>1 DEF OutageInv, MarkerRead, UnplannedStartsAtZero, ClearedFirst, StreakRead,
               RunsSelected, SelectedRuns, ActiveSlot, StagedIsNew, OnlyRunningPends, LimitReached,
               AtCrashLimit, NoTarget, rollbackTarget, imageAbandoned, ImageId
  <1>2. CASE ConfirmIfHealthy
    <2>1. /\ phase = "run" /\ phase' = "run"
          /\ UNCHANGED <<build, whole, newest, marker, running>>
          /\ nvs'.left_id = nvs.left_id /\ ram'.streakKnown
      BY <1>2, OutageConfirm
    <2>2. CASE nvs'.crash_n = nvs.crash_n /\ ram'.streak = ram.streak /\ otaState' = otaState
      BY <2>1, <2>2 DEF OutageInv, MarkerRead, UnplannedStartsAtZero, ClearedFirst, StreakRead,
         RunsSelected, SelectedRuns, ActiveSlot, StagedIsNew, OnlyRunningPends, LimitReached,
         AtCrashLimit, NoTarget, rollbackTarget, imageAbandoned, ImageId
    <2>3. CASE /\ nvs'.crash_n = 0
               /\ otaState' \in {otaState, [otaState EXCEPT ![ActiveSlot] = "valid"]}
      <3>1. ActiveSlot \in Slots
        BY SelectedIsSlot DEF ActiveSlot, TypeOK
      <3>2. ActiveSlot' = ActiveSlot
        <4>1. CASE otaState' = otaState
          BY <2>1, <4>1 DEF ActiveSlot
        <4>2. CASE otaState' = [otaState EXCEPT ![ActiveSlot] = "valid"]
          <5>1. Selected([otaState EXCEPT ![ActiveSlot] = "valid"], newest) = Selected(otaState, newest)
            BY <3>1, SelectionStays DEF ActiveSlot, TypeOK
          <5> QED BY <2>1, <4>2, <5>1 DEF ActiveSlot
        <4> QED BY <2>3, <4>1, <4>2
      <3>3. RunsSelected' /\ OnlyRunningPends'
        BY <2>1, <2>3, <3>1, <3>2 DEF OutageInv, RunsSelected, SelectedRuns, OnlyRunningPends, TypeOK
      <3> QED BY <1>l, <2>1, <2>3, <3>3 DEF OutageInv, MarkerRead, UnplannedStartsAtZero, ClearedFirst,
                 StreakRead, StagedIsNew, LimitReached, AtCrashLimit
    <2> QED BY <1>2, <2>2, <2>3, OutageConfirm
  <1> QED BY <1>1, <1>2 DEF LoopStep

\* A download takes the target away, and what it stages boots as an install.
LEMMA OutageWrite ==
  ASSUME BrokerIsAway
  PROVE  TypeOK /\ AlwaysBootable /\ EarnedInv /\ OutageInv /\ WriteStep => OutageInv'
  <1> SUFFICES ASSUME TypeOK, AlwaysBootable, EarnedInv, OutageInv, WriteStep PROVE OutageInv'
    OBVIOUS
  <1> USE OtherSlot DEF OutageInv
  <1>1. ASSUME NEW v \in Builds, NEW force \in BOOLEAN, StartDownload(v, force) PROVE OutageInv'
    <2>1. /\ phase = "run" /\ phase' = "download"
          /\ UNCHANGED <<otaState, newest, nvs, ram, marker, reason, running>>
          /\ whole' = [whole EXCEPT ![Other(running)] = FALSE]
      BY <1>1 DEF StartDownload, OverwriteOther
    <2>2. ActiveSlot \in Slots /\ ActiveSlot' = ActiveSlot
      BY <2>1, SelectedIsSlot DEF ActiveSlot, TypeOK
    <2>3. RunsSelected' /\ ~rollbackTarget'
      BY <2>1, <2>2 DEF RunsSelected, SelectedRuns, rollbackTarget, TypeOK
    <2> QED BY <2>1, <2>3 DEF MarkerRead, UnplannedStartsAtZero, ClearedFirst, StreakRead,
               StagedIsNew, OnlyRunningPends, LimitReached, AtCrashLimit, NoTarget
  <1>2. CASE DownloadFails
    <2>1. /\ phase = "download" /\ phase' = "run"
          /\ UNCHANGED <<build, whole, otaState, newest, nvs, ram, marker, reason, running>>
      BY <1>2 DEF DownloadFails, flash
    <2> QED BY <2>1 DEF MarkerRead, UnplannedStartsAtZero, ClearedFirst, StreakRead,
               RunsSelected, SelectedRuns, ActiveSlot, StagedIsNew, OnlyRunningPends, LimitReached,
               AtCrashLimit, NoTarget, rollbackTarget, imageAbandoned, ImageId
  <1>3. CASE DownloadVerified
    <2>1. /\ phase = "download" /\ phase' = "staged" /\ newest' = Other(running)
          /\ otaState' = [otaState EXCEPT ![Other(running)] = "new"]
          /\ UNCHANGED <<nvs, ram, marker, reason, running>>
      BY <1>3 DEF DownloadVerified, ActivateOther
    <2> QED BY <2>1 DEF MarkerRead, UnplannedStartsAtZero, ClearedFirst, StreakRead,
               RunsSelected, StagedIsNew, OnlyRunningPends, LimitReached, TypeOK
  <1>4. CASE InstallRestart
    <2>1. /\ phase = "staged" /\ phase' = "boot" /\ reason' = "sw" /\ marker' = "operator"
          /\ UNCHANGED <<build, whole, otaState, newest, running>>
      BY <1>4 DEF InstallRestart, Reset, flash
    <2> QED BY <2>1 DEF MarkerRead, UnplannedStartsAtZero, ClearedFirst, StreakRead,
               RunsSelected, StagedIsNew, OnlyRunningPends, LimitReached
  <1>5. CASE WebRestart
    <2>1. /\ phase = "run" /\ Reset("sw", marker') /\ marker' # "none" /\ UNCHANGED <<flash, nvs>>
      BY <1>5 DEF WebRestart, Reset
    <2> QED BY <2>1, OutageReset
  <1>6. CASE UploadReply
    BY <1>6 DEF UploadReply, EarnedInv
  <1>7. /\ ~ActivateFails /\ ~UploadEnd /\ ~UploadFails
        /\ \A b \in Builds : ~UploadBegin(b)
    BY DEF BrokerIsAway, ActivateFails, UploadEnd, UploadFails, UploadBegin, EarnedInv
  <1> QED BY <1>1, <1>2, <1>3, <1>4, <1>5, <1>6, <1>7 DEF WriteStep

\* However often an outage spends the reboot budget, and whatever an operator
\* restarts, rollbackIfCrashLoop does not leave the image that reached the broker.
THEOREM OutageLeavesProven ==
  ASSUME BrokerIsAway
  PROVE  Spec => [][KeepsProven]_vars
  <1>0. OneAtATime
    BY DEF BrokerIsAway, OneAtATime
  <1>1. Init => EarnedInv /\ OutageInv
    <2> SUFFICES ASSUME Init PROVE EarnedInv /\ OutageInv
      OBVIOUS
    <2>1. EarnedInv
      BY DEF Init, EarnedInv, RescueEarned, NewIsStaged, PendingRuns, ReadPending,
         ConfirmedHasRun, ResetRam, Slots
    <2>2. phase = "boot" /\ marker = "none" /\ nvs.crash_n = 0 /\ (\A s \in Slots : otaState[s] # "pending")
      BY DEF Init
    <2>3. ~AtCrashLimit
      BY <2>2, CrashLimitAssumption DEF AtCrashLimit, otaHealthShouldRollback
    <2> QED BY <2>1, <2>2, <2>3 DEF OutageInv, MarkerRead, UnplannedStartsAtZero, ClearedFirst,
               StreakRead, RunsSelected, StagedIsNew, OnlyRunningPends, LimitReached
  <1>2. TypeOK /\ AlwaysBootable /\ EarnedInv /\ [Next]_vars => EarnedInv'
    BY <1>0, EarnedStep
  <1>3. TypeOK /\ AlwaysBootable /\ EarnedInv /\ OutageInv /\ [Next]_vars => OutageInv'
    <2> SUFFICES ASSUME TypeOK, AlwaysBootable, EarnedInv, OutageInv, [Next]_vars PROVE OutageInv'
      OBVIOUS
    <2>1. CASE UNCHANGED vars
      BY <2>1 DEF vars, flash, OutageInv, MarkerRead, UnplannedStartsAtZero, ClearedFirst, StreakRead,
         RunsSelected, SelectedRuns, ActiveSlot, StagedIsNew, OnlyRunningPends, LimitReached,
         AtCrashLimit, NoTarget, rollbackTarget, imageAbandoned, ImageId
    <2>2. CASE ResetStep
      <3>1. PlannedRestart \/ BrokerRestart
        BY <2>2 DEF ResetStep, HeapRestart, Restarts, Crash, Brownout, PowerOn, DeepSleep,
           BrokerIsAway
      <3>2. /\ phase = "run" /\ Reset("sw", marker') /\ marker' # "none" /\ UNCHANGED <<flash, nvs>>
        BY <3>1 DEF PlannedRestart, BrokerRestart, Restarts, Reset
      <3> QED BY <3>2, OutageReset
    <2> QED BY <2>1, <2>2, OutageBootloader, OutageInitArduino, OutageStreak, OutageGuard, OutageLoop,
               OutageWrite DEF Next, BootStep
  <1>4. TypeOK /\ OutageInv /\ [Next]_vars => [KeepsProven]_vars
    <2> SUFFICES ASSUME TypeOK, OutageInv, Next, phase = "guard", phase' = "armed",
                        nvs.proven_id = ImageId(running)
                 PROVE  FALSE
      BY DEF KeepsProven
    <2>1. ArmRescue
      BY DEF Next, BootStep, Bootloader, InitArduino, RecordBootStreak, GuardStep, GuardPasses,
         GuardKeepsPending, GuardClearsStreak, RejectPending, RejectFails, SetBootSlot,
         SwitchFails, SwitchRestart, LoopStep, NoteMqttUp, Uptime, ConfirmIfHealthy, WriteStep,
         StartDownload, DownloadFails, DownloadVerified, ActivateFails, InstallRestart, UploadBegin,
         UploadEnd, UploadFails, UploadReply, WebRestart, ResetStep, PlannedRestart, BrokerRestart,
         HeapRestart, Restarts, Crash, Brownout, PowerOn, DeepSleep, Reset
    <2>2. AtCrashLimit /\ otaState[running] = "valid" /\ rollbackTarget
      BY <2>1 DEF ArmRescue, AtLimit, AtCrashLimit, OutageInv, StreakRead
    <2> QED BY <2>2 DEF OutageInv, LimitReached, NoTarget
  <1> QED BY <1>1, <1>2, <1>3, <1>4, TypeCorrect, Bootable, PTL DEF Spec
=============================================================================
