--------------------------- MODULE OtaHealthPolicy ---------------------------
(***************************************************************************)
(* The pure decisions of lib/thesada-core/src/ota_health_policy.h: how one *)
(* reset is classified, what it does to the crash streak, when an image is *)
(* confirmed, settled or abandoned.  Uptime is abstracted to the three     *)
(* spans the code compares with: below OTA_HEALTH_MIN_MS, below            *)
(* OTA_HEALTH_SETTLE_MS, and past it.                                      *)
(***************************************************************************)
EXTENDS Naturals

CONSTANT CrashLimit     \* OTA_HEALTH_CRASH_LIMIT, 3 in the firmware

\* One install restart has to stay under the limit.
ASSUME CrashLimitAssumption == CrashLimit \in Nat /\ CrashLimit >= 2

\* esp_reset_reason values, grouped by what the code tells apart.
\* "crash" is a panic or a watchdog, "hold" brownout, external pin, SDIO, unknown.
ResetReasons == {"poweron", "deepsleep", "sw", "crash", "brownout", "hold"}
Markers      == {"none", "operator", "broker"}
ImageStates  == {"undefined", "new", "pending", "valid", "invalid", "aborted"}

FreshBoot  == 0     \* less than OTA_HEALTH_MIN_MS up
HealthyMin == 1     \* OTA_HEALTH_MIN_MS up
Settled    == 2     \* OTA_HEALTH_SETTLE_MS up
Uptimes    == {FreshBoot, HealthyMin, Settled}

RescueOlderGuard == 1
RescueId         == 2   \* OTA_RESCUE_ID

-----------------------------------------------------------------------------
\* Power-on and deep sleep clear; software resets count with panics and
\* watchdogs; everything else holds.
otaHealthResetClass(reason) ==
  IF reason \in {"poweron", "deepsleep"} THEN "clear"
  ELSE IF reason \in {"sw", "crash"} THEN "crash"
  ELSE "hold"

otaHealthStateConfirmed(state) == state \in {"valid", "undefined"}

\* Mutant: the install restart is counted as the crash of the image it boots.
BootClassWithoutFresh(reason, planned, confirmed, proven, pending) ==
  IF /\ reason = "sw" /\ confirmed
     /\ planned = "operator" \/ (planned = "broker" /\ proven)
  THEN "hold"
  ELSE otaHealthResetClass(reason)

\* Mutant: a broker restart counts on a proven image too.
BootClassIgnoresProven(reason, planned, confirmed, proven, pending) ==
  IF reason = "sw" /\ planned # "none" /\ pending THEN "fresh"
  ELSE IF reason = "sw" /\ confirmed /\ planned = "operator" THEN "hold"
  ELSE otaHealthResetClass(reason)

\* A planned restart holds the streak on a confirmed image, a broker restart
\* only once that image is proven; into a pending image it starts a streak of one.
otaHealthBootClass(reason, planned, confirmed, proven, pending) ==
  IF reason = "sw" /\ planned # "none" /\ pending THEN "fresh"
  ELSE IF /\ reason = "sw" /\ confirmed
          /\ planned = "operator" \/ (planned = "broker" /\ proven)
  THEN "hold"
  ELSE otaHealthResetClass(reason)

\* Mutant: no reset ever counts.
StreakNeverGrows(previous, kind) ==
  IF kind = "clear" THEN 0 ELSE IF kind = "fresh" THEN 1 ELSE previous

\* Mutant: a held reset takes one off.
StreakUnderflows(previous, kind) ==
  IF kind = "clear" THEN 0
  ELSE IF kind = "fresh" THEN 1
  ELSE IF kind = "crash" THEN previous + 1
  ELSE previous - 1

otaHealthNextCrashStreak(previous, kind) ==
  IF kind = "clear" THEN 0
  ELSE IF kind = "fresh" THEN 1
  ELSE IF kind = "crash" THEN previous + 1
  ELSE previous

\* Mutant: only a broker session confirms, the five minutes are forgotten.
MarkOnlyOnMqtt(pending, mqttUp, up, crashStreak) ==
  pending /\ crashStreak < CrashLimit /\ mqttUp

\* A pending image is confirmed by its first broker session or five minutes up.
otaHealthShouldMark(pending, mqttUp, up, crashStreak) ==
  /\ pending
  /\ crashStreak < CrashLimit
  /\ mqttUp \/ up >= HealthyMin

\* An hour up, and an hour since the last failed try (failWait: that hour runs).
otaHealthSettleDue(up, failWait) == up = Settled /\ ~failWait

otaHealthShouldRollback(crashStreak) == crashStreak >= CrashLimit

\* A planned restart means the stored flag is a failed switch's leftover.
otaHealthRescue(stored, marker) == IF marker # "none" THEN 0 ELSE stored

otaHealthIsArrival(rescue, pending) == rescue # 0 /\ pending

otaHealthRecordArrival(rescue, sameStrings) == rescue = RescueId \/ ~sameStrings
=============================================================================
