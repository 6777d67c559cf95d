------------------------- MODULE MCOtaGuardRecovers -------------------------
(* What must eventually happen to an image, in two scenes explored side by    *)
(* side: one that crash-loops, and one whose broker is away.                  *)
EXTENDS Naturals

VARIABLES
  scene,
  build, whole, otaState, newest, nvs, marker, phase, reason, running, ram,
  earned, switches, unrecorded, refused

guard == <<build, whole, otaState, newest, nvs, marker, phase, reason, running, ram,
           earned, switches, unrecorded, refused>>

CrashLoop == INSTANCE OtaGuard WITH
  CrashLimit <- 2, Builds <- {1, 2}, Platform <- [b \in {1, 2} |-> "idf"], Faults <- {},
  Causes <- {"crash"}, Uploads <- FALSE, Pulls <- TRUE, Overrides <- {},
  MaxStreak <- 3, MaxSwitches <- 2

Outage == INSTANCE OtaGuard WITH
  CrashLimit <- 3, Builds <- {1, 2}, Platform <- [b \in {1, 2} |-> "idf"], Faults <- {},
  Causes <- {"operator", "broker"}, Uploads <- FALSE, Pulls <- TRUE,
  Overrides <- {"force"}, MaxStreak <- 3, MaxSwitches <- 2

Init == \/ scene = "crash loop" /\ CrashLoop!Init
        \/ scene = "outage"     /\ Outage!Init

Next == \/ scene = "crash loop" /\ CrashLoop!Next /\ UNCHANGED scene
        \/ scene = "outage"     /\ Outage!Next    /\ UNCHANGED scene

\* OtaGuard's CrashFairness and LoopFairness, each in its scene.  A scene never
\* changes, so one conjunct may carry an action of each.
Fairness ==
  LET Crash(A) == scene = "crash loop" /\ A
      Loop(A)  == scene = "outage" /\ A
  IN /\ WF_guard(Crash(CrashLoop!Bootloader) \/ Loop(Outage!BootStep))
     /\ WF_guard(Crash(CrashLoop!Uptime) \/ Loop(Outage!GuardStep))
     /\ WF_guard(\/ Crash(CrashLoop!SwitchRestart \/ CrashLoop!RejectPending)
                 \/ Loop(Outage!DownloadFails))
     /\ WF_guard(Loop(Outage!InstallRestart))
     /\ SF_guard(Crash(CrashLoop!InitArduino) \/ Loop(Outage!Uptime))
     /\ SF_guard(Crash(CrashLoop!RecordBootStreak) \/ Loop(Outage!ConfirmIfHealthy))
     /\ SF_guard(Crash(phase = "guard" /\ CrashLoop!GuardStep))
     /\ SF_guard(Crash(CrashLoop!SetBootSlot))
     /\ SF_guard(Crash(phase = "run" /\ CrashLoop!Crash))

Spec == Init /\ [][Next]_<<scene, guard>> /\ Fairness

\* A confirmed image that keeps crashing within the hour is left, as long as
\* the other slot holds a target (rollbackIfCrashLoop).
EscapesCrashLoop == scene = "crash loop" => CrashLoop!EscapesCrashLoop

\* A broker outage does not switch slots: while restarts are planned or come
\* from the MQTT budget, the guard never leaves the image proven on the broker.
OutageKeepsProven == [][scene = "outage" => Outage!KeepsProven]_<<scene, guard>>

\* An image does not stay pending during an outage: confirmIfHealthy confirms
\* it once it has shown it can run, or it is gone.
PendingResolved == scene = "outage" => Outage!PendingResolved
=============================================================================
