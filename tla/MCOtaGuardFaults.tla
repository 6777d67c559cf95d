-------------------------- MODULE MCOtaGuardFaults --------------------------
(* Three ways the guard meets trouble, explored side by side: pulls whose NVS *)
(* calls may fail, under the constants of the .cfg; pulls whose otadata and   *)
(* activation calls may fail; and web uploads interleaved with the main loop. *)
EXTENDS OtaGuard

VARIABLE scene

MCBuilds     == {1, 2}
TwoPlatforms == [b \in MCBuilds |-> IF b = 1 THEN "idf4" ELSE "idf5"]

Flashing  == INSTANCE OtaGuard WITH Faults <- {"otadata", "activate"}

Uploading == INSTANCE OtaGuard WITH
               Platform <- [b \in MCBuilds |-> "idf"], Faults <- {},
               Causes <- {"crash"}, Uploads <- TRUE, Pulls <- FALSE

\* The history earned and refused, which no action and no property here reads,
\* does not tell states apart.
Seen == <<scene, flash, nvs, marker, phase, reason, running, ram, switches, unrecorded>>

SceneInit == Init /\ scene \in {"nvs", "flash", "uploads"}

SceneNext == \/ scene = "nvs"     /\ Next           /\ UNCHANGED scene
             \/ scene = "flash"   /\ Flashing!Next  /\ UNCHANGED scene
             \/ scene = "uploads" /\ Uploading!Next /\ UNCHANGED scene

SceneSpec == SceneInit /\ [][SceneNext]_<<vars, scene>>
=============================================================================
