---------------------------- MODULE MCOtaUpdate -----------------------------
(* The way of a pulled update, in three scenes explored side by side: the     *)
(* image guard under the constants of the .cfg, the check and its download,   *)
(* and the day for which a fled release is refused.  A scene moves its own    *)
(* machine, the others rest.                                                  *)
EXTENDS OtaGuard

CONSTANTS
  \* OtaPull
  Size, Chunk, ChunkTries, MaxHops, Insecure, Manifests,
  \* FledSkip
  Skip, SaveEvery, GapMax, FledTries, Epochs, MaxUp, MaxResets

\* Sizes and limits are positive; the manifest is any a server may answer with.
ASSUME PullAssumption ==
  /\ Size \in Nat \ {0} /\ Chunk \in Nat \ {0} /\ ChunkTries \in Nat \ {0}
  /\ MaxHops \in Nat /\ Insecure \in BOOLEAN
  /\ Manifests \subseteq [newer : BOOLEAN, scheme : {"https", "http"}, size : Nat,
                          honest : BOOLEAN]

\* A day is longer than what goes unsaved, and an unset clock reads 0.
ASSUME FledAssumption ==
  /\ Skip \in Nat \ {0} /\ SaveEvery \in Nat \ {0} /\ GapMax \in Nat
  /\ FledTries \in Nat \ {0} /\ Epochs \subseteq Nat /\ 0 \in Epochs
  /\ MaxUp \in Nat /\ MaxResets \in Nat

VARIABLES
  scene,
  \* OtaPull
  wifi, cell, requested, forced, pending, due, at, run, get, man, image, writeOk,
  range, owed, wanted,
  \* FledSkip
  fledAge, unsaved, fled, turned, up, resets, installs, lost

pullVars == <<wifi, cell, requested, forced, pending, due, at, run, get, man, image,
              writeOk, range, owed, wanted>>
fledVars == <<fledAge, unsaved, fled, turned, up, resets, installs, lost>>
allVars  == <<scene, vars, pullVars, fledVars>>

MCBuilds    == {1, 2}
OnePlatform == [b \in MCBuilds |-> "idf"]
AllCauses   == {"operator", "broker", "heap", "crash", "brownout", "poweron",
                "deepsleep"}

\* The right manifest, and ones that are not newer, over http, without a size,
\* with a wrong size or with another digest.
Manifest(newer, scheme, size, honest) ==
  [newer |-> newer, scheme |-> scheme, size |-> size, honest |-> honest]
MCManifests ==
  {Manifest(TRUE, "https", 4, TRUE), Manifest(TRUE, "https", 0, TRUE),
   Manifest(TRUE, "http", 4, TRUE), Manifest(FALSE, "https", 4, TRUE),
   Manifest(TRUE, "https", 3, TRUE), Manifest(TRUE, "https", 5, FALSE)}

Pulling  == INSTANCE OtaPull WITH phase <- at, flash <- image, Tries <- ChunkTries
Skipping == INSTANCE FledSkip WITH nvs <- fledAge, rtc <- unsaved, ram <- fled,
                                   Tries <- FledTries

PullRests  == Pulling!Init /\ ~wifi
GuardRests ==
  Init /\ build = [s \in Slots |-> CHOOSE b \in Builds : TRUE] /\ reason = "sw"

SceneInit ==
  /\ Skipping!Init
  /\ \/ scene = "guard" /\ Init       /\ PullRests
     \/ scene = "pull"  /\ GuardRests /\ Pulling!Init
     \/ scene = "fled"  /\ GuardRests /\ PullRests

SceneNext ==
  \/ scene = "guard" /\ Next          /\ UNCHANGED <<scene, pullVars, fledVars>>
  \/ scene = "pull"  /\ Pulling!Next  /\ UNCHANGED <<scene, vars, fledVars>>
  \/ scene = "fled"  /\ Skipping!Next /\ UNCHANGED <<scene, vars, pullVars>>

SceneSpec == SceneInit /\ [][SceneNext]_allVars

\* Whatever breaks off, overruns, is retried or redirected, flash holds the
\* image in order and only the whole image the manifest names is staged; https
\* is kept at every hop; and a check asked for during another one is not lost
\* (OTAUpdate::loop, check, downloadBinaryChunkedCellular, applyUpdate).
PullSound == scene = "pull" => Pulling!TypeOK /\ Pulling!PullSound

\* Through resets, power cuts, lost saves and a wrong clock the age of a fled
\* release is the time the unit was up, an hour a boot at most ahead of it, and
\* every install after its day is a try NVS holds (ageFledRelease, saveFled,
\* otaFledAction).
FledSound == scene = "fled" => Skipping!TypeOK /\ Skipping!FledSound
=============================================================================
