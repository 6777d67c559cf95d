SPECIFICATION SceneSpec
CONSTANTS
  CrashLimit = 2
  Builds <- MCBuilds
  Platform <- OnePlatform
  Faults = {"desc"}
  Causes <- AllCauses
  Uploads = FALSE
  Pulls = TRUE
  Overrides = {}
  MaxStreak = 2
  MaxSwitches = 3
  \* The pull: two chunks of two bytes.
  Size = 4
  Chunk = 2
  ChunkTries = 2
  MaxHops = 1
  Insecure = FALSE
  Manifests <- MCManifests
  \* The fled day: a clock that is unset, behind, ahead or far ahead.
  Skip = 4
  SaveEvery = 2
  GapMax = 1
  FledTries = 2
  Epochs = {0, 1, 3, 8}
  MaxUp = 6
  MaxResets = 3
INVARIANTS TypeOK ConfirmedHasRun PullSound FledSound
PROPERTY NoRepull
