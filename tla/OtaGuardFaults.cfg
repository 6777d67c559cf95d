SPECIFICATION SceneSpec
CONSTANTS
  CrashLimit = 2
  Builds <- MCBuilds
  Platform <- TwoPlatforms
  Faults = {"nvs"}
  Causes = {"crash"}
  Uploads = FALSE
  Pulls = TRUE
  Overrides = {}
  MaxStreak = 2
  MaxSwitches = 2
VIEW Seen
INVARIANTS PingPongBounded AlwaysBootable InstallNotRejected
