SPECIFICATION Spec
CONSTANTS
  CrashLimit = 2
  Builds <- MCBuilds
  Platform <- OnePlatform
  Faults = {}
  Causes = {"operator"}
  Uploads = TRUE
  Pulls = FALSE
  Overrides = {}
  MaxStreak = 2
  MaxSwitches = 3
INVARIANT ConfirmedHasRun
