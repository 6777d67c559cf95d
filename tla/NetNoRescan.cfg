\* No usable ap_password: the fallback AP is refused, and nothing else rescans.
SPECIFICATION FairSpec
CONSTANTS
  ApPassword = FALSE
  ApTimeout = TRUE
  LinkModes = {"fallback"}
  Gnss = FALSE
  Operator = "nobody"
  Faults = {}
  RecycleStreak = 2
  ResetStreak = 3
  FailStreak = 2
  MaxEvents = 1
PROPERTIES WifiReturns
