SPECIFICATION FairSpec
CONSTANTS
  ApPassword = TRUE
  ApTimeout = TRUE
  LinkModes = {"fallback", "standby"}
  Gnss = TRUE
  Operator = "idle"
  Faults = {"reset", "wake", "bus", "remote"}
  RecycleStreak = 2
  ResetStreak = 3
  FailStreak = 2
  MaxEvents = 2
INVARIANTS TypeOK StartedAlive
PROPERTIES WifiReturns TakesOver YieldsBack
