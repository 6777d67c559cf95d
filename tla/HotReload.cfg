\* A script that subscribes, reloaded: a table two entries wider than the core.
SPECIFICATION Spec
CONSTANTS
  MaxSubs = 5
  MaxTimers = 1
  Budget = 2
  CreditCap = 1
  MaxGen = 2
  MaxDepth = 3
INVARIANT ReloadResubscribes
