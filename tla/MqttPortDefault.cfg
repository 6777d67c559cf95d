SPECIFICATION Spec
CONSTANTS
  Hosts <- MCHosts
  LongHosts <- MCLong
  Ports <- MCPorts
  Creds <- MCCreds
  Good <- MCGood
  Written <- WithoutPort
  Edits = {"cmd"}
  Resets = FALSE
  Outages = FALSE
  LowHeap = FALSE
  Faults = {}
  Ageing = FALSE
  MaxReboots = 2
  RebootAfter = 3
  DefragAfter = 2
  MaxEdits = 1
INVARIANTS LastGoodWorks
