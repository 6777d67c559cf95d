SPECIFICATION SceneSpec
CONSTANTS
  Hosts <- MCHosts
  LongHosts <- MCLong
  Ports <- MCPorts
  Creds <- MCCreds
  Good <- MCGood
  Written <- MCWritten
  Edits = {"file", "cmd", "reload"}
  Resets = TRUE
  Outages = TRUE
  LowHeap = TRUE
  Faults = {}
  Ageing = TRUE
  MaxReboots = 2
  RebootAfter = 3
  DefragAfter = 2
  MaxEdits = 2
INVARIANTS TypeOK RebootsBounded LastGoodWorks ReloadApplies
PROPERTIES UndoesOnlyTried RollsBackBadConfig ReconnectsOnReturn
