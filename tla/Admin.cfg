SPECIFICATION SceneSpec
CONSTANTS
  Pushed <- MCPushed
  Posted <- MCPosted
  Sets <- MCSets
  Replies <- MCReplies
  LoginTables <- MCLoginTables
  TokenTables <- MCTokenTables
  TerminalTables <- MCTerminalTables
  Files = {"f", "g"}
  BodyMax = 2
  MaxBody = 3
  \* A wipe that fails half way, the boot after it, a power cut between the two
  \* halves of the next certificate, and one mishap more.
  MaxSerial = 6
  MaxMishaps = 4
  MannedSerials = 2
  MannedMishaps = 2
  \* A subscription table two entries wider than the core topics, two reloads.
  MaxSubs = 5
  MaxTimers = 1
  Budget = 2
  CreditCap = 1
  MaxGen = 2
  MaxDepth = 3
\* An enrolled unit with nothing pending, and a run at its time bound, may stop.
CHECK_DEADLOCK FALSE
INVARIANTS TypesOK CopiesAgree PrefixDeferred WebSound UploadSound CertSound ScriptsSound
PROPERTIES EndsSealed MainLoopTurns
