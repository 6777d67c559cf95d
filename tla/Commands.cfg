SPECIFICATION SceneSpec
CONSTANTS
  RingSize = 3
  NestMax = 2
  Mode = "full"
  Kinds = {"cmd", "config", "file", "ws", "open", "admin"}
  MaxJobs = 3
  Bytes <- MCBytes
  Outputs <- MCOutputs
  Limits = {5, 7, 8, 10}
  QueueSize = 2
  MaxMsgs = 3
  Paced = TRUE
INVARIANTS TypeOK AnswersHonest NoBorrowedAuthority AnswerPages SessionSound
PROPERTIES RingIsQueue LandedRestarts QueueDrains
