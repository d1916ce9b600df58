CONSTANTS
  RenameBurst = 4
  DeleteBurst = 4
  WriteBytesBurst = 4
  WriteRate = 4
  OpsInterval = 1
  SyscallBurst = 1
  DnsBurst = 4
  LongDns = 3
  RareDns = 2
  Pids = {11}
  Files <- MCFilesOne
  EmitKeys = {"memory.mmap"}
  History <- MCHistory
  StartTime = 5
  Mode = "block"
  AllowRootBlock = FALSE
  Classes = {"plain"}
  WindowLen = 1
  Cooldown = 3
  AlertScore = 4
  BlockScore = 4
  StaleFloor = 4
  CleanupEvery = 2
  Lag = 20
  MaxTime = 8
  MaxEvents = 3
  MaxInst = 1
SPECIFICATION Spec
INVARIANTS SignalsOnlySuspects
CHECK_DEADLOCK FALSE
