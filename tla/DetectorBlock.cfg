CONSTANTS
  RenameBurst = 4
  DeleteBurst = 4
  WriteBytesBurst = 4
  WriteRate = 4
  OpsInterval = 1
  SyscallBurst = 1
  DnsBurst = 4
  LongDns = 3
  RareDns = 2
  Pids = {11}
  Files <- MCFilesTwo
  EmitKeys = {"memory.mmap", "memory.mprotect", "kmod.load"}
  History <- MCNoHistory
  StartTime = 0
  Mode = "block"
  AllowRootBlock = FALSE
  Classes = {"plain", "root", "service", "cmdline", "monitor", "comm"}
  WindowLen = 1
  Cooldown = 3
  AlertScore = 4
  BlockScore = 4
  StaleFloor = 4
  CleanupEvery = 2
  Lag = 1
  MaxTime = 2
  MaxEvents = 2
  MaxInst = 2
SPECIFICATION Spec
INVARIANTS ProtectedSpared
CHECK_DEADLOCK FALSE
