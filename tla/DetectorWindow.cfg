CONSTANTS
  RenameBurst = 4
  DeleteBurst = 4
  WriteBytesBurst = 4
  WriteRate = 4
  OpsInterval = 1
  SyscallBurst = 2
  DnsBurst = 4
  LongDns = 3
  RareDns = 2
  Pids = {11, 12}
  Files <- MCFilesThree
  EmitKeys = {"memory.mmap", "memory.mprotect", "kmod.load", "syscall.ptrace"}
  History <- MCNoHistory
  StartTime = 0
  Mode = "detect"
  AllowRootBlock = FALSE
  Classes = {"plain"}
  WindowLen = 1
  Cooldown = 5
  AlertScore = 4
  BlockScore = 7
  StaleFloor = 4
  CleanupEvery = 2
  Lag = 1
  MaxTime = 5
  MaxEvents = 3
  MaxInst = 1
SPECIFICATION Spec
INVARIANTS NoEarlyExpiry AlertSpacing
PROPERTIES PairDetected
CHECK_DEADLOCK FALSE
