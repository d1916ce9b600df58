CONSTANTS
  RenameBurst = 1
  DeleteBurst = 2
  WriteBytesBurst = 2
  WriteRate = 2
  OpsInterval = 1
  SyscallBurst = 2
  DnsBurst = 2
  LongDns = 1
  RareDns = 2
  MaxWindow = 4
  MaxTs = 2
SPECIFICATION Spec
INVARIANTS ArrivalOrderIrrelevant
PROPERTY EvidenceStays
CHECK_DEADLOCK FALSE
