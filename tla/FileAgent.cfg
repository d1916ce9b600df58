CONSTANTS
  ta = ta
  t1 = t1
  t2 = t2
  pa = pa
  p1 = p1
  Threads = {ta, t1, t2}
  AgentThread = ta
  Pids = {pa, p1}
  AgentPid = pa
  Pid <- MCPid
  LastFd = 2
  Paths = {"doc", "own"}
  OwnLog = "own"
  NoisePaths = {"own"}
  Capacity = 2
  QueueLen = 2
  FlushEvery = 2
  Sampled = TRUE
  CanFault = TRUE
  MaxCalls = 3
  MaxStarts = 1
SPECIFICATION FairSpec
INVARIANTS OpenedPathsRight OwnWritesFiltered
PROPERTY Settles
CHECK_DEADLOCK FALSE
