CONSTANTS
  Clis = {c1}
  Pids = {p1, p2, p3}
  Order <- MCOrder
  Commands = {"start", "restart", "quick", "stop"}
  MaxCommands = 4
  CanCrash = TRUE
  CanAbort = TRUE
  CanReboot = FALSE
  CanOmit = TRUE
  Strangers = FALSE
SPECIFICATION FairSpec
INVARIANTS TypeOK NoDuplicateComponent QuickStartsClean
PROPERTIES StopStopsAll CommandsEnd
CHECK_DEADLOCK FALSE
