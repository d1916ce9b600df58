CONSTANTS
  Clis = {c1, c2}
  Pids = {p1, p2, p3, p4}
  Order <- MCOrder
  Commands = {"start", "stop"}
  MaxCommands = 3
  CanCrash = FALSE
  CanAbort = TRUE
  CanReboot = TRUE
  CanOmit = FALSE
  Strangers = TRUE
SPECIFICATION Spec
SYMMETRY MCSymmetry
VIEW MCView
INVARIANT NoDuplicateComponent
PROPERTY StopStopsAll
CHECK_DEADLOCK FALSE
