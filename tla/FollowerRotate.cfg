CONSTANTS
  StartAtEnd = TRUE
  CanRotate = TRUE
  MaxLines = 3
  MaxGen = 3
SPECIFICATION FairSpec
INVARIANTS NothingSkipped ExactlyOnceUnlessTorn HistoryStaysIgnored
PROPERTIES EveryLineDelivered KeepsTailPromise
CHECK_DEADLOCK FALSE
