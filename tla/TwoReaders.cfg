CONSTANTS
  StartAtEnd = FALSE
  CanRotate = TRUE
  MaxLines = 2
  MaxGen = 2
  MaxBreaks = 2
SPECIFICATION FairShipSpec
INVARIANTS ExactlyOnceUnlessTorn ShippedInOrder GapsExplained
PROPERTIES LineShipped
CHECK_DEADLOCK FALSE
