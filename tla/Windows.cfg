CONSTANTS
  Window = 3
  Stride = 2
  MinEvents = 1
  TestPercent = 80
  MaxLen = 6
  MaxTime = 9
SPECIFICATION FairSpec
INVARIANTS SlicesExact EveryEventCovered NoEventKeptTwice TrainBeforeTest
PROPERTY Terminates
CHECK_DEADLOCK FALSE
