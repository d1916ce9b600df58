CONSTANTS
  Agents = {"net", "memory"}
  Cpus = {c1, c2}
  RingLen = 2
  MaxEvents = 3
  StrideFits = TRUE
  MaxRuns = 2
  MaxTries = 2
SPECIFICATION Spec
SYMMETRY MCSymmetry
INVARIANTS QuickTypeOK RecordedInOrder NothingVanishes RowsByCommit StoppedBuildAgrees KeptBuildGrows
CHECK_DEADLOCK FALSE
