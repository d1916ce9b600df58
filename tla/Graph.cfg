CONSTANTS
  Pids = {p1, p2, p3}
  Objects = {obj}
  MaxLives = 3
  MaxExecs = 1
  MaxEvents = 4
SYMMETRY Symmetry
SPECIFICATION Spec
INVARIANTS ImageOneNode SharedOnlyByReuse BlameExact DepthSeesAll
CHECK_DEADLOCK FALSE
