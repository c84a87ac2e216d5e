SPECIFICATION Spec
CONSTANTS
  Workers = {w1, w2}
  Admins = {a1, a2}
  Projects = {p1, p2, p3}
  NoProject = none
  MaxRuns = 3
  MaxFaults = 0
  MaxDetails = 1
  SaddChunk = 2
  PauseKey = FALSE
  Env = {"rate_limit"}
INVARIANTS NoProjectLost FailureDetailBound LockMeansRunning
SYMMETRY Symm
CHECK_DEADLOCK FALSE
