SPECIFICATION Spec
CONSTANTS
  Workers = {w1, w2}
  Admins = {a1}
  Projects = {p1, p2}
  NoProject = none
  MaxRuns = 2
  MaxFaults = 0
  MaxDetails = 1
  SaddChunk = 1
  PauseKey = FALSE
  Env = {}
PROPERTIES FinalizeRaceBenign
CHECK_DEADLOCK FALSE
