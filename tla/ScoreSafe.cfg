SPECIFICATION Spec
CONSTANTS
  Workers = {w1, w2}
  Requests = {r1}
  Projects = {p1, p2}
  MaxJobs = 2
  MaxDeliveries = 3
  BatchSize = 1
  MaxEnqueues = 2
  MaxFaults = 1
  Env = {"crash", "valkey_error", "compute_error"}
INVARIANTS StaleIsCovered
SYMMETRY Symm
CHECK_DEADLOCK FALSE
