SPECIFICATION Spec
CONSTANTS
  Workers = {w1, w2}
  Requests = {r1}
  Projects = {p1}
  MaxJobs = 2
  MaxDeliveries = 3
  BatchSize = 2
  MaxFaults = 1
  MaxSkew = 1
  Renews = TRUE
  Guarded = TRUE
  Env = {"rate_limit", "crash", "valkey_error", "db_error"}
INVARIANTS TypeOK NoJobLost SettledRightly StatusSettles
PROPERTIES QueuedNeverClobbers
SYMMETRY Symm
CHECK_DEADLOCK FALSE
