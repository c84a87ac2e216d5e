SPECIFICATION FairSpec
CONSTANTS
  Workers = {w1, w2}
  Admins = {a1}
  Projects = {p1, p2}
  NoProject = none
  MaxRuns = 1
  MaxFaults = 1
  MaxDetails = 1
  SaddChunk = 1
  PauseKey = TRUE
  Env = {"rate_limit", "cancel", "stop", "crash", "valkey_error", "ttl"}
INVARIANTS ExclusiveCheckout
PROPERTIES RunEnds
CHECK_DEADLOCK FALSE
