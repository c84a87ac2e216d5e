SPECIFICATION FairSpec
CONSTANTS
  Workers = {w1}
  Requests = {r1}
  Projects = {p1}
  MaxJobs = 2
  MaxDeliveries = 3
  BatchSize = 2
  MaxFaults = 2
  MaxSkew = 0
  Renews = FALSE
  Guarded = FALSE
  Env = {"crash", "rate_limit"}
PROPERTIES AtLeastOnceDelivery
CHECK_DEADLOCK FALSE
