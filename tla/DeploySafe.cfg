SPECIFICATION Spec
CONSTANTS
  Tasks = {t1, t2}
  Envs = {e1}
  Commits = {c1, c2}
  Tags = {v1}
  NoTag = none
  MaxReleases = 2
  MaxRuns = 1
  MaxTime = 3
  MaxBegun = 4
  MaxFaults = 1
  Faults = {"crash", "db_error", "remote_error"}
INVARIANTS NothingDoubled EventsMatchRuns PointerKeepsUp ResyncRepairs
SYMMETRY Symm
CHECK_DEADLOCK FALSE
