SPECIFICATION Spec
CONSTANTS
  Slots = {q1, q2}
  MaxBegun <- MCMaxBegun
  MaxFaults = 1
  Mixes <- MCMixes
  Integrations = {i1, i2}
  Projects = {p1, p2}
  Types = {t1, t2}
  Teams = {m1, m2}
  NoTeam = noteam
  Slugs = {1, 2}
  Envs = {e1}
  Fields = {f1, f2}
  MaxPatchRetries = 2
  LoginTtl = 2
  MaxClock = 3
INVARIANTS TypeOK KeptAsAsked RepositoriesFollow DependentsRescored BoundAtBothEnds LoginAsSet
SYMMETRY Symm
CHECK_DEADLOCK FALSE
