SPECIFICATION Spec
CONSTANTS
  None = none
  Slots = {q1, q2}
  Mixes <- MCMixes
  MaxBegun <- MCMaxBegun
  MaxFaults = 1
  Docs = {d1, d2}
  Tags = {t1, t2}
  TagSlugs = {"a", "b"}
  Users = {"ann", "bob"}
  MaxThreads = 2
  MaxComments = 3
  Entries = {e1, e2}
  Types = {ty1, ty2}
  Files = {f1}
  LogIds = {"x"}
  Processes = {p1, p2}
  Writers = {w1, w2}
  Clock = {2}
  MaxStamps = 3
  MaxRestarts = 1
  Items = {1, 2, 3, 4}
  Times = {1, 2}
  Sources = {1, 2}
  Limits = {1, 2}
  Styles = {"keyset", "offset", "activity"}
  MaxChanges = 1
SYMMETRY MCSymmetry
INVARIANT ActivityComplete
CHECK_DEADLOCK FALSE
