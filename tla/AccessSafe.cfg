SPECIFICATION Spec
CONSTANTS
  Slots = {q1, q2}
  MaxBegun <- MCMaxBegun
  MaxFaults = 1
  Mixes <- MCMixes
  Users = {u1}
  Services = {s1}
  Orgs = {o1, o2}
  Roles = {r1, r2}
  Perms = {n1, n2}
  SeedOrg = o1
  SeedRole = r1
  SeedPerm = n1
  OldPerm = n2
  Passwords = {k1, k2}
  NoPassword = nopassword
  NoOne = noone
  NoCode = nocode
  Ttl = 1
  CacheSize = 1
  MaxTime = 3
INVARIANTS TypeOK AccountsAsWanted UsedOnce RevokedStaysRevoked SecondFactorVerified ServedWasGood
SYMMETRY Symm
CHECK_DEADLOCK FALSE
