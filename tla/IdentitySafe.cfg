SPECIFICATION ConnectionSpec
CONSTANTS
  Sweepers = {s1, s2}
  Requests = {r1, r2}
  Menus <- MCMenus
  StateTtl = 1
  MaxSkew = 1
  MaxTokens = 3
  MaxStates = 1
  MaxMishaps = 1
  Env = {"provider_error", "abort", "slow_provider"}
INVARIANTS SweepersTakeTurns ActiveIsUsable
PROPERTIES StateUsedOnce ReviveNeedsOldLoad
SYMMETRY Symm
CHECK_DEADLOCK FALSE
