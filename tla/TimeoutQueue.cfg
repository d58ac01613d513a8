CONSTANTS
  c1 = c1
  c2 = c2
  Callers <- MCCallers
  IdBits = 2
  Timeout = 1
  MaxReqs = 4
  MaxSweepLag = 1
  MaxClockBacks = 1
SPECIFICATION Spec
INVARIANT TypeOK
INVARIANT CursorIsFirstUnpopped
INVARIANT IndexesAgree
INVARIANT CompletedAtMostOnce
PROPERTY EveryRequestCompletes
PROPERTY RegistryRefinement
