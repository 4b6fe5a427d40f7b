SPECIFICATION Spec
CONSTANTS
  Grants = {g1, g2}
  Boundaries = {k1, k2}
  None = None
  Overlap = FALSE
  FullAgent = FALSE
  Parts = {"claude", "codex"}
  MaxTurns = 2
  MaxQueries = 2
  MaxChanges = 1
  MaxCrashes = 1
INVARIANTS
  TypeOK
  

  
  
CHECK_DEADLOCK FALSE
