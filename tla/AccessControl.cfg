SPECIFICATION Spec
CONSTANTS
  Parts = {"deciding", "storing", "continuing", "updating"}
  Hosted = {h1}
  Local = {l1}
  Presets = {edit}
  Calls = {c1, c2}
  Sessions = {s1, s2}
  Codex = {s1}
  Peers = {p1, p2}
  None = None
  MaxChanges = 1
  MaxEvents = 2
  MaxUses = 2
  MaxPolicyFaults = 2
  MaxTaskCrashes = 1
  MaxTaskFaults = 1
  MaxUpdates = 2
  MaxRestarts = 1
  MaxAckFaults = 1
INVARIANTS
  TypeOK
  
  NothingRevokedIsKept

  
  
CHECK_DEADLOCK FALSE
