SPECIFICATION Spec
CONSTANTS
  Parts = {"updating"}
  Hosted = {h1}
  Local = {l1}
  Presets = {read, edit}
  Calls = {c1}
  Sessions = {s1}
  Codex = {}
  Peers = {p1}
  None = None
  MaxChanges = 0
  MaxEvents = 0
  MaxUses = 0
  MaxPolicyFaults = 0
  MaxTaskCrashes = 0
  MaxTaskFaults = 0
  MaxUpdates = 2
  MaxRestarts = 0
  MaxAckFaults = 0
INVARIANTS
  NoSessionKeepsRevoked
CHECK_DEADLOCK FALSE
