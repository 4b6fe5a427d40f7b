SPECIFICATION Spec
CONSTANTS
  c1 = c1
  m1 = m1
  m2 = m2
  None = None
  Comm = {c1}
  Msg = {m1}
  CommOf <- MCCommOf
  SequenceOf <- MCSequenceOf
  Unreadable = {}
  Collaborating = {c1}
  MaxAttempts = 2
  MaxCrash = 1
  MaxPush = 2
CHECK_DEADLOCK FALSE
INVARIANTS TypeOK   NothingSkipped EndedGrantHasNoStuckRow
PROPERTIES AcceptedTurnIsNeverReplayed
