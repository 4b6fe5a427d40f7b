SPECIFICATION Spec
CONSTANTS
  c1 = c1
  m1 = m1
  m2 = m2
  None = None
  Comm = {c1}
  Msg = {m1, m2}
  CommOf <- MCCommOf
  SequenceOf <- MCSequenceOf
  Unreadable = {}
  Collaborating = {}
  MaxAttempts = 1
  MaxCrash = 1
  MaxPush = 1
CHECK_DEADLOCK FALSE
CONSTRAINTS SessionStaysOpen NobodyLapses
 
PROPERTIES InjectionInOrder
