SPECIFICATION FairSpec
CONSTANTS
  c1 = c1
  m1 = m1
  m2 = m2
  None = None
  Comm = {c1}
  Msg = {m1, m2}
  CommOf <- MCCommOf
  SequenceOf <- MCSequenceOf
  Unreadable = {m1}
  Collaborating = {}
  MaxAttempts = 2
  MaxCrash = 0
  MaxPush = 1
CHECK_DEADLOCK FALSE
PROPERTIES SpooledIsSettled StreamIsDrained
