SPECIFICATION Spec
CONSTANTS
  Tasks = {t1, t2}
  Grants = {g1, g2}
  Streams = {n1, n2}
  Handles = {h1}
  None = None
  HasUserKey = TRUE
  Timeout = 1
  FailureThreshold = 2
  MaxTokens = 3
  MaxTokenFaults = 1
  MaxEvents = 3
  MaxReplyFaults = 1
INVARIANTS
  TypeOK
  
  RepliesInOrder
PROPERTIES
  ServicesSettle
  FatalIsDeserved
CHECK_DEADLOCK FALSE
