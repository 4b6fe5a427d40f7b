SPECIFICATION Spec
CONSTANTS
  Ann = Ann
  Bob = Bob
  AnnBridge = AnnBridge
  BobBridge = BobBridge
  AnnSession = AnnSession
  BobSession = BobSession
  BobOther = BobOther
  None = None
  Principal = {Ann, Bob}
  Endpoint = {AnnBridge, BobBridge}
  Session = {AnnSession, BobSession}
  OwnerOf <- MCOwnerOf
  HostOf <- MCHostOf
  Offer = {o1}
  Comm = {c1, c2}
  Msg = {m1}
  ClientId = {k1}
  TtlChoice = {2}
  MaxGrantTtl = 1
  RequestTtl = 1
  OfferTtl = 1
  MaxTime = 2
SYMMETRY Interchangeable
VIEW WithoutLog
CONSTRAINT AnnAsksBob
INVARIANTS TypeOK OneLiveGrantPerRoute NoOpenDeliveryUnderEndedGrant
PROPERTIES ImplementsLifecycle
