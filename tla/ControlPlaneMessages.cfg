SPECIFICATION Spec
CONSTANTS
  Ann = Ann
  Bob = Bob
  AnnBridge = AnnBridge
  BobBridge = BobBridge
  AnnSession = AnnSession
  BobSession = BobSession
  BobOther = BobOther
  None = None
  Principal = {Ann, Bob}
  Endpoint = {AnnBridge, BobBridge}
  Session = {AnnSession, BobSession, BobOther}
  OwnerOf <- MCOwnerOf
  HostOf <- MCHostOf
  Offer = {}
  Comm = {c1}
  Msg = {m1, m2}
  ClientId = {k1, k2}
  TtlChoice = {1}
  MaxGrantTtl = 1
  RequestTtl = 1
  OfferTtl = 1
  MaxTime = 1
SYMMETRY Interchangeable
CONSTRAINT AnnAsksBob
INVARIANTS SequencesAreDense OneMessagePerClientId LogIsTruthful MessagesStayOnFrozenRoutes
