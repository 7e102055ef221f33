SPECIFICATION Spec
CONSTANTS
  m0 = m0  m1 = m1  m2 = m2  m3 = m3
  Msg = {m1, m2}
  NoMsg = NoMsg
  QosOf <- MixedQos
  Size <- Small
  NumSlots = 2
  IdentMod = 3
  TxBufSize = 2
  Offers <- ManyOffers
  BrokerRefuses = TRUE
  MaxConnects = 2
  MaxOtherIdents = 2
  MaxOverlaps = 1
INVARIANTS TypeOK OutboxConsistent HeldUnlessReused ReleasedIsTaken UnmarkedIsFirst
PROPERTIES WindowRespected
CHECK_DEADLOCK FALSE
