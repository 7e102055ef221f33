SPECIFICATION FairSpec
CONSTANTS
  m0 = m0  m1 = m1  m2 = m2  m3 = m3
  Msg = {m1, m2, m3}
  NoMsg = NoMsg
  QosOf <- AllQos1
  Size <- OneTooLarge
  NumSlots = 3
  IdentMod = 8
  TxBufSize = 2
  Offers <- WindowOf1
  BrokerRefuses = FALSE
  MaxConnects = 1
  MaxOtherIdents = 0
  MaxOverlaps = 1
PROPERTY CapacityIsUsed
CHECK_DEADLOCK FALSE
