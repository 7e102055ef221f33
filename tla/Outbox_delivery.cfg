SPECIFICATION FairSpec
CONSTANTS
  m0 = m0  m1 = m1  m2 = m2  m3 = m3
  Msg = {m0, m2, m3}
  NoMsg = NoMsg
  QosOf <- WithQos0
  Size <- Small
  NumSlots = 2
  IdentMod = 8
  TxBufSize = 2
  Offers <- WindowOf1
  BrokerRefuses = FALSE
  MaxConnects = 2
  MaxOtherIdents = 0
  MaxOverlaps = 1
PROPERTIES Delivers EventuallyCompleted
CHECK_DEADLOCK FALSE
