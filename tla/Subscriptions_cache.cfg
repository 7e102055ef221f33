SPECIFICATION FairSpec
CONSTANTS
  MaxConnects = 3
  MaxQueue = 2
  t1 = t1  t2 = t2  t3 = t3
  Topic = {t1, t2, t3}
  Wildcard = {t3}
  Shared = {t3}
  Identified = {t1}
  Requests <- Calls
  Offers <- TwoOffers
  NumSlots = 2
  NoTopic = NoTopic
  MaxCalls = 2
INVARIANTS CacheConsistent InStep UnsubscribedStays
PROPERTIES EventuallySubscribed
CHECK_DEADLOCK FALSE
