SPECIFICATION FairSpec
CONSTANTS
  MaxConnects = 3
  MaxQueue = 2
  Topic = {t1, t2}
  NoTopic = NoTopic
  Qos = {1, 2}
  Msg = {m1}
  Empty = Empty
  NoMsg = NoMsg
  Capacity = 1
  Announced = 2
INVARIANTS TypeOK RightTopic TwiceOnlyIfLost
PROPERTIES AtLeastOnce EventuallyAcknowledged
CHECK_DEADLOCK FALSE
