SPECIFICATION FairSpec
CONSTANTS
  MaxConnects = 3
  MaxQueue = 2
  Method = {m1, m2}
  NoMethod = NoMethod
  NoCall = NoCall
  MaxCalls = 3
  MaxRounds = 2
INVARIANTS TypeOK ExchangeAgrees InTurnUnlessTold
PROPERTIES EventuallySettled
CHECK_DEADLOCK FALSE
