SPECIFICATION Spec
CONSTANTS
  ClockMod = 7
  ConfKeepalive = 0
  DefaultKeepalive = 2
  ServerKeepalives = {}
  ReconnectDelay = 2
  AutoReconnect = TRUE
  MaxLag = 2
  MaxCall = 1
  MaxHandshake = 1
  Unset = Unset
INVARIANTS TypeOK KeptAlive ReconnectsInTime
PROPERTIES  SilenceIsNoticed
