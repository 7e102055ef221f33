SPECIFICATION Spec
CONSTANTS
  ClockMod = 6
  ConfKeepalive = 0
  DefaultKeepalive = 1
  ServerKeepalives = {}
  ReconnectDelay = 2
  AutoReconnect = TRUE
  MaxLag = 1
  MaxCall = 0
  MaxHandshake = 1
  Unset = Unset
INVARIANT NeverGivesUp
