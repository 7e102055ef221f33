SPECIFICATION Spec
CONSTANTS
  Base = 16
  MaxSubIds = 2
  MaxUser = 1
  BufOf <- EveryBuf
  BufSize = 36
  LenMod = 64
  MaxChunk = 10
  Heap = {0, 255}
  Packet <- AllPackets
  Scenarios <- AllScenarios
INVARIANTS TypeOK StreamIntact Understood
CHECK_DEADLOCK FALSE
