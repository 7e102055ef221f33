SPECIFICATION Spec
CONSTANTS
  MaxSockets = 2
  Waits = TRUE
  DisconnectsWithAuto = FALSE
  EndsWithAuto = TRUE
INVARIANTS TypeOK  
PROPERTIES  WaitReturns LossIsNoticed
CHECK_DEADLOCK FALSE
