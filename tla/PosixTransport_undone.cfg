SPECIFICATION Spec
CONSTANTS
  MaxSockets = 2
  Waits = FALSE
  DisconnectsWithAuto = TRUE
  EndsWithAuto = TRUE
PROPERTY DisconnectIsFinal
CHECK_DEADLOCK FALSE
