SPECIFICATION Spec
CONSTANTS
  Gestures <- AllGestures
  MaxClicks = 4
  MaxFaults = 2
  Rejects = TRUE
  Kicks = TRUE
  LateReads = FALSE
INVARIANTS
  TypeOK
  LoginIsTruthful
  KeyIsOfConnection
CHECK_DEADLOCK FALSE
