SPECIFICATION Spec
CONSTANTS
  Gestures <- NoBack
  MaxClicks = 3
  MaxFaults = 1
  Rejects = TRUE
  Kicks = FALSE
  LateReads = TRUE
PROPERTIES
  LoginScreenIsServed
  SessionIsResumed
  RequestIsAnswered
CHECK_DEADLOCK FALSE
