SPECIFICATION Spec
CONSTANTS
  k1 = k1
  k2 = k2
  d1 = d1
  d2 = d2
  r1 = r1
  r2 = r2
  i1 = i1
  None = None
  Conns <- MCConns2
  Discs <- MCDiscs
  RMs <- MCRMs1
  Incs <- MCIncs1
  Fragile <- MCConns2
  UserCalls <- CallsConnect
  AutoReconnect = TRUE
  Timely = FALSE
  MaxOps = 1
  MaxFailedTimes = 1
PROPERTIES
  AttemptIsAnswered
CHECK_DEADLOCK FALSE
