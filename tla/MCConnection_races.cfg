SPECIFICATION Spec
CONSTANTS
  k1 = k1
  k2 = k2
  d1 = d1
  d2 = d2
  r1 = r1
  r2 = r2
  i1 = i1
  None = None
  Conns <- MCConns2
  Discs <- MCDisc1
  RMs <- MCRMs1
  Incs <- MCIncs1
  Fragile <- MCFirst
  UserCalls <- CallsAll
  AutoReconnect = FALSE
  Timely = FALSE
  MaxOps = 2
  MaxFailedTimes = 1

  
PROPERTIES
  OnlyConnectIntrudes
CHECK_DEADLOCK FALSE
