SPECIFICATION Spec
CONSTANTS
  k1 = k1
  k2 = k2
  d1 = d1
  d2 = d2
  r1 = r1
  r2 = r2
  i1 = i1
  None = None
  Conns <- MCConns2
  Discs <- MCDiscs
  RMs <- MCRMs
  Incs <- MCIncs1
  Fragile <- MCConns2
  UserCalls <- CallsConnectDisconnect
  AutoReconnect = TRUE
  Timely = TRUE
  MaxOps = 2
  MaxFailedTimes = 1
INVARIANTS
  TypeOK
  NoOrphanSocket
  DisconnectIsExclusive
  AnnouncedWhenClosed
  PermissionIsRecoverable
PROPERTIES
  DetachedNeverConnects
  KeepsPromise
CHECK_DEADLOCK FALSE
