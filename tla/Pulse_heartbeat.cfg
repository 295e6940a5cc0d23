SPECIFICATION Spec
CONSTANTS
  MaxConns = 2
  Threads = {t1, t2}
  LoseTimes = 2
  MaxUnanswered = 1
  MaxPosted = 1
INVARIANTS
  PulseTypeOK
PROPERTIES
  DiesOnlyUnfed
  DeadHeartbeatEnds
  SilenceIsNoticed
CHECK_DEADLOCK FALSE
