SPECIFICATION Spec
CONSTANTS
  l1 = l1
  t1 = t1
  t2 = t2
  t3 = t3
  c1 = c1
  io = io
  Loops <- MCLoops
  Threads <- MCThreads
  Callers <- MCCallers
  Errors <- MCErrors
INVARIANTS
  ThreadIsKnown
  ShutdownFlagRecovers
PROPERTIES
  StopEndsEveryThread
