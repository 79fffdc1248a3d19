SPECIFICATION MCFairSpec
CONSTANTS
  t1 = t1
  t2 = t2
  fd1 = fd1
  c1 = c1
  None = None
  Workers <- ThreeWorkers
  Callers <- OneCaller
  Tasks <- TwoTasks
  Fds <- NoFds
  ReadyStates <- NoStates
  Times <- ZeroAndOne
  MaxEvents = 2
  DefaultWait = 1
  IntMaxMs = 1
  MaxNow = 1
  MaxIntr = 1
CHECK_DEADLOCK FALSE
INVARIANTS WakeChain NoOrphan
PROPERTIES StopReturns TaskServed
