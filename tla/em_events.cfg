SPECIFICATION FairSpec
CONSTANTS
  t1 = t1
  t2 = t2
  fd1 = fd1
  c1 = c1
  None = None
  Workers <- OneWorker
  Callers <- OneCaller
  Tasks <- OneTask
  Fds <- OneFd
  ReadyStates <- InOnly
  Times <- AtOne
  MaxEvents = 2
  DefaultWait = 1
  IntMaxMs = 0
  MaxNow = 1
  MaxIntr = 1
CHECK_DEADLOCK FALSE
PROPERTIES EventServed EpollInSync
