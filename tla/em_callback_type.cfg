SPECIFICATION Spec
CONSTANTS
  t1 = t1
  t2 = t2
  fd1 = fd1
  c1 = c1
  None = None
  Workers <- TwoWorkers
  Callers <- OneCaller
  Tasks <- NoTasks
  Fds <- OneFd
  ReadyStates <- InOut
  Times <- AtZero
  MaxEvents = 1
  DefaultWait = 1
  IntMaxMs = 1
  MaxNow = 0
  MaxIntr = 0
CHECK_DEADLOCK FALSE
INVARIANT CallbackMatchesEvent
