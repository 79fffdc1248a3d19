SPECIFICATION MCFairSpec
CONSTANTS
  WorkerProcesses = 1
  MaxSlots = 3
  MaxPid = 6
  UserSignals = {"HUP", "USR1", "TERM", "QUIT"}
  MaxSends <- TwoReloads
  MaxTotal = 3
  MaxCrash = 1
  FaultKinds = {"pair", "set", "fork"}
  ChannelSize = 2
INVARIANTS NoneLeftBehind TableTrue
PROPERTIES Stops Respawned
CHECK_DEADLOCK FALSE
