SPECIFICATION FairSpec
CONSTANTS
  Conns <- Two
  Fds <- Two
  EchoTimeout = 2
  WelcomeTimeout = 3
  Start = 4
  MaxTime = 9
  MaxSends <- Sends
  MaxCuts = 1
  MaxEvents = 2
  None = None
CHECK_DEADLOCK FALSE
INVARIANTS StatsLive NoStaleEvent EpollInSync OneReplyPerRequest ClosedInTime
PROPERTIES NotClosedEarly RequestsServed
