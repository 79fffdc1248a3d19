SPECIFICATION MCFairSpec
CONSTANTS
  Sockets = {s1, s2}
  Fds = {5}
  Workers = {w1, w2}
  First = s1
  Second = s2
  Spare = w2
  User = user
  None = None
  Listener = listener
  MaxSendSize = 2
  MaxReceiveSize = 2
  SendRoom = 1
  Payloads <- Lengths
  MaxOut = 2
  MaxIn = 2
INVARIANTS WatchesAgree StreamOut StreamIn HushedStaysQuiet
PROPERTIES QuietAfterDisconnect Served
CHECK_DEADLOCK FALSE
