SPECIFICATION MCSpec
CONSTANTS
  Capacity = 3
  Byte <- Bits
  MaxBytes = 4
  MAX_EVENTS = 2
  ScanSize = 1
  Timeout = 1
  BUFLEN = 2
  ByteBase = 2
  Fds = {5, 6, 7}
  MaxAccepts = 3
  MaxIn = 2
  SendRoom = 2
  Lines = 4
  Letters <- FourLines
INVARIANTS IndexesAgree RbBalanced BtKeysKept
INVARIANTS ReTableAgrees ReEventsFresh ReEcho ShInOrder
PROPERTIES IsByteQueue RbDictionary ReAttended
CHECK_DEADLOCK FALSE
