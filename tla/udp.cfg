SPECIFICATION Spec
CONSTANTS
  Modes <- AllModes
  PieceFixSize = 2
  Word = 8
  MaxFaults = 3
CHECK_DEADLOCK FALSE
INVARIANTS InOrder BytesInPlace Recovers
