SPECIFICATION Spec
CONSTANTS
  Modes <- Twins
  PieceFixSize = 2
  Word = 8
  MaxFaults = 2
CHECK_DEADLOCK FALSE
INVARIANT MismatchReported
