SPECIFICATION Spec
CONSTANTS
  ByteBits = 2
  Programs <- MCShiftPrograms
INVARIANT ObjectsHoldWhatCSays
CHECK_DEADLOCK FALSE
