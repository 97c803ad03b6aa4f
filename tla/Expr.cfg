SPECIFICATION Spec
CONSTANTS
  ByteBits = 2
  Programs <- MCPrograms
INVARIANTS ObjectsHoldWhatCSays ValueIsC TypeIsC LayoutIsSound
CHECK_DEADLOCK FALSE
