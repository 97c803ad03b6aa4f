SPECIFICATION Spec
CONSTANTS
  LongLong = 8
  Long = 6
  Short = 4
  Byte = 3
  FracBits = 2
  ExpBits = 3
  LimbDigits = 1
  ShiftStep = 3
  BnCap = 4
  SbnCap = 20
  DigitCap = 12
  ExpCap = 100
  DecHigh = 9
  DecLow = 12
  PadChunk = 2
  Cases <- MCCases
  Caps <- MCCaps
  Memories <- MCMemories
  Fillers = {"nul", "a"}
  Word = 2
  Lengths = {0, 1, 2, 3}
INVARIANTS OutputFits PrintfIsC ScansAsC StringsAreC
PROPERTY PrintsToASink
CHECK_DEADLOCK FALSE
