SPECIFICATION Spec
CONSTANTS
  LongLong = 8
  Long = 6
  Short = 4
  Byte = 3
  FracBits = 4
  ExpBits = 4
  LimbDigits = 2
  ShiftStep = 5
  BnCap = 5
  SbnCap = 20
  DigitCap = 12
  ExpCap = 100
  DecHigh = 4
  DecLow = 14
  FrexpScale = 4
  SqrtScale = 4
  PowMax = 8
  Texts <- MCTexts
  Places = {0, 1, 2, 3}
  Scales <- MCScales
  Partners <- MCPartners
INVARIANTS PrintsNearest ReadsNearest MathIsExact
CHECK_DEADLOCK FALSE
