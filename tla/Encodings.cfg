SPECIFICATION Spec
CHECK_DEADLOCK FALSE
CONSTANTS
  Names <- MCNames
  Alphabet <- MCAlphabet
  MaxSteps = 3
  MaxLength = 4
  MaxDepth = 3
  MaxShift = 5
  MaxPadding = 2
  MaxNatural = 20
  MaxDigits = 2
  MaxWrittenShift = 6
INVARIANTS
  KeysDistinct
  DecodesBack
  ReadersAgree
  NumbersExact
