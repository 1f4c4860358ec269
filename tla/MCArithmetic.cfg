SPECIFICATION Spec
CONSTANTS
  ByteBits = 2
  Counts = {0, 1, 2, 3, 4, 5, 9, 31, 33, 63, 64, 66}
  Digits = {0, 1, 9, 16, 80, 89, 144, 153}
INVARIANTS ConditionsOrder ArithmeticExact
CHECK_DEADLOCK FALSE
