SPECIFICATION TextsSpec
CHECK_DEADLOCK FALSE
CONSTANTS
  ErrValue = ErrValue
  ErrDiv0 = ErrDiv0
  OutOfRange = OutOfRange
  LETTERS = 2
  DECIMAL = 3
  MAX_ROWS = 3
  MAX_COLS = 9
  NameLength = 0
  Bits = 8
  Prime = 5
  Operators = 3
  Length = 0
INVARIANTS PrintingKeepsTheValue
