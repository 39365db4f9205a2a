SPECIFICATION TextsSpec
CHECK_DEADLOCK FALSE
CONSTANTS
  ErrValue = ErrValue
  ErrDiv0 = ErrDiv0
  OutOfRange = OutOfRange
  LETTERS = 2
  DECIMAL = 3
  MAX_ROWS = 3
  MAX_COLS = 9
  NameLength = 6
  Bits = 5
  Prime = 5
  Operators = 0
  Length = 0
INVARIANTS NamesBehindTheTableAreRefused
