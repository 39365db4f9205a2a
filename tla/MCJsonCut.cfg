SPECIFICATION Spec
CHECK_DEADLOCK FALSE
CONSTANTS
  AnyChar <- NoBracket
  Unset = Unset
  MaxWritten = 9
  MaxText = 3
INVARIANTS CutTextsAreRefused
