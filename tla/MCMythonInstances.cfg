SPECIFICATION Spec
CONSTANTS
  MaxInt = 7
  CodeOf <- MCCodeOf
  Source <- Makers
INVARIANT EveryInstanceIsNew
CHECK_DEADLOCK FALSE
