SPECIFICATION Spec
CONSTANTS
  MaxInt = 7
  CodeOf <- MCCodeOf
  Source <- MCSource
INVARIANTS TokensFollowTheLines ReadsWhatWasWritten ReturnEndsItsMethod
PROPERTY MethodsKeepOutOfTheProgramsNames
CHECK_DEADLOCK FALSE
