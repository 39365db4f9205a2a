SPECIFICATION ProgramOrJsonSpec
CHECK_DEADLOCK FALSE
CONSTANTS
  A = "A"
  B = "B"
  C = "C"
  D = "D"
  NowhereStop = "Nowhere"
  NameOrder <- MCNameOrder
  Indeterminate <- MCIndeterminate
  NoRoute = NoRoute
  Program <- MCProgram
  Orders <- MCOrders
  Edge <- MCEdge
  DistanceSize = 256
  IntSize = 64
  Unset = Unset
INVARIANTS NoShorterWay AnswersAreFastestJourneys DistancesAsDescribed AnswersAreOfTheDocument GoodDocumentsAreAnswered ChainsPassTheChecks RereadsTheSame BuildsWhatTheCallsSpell
PROPERTIES RefusalsAreHarmless LoadsEnd
