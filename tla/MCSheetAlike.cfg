SPECIFICATION SheetSpec
CHECK_DEADLOCK FALSE
CONSTANTS
  NoText = NoText
  One = One
  Long = Long
  OutOfRange = OutOfRange
  Thrown = OutOfRange
  NoCache = NoCache
  ErrValue = ErrValue
  ErrDiv0 = ErrDiv0
  MaxDouble = 3
  MinusOne <- MCMinusOne
  Zero = 0
  EmptyText = NoText
  Number <- MCNumber
  DoubleOp <- Saturating
  IsValid <- InTable
  Text <- MCText
  FormulaText <- MCFormulaText
  ParseOutcome <- MCParseOutcome
  Formula <- MCFormula
  Parse <- MCParse
  TextOf <- MCTextOf
  Refs <- CellsOf
  Result <- ExprResult
  NumberOf <- MCNumberOf
  Exec <- MCExec
  Reads <- MCReads
  MaxRows = 2
  MaxCols = 2
  Plain = {}
  PrintUnit = 2
  Written <- Alike
PROPERTY SetCellStoresTheFormula
