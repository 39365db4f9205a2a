------------------------------ MODULE MCSheet -------------------------------
(***************************************************************************)
(* Sheet on a small table, with the formulas of FormulaAST over a toy      *)
(* double: the integers up to MaxDouble in magnitude, with division        *)
(* truncated to them.  A formula text is a sequence of tokens.  A behaviour *)
(* is one of Sheet, or one of MCFormula about a text.                      *)
(***************************************************************************)
EXTENDS Sheet, FormulaAST

CONSTANTS
  MaxDouble,         \* std::numeric_limits<double>::max()
  NoText,            \* ""
  One, Long,         \* the text 1, and one of as many digits as no double can hold
  Plain,             \* the texts other than "" that are no formulas
  Written            \* the formula texts that parse

MCNumber == (-MaxDouble) .. MaxDouble
MCMinusOne == -1
Magnitude(n) == IF n < 0 THEN -n ELSE n
Saturating(op, x, y) ==
  CASE op = "+" -> x + y
    [] op = "-" -> x - y
    [] op = "*" -> x * y
    [] op = "/" -> LET q == Magnitude(x) \div Magnitude(y)
                   IN  IF (x < 0) = (y < 0) THEN q ELSE -q
InTable(p) == p \in Pos

Num(n) == [op |-> "num", val |-> n]
Cell(r, c) == [op |-> "cell", pos |-> [row |-> r, col |-> c]]
A1 == Cell(0, 0)
B1 == Cell(0, 1)
A2 == Cell(1, 0)
B2 == Cell(1, 1)

\* The formula texts of each run: a cell, which is printed as another text, and
\* a quotient of two; each names itself when it is put there.
Chains == {<<Symbol("("), B1, Symbol(")")>>, <<A2, Symbol("/"), B2>>}
Corner == {<<Cell(1, 1)>>}
\* Two literals that are printed alike.
Alike == {<<Num(2)>>, <<Num(3)>>}

\* A text the grammar refuses, one that names a cell outside the table, and a
\* literal no double can hold.
Refused == {<<Symbol("+")>>, <<Cell(MaxRows, 0)>>, <<Num(MaxDouble + 1)>>}

MCFormulaText == Written \cup Refused
MCText == {NoText} \cup Plain \cup MCFormulaText
MCFormula == {TreeOf(t) : t \in Written}
Trees == [t \in Written |-> TreeOf(t)]
Prints == [f \in MCFormula |-> PrintFormula(f)]
Outcomes == [t \in MCFormulaText |-> OutcomeOf(t)]
MCParseOutcome(t) == Outcomes[t]
MCParse(t) == Trees[t]
MCTextOf(f) == Prints[f]
MCNumberOf(t) == IF t = One THEN 1 ELSE IF t = Long THEN OutOfRange ELSE ErrValue
MCExec(f, v) == Evaluation(f, v).res
MCReads(f, v) == Evaluation(f, v).reads

(***************************************************************************)
(* The texts of formulas and positions, which the sheet takes as given.    *)
(***************************************************************************)
VARIABLES
  text, events, args, text_cells, root, text_outcome,
  name_pc, name_given, name, name_temp, name_i, name_col, name_result
text_vars ==
  <<text, events, args, text_cells, root, text_outcome,
    name_pc, name_given, name, name_temp, name_i, name_col, name_result>>

Texts == INSTANCE MCFormula WITH
  cells <- text_cells, outcome <- text_outcome,
  LETTERS <- 2, DECIMAL <- 3, MAX_ROWS <- 3, MAX_COLS <- 9, Bits <- 8, NameLength <- 5,
  Prime <- 5, Operators <- 3, Length <- 5

ASSUME NamesAssumption == Texts!Names!PositionAssumption

\* The sheet alone.
SheetSpec ==
  Init /\ Texts!NothingIsAsked /\ [][Next /\ UNCHANGED text_vars]_<<vars, text_vars>>

SheetOrTextsInit ==
  Init /\ (Texts!NothingIsAsked \/ Texts!TextsInit)
SheetOrTextsNext ==
  \/ Texts!NothingIsAsked /\ Next /\ UNCHANGED text_vars
  \/ Texts!TextsNext /\ UNCHANGED vars
SheetOrTextsSpec ==
  /\ SheetOrTextsInit /\ [][SheetOrTextsNext]_<<vars, text_vars>>
  /\ WF_text_vars(Texts!TextsNext)

\* FormulaAST: the text of a formula is parsed to what it was printed from.
PrintedTextMeansTheSame == Texts!PrintedTextMeansTheSame
\* ParseASTListener: what is built is what the grammar says of the text.
EndsAsTheTextSays == Texts!EndsAsTheTextSays
\* Position: the names that are written are those that are read.
NamesAndPositionsAgree == Texts!NamesAndPositionsAgree
=============================================================================
