----------------------------- MODULE MCFormula ------------------------------
(***************************************************************************)
(* ParseASTListener on the texts of all small expressions, and on all      *)
(* short texts.  For the questions about values the numbers are those of a *)
(* finite field, where + - * and / have the laws they have for the reals   *)
(* (a double would add rounding, which no text can be blamed for).  MCSheet *)
(* has these behaviours beside its own.                                    *)
(***************************************************************************)
EXTENDS Integers, Sequences, FiniteSets

CONSTANTS
  ErrValue, ErrDiv0, OutOfRange, \* of FormulaAST
  LETTERS, DECIMAL, MAX_ROWS, MAX_COLS, Bits, NameLength, \* of the names of positions
  Prime,       \* the size of the field
  Operators,   \* the most operators an expression has
  Length       \* the length of the texts that are just sequences of tokens

MCNumber == 0 .. Prime - 1
MCMinusOne == Prime - 1
InverseOf(y) == CHOOSE z \in MCNumber : (y * z) % Prime = 1
FieldOp(op, x, y) ==
  CASE op = "+" -> (x + y) % Prime
    [] op = "-" -> (x + Prime - y) % Prime
    [] op = "*" -> (x * y) % Prime
    [] op = "/" -> (x * InverseOf(y)) % Prime

Exactly == 1
InTable(p) == p.row = 0
ByRowAndColumn(p, q) == p.row < q.row \/ (p.row = q.row /\ p.col < q.col)

Sign(s) == [op |-> s]
Cell(r, c) == [op |-> "cell", pos |-> [row |-> r, col |-> c]]
Num(n) == [op |-> "num", val |-> n]
A1 == Cell(0, 0)

\* Every expression with n operators, written with all the parentheses ...
In(s) == <<Sign("(")>> \o s \o <<Sign(")")>>
Spellings[n \in 0 .. Operators] ==
  IF n = 0 THEN {<<A1>>}
  ELSE {<<Sign(s)>> \o In(a) : s \in {"+", "-"}, a \in Spellings[n - 1]}
         \cup UNION {{In(l) \o <<Sign(o)>> \o In(r) :
                        o \in {"+", "-", "*", "/"},
                        l \in Spellings[k], r \in Spellings[n - 1 - k]} : k \in 0 .. n - 1}

\* ... and with another cell at each leaf: what holds of these holds of the
\* expressions that name a cell twice, or have numbers.
WithItsOwnCells(s) ==
  [i \in DOMAIN s |->
     IF s[i] = A1 THEN Cell(0, Cardinality({j \in 1 .. i - 1 : s[j] = A1})) ELSE s[i]]
Expressions == {WithItsOwnCells(s) : s \in UNION {Spellings[n] : n \in 0 .. Operators}}

\* Every sequence of tokens: two cells, a cell outside the table, a number, a
\* number that no double can hold, and some of the symbols.
Tokens == {A1, Cell(0, 1), Cell(1, 0), Num(1), Num(Prime)}
            \cup {Sign(s) : s \in {"-", "*", "(", ")"}}
Sequences == UNION {[1 .. n -> Tokens] : n \in 0 .. Length}

VARIABLES text, events, args, cells, root, outcome
formula_vars == <<text, events, args, cells, root, outcome>>

INSTANCE ParseASTListener WITH
  Number <- MCNumber, MinusOne <- MCMinusOne, DoubleOp <- FieldOp, PrintUnit <- Exactly,
  IsValid <- InTable, Before <- ByRowAndColumn, Text <- Expressions \cup Sequences

(***************************************************************************)
(* The other texts of a spreadsheet are the names of positions, which have *)
(* two letters and three digits here, on a table whose last column needs   *)
(* three letters.  A behaviour is about one text.                          *)
(***************************************************************************)
VARIABLES name_pc, name_given, name, name_temp, name_i, name_col, name_result
name_vars == <<name_pc, name_given, name, name_temp, name_i, name_col, name_result>>

MCIntMax == 2 ^ (Bits - 1) - 1
MCIntMin == -(2 ^ (Bits - 1))
Around == {p \in [row : -1 .. MAX_ROWS, col : -1 .. MAX_COLS] : p.row # -1 \/ p.col # -1}
Characters ==
  ({"letter"} \X (0 .. LETTERS - 1)) \cup ({"digit"} \X (0 .. DECIMAL - 1)) \cup {<<"other", 0>>}

Names == INSTANCE Position WITH
  IntMin <- MCIntMin, IntMax <- MCIntMax, Indefinite <- {MCIntMin, MCIntMax},
  AnyPosition <- Around, AnyText <- UNION {[1 .. n -> Characters] : n \in 0 .. NameLength},
  pc <- name_pc, given <- name_given, text <- name, temp <- name_temp, i <- name_i,
  col <- name_col, result <- name_result

NoNameWasGiven ==
  /\ name_pc = "done" /\ name_given = Names!NONE /\ name = <<>> /\ name_temp = 0
  /\ name_i = 0 /\ name_col = 0 /\ name_result = Names!NONE
NoFormulaWasGiven ==
  /\ text = <<>> /\ outcome = "FormulaException"
  /\ events = <<>> /\ args = <<>> /\ cells = <<>> /\ root = NoExpr

NothingIsAsked == NoNameWasGiven /\ NoFormulaWasGiven

TextsInit == (Init /\ NoNameWasGiven) \/ (Names!Init /\ NoFormulaWasGiven)
TextsNext == (Next /\ UNCHANGED name_vars) \/ (Names!Next /\ UNCHANGED formula_vars)
TextsSpec ==
  TextsInit /\ [][TextsNext]_<<formula_vars, name_vars>> /\ WF_<<formula_vars, name_vars>>(TextsNext)

\* Position: the names that are written are those that are read.
NamesAndPositionsAgree == Names!NamesAndPositionsAgree
\* Position: a name is refused however far behind the table it is.
NamesBehindTheTableAreRefused == Names!NamesBehindTheTableAreRefused
=============================================================================
