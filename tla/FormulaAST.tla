----------------------------- MODULE FormulaAST -----------------------------
(***************************************************************************)
(* The expressions of spreadsheet/ (Formula.g4, FormulaAST.cpp): which     *)
(* texts are formulas and of which tree, how a tree is evaluated and which *)
(* cells that reads, and the text a tree is printed as.                    *)
(*                                                                         *)
(* A text is a sequence of tokens.  A token is a symbol, [op |-> "("], or  *)
(* a leaf: a literal [op |-> "num", val |-> n] or the name of a cell       *)
(* [op |-> "cell", pos |-> p].  A tree is a leaf, a sign                   *)
(* [op |-> "neg" or "pos", arg |-> e], or a binary operation               *)
(* [op |-> "+", "-", "*" or "/", lhs |-> e, rhs |-> e].                    *)
(***************************************************************************)
EXTENDS Integers, Sequences, FiniteSetsExt

CONSTANTS
  Number,          \* the finite doubles
  DoubleOp(_,_,_), \* their arithmetic; a result that is no Number is infinite
  MinusOne,        \* -1 among them
  PrintUnit,       \* a literal is printed as a multiple of this: the six
                   \* significant digits of ostream << double
  IsValid(_),      \* Position::IsValid
  ErrValue,        \* FormulaError::Category::Value
  ErrDiv0,         \* FormulaError::Category::Div0
  OutOfRange       \* std::out_of_range, which std::stod throws

ASSUME FormulaASTAssumption ==
  /\ Number \subseteq Int /\ {0, MinusOne} \subseteq Number
  /\ PrintUnit \in Nat \ {0}
  /\ {ErrValue, ErrDiv0, OutOfRange} \cap Int = {}

Category == {ErrValue, ErrDiv0}
ExprResult == Number \cup Category
Exception == Category \cup {OutOfRange}

Additive == {"+", "-"}
Multiplicative == {"*", "/"}
Unary == {"neg", "pos"}
Leaf == {"num", "cell"}

Symbol(s) == [op |-> s]

(***************************************************************************)
(* Evaluation.                                                             *)
(***************************************************************************)
\* BinaryOpExpr::EvaluateHelper, then the infinity test of Evaluate.
Arithmetic(op, x, y) ==
  IF op = "/" /\ y = 0 THEN ErrDiv0
  ELSE LET r == DoubleOp(op, x, y)
       IN  IF r \in Number THEN r ELSE ErrDiv0

\* Expr::Evaluate: the result (what is thrown, a FormulaError or what std::stod
\* throws at a cell, skips every operand to its right) and the cells whose value was asked for on the way.
RECURSIVE Evaluation(_, _)
Evaluation(e, v) ==
  CASE e.op = "num"  -> [res |-> e.val, reads |-> {}]
    [] e.op = "cell" -> [res |-> v[e.pos], reads |-> {e.pos}]
    [] e.op = "pos"  -> Evaluation(e.arg, v)
    [] e.op = "neg"  ->
         LET a == Evaluation(e.arg, v)
         IN  IF a.res \in Exception THEN a
             ELSE [a EXCEPT !.res = DoubleOp("*", @, MinusOne)]
    [] OTHER ->
         LET l == Evaluation(e.lhs, v)
             r == Evaluation(e.rhs, v)
         IN  IF l.res \in Exception THEN l
             ELSE [res   |-> IF r.res \in Exception THEN r.res
                             ELSE Arithmetic(e.op, l.res, r.res),
                   reads |-> l.reads \cup r.reads]

\* The cells ParseASTListener::exitCell collects, as Formula's constructor
\* keeps them: sorted and without duplicates, hence a set.
RECURSIVE CellsOf(_)
CellsOf(e) ==
  CASE e.op = "num"    -> {}
    [] e.op = "cell"   -> {e.pos}
    [] e.op \in Unary  -> CellsOf(e.arg)
    [] OTHER           -> CellsOf(e.lhs) \cup CellsOf(e.rhs)

(***************************************************************************)
(* Printing.                                                               *)
(***************************************************************************)
\* Slip: the right operand of a division loses its parentheses.
NeedsParensButForDivisors(parent, child, side) ==
  \/ parent = "-" /\ child \in Additive /\ side = "right"
  \/ parent \in Multiplicative \cup Unary /\ child \in Additive

\* PRECEDENCE_RULES
NeedsParens(parent, child, side) ==
  \/ parent = "-" /\ child \in Additive /\ side = "right"
  \/ parent \in Multiplicative \cup Unary /\ child \in Additive
  \/ parent = "/" /\ child \in Multiplicative /\ side = "right"

SignOf(op) == IF op = "neg" THEN "-" ELSE "+"

\* Expr::PrintFormula under a parent, on one side of it.
RECURSIVE PrintUnder(_, _, _)
PrintUnder(parent, e, side) ==
  LET body ==
        CASE e.op = "num"   -> <<[e EXCEPT !.val = (@ \div PrintUnit) * PrintUnit]>>
          [] e.op = "cell"  -> <<e>>
          [] e.op \in Unary -> <<Symbol(SignOf(e.op))>> \o PrintUnder(e.op, e.arg, "left")
          [] OTHER          -> PrintUnder(e.op, e.lhs, "left")
                                 \o <<Symbol(e.op)>>
                                 \o PrintUnder(e.op, e.rhs, "right")
  IN  IF NeedsParens(parent, e.op, side)
      THEN <<Symbol("(")>> \o body \o <<Symbol(")")>>
      ELSE body

\* FormulaAST::PrintFormula: the parent of the root is an atom.
PrintFormula(e) == PrintUnder("cell", e, "left")

(***************************************************************************)
(* Parsing.  The alternatives of Formula.g4's expr, in their order, as the *)
(* parser generated from it ranks them: a sign takes the smallest operand, *)
(* then * and /, then + and -, both to the left.  A parse from a given     *)
(* place has one result or none: the tree, and the tokens after it.        *)
(***************************************************************************)
Rank(op) == CASE op \in Multiplicative -> 4
              [] op \in Additive       -> 3
              [] OTHER                 -> -1

RECURSIVE ExprAt(_, _), OperandAt(_), RestOfExpr(_, _, _)

OperandAt(s) ==
  IF s = <<>> THEN {}
  ELSE CASE Head(s).op \in Leaf -> {[tree |-> Head(s), rest |-> Tail(s)]}
         [] Head(s).op = "("    ->
              {[tree |-> r.tree, rest |-> Tail(r.rest)] :
                 r \in {q \in ExprAt(Tail(s), 0) :
                          q.rest # <<>> /\ Head(q.rest) = Symbol(")")}}
         [] Head(s).op \in Additive ->
              {[tree |-> [op |-> IF Head(s).op = "-" THEN "neg" ELSE "pos", arg |-> r.tree],
                rest |-> r.rest] : r \in ExprAt(Tail(s), 5)}
         [] OTHER -> {}

RestOfExpr(left, s, rank) ==
  IF s = <<>> \/ Rank(Head(s).op) < rank \/ Rank(Head(s).op) < 0
  THEN {[tree |-> left, rest |-> s]}
  ELSE UNION {RestOfExpr([op |-> Head(s).op, lhs |-> left, rhs |-> r.tree], r.rest, rank) :
                r \in ExprAt(Tail(s), Rank(Head(s).op) + 1)}

ExprAt(s, rank) ==
  UNION {RestOfExpr(r.tree, r.rest, rank) : r \in OperandAt(s)}

\* main : expr EOF
Derivations(s) == {r.tree : r \in {q \in ExprAt(s, 0) : q.rest = <<>>}}

\* A leaf that the listener refuses: a number that no double can hold, or a
\* position outside the table.
IsBadLeaf(t) ==
  \/ t.op = "num" /\ t.val \notin Number
  \/ t.op = "cell" /\ ~IsValid(t.pos)

\* How ParseFormulaAST ends: the listener throws at the first bad leaf.
OutcomeOf(s) ==
  LET bad == {i \in DOMAIN s : IsBadLeaf(s[i])}
  IN  IF Derivations(s) = {} THEN "FormulaException"
      ELSE IF bad = {} THEN "ok"
      ELSE IF s[Min(bad)].op = "num" THEN "ParsingError" ELSE "FormulaException"

TreeOf(s) == CHOOSE e \in Derivations(s) : TRUE
=============================================================================
