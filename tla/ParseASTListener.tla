-------------------------- MODULE ParseASTListener --------------------------
(***************************************************************************)
(* ParseFormulaAST (spreadsheet/FormulaAST.cpp) and the constructor of     *)
(* Formula (formula.cpp): the text is parsed, the parse tree is walked,    *)
(* and the listener rebuilds the expression on a stack, one exit event of  *)
(* the walk at a time.                                                     *)
(***************************************************************************)
EXTENDS FormulaAST, SequencesExt

CONSTANTS
  Text,       \* the texts that may be parsed
  Before(_,_) \* Position::operator<

VARIABLES
  text,     \* the text given to ParseFormula
  events,   \* the exit events that the walk has still to deliver
  args,     \* args_, the stack of expressions
  cells,    \* cells_: of the listener, then of the Formula
  root,     \* root_expr_
  outcome   \* "parsing", "walking", or how ParseFormula ended

vars == <<text, events, args, cells, root, outcome>>

NoExpr == [op |-> "none"]

\* The order in which ParseTreeWalker leaves the nodes of a parse tree.  The
\* listener has no exitParens.
RECURSIVE ExitEvents(_)
ExitEvents(e) ==
  CASE e.op \in Leaf  -> <<e>>
    [] e.op \in Unary -> Append(ExitEvents(e.arg), Symbol(e.op))
    [] OTHER          -> ExitEvents(e.lhs) \o ExitEvents(e.rhs) \o <<Symbol(e.op)>>

Init ==
  /\ text \in Text
  /\ events = <<>> /\ args = <<>> /\ cells = <<>>
  /\ root = NoExpr
  /\ outcome = "parsing"

Throw(exception) ==
  /\ outcome' = exception
  /\ UNCHANGED <<text, events, args, cells, root>>

\* parser.main(), with BailErrorStrategy.
ParseMain ==
  /\ outcome = "parsing"
  /\ \/ Derivations(text) = {} /\ Throw("FormulaException")
     \/ /\ Derivations(text) # {}
        /\ events' = ExitEvents(TreeOf(text))
        /\ outcome' = "walking"
        /\ UNCHANGED <<text, args, cells, root>>

\* The walk leaves a node of one of these kinds.
Exit(kinds) ==
  /\ outcome = "walking"
  /\ events # <<>> /\ Head(events).op \in kinds

Leave == events' = Tail(events) /\ UNCHANGED <<text, root, outcome>>

ExitLiteral ==
  /\ Exit({"num"})
  /\ \/ IsBadLeaf(Head(events)) /\ Throw("ParsingError")
     \/ /\ ~IsBadLeaf(Head(events))
        /\ args' = Append(args, Head(events))
        /\ Leave /\ UNCHANGED cells

ExitCell ==
  /\ Exit({"cell"})
  /\ \/ IsBadLeaf(Head(events)) /\ Throw("FormulaException")
     \/ /\ ~IsBadLeaf(Head(events))
        /\ args' = Append(args, Head(events))
        /\ cells' = <<Head(events).pos>> \o cells
        /\ Leave

ExitUnaryOp ==
  /\ Exit(Unary)
  /\ args' = Append(Front(args), [op |-> Head(events).op, arg |-> Last(args)])
  /\ Leave /\ UNCHANGED cells

\* Slip: the operands come off the stack in the other order.
ExitBinaryOpSwapped ==
  /\ Exit(Additive \cup Multiplicative)
  /\ LET rest == Front(args)
     IN  args' = Append(Front(rest),
                        [op |-> Head(events).op, lhs |-> Last(args), rhs |-> Last(rest)])
  /\ Leave /\ UNCHANGED cells

ExitBinaryOp ==
  /\ Exit(Additive \cup Multiplicative)
  /\ LET rest == Front(args)
     IN  args' = Append(Front(rest),
                        [op |-> Head(events).op, lhs |-> Last(rest), rhs |-> Last(args)])
  /\ Leave /\ UNCHANGED cells

\* std::forward_list::unique
WithoutRepeats(s) ==
  FoldLeft(LAMBDA acc, x : IF acc # <<>> /\ Last(acc) = x THEN acc ELSE Append(acc, x),
           <<>>, s)

\* FormulaAST sorts the list, Formula takes the repeats out.
CellList(s) == WithoutRepeats(SortSeq(s, Before))

\* The walk is over: MoveRoot, MoveCells, and the two constructors.
MoveRoot ==
  /\ outcome = "walking" /\ events = <<>>
  /\ root' = Head(args)
  /\ args' = <<>>
  /\ cells' = CellList(cells)
  /\ outcome' = "ok"
  /\ UNCHANGED <<text, events>>

Next ==
  ParseMain \/ ExitLiteral \/ ExitCell \/ ExitUnaryOp \/ ExitBinaryOp \/ MoveRoot

Spec == Init /\ [][Next]_vars /\ WF_vars(Next)

(***************************************************************************)
(* Properties of the listener.                                             *)
(***************************************************************************)
\* ParseFormula ends, and as OutcomeOf says: with the tree that the grammar
\* gives the text and, for GetReferencedCells, the cells of that tree, sorted
\* and none of them twice (formula.h:34-35); or with the exception of the first
\* leaf it cannot take.
EndsAsTheTextSays ==
  <>[](/\ outcome = OutcomeOf(text)
       /\ outcome = "ok" =>
            /\ root = TreeOf(text)
            /\ ToSet(cells) = CellsOf(root)
            /\ \A i \in 1 .. Len(cells) - 1 : Before(cells[i], cells[i + 1]))

(***************************************************************************)
(* Properties of GetExpression, which prints what was parsed.              *)
(***************************************************************************)
Printed == PrintFormula(root)
Done == outcome = "ok"

\* What GetExpression gives can be parsed, and gives itself back: editing a
\* cell and storing the text it shows changes that text no more.
PrintedTextIsStable ==
  Done => OutcomeOf(Printed) = "ok" /\ PrintFormula(TreeOf(Printed)) = Printed

Valuations(e) == [CellsOf(e) -> Number]
SameValue(e, f) ==
  \A v \in Valuations(e) : Evaluation(e, v).res = Evaluation(f, v).res

\* Printing keeps the value: the text a formula shows means what the formula
\* means, whatever the values of its cells.
PrintingKeepsTheValue == Done => SameValue(root, TreeOf(Printed))

\* The one exception: a division by a product or a quotient under a sign.
RECURSIVE Unsigned(_)
Unsigned(e) == IF e.op \in Unary THEN Unsigned(e.arg) ELSE e
RECURSIVE DividesBySignedProduct(_)
DividesBySignedProduct(e) ==
  CASE e.op \in Leaf  -> FALSE
    [] e.op \in Unary -> DividesBySignedProduct(e.arg)
    [] OTHER          -> \/ DividesBySignedProduct(e.lhs) \/ DividesBySignedProduct(e.rhs)
                         \/ /\ e.op = "/" /\ e.rhs.op \in Unary
                            /\ Unsigned(e.rhs).op \in Multiplicative
PrintingKeepsOtherValues ==
  Done /\ ~DividesBySignedProduct(root) => SameValue(root, TreeOf(Printed))
\* Both: what is printed may be stored for what was parsed.
PrintedTextMeansTheSame == PrintedTextIsStable /\ PrintingKeepsOtherValues
=============================================================================
