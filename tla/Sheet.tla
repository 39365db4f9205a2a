------------------------------- MODULE Sheet --------------------------------
(***************************************************************************)
(* The table of spreadsheet/: Sheet (sheet.cpp), the Cell it owns          *)
(* (cell.cpp) and the Formula a cell owns (formula.cpp).                   *)
(*                                                                         *)
(* One step is one call of the public interface, with every call it makes. *)
(* The code has no threads; what is hard in it is the order of calls, and  *)
(* the four structures that each call has to keep in agreement: the slots  *)
(* of the table, the dependency edges in both directions, the cached       *)
(* results, and the size of the printed area.                              *)
(*                                                                         *)
(* A definition marked "Slip" is not the code: it is the definition after   *)
(* it with a mistake that the checks are shown to notice.                  *)
(*                                                                         *)
(* Texts and formulas are abstract: Parse, TextOf, Exec and the rest say    *)
(* what the code asks of them.  FormulaAST gives them their meaning.       *)
(***************************************************************************)
EXTENDS Integers, FiniteSets, FiniteSetsExt

CONSTANTS
  MaxRows, MaxCols,  \* Position::MAX_ROWS, Position::MAX_COLS
  Text,              \* the texts a caller may store
  EmptyText,         \* ""
  FormulaText,       \* the texts that start with '=' and are longer than that
  ParseOutcome(_),   \* how ParseFormula(text.substr(1)) ends: "ok" or a throw
  Formula,           \* the parsed formulas
  Parse(_),          \* the formula a well-formed text parses to
  TextOf(_),          \* FormulaImpl::GetText: '=' and the printed expression
  Refs(_),           \* the cells a formula names
  Result,            \* the numbers and errors a formula evaluates to
  Zero,              \* what an empty cell counts for in a formula
  Thrown,            \* what counts for a cell whose evaluation throws std::out_of_range
  NumberOf(_),       \* what a cell with this text counts for in a formula: std::stod
                     \* throws if it is a number that no double can hold
  Exec(_, _),        \* a formula's result, given the value of each cell it names
  Reads(_, _),       \* the cells whose value that evaluation asks for
  NoCache            \* std::optional<Value> without a value

Row == 0 .. MaxRows - 1
Col == 0 .. MaxCols - 1
Pos == [row : Row, col : Col]
NONE == [row |-> -1, col |-> -1]
AnyPos == Pos \cup {NONE}

ParseException == {"FormulaException", "ParsingError"}
Worth == Result \cup {Thrown}

(***************************************************************************)
(* What the code relies on.  Exec and Reads are local: an evaluation       *)
(* depends on nothing but the cells it asked for (operands after the first *)
(* error are never asked for), and throws what one of them throws.         *)
(***************************************************************************)
ASSUME SheetAssumption ==
  /\ MaxRows \in Nat \ {0} /\ MaxCols \in Nat \ {0}
  /\ EmptyText \in Text
  /\ FormulaText \subseteq Text \ {EmptyText}
  /\ Zero \in Result
  /\ NoCache \notin Worth /\ Thrown \notin Result
  /\ \A t \in Text : NumberOf(t) \in Worth

ASSUME FormulaAssumption ==
  /\ \A t \in FormulaText :
       /\ ParseOutcome(t) \in ParseException \cup {"ok"}
       /\ ParseOutcome(t) = "ok" => Parse(t) \in Formula
  /\ \A f \in Formula :
       /\ Refs(f) \subseteq Pos
       /\ TextOf(f) # EmptyText
       /\ \A v \in [Refs(f) -> Worth] :
            /\ Exec(f, v) \in Worth
            /\ Reads(f, v) \subseteq Refs(f)
            /\ Exec(f, v) = Thrown <=> \E r \in Reads(f, v) : v[r] = Thrown

ASSUME ExecReadsOnly ==
  \A f \in Formula : \A v, w \in [Refs(f) -> Worth] :
    (\A r \in Reads(f, v) : v[r] = w[r])
      => Exec(f, w) = Exec(f, v) /\ Reads(f, w) = Reads(f, v)

VARIABLES
  cells,       \* cells_: what is at each position
  referenced,  \* referenced_cells_ of the cell at each position
  dependent,   \* dependent_cells_ of the cell at each position
  cache,       \* cache_ of the formula at each position
  size,        \* size_: the printed area
  outcome,     \* how the last call ended
  cleared      \* whether it was ClearCell: no part of the code, it tells apart calls
               \* that do the same to the table

vars == <<cells, referenced, dependent, cache, size, outcome, cleared>>

(***************************************************************************)
(* A position is outside its row's vector, holds a null unique_ptr, or     *)
(* holds a Cell with an EmptyImpl, a TextImpl or a FormulaImpl.            *)
(***************************************************************************)
Outside == [kind |-> "outside"]
Null == [kind |-> "null"]
EmptyImpl == [kind |-> "empty"]
TextImpl(t) == [kind |-> "text", text |-> t]
FormulaImpl(f) == [kind |-> "formula", formula |-> f]

Slot ==
  {Outside, Null, EmptyImpl}
    \cup {TextImpl(t) : t \in Text \ (FormulaText \cup {EmptyText})}
    \cup {FormulaImpl(f) : f \in Formula}

\* Sheet::GetCell(p) != nullptr
Exists(p) == cells[p].kind \notin {"outside", "null"}
IsFormula(c) == c.kind = "formula"
HasText(c) == c.kind \in {"text", "formula"}

GetText(c) ==
  CASE c.kind = "text"    -> c.text
    [] c.kind = "formula" -> TextOf(c.formula)
    [] OTHER              -> EmptyText

GetReferencedCells(c) == IF IsFormula(c) THEN Refs(c.formula) ELSE {}

\* The closure of a seed under a successor function: what the depth-first
\* walks of cell.cpp visit, whatever the order of their sets.
Reach(seed, succ) ==
  {q \in Pos : \A S \in SUBSET Pos :
     (seed \subseteq S /\ \A x \in S : succ[x] \subseteq S) => q \in S}

(***************************************************************************)
(* Evaluation.  Values is the value of every cell as CellExpr::Evaluate    *)
(* sees it: the cache of a formula that has one, the result of executing   *)
(* it on the values of its cells otherwise.                                *)
(***************************************************************************)
Operands(f, val) == [r \in Refs(f) |-> val[r]]

ValueOf(c, cached, val) ==
  CASE c.kind = "text"    -> NumberOf(c.text)
    [] c.kind = "formula" -> IF cached # NoCache
                             THEN cached
                             ELSE Exec(c.formula, Operands(c.formula, val))
    [] OTHER              -> Zero

Values(cl, ca) ==
  LET val[p \in Pos] == ValueOf(cl[p], ca[p], val)
  IN  val

\* Slip: the formulas asked on the way keep no result.
AskedAtTheTop(seed, val) == seed

\* The cells on which GetValue is called when it is called on those of seed:
\* a formula without a cache asks for the cells it reads.
Asked(seed, val) ==
  Reach(seed, [q \in Pos |->
    IF IsFormula(cells[q]) /\ cache[q] = NoCache
    THEN Reads(cells[q].formula, Operands(cells[q].formula, val))
    ELSE {}])

\* The call of GetValue on a cell throws; a text is not asked for a number.
ThrowsFrom(p, val) == IsFormula(cells[p]) /\ val[p] = Thrown

\* Formula::Evaluate keeps the result, or the FormulaError it caught, but no
\* other exception.
CacheAfter(seed) ==
  LET val == Values(cells, cache)
      asked == Asked(seed, val)
  IN  [q \in Pos |-> IF q \in asked /\ IsFormula(cells[q]) /\ val[q] # Thrown THEN val[q] ELSE cache[q]]

(***************************************************************************)
(* Cell::Set.                                                              *)
(***************************************************************************)
ImplOf(t) ==
  IF t = EmptyText THEN EmptyImpl
  ELSE IF t \in FormulaText THEN FormulaImpl(Parse(t))
  ELSE TextImpl(t)

References(cl) == [q \in Pos |-> GetReferencedCells(cl[q])]

\* Slip: the walk stops at the first step.
IsSelfReference(p, refs) == p \in refs
IsCircular(p, refs) == p \in Reach(refs, References(cells))

\* ClearCaches(dependent_cells_) of the cell at p: the walk goes on from a
\* formula only if that formula had a cache to clear.
CachedDependents == [q \in Pos |-> {d \in dependent[q] : cache[d] # NoCache}]
\* Slip: only the direct dependents.
InvalidatedDirectly(p) == CachedDependents[p]
Invalidated(p) == Reach(CachedDependents[p], CachedDependents)

CacheWithout(S) == [q \in Pos |-> IF q \in S THEN NoCache ELSE cache[q]]

\* dependent_cells_ after EraseEdges and AddEdges of the cell at p.
DependentAfter(p, refs) ==
  [q \in Pos |->
     (IF q \in referenced[p] THEN dependent[q] \ {p} ELSE dependent[q])
       \cup (IF q \in refs THEN {p} ELSE {})]

\* ExtendCellsIfNeed for each position of S, then a Cell in each.
WithCells(S) ==
  [q \in Pos |->
     IF q \in S THEN EmptyImpl
     ELSE IF cells[q] = Outside /\ \E s \in S : s.row = q.row /\ q.col < s.col
     THEN Null
     ELSE cells[q]]

\* EraseEdges, AddEdges and the new impl_; p itself enters the table if the
\* cell is new.
Store(p, impl) ==
  LET refs == GetReferencedCells(impl)
      added == {q \in refs \cup {p} : ~Exists(q)}
  IN  /\ cells' = [WithCells(added) EXCEPT ![p] = impl]
      /\ referenced' = [referenced EXCEPT ![p] = refs]
      /\ dependent' = DependentAfter(p, refs)
      /\ cache' = CacheWithout({p} \cup Invalidated(p))
      /\ outcome' = "ok"

Throw(exception) ==
  /\ outcome' = exception
  /\ UNCHANGED <<cells, referenced, dependent, cache>>

\* Slip: the circular dependency is noticed, and nobody is told.
CellSetSilently(p, t) ==
  \/ /\ t \in FormulaText /\ ParseOutcome(t) # "ok"
     /\ Throw(ParseOutcome(t))
  \/ /\ t \in FormulaText /\ ParseOutcome(t) = "ok"
     /\ IsCircular(p, Refs(Parse(t)))
     /\ Throw("ok")
  \/ /\ t \in FormulaText =>
          ParseOutcome(t) = "ok" /\ ~IsCircular(p, Refs(Parse(t)))
     /\ Store(p, ImplOf(t))

CellSet(p, t) ==
  \/ /\ t \in FormulaText /\ ParseOutcome(t) # "ok"
     /\ Throw(ParseOutcome(t))
  \/ /\ t \in FormulaText /\ ParseOutcome(t) = "ok"
     /\ IsCircular(p, Refs(Parse(t)))
     /\ Throw("CircularDependencyException")
  \/ /\ t \in FormulaText =>
          ParseOutcome(t) = "ok" /\ ~IsCircular(p, Refs(Parse(t)))
     /\ Store(p, ImplOf(t))

(***************************************************************************)
(* The size of the printed area.                                           *)
(***************************************************************************)

\* RecalculateSize: the smallest area that holds every cell with a text.
BoundingSize(cl) ==
  LET filled == {p \in Pos : HasText(cl[p])}
  IN  [rows |-> Max({0} \cup {p.row + 1 : p \in filled}),
       cols |-> Max({0} \cup {p.col + 1 : p \in filled})]

\* SetSize
SizeWith(p) ==
  [rows |-> IF p.row + 1 > size.rows THEN p.row + 1 ELSE size.rows,
   cols |-> IF p.col + 1 > size.cols THEN p.col + 1 ELSE size.cols]

(***************************************************************************)
(* The calls.                                                              *)
(***************************************************************************)
Init ==
  /\ cells = [p \in Pos |-> Outside]
  /\ referenced = [p \in Pos |-> {}]
  /\ dependent = [p \in Pos |-> {}]
  /\ cache = [p \in Pos |-> NoCache]
  /\ size = [rows |-> 0, cols |-> 0]
  /\ outcome = "ok"
  /\ cleared = FALSE

\* Any call but GetPrintableSize, given a position that is not valid.
InvalidPosition ==
  /\ Throw("InvalidPositionException")
  /\ UNCHANGED size

\* SetCell, where GetCell(p) found a cell.
SetExistingCell(p, t) ==
  /\ Exists(p)
  /\ \/ GetText(cells[p]) = t /\ Throw("ok")
     \/ GetText(cells[p]) # t /\ CellSet(p, t)
  /\ UNCHANGED size

\* Slip: a cell set to "" counts as printed.
SetNewCellOfAnyText(p, t) ==
  /\ ~Exists(p)
  /\ CellSet(p, t)
  /\ size' = IF outcome' = "ok" THEN SizeWith(p) ELSE size

SetNewCell(p, t) ==
  /\ ~Exists(p)
  /\ CellSet(p, t)
  /\ size' = IF outcome' = "ok" /\ t # EmptyText THEN SizeWith(p) ELSE size

SetCell(p, t) ==
  \/ p \notin Pos /\ InvalidPosition
  \/ p \in Pos /\ SetExistingCell(p, t)
  \/ p \in Pos /\ SetNewCell(p, t)

\* Sheet::GetCell hands out the cell itself: its Set goes past SetCell.
SetThroughCell(p, t) ==
  /\ Exists(p)
  /\ CellSet(p, t)
  /\ UNCHANGED size

\* Slip: the size is not recalculated.
ClearCellOnly(p) ==
  \/ p \notin Pos /\ InvalidPosition
  \/ p \in Pos /\ ~Exists(p) /\ Throw(IF cells[p] = Null THEN "crash" ELSE "ok") /\ UNCHANGED size
  \/ p \in Pos /\ Exists(p) /\ CellSet(p, EmptyText) /\ UNCHANGED size

ClearCell(p) ==
  \/ p \notin Pos /\ InvalidPosition
  \/ /\ p \in Pos /\ cells[p] = Outside
     /\ Throw("ok")
     /\ UNCHANGED size
  \/ /\ p \in Pos /\ cells[p] = Null   \* operator-> of a null unique_ptr
     /\ Throw("crash")
     /\ UNCHANGED size
  \/ /\ p \in Pos /\ Exists(p)
     /\ CellSet(p, EmptyText)
     /\ size' = IF p.row + 1 = size.rows \/ p.col + 1 = size.cols
                THEN BoundingSize(cells')
                ELSE size

GetValue(p) ==
  \/ p \notin Pos /\ InvalidPosition
  \/ /\ p \in Pos /\ Exists(p)
     /\ cache' = CacheAfter({p})
     /\ outcome' = IF ThrowsFrom(p, Values(cells, cache)) THEN "out_of_range" ELSE "ok"
     /\ UNCHANGED <<cells, referenced, dependent, size>>

PrintedBefore(q, p) == q.row < p.row \/ (q.row = p.row /\ q.col < p.col)

\* Row by row, up to the first cell that throws.
PrintValues ==
  LET val == Values(cells, cache)
      printed == {p \in Pos : Exists(p) /\ p.row < size.rows /\ p.col < size.cols}
      throwing == {p \in printed : ThrowsFrom(p, val)}
  IN  /\ cache' = CacheAfter({p \in printed : \A q \in throwing : ~PrintedBefore(q, p)})
      /\ outcome' = IF throwing = {} THEN "ok" ELSE "out_of_range"
      /\ UNCHANGED <<cells, referenced, dependent, size>>

\* ParseFormula(text)->Evaluate(sheet), for a formula that no cell holds: the
\* cells it asks for enter the table.
EvaluateFormula(f) ==
  LET val == Values(cells, cache)
      asked == Reads(f, Operands(f, val))
  IN  /\ cells' = WithCells({p \in asked : ~Exists(p)})
      /\ cache' = CacheAfter(asked)
      /\ outcome' = IF Exec(f, Operands(f, val)) = Thrown THEN "out_of_range" ELSE "ok"
      /\ UNCHANGED <<referenced, dependent, size>>

Next ==
  /\ outcome # "crash"
  /\ \/ (\E p \in AnyPos, t \in Text : SetCell(p, t)) /\ cleared' = FALSE
     \/ (\E p \in Pos, t \in Text : SetThroughCell(p, t)) /\ cleared' = FALSE
     \/ (\E p \in AnyPos : ClearCell(p)) /\ cleared' = TRUE
     \/ (\E p \in AnyPos : GetValue(p)) /\ cleared' = FALSE
     \/ PrintValues /\ cleared' = FALSE
     \/ (\E f \in Formula : EvaluateFormula(f)) /\ cleared' = FALSE

Spec == Init /\ [][Next]_vars

(***************************************************************************)
(* Properties.                                                             *)
(***************************************************************************)
Outcome ==
  {"ok", "crash", "InvalidPositionException", "CircularDependencyException", "out_of_range"}
    \cup ParseException

TypeOK ==
  /\ cells \in [Pos -> Slot]
  /\ referenced \in [Pos -> SUBSET Pos]
  /\ dependent \in [Pos -> SUBSET Pos]
  /\ cache \in [Pos -> Result \cup {NoCache}]
  /\ size \in [rows : 0 .. MaxRows, cols : 0 .. MaxCols]
  /\ outcome \in Outcome /\ cleared \in BOOLEAN
  /\ \A p, q \in Pos :  \* a row is a vector: no gap on the left of a slot
       p.row = q.row /\ q.col < p.col /\ cells[p] # Outside => cells[q] # Outside

\* The two edge sets of the cells are the two directions of one relation,
\* that of the formulas now in the table, and every edge ends in a cell.
\* ClearCaches takes each of dependent_cells_ for a FormulaImpl, unchecked.
EdgesMatch ==
  \A p \in Pos :
    /\ referenced[p] = GetReferencedCells(cells[p])
    /\ dependent[p] = {q \in Pos : p \in referenced[q]}
    /\ \A q \in referenced[p] : Exists(q)

\* No order of calls leads to a circular dependency: any set of positions
\* holds one whose formula names none of the set.  The recursions of GetValue
\* and ClearCaches end because of it.
Acyclic(cl) ==
  \A S \in SUBSET Pos :
    S # {} => \E p \in S : GetReferencedCells(cl[p]) \cap S = {}
NoCircularDependency == Acyclic(cells)

NoCaches == [p \in Pos |-> NoCache]

\* A cached result is what evaluating the table from nothing would give, and
\* the formulas it was computed from are cached too.  The walk of ClearCaches
\* stops at a formula without a cache, which is right only because of that.
CachesCurrent ==
  LET val == Values(cells, NoCaches)
  IN  \A p \in Pos : cache[p] # NoCache =>
        /\ IsFormula(cells[p])
        /\ cache[p] = val[p]
        /\ \A r \in Reads(cells[p].formula, Operands(cells[p].formula, val)) :
             IsFormula(cells[r]) => cache[r] # NoCache

\* Every cell with a text lies in the printed area, and the area is no larger
\* than they need: its last row and its last column hold one of them.
EveryTextIsPrinted ==
  \A p \in Pos : HasText(cells[p]) => p.row < size.rows /\ p.col < size.cols

SizeIsExact ==
  /\ EveryTextIsPrinted
  /\ size.rows > 0 => \E p \in Pos : HasText(cells[p]) /\ p.row + 1 = size.rows
  /\ size.cols > 0 => \E p \in Pos : HasText(cells[p]) /\ p.col + 1 = size.cols

\* Giving a cell that is already there another text, through SetCell or
\* through the cell itself.
Overwrite(p, t) ==
  \/ p \in Pos /\ SetExistingCell(p, t)
  \/ SetThroughCell(p, t)

\* The printed area stays the bounding rectangle of the cells with a text
\* through every call, except for the overwriting of a cell that exists, which
\* does not touch it even if it gives a cell its first text or takes its last.
\* A ClearCell is no overwriting, though it may do the same to the cells: this
\* is about SetSize, about RecalculateSize being called for the last row and
\* column, and for no other, and about placeholders counting for nothing.
SizeStaysExact ==
  [][SizeIsExact => \/ SizeIsExact'
                    \/ ~cleared' /\ \E p \in Pos, t \in Text : Overwrite(p, t)]_vars

\* Whatever the overwriting of cells has made of the printed area, clearing a
\* text of its last row or column makes it the bounding rectangle again.
BorderClearMakesSizeExact ==
  [][\A p \in Pos :
       /\ cleared' /\ HasText(cells[p]) /\ ~HasText(cells'[p])
       /\ p.row + 1 = size.rows \/ p.col + 1 = size.cols
       => SizeIsExact']_vars

\* The contents, as a caller sees them: a cell that is not there is empty.
Contents(cl) == [p \in Pos |-> IF cl[p].kind \in {"outside", "null"} THEN EmptyImpl ELSE cl[p]]

\* The table implements its contents: every call changes what the caller put
\* there as documented, and what a cell is worth, through the caches, is what
\* the contents say.
Promised == INSTANCE SheetContents WITH
  content <- Contents(cells),
  value <- Values(cells, cache)
ImplementsContents == Promised!Spec

(***************************************************************************)
(* What common.h says and the code does not do.  GetPrintableSize is "the  *)
(* bounding rectangle of all cells with non-empty text" (common.h:170-171),*)
(* so EveryTextIsPrinted, above; and this one.                             *)
(***************************************************************************)
\* SetCell "sets the content of the cell" to the text it is given
\* (common.h:150): once it has accepted a formula, that formula is there.
\* SetCell returns early on the text that GetText shows, and a literal is shown
\* with six digits, as one that may be another.
SetCellStoresTheFormula ==
  [][\A p \in Pos, t \in FormulaText :
       ~cleared' /\ outcome' = "ok" /\ SetCell(p, t) => cells'[p] = FormulaImpl(Parse(t))]_vars
=============================================================================
