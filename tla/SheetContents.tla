--------------------------- MODULE SheetContents ----------------------------
(***************************************************************************)
(* What a caller of SheetInterface (spreadsheet/common.h) is promised: a   *)
(* table of contents, and at each position the value that the contents     *)
(* determine.  No caches, no edges, no slots, no placeholder cells.        *)
(***************************************************************************)
CONSTANTS
  Pos, NONE, Text, EmptyText, FormulaText, ParseOutcome(_), Parse(_), Refs(_),
  Zero, Thrown, NumberOf(_), Exec(_, _)

VARIABLES
  content,  \* what each position holds
  value,    \* what each position is worth to a formula that names it
  outcome   \* how the last call ended

vars == <<content, value, outcome>>

Empty == [kind |-> "empty"]

ContentOf(t) ==
  IF t = EmptyText THEN Empty
  ELSE IF t \in FormulaText THEN [kind |-> "formula", formula |-> Parse(t)]
  ELSE [kind |-> "text", text |-> t]

RefsOf(c) == IF c.kind = "formula" THEN Refs(c.formula) ELSE {}

\* No formula depends on itself: every set of positions holds one that names
\* none of the set.
Acyclic(table) ==
  \A S \in SUBSET Pos : S # {} => \E p \in S : RefsOf(table[p]) \cap S = {}

WorthOf(c, val) ==
  CASE c.kind = "text"    -> NumberOf(c.text)
    [] c.kind = "formula" -> Exec(c.formula, [r \in Refs(c.formula) |-> val[r]])
    [] OTHER              -> Zero

ValuesOf(table) ==
  LET val[p \in Pos] == WorthOf(table[p], val)
  IN  val

Init ==
  /\ content = [p \in Pos |-> Empty]
  /\ value = [p \in Pos |-> Zero]
  /\ outcome = "ok"

Throw(exception) ==
  /\ outcome' = exception
  /\ UNCHANGED <<content, value>>

InvalidPosition == Throw("InvalidPositionException")

\* A text that does not parse, or a formula that would make a cell depend on
\* itself, is refused and nothing changes; any other replaces the content.
Set(p, t) ==
  LET table == [content EXCEPT ![p] = ContentOf(t)]
  IN  \/ /\ t \in FormulaText /\ ParseOutcome(t) # "ok"
         /\ Throw(ParseOutcome(t))
      \/ /\ t \in FormulaText => ParseOutcome(t) = "ok"
         /\ Throw("CircularDependencyException")
         /\ ~Acyclic(table)
      \/ /\ t \in FormulaText => ParseOutcome(t) = "ok"
         /\ content' = table
         /\ Acyclic(table)
         /\ value' = ValuesOf(table)
         /\ outcome' = "ok"

\* Asking for values throws only if one of the table's cannot be had: that of
\* a text which is too large a number, or of what depends on it.
Read ==
  /\ outcome' = "ok" \/ (outcome' = "out_of_range" /\ \E p \in Pos : value[p] = Thrown)
  /\ UNCHANGED <<content, value>>

\* ClearCell may bring the program down, but only on a cell that has nothing
\* to clear.
Crash(p) ==
  /\ content[p] = Empty
  /\ Throw("crash")

Next ==
  \/ InvalidPosition
  \/ \E p \in Pos, t \in Text : Set(p, t)
  \/ Read
  \/ \E p \in Pos : Crash(p)

Spec == Init /\ [][Next]_vars
=============================================================================
