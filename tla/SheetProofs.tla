----------------------------- MODULE SheetProofs ----------------------------
(***************************************************************************)
(* The slots, the edges and the formulas of the table stay in agreement,   *)
(* and no order of calls makes a circular dependency.  Values is defined   *)
(* by recursion over the dependencies: what makes it the function it is    *)
(* meant to be, in a table without cycles, is ValuesDefined below.  Then   *)
(* the refinement: with its slots, placeholder cells, edges and caches the *)
(* table behaves as one of contents (SheetContents) whose values are       *)
(* computed afresh, and the caches never show a stale result.  At the end, *)
(* when the size of the printed area is right, and what SetCell's early    *)
(* return on an unchanged text relies on.                                  *)
(***************************************************************************)
EXTENDS Sheet, WellFoundedInduction, TLAPS

\* Max, as RecalculateSize uses it, of a non-empty bounded set of numbers is in
\* the set and bounds it.
LEMMA MaxOfBoundedSet ==
  ASSUME NEW N \in Nat, NEW S, S \subseteq 0 .. N, S # {}
  PROVE  Max(S) \in S /\ \A n \in S : n <= Max(S)
<1> DEFINE T == {k \in Nat : N - k \in S}
           R == OpToRel(<, Nat)
<1>1. PICK n \in S : TRUE
  OBVIOUS
<1>2. N - n \in T
  BY <1>1
<1>3. IsWellFoundedOn(R, Nat)
  BY NatLessThanWellFounded
<1>4. T \subseteq Nat /\ T # {}
  BY <1>2
<1>5. PICK k \in T : \A j \in T : ~(<<j, k>> \in R)
  <2> HIDE DEF T, R
  <2> QED BY <1>3, <1>4, WFMin
<1>6. \A j \in T : ~(j < k)
  BY <1>4, <1>5 DEF OpToRel
<1>7. \A m \in S : m <= N - k
  <2>1. SUFFICES ASSUME NEW m \in S PROVE m <= N - k
    OBVIOUS
  <2>2. m \in Nat /\ N - m \in T /\ k \in Nat
    OBVIOUS
  <2>3. ~(N - m < k) /\ m \in Int /\ N \in Int /\ k \in Int
    BY <1>6, <2>2
  <2> HIDE DEF T
  <2> QED BY <2>3
<1>8. N - k \in S /\ \A m \in S : N - k >= m
  BY <1>5, <1>7
<1> QED BY <1>8 DEF Max

\* A walk of the edges visits its seed and every successor of what it visits.
LEMMA ReachIsClosure ==
  ASSUME NEW seed \in SUBSET Pos, NEW succ \in [Pos -> SUBSET Pos]
  PROVE  /\ Reach(seed, succ) \subseteq Pos
         /\ seed \subseteq Reach(seed, succ)
         /\ \A x \in Reach(seed, succ) : succ[x] \subseteq Reach(seed, succ)
BY DEF Reach

\* ... and nothing outside a set that is closed under the edges.
LEMMA ReachIsLeast ==
  ASSUME NEW seed, NEW succ, NEW S \in SUBSET Pos,
         seed \subseteq S, \A x \in S : succ[x] \subseteq S
  PROVE  Reach(seed, succ) \subseteq S
BY DEF Reach

\* The cells that a cell names are positions of the table.
LEMMA ReferencesArePositions ==
  ASSUME NEW c \in Slot
  PROVE  GetReferencedCells(c) \in SUBSET Pos
BY FormulaAssumption DEF GetReferencedCells, IsFormula, Slot, Outside, Null,
   EmptyImpl, TextImpl, FormulaImpl

\* What a cell is worth depends only on the cells it names.
LEMMA ValueOfIsLocal ==
  ASSUME NEW c \in Slot, NEW k, NEW v, NEW w,
         \A r \in GetReferencedCells(c) : v[r] = w[r]
  PROVE  ValueOf(c, k, v) = ValueOf(c, k, w)
<1>1. CASE c.kind = "formula"
  <2>1. \A r \in Refs(c.formula) : v[r] = w[r]
    BY <1>1 DEF GetReferencedCells, IsFormula
  <2>2. Operands(c.formula, v) = Operands(c.formula, w)
    BY <2>1 DEF Operands
  <2> QED BY <2>2, <1>1 DEF ValueOf
<1>2. CASE c.kind # "formula"
  BY <1>2 DEF ValueOf
<1> QED BY <1>1, <1>2

\* It is a number, an error or a throw if those of the cells it names are.
LEMMA ValueOfIsWorth ==
  ASSUME NEW c \in Slot, NEW k \in Result \cup {NoCache}, NEW v,
         \A r \in GetReferencedCells(c) : v[r] \in Worth
  PROVE  ValueOf(c, k, v) \in Worth
<1>1. CASE c.kind = "formula"
  <2>1. c.formula \in Formula
    BY <1>1 DEF Slot, Outside, Null, EmptyImpl, TextImpl, FormulaImpl
  <2>2. Operands(c.formula, v) \in [Refs(c.formula) -> Worth]
    BY <1>1 DEF Operands, GetReferencedCells, IsFormula
  <2>3. Exec(c.formula, Operands(c.formula, v)) \in Worth
    BY <2>1, <2>2, FormulaAssumption
  <2> QED BY <1>1, <2>3 DEF ValueOf, Worth
<1>2. CASE c.kind = "text"
  <2>1. c.text \in Text
    BY <1>2 DEF Slot, Outside, Null, EmptyImpl, TextImpl, FormulaImpl
  <2> QED BY <1>2, <2>1, SheetAssumption DEF ValueOf
<1>3. CASE c.kind \notin {"formula", "text"}
  BY <1>3, SheetAssumption DEF ValueOf, Worth
<1> QED BY <1>1, <1>2, <1>3

Closed(cl, D) == \A p \in D : GetReferencedCells(cl[p]) \subseteq D
Solves(cl, ca, D, v) == \A p \in D : v[p] = ValueOf(cl[p], ca[p], v)

\* Without cycles, two solutions of the equations of Values agree wherever both
\* are defined.
LEMMA SolutionsAgree ==
  ASSUME NEW cl \in [Pos -> Slot], NEW ca, Acyclic(cl),
         NEW D \in SUBSET Pos, NEW E \in SUBSET Pos,
         Closed(cl, D), Closed(cl, E),
         NEW v, NEW w, Solves(cl, ca, D, v), Solves(cl, ca, E, w)
  PROVE  \A p \in D \cap E : v[p] = w[p]
<1> DEFINE B == {p \in D \cap E : v[p] # w[p]}
<1>1. SUFFICES ASSUME B # {} PROVE FALSE
  OBVIOUS
<1>2. PICK p \in B : GetReferencedCells(cl[p]) \cap B = {}
  <2>1. B \in SUBSET Pos
    OBVIOUS
  <2> HIDE DEF B
  <2> QED BY <1>1, <2>1 DEF Acyclic
<1>3. \A r \in GetReferencedCells(cl[p]) : v[r] = w[r]
  BY <1>2 DEF Closed
<1>4. ValueOf(cl[p], ca[p], v) = ValueOf(cl[p], ca[p], w)
  BY <1>3, ValueOfIsLocal
<1> QED BY <1>2, <1>4 DEF Solves

\* Without cycles, the equations have a solution: the evaluation ends.
LEMMA SolutionExists ==
  ASSUME NEW cl \in [Pos -> Slot], NEW ca \in [Pos -> Result \cup {NoCache}],
         Acyclic(cl)
  PROVE  \E v \in [Pos -> Worth] : Solves(cl, ca, Pos, v)
<1> DEFINE
      Solvable == {D \in SUBSET Pos :
                     Closed(cl, D) /\ \E v \in [D -> Worth] : Solves(cl, ca, D, v)}
      Sol(D) == CHOOSE v \in [D -> Worth] : Solves(cl, ca, D, v)
      Dom(p) == CHOOSE D \in Solvable : p \in D
      U == UNION Solvable
      w == [p \in U |-> Sol(Dom(p))[p]]
<1>1. ASSUME NEW D \in Solvable
      PROVE  Sol(D) \in [D -> Worth] /\ Solves(cl, ca, D, Sol(D)) /\ Closed(cl, D)
  OBVIOUS
<1>2. ASSUME NEW p \in U
      PROVE  Dom(p) \in Solvable /\ p \in Dom(p)
  <2>1. \E D \in Solvable : p \in D
    OBVIOUS
  <2> HIDE DEF Solvable
  <2> QED BY <2>1
<1>3. U \in SUBSET Pos /\ \A D \in Solvable : D \subseteq U
  OBVIOUS
<1>4. ASSUME NEW D \in Solvable, NEW p \in D
      PROVE  w[p] = Sol(D)[p]
  <2>1. Solvable \subseteq SUBSET Pos /\ p \in U
    OBVIOUS
  <2>2. w[p] = Sol(Dom(p))[p]
    BY <2>1
  <2> HIDE DEF Solvable, Sol, Dom, U, w
  <2>3. Dom(p) \in Solvable /\ p \in Dom(p)
    BY <1>2, <2>1
  <2>4. \A q \in Dom(p) \cap D : Sol(Dom(p))[q] = Sol(D)[q]
    BY <1>1, <2>1, <2>3, SolutionsAgree
  <2> QED BY <2>2, <2>3, <2>4
<1>5. Closed(cl, U)
  BY <1>1, <1>2, <1>3 DEF Closed
<1>6. w \in [U -> Worth]
  <2> SUFFICES ASSUME NEW p \in U PROVE Sol(Dom(p))[p] \in Worth
    OBVIOUS
  <2> HIDE DEF Solvable, Sol, Dom, U, w
  <2> QED BY <1>1, <1>2
<1>7. Solves(cl, ca, U, w)
  <2> SUFFICES ASSUME NEW p \in U PROVE w[p] = ValueOf(cl[p], ca[p], w)
    BY DEF Solves
  <2> HIDE DEF Solvable, Sol, Dom, U, w
  <2>1. Dom(p) \in Solvable /\ p \in Dom(p)
    BY <1>2
  <2>2. w[p] = Sol(Dom(p))[p]
    BY <2>1, <1>4
  <2>3. Sol(Dom(p))[p] = ValueOf(cl[p], ca[p], Sol(Dom(p)))
    BY <2>1, <1>1 DEF Solves
  <2>4. \A r \in GetReferencedCells(cl[p]) : w[r] = Sol(Dom(p))[r]
    BY <2>1, <1>1, <1>4 DEF Closed
  <2>5. ValueOf(cl[p], ca[p], w) = ValueOf(cl[p], ca[p], Sol(Dom(p)))
    BY <2>4, <1>3, ValueOfIsLocal
  <2> QED BY <2>2, <2>3, <2>5
<1>8. U = Pos
  <2> SUFFICES ASSUME Pos \ U # {} PROVE FALSE
    BY <1>3
  <2> HIDE DEF Solvable, Sol, Dom, U, w
  <2>1. PICK p \in Pos \ U : GetReferencedCells(cl[p]) \cap (Pos \ U) = {}
    BY DEF Acyclic
  <2>2. GetReferencedCells(cl[p]) \subseteq U
    BY <2>1, ReferencesArePositions
  <2> DEFINE D == U \cup {p}
             x == [q \in D |-> IF q = p THEN ValueOf(cl[p], ca[p], w) ELSE w[q]]
  <2>3. ValueOf(cl[p], ca[p], w) \in Worth
    <3>1. \A r \in GetReferencedCells(cl[p]) : w[r] \in Worth
      BY <2>2, <1>6
    <3> QED BY <3>1, ValueOfIsWorth
  <2>4. x \in [D -> Worth]
    BY <2>3, <1>6
  <2>5. \A q \in U : x[q] = w[q]
    BY <2>1
  <2>6. Closed(cl, D)
    BY <2>2, <1>5 DEF Closed
  <2>7. ASSUME NEW q \in D PROVE x[q] = ValueOf(cl[q], ca[q], x)
    <3>1. q \in Pos /\ GetReferencedCells(cl[q]) \subseteq U
      BY <2>1, <2>2, <1>3, <1>5 DEF Closed
    <3>2. ValueOf(cl[q], ca[q], x) = ValueOf(cl[q], ca[q], w)
      <4> HIDE DEF x
      <4> QED BY <3>1, <2>5, ValueOfIsLocal
    <3>3. CASE q = p
      BY <3>2, <3>3
    <3>4. CASE q \in U
      <4> HIDE DEF x, D
      <4> QED BY <3>2, <3>4, <2>5, <1>7 DEF Solves
    <3> QED BY <3>3, <3>4
  <2>8. D \in Solvable
    <3>1. D \in SUBSET Pos
      BY <1>3
    <3>2. Solves(cl, ca, D, x)
      <4> HIDE DEF x, D
      <4> QED BY <2>7 DEF Solves
    <3> HIDE DEF x, D
    <3> QED BY <3>1, <3>2, <2>4, <2>6 DEF Solvable
  <2> QED BY <2>1, <2>8, <1>3
<1> HIDE DEF w, U
<1> QED BY <1>6, <1>7, <1>8

(***************************************************************************)
(* Values is well defined on a table without circular dependencies, and is *)
(* the only function that satisfies its equations.                         *)
(***************************************************************************)
LEMMA ValuesDefined ==
  ASSUME NEW cl \in [Pos -> Slot], NEW ca \in [Pos -> Result \cup {NoCache}],
         Acyclic(cl)
  PROVE  /\ Values(cl, ca) \in [Pos -> Worth]
         /\ \A p \in Pos : Values(cl, ca)[p] = ValueOf(cl[p], ca[p], Values(cl, ca))
<1> DEFINE P(f) == f = [p \in Pos |-> ValueOf(cl[p], ca[p], f)]
<1>1. PICK v \in [Pos -> Worth] : Solves(cl, ca, Pos, v)
  BY SolutionExists
<1>2. P(v)
  BY <1>1 DEF Solves
<1>3. Values(cl, ca) = CHOOSE f : P(f)
  BY DEF Values
<1> DEFINE val == Values(cl, ca)
<1>4. P(val)
  <2> HIDE DEF P
  <2> QED BY <1>2, <1>3
<1>5. Solves(cl, ca, Pos, val)
  BY <1>4 DEF Solves
<1>6. \A p \in Pos : val[p] = v[p]
  <2>1. Closed(cl, Pos)
    BY ReferencesArePositions DEF Closed
  <2> HIDE DEF val
  <2> QED BY <1>1, <1>5, <2>1, SolutionsAgree
<1>7. val \in [Pos -> Worth]
  <2>1. DOMAIN val = Pos /\ val = [p \in Pos |-> val[p]]
    BY <1>4
  <2> HIDE DEF val
  <2> QED BY <2>1, <1>6
<1> QED BY <1>5, <1>7 DEF Solves

(***************************************************************************)
(* The inductive invariant.  The size and the outcome of a call do not     *)
(* feed back into the table, so their types are kept apart.                *)
(***************************************************************************)
RowsHaveNoGaps(cl) ==
  \A p, q \in Pos :
    p.row = q.row /\ q.col < p.col /\ cl[p] # Outside => cl[q] # Outside

Table ==
  /\ cells \in [Pos -> Slot]
  /\ referenced \in [Pos -> SUBSET Pos]
  /\ dependent \in [Pos -> SUBSET Pos]
  /\ cache \in [Pos -> Result \cup {NoCache}]
  /\ RowsHaveNoGaps(cells)
  /\ EdgesMatch
  /\ NoCircularDependency

SizeType == size \in [rows : 0 .. MaxRows, cols : 0 .. MaxCols]

\* The parts in which the invariant is proved are the three invariants.
LEMMA TypeOKParts ==
  /\ Table /\ SizeType /\ outcome \in Outcome /\ cleared \in BOOLEAN
       <=> TypeOK /\ EdgesMatch /\ NoCircularDependency
BY DEF Table, SizeType, TypeOK, RowsHaveNoGaps

\* New cells are empty, so they give no references and no text, and leave
\* the cells that were there as they are.
LEMMA WithCellsAdds ==
  ASSUME Table, NEW S \in SUBSET Pos, \A s \in S : ~Exists(s)
  PROVE  /\ WithCells(S) \in [Pos -> Slot]
         /\ RowsHaveNoGaps(WithCells(S))
         /\ \A q \in Pos :
              /\ GetReferencedCells(WithCells(S)[q]) = GetReferencedCells(cells[q])
              /\ Exists(q) => WithCells(S)[q] = cells[q]
              /\ q \in S => WithCells(S)[q] = EmptyImpl
              /\ ~Exists(q) => WithCells(S)[q] \in {Outside, Null, EmptyImpl}
<1> DEFINE new == WithCells(S)
<1>1. cells \in [Pos -> Slot]
  BY DEF Table
<1>2. \A q \in Pos : ~Exists(q) => cells[q] \in {Outside, Null}
  BY <1>1 DEF Exists, Slot, EmptyImpl, TextImpl, FormulaImpl, Outside, Null
<1>3. \A q \in Pos : Exists(q) => cells[q] # Outside
  BY DEF Exists, Outside
<1>4. \A q \in Pos : Exists(q) => new[q] = cells[q]
  BY <1>3 DEF WithCells
<1>5. \A q \in Pos : ~Exists(q) => new[q] \in {Outside, Null, EmptyImpl}
  BY <1>2 DEF WithCells
<1>6. \A q \in S : new[q] = EmptyImpl
  BY DEF WithCells
<1>7. new \in [Pos -> Slot]
  BY <1>1 DEF WithCells, Slot
<1>8. \A q \in Pos : GetReferencedCells(new[q]) = GetReferencedCells(cells[q])
  BY <1>2, <1>4, <1>5 DEF GetReferencedCells, IsFormula, Outside, Null, EmptyImpl
<1>9. RowsHaveNoGaps(new)
  <2> SUFFICES ASSUME NEW p \in Pos, NEW q \in Pos,
                      p.row = q.row, q.col < p.col, new[p] # Outside
               PROVE  new[q] # Outside
    BY DEF RowsHaveNoGaps
  <2>1. p.col \in Int /\ q.col \in Int /\ \A s \in S : s.col \in Int
    BY SheetAssumption DEF Pos, Col
  <2>2. EmptyImpl # Outside /\ Null # Outside
    BY DEF EmptyImpl, Null, Outside
  <2>3. CASE cells[p] # Outside
    <3>1. cells[q] # Outside
      BY <2>3 DEF Table, RowsHaveNoGaps
    <3> QED BY <3>1, <2>2 DEF WithCells
  <2>4. CASE cells[p] = Outside
    <3>1. p \in S \/ \E s \in S : s.row = p.row /\ p.col < s.col
      BY <2>4 DEF WithCells
    <3>2. \E s \in S : s.row = q.row /\ q.col < s.col
      BY <3>1, <2>1
    <3> QED BY <3>2, <2>2 DEF WithCells
  <2> QED BY <2>3, <2>4
<1> QED BY <1>4, <1>5, <1>6, <1>7, <1>8, <1>9

\* What the walks of cell.cpp visit is a set of positions, closed under the
\* edges they follow.
LEMMA ReferencesType ==
  ASSUME NEW cl \in [Pos -> Slot]
  PROVE  References(cl) \in [Pos -> SUBSET Pos]
BY ReferencesArePositions DEF References

\* CheckCircularDependency is enough: a formula that does not lead back to p
\* can be stored at p.
LEMMA StoringKeepsAcyclic ==
  ASSUME NEW old \in [Pos -> Slot], NEW new \in [Pos -> Slot], NEW p \in Pos,
         Acyclic(old),
         \A q \in Pos \ {p} : GetReferencedCells(new[q]) = GetReferencedCells(old[q]),
         p \notin Reach(GetReferencedCells(new[p]), References(old))
  PROVE  Acyclic(new)
<1> DEFINE reach == Reach(GetReferencedCells(new[p]), References(old))
<1>1. /\ GetReferencedCells(new[p]) \subseteq reach
      /\ \A x \in reach : GetReferencedCells(old[x]) \subseteq reach
      /\ reach \subseteq Pos
  <2>1. GetReferencedCells(new[p]) \in SUBSET Pos
    BY ReferencesArePositions
  <2> QED BY <2>1, ReferencesType, ReachIsClosure DEF References
<1> SUFFICES ASSUME NEW S \in SUBSET Pos, S # {}
             PROVE  \E q \in S : GetReferencedCells(new[q]) \cap S = {}
  BY DEF Acyclic
<1> HIDE DEF reach
<1>2. CASE p \notin S
  BY <1>2 DEF Acyclic
<1>3. CASE p \in S /\ S \cap reach = {}
  BY <1>1, <1>3
<1>4. CASE p \in S /\ S \cap reach # {}
  <2>1. PICK q \in S \cap reach : GetReferencedCells(old[q]) \cap (S \cap reach) = {}
    BY <1>4 DEF Acyclic
  <2>2. q # p
    BY <2>1 DEF reach
  <2> QED BY <1>1, <2>1, <2>2
<1> QED BY <1>2, <1>3, <1>4

\* EraseEdges, AddEdges and the new impl_ keep the slots and the edges in
\* agreement, if CheckCircularDependency let the new formula pass.
LEMMA StoreKeepsTable ==
  ASSUME Table, NEW p \in Pos, NEW impl \in Slot \ {Outside, Null},
         ~IsCircular(p, GetReferencedCells(impl)), Store(p, impl)
  PROVE  Table'
<1> DEFINE refs == GetReferencedCells(impl)
           added == {q \in refs \cup {p} : ~Exists(q)}
<1>1. refs \in SUBSET Pos
  BY ReferencesArePositions
<1>2. /\ added \in SUBSET Pos
      /\ \A s \in added : ~Exists(s)
  BY <1>1
<1>3. /\ cells' = [WithCells(added) EXCEPT ![p] = impl]
      /\ referenced' = [referenced EXCEPT ![p] = refs]
      /\ dependent' = DependentAfter(p, refs)
      /\ cache' = CacheWithout({p} \cup Invalidated(p))
  BY DEF Store
<1>4. /\ WithCells(added) \in [Pos -> Slot]
      /\ RowsHaveNoGaps(WithCells(added))
      /\ \A q \in Pos :
           /\ GetReferencedCells(WithCells(added)[q]) = GetReferencedCells(cells[q])
           /\ Exists(q) => WithCells(added)[q] = cells[q]
           /\ q \in added => WithCells(added)[q] = EmptyImpl
  <2> HIDE DEF added
  <2> QED BY <1>2, WithCellsAdds
<1>5. cells' \in [Pos -> Slot]
  BY <1>3, <1>4
<1>6. cells'[p] = impl /\ \A q \in Pos \ {p} : cells'[q] = WithCells(added)[q]
  BY <1>3, <1>4
<1>7. \A q \in Pos \ {p} : GetReferencedCells(cells'[q]) = GetReferencedCells(cells[q])
  BY <1>4, <1>6
<1>8. referenced' \in [Pos -> SUBSET Pos]
  BY <1>1, <1>3 DEF Table
<1>9. dependent' \in [Pos -> SUBSET Pos]
  BY <1>3 DEF Table, DependentAfter
<1>10. cache' \in [Pos -> Result \cup {NoCache}]
  BY <1>3 DEF Table, CacheWithout
<1>11. RowsHaveNoGaps(cells')
  <2>1. p \in added \/ Exists(p)
    OBVIOUS
  <2>2. WithCells(added)[p] # Outside
    <3>1. EmptyImpl # Outside /\ (Exists(p) => cells[p] # Outside)
      BY DEF EmptyImpl, Outside, Exists
    <3> QED BY <2>1, <3>1, <1>4
  <2>3. \A q \in Pos : cells'[q] = Outside <=> WithCells(added)[q] = Outside
    BY <1>6, <2>2
  <2> HIDE DEF added
  <2> QED BY <1>4, <2>3 DEF RowsHaveNoGaps
<1>12. EdgesMatch'
  <2> SUFFICES ASSUME NEW q \in Pos
               PROVE  /\ referenced'[q] = GetReferencedCells(cells'[q])
                      /\ dependent'[q] = {x \in Pos : q \in referenced'[x]}
                      /\ \A r \in referenced'[q] : Exists(r)'
    BY DEF EdgesMatch
  <2>1. referenced'[q] = IF q = p THEN refs ELSE referenced[q]
    BY <1>3 DEF Table
  <2>2. referenced'[q] = GetReferencedCells(cells'[q])
    BY <2>1, <1>6, <1>7 DEF Table, EdgesMatch
  <2>3. dependent'[q] = {x \in Pos : q \in referenced'[x]}
    <3>1. \A x \in Pos : referenced'[x] = IF x = p THEN refs ELSE referenced[x]
      BY <1>3 DEF Table
    <3>2. dependent[q] = {x \in Pos : q \in referenced[x]}
      BY DEF Table, EdgesMatch
    <3>3. dependent'[q] = (IF q \in referenced[p] THEN dependent[q] \ {p} ELSE dependent[q])
                            \cup (IF q \in refs THEN {p} ELSE {})
      BY <1>3 DEF DependentAfter
    <3> HIDE DEF refs
    <3> QED BY <3>1, <3>2, <3>3
  <2>4. ASSUME NEW r \in referenced'[q] PROVE Exists(r)'
    <3>1. r \in Pos
      BY <1>8
    <3>2. \A c \in {Outside, Null} : c.kind \in {"outside", "null"}
      BY DEF Outside, Null
    <3>3. impl.kind \notin {"outside", "null"} /\ EmptyImpl.kind \notin {"outside", "null"}
      BY DEF Slot, EmptyImpl, TextImpl, FormulaImpl
    <3>4. r \in added \/ Exists(r)
      <4>1. CASE q = p
        BY <4>1, <2>1
      <4>2. CASE q # p
        BY <4>2, <2>1 DEF Table, EdgesMatch
      <4> QED BY <4>1, <4>2
    <3>5. CASE r = p
      BY <3>5, <3>3, <1>6 DEF Exists
    <3>6. CASE r # p /\ r \in added
      BY <3>1, <3>6, <3>3, <1>4, <1>6 DEF Exists
    <3>7. CASE r # p /\ Exists(r)
      BY <3>1, <3>7, <1>4, <1>6 DEF Exists
    <3> QED BY <3>4, <3>5, <3>6, <3>7
  <2> QED BY <2>2, <2>3, <2>4
<1>13. NoCircularDependency'
  <2>1. p \notin Reach(GetReferencedCells(cells'[p]), References(cells))
    BY <1>6 DEF IsCircular
  <2>2. Acyclic(cells')
    BY <1>5, <1>7, <2>1, StoringKeepsAcyclic DEF Table, NoCircularDependency
  <2> QED BY <2>2 DEF NoCircularDependency
<1> QED BY <1>5, <1>8, <1>9, <1>10, <1>11, <1>12, <1>13 DEF Table

\* A call that throws leaves the table as it is.
LEMMA ThrowKeepsTable ==
  ASSUME Table, UNCHANGED <<cells, referenced, dependent, cache>>
  PROVE  Table'
BY DEF Table, EdgesMatch, NoCircularDependency, RowsHaveNoGaps, Exists

\* A cell that names no cell is never part of a cycle.
LEMMA EmptyIsNeverCircular ==
  ASSUME NEW p \in Pos
  PROVE  ~IsCircular(p, {})
<1>1. \A x \in {} : References(cells)[x] \subseteq {}
  OBVIOUS
<1>2. Reach({}, References(cells)) \subseteq {}
  BY <1>1, ReachIsLeast
<1> QED BY <1>2 DEF IsCircular

\* What Cell::Set stores has a cell's slot, and names what the text names.
LEMMA ImplOfText ==
  ASSUME NEW t \in Text, t \in FormulaText => ParseOutcome(t) = "ok"
  PROVE  /\ ImplOf(t) \in Slot \ {Outside, Null}
         /\ t \in FormulaText => GetReferencedCells(ImplOf(t)) = Refs(Parse(t))
         /\ t \notin FormulaText => GetReferencedCells(ImplOf(t)) = {}
         /\ HasText(ImplOf(t)) <=> t # EmptyText
         /\ t = EmptyText => t \notin FormulaText
<1>1. EmptyText \notin FormulaText
  BY SheetAssumption
<1>2. CASE t = EmptyText
  BY <1>1, <1>2 DEF ImplOf, Slot, EmptyImpl, Outside, Null, GetReferencedCells,
     IsFormula, HasText
<1>3. CASE t # EmptyText /\ t \in FormulaText
  <2>1. Parse(t) \in Formula
    BY <1>3, FormulaAssumption
  <2>2. ImplOf(t) = FormulaImpl(Parse(t))
    BY <1>3 DEF ImplOf
  <2> QED BY <1>3, <2>1, <2>2 DEF Slot, FormulaImpl, Outside, Null,
          GetReferencedCells, IsFormula, HasText
<1>4. CASE t # EmptyText /\ t \notin FormulaText
  BY <1>4 DEF ImplOf, Slot, TextImpl, Outside, Null, GetReferencedCells,
     IsFormula, HasText
<1> QED BY <1>2, <1>3, <1>4

\* Cell::Set, however it ends, keeps the slots and the edges in agreement.
LEMMA CellSetKeepsTable ==
  ASSUME Table, NEW p \in Pos, NEW t \in Text, CellSet(p, t)
  PROVE  Table' /\ outcome' \in Outcome
<1>1. CASE t \in FormulaText /\ ParseOutcome(t) # "ok" /\ Throw(ParseOutcome(t))
  BY <1>1, ThrowKeepsTable, FormulaAssumption DEF Throw, Outcome
<1>2. CASE Throw("CircularDependencyException")
  BY <1>2, ThrowKeepsTable DEF Throw, Outcome
<1>3. CASE /\ t \in FormulaText =>
                ParseOutcome(t) = "ok" /\ ~IsCircular(p, Refs(Parse(t)))
           /\ Store(p, ImplOf(t))
  <2>1. ImplOf(t) \in Slot \ {Outside, Null}
    BY <1>3, ImplOfText
  <2>2. ~IsCircular(p, GetReferencedCells(ImplOf(t)))
    BY <1>3, ImplOfText, EmptyIsNeverCircular
  <2>3. Table'
    BY <1>3, <2>1, <2>2, StoreKeepsTable
  <2> QED BY <1>3, <2>3 DEF Store, Outcome
<1> QED BY <1>1, <1>2, <1>3 DEF CellSet

\* RecalculateSize gives a size of the table.
LEMMA BoundingSizeType ==
  ASSUME NEW cl
  PROVE  BoundingSize(cl) \in [rows : 0 .. MaxRows, cols : 0 .. MaxCols]
<1> DEFINE filled == {p \in Pos : HasText(cl[p])}
           R == {0} \cup {p.row + 1 : p \in filled}
           C == {0} \cup {p.col + 1 : p \in filled}
<1>1. MaxRows \in Nat /\ MaxCols \in Nat
  BY SheetAssumption
<1>2. R \subseteq 0 .. MaxRows /\ R # {} /\ C \subseteq 0 .. MaxCols /\ C # {}
  BY <1>1 DEF Pos, Row, Col
<1>3. Max(R) \in 0 .. MaxRows /\ Max(C) \in 0 .. MaxCols
  <2> HIDE DEF R, C
  <2> QED BY <1>1, <1>2, MaxOfBoundedSet
<1> QED BY <1>3 DEF BoundingSize

\* SetSize gives a size of the table.
LEMMA SizeWithType ==
  ASSUME SizeType, NEW p \in Pos
  PROVE  SizeWith(p) \in [rows : 0 .. MaxRows, cols : 0 .. MaxCols]
BY SheetAssumption DEF SizeType, SizeWith, Pos, Row, Col

\* Evaluation caches results.
LEMMA CacheAfterType ==
  ASSUME Table, NEW seed
  PROVE  CacheAfter(seed) \in [Pos -> Result \cup {NoCache}]
<1>1. Values(cells, cache) \in [Pos -> Worth]
  BY ValuesDefined DEF Table, NoCircularDependency
<1> DEFINE val == Values(cells, cache)
<1> HIDE DEF val
<1>2. val \in [Pos -> Worth]
  BY <1>1 DEF val
<1>3. \A q \in Pos : /\ val[q] # Thrown => val[q] \in Result
                     /\ cache[q] \in Result \cup {NoCache}
  BY <1>2 DEF Table, Worth
<1>4. CacheAfter(seed) =
        [q \in Pos |-> IF q \in Asked(seed, val) /\ IsFormula(cells[q]) /\ val[q] # Thrown
                       THEN val[q] ELSE cache[q]]
  BY DEF CacheAfter, val
<1> QED BY <1>3, <1>4

\* Calls that only fill caches keep the slots and the edges in agreement.
LEMMA NewCacheKeepsTable ==
  ASSUME Table, cache' \in [Pos -> Result \cup {NoCache}],
         UNCHANGED <<cells, referenced, dependent>>
  PROVE  Table'
BY DEF Table, EdgesMatch, NoCircularDependency, RowsHaveNoGaps, Exists

\* Evaluating a formula that no cell holds adds empty cells and no edge.
LEMMA EvaluateFormulaKeepsTable ==
  ASSUME Table, NEW f \in Formula, EvaluateFormula(f)
  PROVE  Table'
<1> DEFINE val == Values(cells, cache)
           asked == Reads(f, Operands(f, val))
           added == {p \in asked : ~Exists(p)}
<1>1. asked \subseteq Pos
  <2>1. val \in [Pos -> Worth]
    BY ValuesDefined DEF Table, NoCircularDependency
  <2> HIDE DEF val
  <2>2. Refs(f) \subseteq Pos
    BY FormulaAssumption
  <2>3. Operands(f, val) \in [Refs(f) -> Worth]
    BY <2>1, <2>2 DEF Operands
  <2> QED BY <2>2, <2>3, FormulaAssumption
<1> HIDE DEF asked
<1>2. added \in SUBSET Pos /\ \A s \in added : ~Exists(s)
  BY <1>1
<1>3. cells' = WithCells(added) /\ cache' = CacheAfter(asked)
  BY DEF EvaluateFormula, asked
<1>4. /\ cells' \in [Pos -> Slot]
      /\ RowsHaveNoGaps(cells')
      /\ \A q \in Pos : /\ GetReferencedCells(cells'[q]) = GetReferencedCells(cells[q])
                        /\ Exists(q) => cells'[q] = cells[q]
  <2> HIDE DEF added
  <2> QED BY <1>2, <1>3, WithCellsAdds
<1>5. cache' \in [Pos -> Result \cup {NoCache}]
  BY <1>3, CacheAfterType
<1>6. UNCHANGED <<referenced, dependent>>
  BY DEF EvaluateFormula
<1>7. EdgesMatch'
  BY <1>4, <1>6 DEF Table, EdgesMatch, Exists
<1>8. NoCircularDependency'
  BY <1>4 DEF Table, NoCircularDependency, Acyclic
<1> QED BY <1>4, <1>5, <1>6, <1>7, <1>8 DEF Table

\* The empty table satisfies the invariant.
LEMMA InitTable ==
  ASSUME Init
  PROVE  Table /\ SizeType /\ outcome \in Outcome
<1>1. \A p \in Pos : GetReferencedCells(cells[p]) = {}
  BY DEF Init, Outside, GetReferencedCells, IsFormula
<1>2. EdgesMatch
  BY <1>1 DEF Init, EdgesMatch
<1>3. NoCircularDependency
  BY <1>1 DEF NoCircularDependency, Acyclic
<1>4. cells \in [Pos -> Slot] /\ cache \in [Pos -> Result \cup {NoCache}]
  BY DEF Init, Slot
<1>5. SizeType
  BY SheetAssumption DEF Init, SizeType
<1> QED BY <1>2, <1>3, <1>4, <1>5 DEF Init, Table, RowsHaveNoGaps, Outcome

\* Every call keeps the invariant.
LEMMA NextKeepsTable ==
  ASSUME Table, SizeType, outcome \in Outcome, [Next]_vars
  PROVE  Table' /\ SizeType' /\ outcome' \in Outcome
<1>1. CASE InvalidPosition
  BY <1>1, ThrowKeepsTable DEF InvalidPosition, Throw, Outcome, SizeType
<1>2. ASSUME NEW p \in Pos, NEW t \in Text, SetExistingCell(p, t)
      PROVE  Table' /\ SizeType' /\ outcome' \in Outcome
  <2>1. CASE Throw("ok")
    BY <1>2, <2>1, ThrowKeepsTable DEF SetExistingCell, Throw, Outcome, SizeType
  <2>2. CASE CellSet(p, t)
    BY <1>2, <2>2, CellSetKeepsTable DEF SetExistingCell, SizeType
  <2> QED BY <1>2, <2>1, <2>2 DEF SetExistingCell
<1>3. ASSUME NEW p \in Pos, NEW t \in Text, SetNewCell(p, t)
      PROVE  Table' /\ SizeType' /\ outcome' \in Outcome
  <2>1. SizeType'
    BY <1>3, SizeWithType DEF SetNewCell, SizeType
  <2> QED BY <1>3, <2>1, CellSetKeepsTable DEF SetNewCell
<1>4. ASSUME NEW p \in AnyPos, NEW t \in Text, SetCell(p, t)
      PROVE  Table' /\ SizeType' /\ outcome' \in Outcome
  BY <1>1, <1>2, <1>3, <1>4 DEF SetCell
<1>5. ASSUME NEW p \in Pos, NEW t \in Text, SetThroughCell(p, t)
      PROVE  Table' /\ SizeType' /\ outcome' \in Outcome
  BY <1>5, CellSetKeepsTable DEF SetThroughCell, SizeType
<1>6. ASSUME NEW p \in AnyPos, ClearCell(p)
      PROVE  Table' /\ SizeType' /\ outcome' \in Outcome
  <2>1. CASE p \in Pos /\ UNCHANGED size /\ (Throw("ok") \/ Throw("crash"))
    BY <2>1, ThrowKeepsTable DEF Throw, Outcome, SizeType
  <2>2. CASE /\ p \in Pos
             /\ CellSet(p, EmptyText)
             /\ size' = IF p.row + 1 = size.rows \/ p.col + 1 = size.cols
                        THEN BoundingSize(cells')
                        ELSE size
    <3>1. SizeType'
      BY <2>2, BoundingSizeType DEF SizeType
    <3> QED BY <2>2, <3>1, CellSetKeepsTable, SheetAssumption
  <2> QED BY <1>1, <1>6, <2>1, <2>2 DEF ClearCell
<1>7. ASSUME NEW p \in AnyPos, GetValue(p)
      PROVE  Table' /\ SizeType' /\ outcome' \in Outcome
  BY <1>1, <1>7, CacheAfterType, NewCacheKeepsTable DEF GetValue, SizeType, Outcome
<1>8. CASE PrintValues
  BY <1>8, CacheAfterType, NewCacheKeepsTable DEF PrintValues, SizeType, Outcome
<1>9. ASSUME NEW f \in Formula, EvaluateFormula(f)
      PROVE  Table' /\ SizeType' /\ outcome' \in Outcome
  BY <1>9, EvaluateFormulaKeepsTable DEF EvaluateFormula, SizeType, Outcome
<1>10. CASE UNCHANGED vars
  BY <1>10, ThrowKeepsTable DEF vars, SizeType
<1> QED BY <1>4, <1>5, <1>6, <1>7, <1>8, <1>9, <1>10 DEF Next

(***************************************************************************)
(* Every table the calls can lead to is well typed, its edges match its    *)
(* formulas in both directions, and no formula depends on itself: whatever *)
(* the size of the table, the texts and the formulas.                      *)
(***************************************************************************)
THEOREM TableInvariant == Spec => [](TypeOK /\ EdgesMatch /\ NoCircularDependency)
<1> DEFINE Inv == Table /\ SizeType /\ outcome \in Outcome /\ cleared \in BOOLEAN
<1>1. Init => Inv
  BY InitTable DEF Init
<1>2. Inv /\ [Next]_vars => Inv'
  <2>1. cleared \in BOOLEAN /\ [Next]_vars => cleared' \in BOOLEAN
    BY DEF Next, vars
  <2> QED BY <2>1, NextKeepsTable
<1>3. Inv => TypeOK /\ EdgesMatch /\ NoCircularDependency
  BY TypeOKParts
<1> HIDE DEF Inv
<1> QED BY <1>1, <1>2, <1>3, PTL DEF Spec

(***************************************************************************)
(* The caches.                                                             *)
(***************************************************************************)
ReadsIn(cl, p, val) == Reads(cl[p].formula, Operands(cl[p].formula, val))

\* CachesCurrent, of any table and any caches.
Current(cl, ca) ==
  \A p \in Pos : ca[p] # NoCache =>
    /\ IsFormula(cl[p])
    /\ ca[p] = Values(cl, NoCaches)[p]
    /\ \A r \in ReadsIn(cl, p, Values(cl, NoCaches)) :
         IsFormula(cl[r]) => ca[r] # NoCache

\* CachesCurrent is Current of the table and its caches.
LEMMA CachesCurrentIsCurrent == CachesCurrent <=> Current(cells, cache)
BY DEF CachesCurrent, Current, ReadsIn

\* The absence of all caches is a state of the caches.
LEMMA NoCachesType == NoCaches \in [Pos -> Result \cup {NoCache}]
BY DEF NoCaches

\* Without caches, the value of a cell is the value of what is in it.
LEMMA IdealValues ==
  ASSUME NEW cl \in [Pos -> Slot], Acyclic(cl)
  PROVE  /\ Values(cl, NoCaches) \in [Pos -> Worth]
         /\ \A p \in Pos : Values(cl, NoCaches)[p] = ValueOf(cl[p], NoCache, Values(cl, NoCaches))
<1>1. \A p \in Pos : NoCaches[p] = NoCache
  BY DEF NoCaches
<1> QED BY <1>1, NoCachesType, ValuesDefined

\* A function that satisfies the equations of Values is Values.
LEMMA ValuesUnique ==
  ASSUME NEW cl \in [Pos -> Slot], NEW ca \in [Pos -> Result \cup {NoCache}],
         Acyclic(cl), NEW v \in [Pos -> Worth],
         \A p \in Pos : v[p] = ValueOf(cl[p], ca[p], v)
  PROVE  Values(cl, ca) = v
<1>1. /\ Values(cl, ca) \in [Pos -> Worth]
      /\ Solves(cl, ca, Pos, Values(cl, ca))
  BY ValuesDefined DEF Solves
<1>2. Closed(cl, Pos) /\ Solves(cl, ca, Pos, v)
  BY ReferencesArePositions DEF Closed, Solves
<1>3. \A p \in Pos \cap Pos : Values(cl, ca)[p] = v[p]
  BY <1>1, <1>2, SolutionsAgree
<1> HIDE DEF Values
<1> QED BY <1>1, <1>3

\* Current caches are transparent: with them every cell has the value it has
\* without them.
LEMMA CachesAreTransparent ==
  ASSUME NEW cl \in [Pos -> Slot], NEW ca \in [Pos -> Result \cup {NoCache}],
         Acyclic(cl), Current(cl, ca)
  PROVE  Values(cl, ca) = Values(cl, NoCaches)
<1> DEFINE v == Values(cl, NoCaches)
<1>1. /\ v \in [Pos -> Worth]
      /\ \A p \in Pos : v[p] = ValueOf(cl[p], NoCache, v)
  BY IdealValues
<1>2. \A p \in Pos : ca[p] # NoCache => cl[p].kind = "formula" /\ ca[p] = v[p]
  BY DEF Current, IsFormula
<1> HIDE DEF v
<1>3. ASSUME NEW p \in Pos PROVE v[p] = ValueOf(cl[p], ca[p], v)
  <2>1. CASE ca[p] = NoCache
    BY <2>1, <1>1
  <2>2. CASE ca[p] # NoCache
    BY <2>2, <1>2 DEF ValueOf
  <2> QED BY <2>1, <2>2
<1>4. Values(cl, ca) = v
  BY <1>1, <1>3, ValuesUnique
<1> QED BY <1>4 DEF v

\* An evaluation is given numbers and errors, and reads cells that it names.
LEMMA OperandsType ==
  ASSUME NEW f \in Formula, NEW v \in [Pos -> Worth]
  PROVE  /\ Operands(f, v) \in [Refs(f) -> Worth]
         /\ Reads(f, Operands(f, v)) \subseteq Refs(f)
         /\ Refs(f) \subseteq Pos
<1>1. Refs(f) \subseteq Pos
  BY FormulaAssumption
<1>2. Operands(f, v) \in [Refs(f) -> Worth]
  BY <1>1 DEF Operands
<1> QED BY <1>1, <1>2, FormulaAssumption

\* A formula cell holds a formula, and names what the formula names.
LEMMA FormulaSlot ==
  ASSUME NEW c \in Slot, IsFormula(c)
  PROVE  c.formula \in Formula /\ GetReferencedCells(c) = Refs(c.formula)
BY DEF IsFormula, GetReferencedCells, Slot, Outside, Null, EmptyImpl, TextImpl, FormulaImpl

\* Locality, in terms of a cell of a table.
LEMMA SameReadsSameValue ==
  ASSUME NEW f \in Formula, NEW v \in [Pos -> Worth], NEW w \in [Pos -> Worth],
         \A r \in Reads(f, Operands(f, v)) : v[r] = w[r]
  PROVE  /\ Exec(f, Operands(f, w)) = Exec(f, Operands(f, v))
         /\ Reads(f, Operands(f, w)) = Reads(f, Operands(f, v))
<1>1. /\ Operands(f, v) \in [Refs(f) -> Worth]
      /\ Operands(f, w) \in [Refs(f) -> Worth]
      /\ Reads(f, Operands(f, v)) \subseteq Refs(f)
  BY OperandsType
<1>2. \A r \in Refs(f) : Operands(f, v)[r] = v[r] /\ Operands(f, w)[r] = w[r]
  BY DEF Operands
<1>3. \A r \in Reads(f, Operands(f, v)) : Operands(f, v)[r] = Operands(f, w)[r]
  BY <1>1, <1>2
<1> QED BY <1>1, <1>3, ExecReadsOnly

\* Evaluating keeps the caches current: what a formula asked for is cached
\* with it.
LEMMA CacheAfterIsCurrent ==
  ASSUME Table, Current(cells, cache), NEW seed \in SUBSET Pos
  PROVE  Current(cells, CacheAfter(seed))
<1> DEFINE val == Values(cells, cache)
           asked == Asked(seed, val)
           new == CacheAfter(seed)
<1>1. cells \in [Pos -> Slot] /\ cache \in [Pos -> Result \cup {NoCache}] /\ Acyclic(cells)
  BY DEF Table, NoCircularDependency
<1>2. val = Values(cells, NoCaches) /\ val \in [Pos -> Worth]
  BY <1>1, CachesAreTransparent, IdealValues
<1>13. \A p \in Pos : val[p] = ValueOf(cells[p], NoCache, val)
  BY <1>1, <1>2, IdealValues
<1>3. new = [q \in Pos |-> IF q \in asked /\ IsFormula(cells[q]) /\ val[q] # Thrown
                           THEN val[q] ELSE cache[q]]
  BY DEF CacheAfter
<1> DEFINE succ == [q \in Pos |->
                      IF IsFormula(cells[q]) /\ cache[q] = NoCache
                      THEN ReadsIn(cells, q, val)
                      ELSE {}]
<1> HIDE DEF val
<1>4. \A q \in Pos : IsFormula(cells[q]) => ReadsIn(cells, q, val) \subseteq Pos
  BY <1>1, <1>2, FormulaSlot, OperandsType DEF ReadsIn
<1>5. succ \in [Pos -> SUBSET Pos]
  BY <1>4
<1>6. asked = Reach(seed, succ)
  BY DEF Asked, ReadsIn
<1>7. \A q \in asked : succ[q] \subseteq asked
  <2> HIDE DEF succ
  <2> QED BY <1>5, <1>6, ReachIsClosure
<1>8. asked \subseteq Pos
  BY DEF Asked, Reach
<1>9. \A q \in Pos : val[q] # NoCache
  BY <1>2, SheetAssumption
<1>12. \A q \in Pos : IsFormula(cells[q]) /\ cache[q] = NoCache /\ val[q] # Thrown
                       => \A r \in ReadsIn(cells, q, val) : val[r] # Thrown
  <2> SUFFICES ASSUME NEW q \in Pos, IsFormula(cells[q]), val[q] # Thrown,
                      NEW r \in ReadsIn(cells, q, val), cache[q] = NoCache
               PROVE  val[r] # Thrown
    OBVIOUS
  <2> DEFINE f == cells[q].formula
             v == Operands(f, val)
  <2>1. f \in Formula
    BY <1>1, FormulaSlot
  <2>2. v \in [Refs(f) -> Worth] /\ Reads(f, v) \subseteq Refs(f)
    BY <1>2, <2>1, OperandsType
  <2>3. val[q] = Exec(f, v)
    BY <1>13 DEF ValueOf, IsFormula
  <2>4. r \in Reads(f, v) /\ v[r] = val[r]
    BY <2>2 DEF ReadsIn, Operands
  <2> HIDE DEF f, v
  <2> QED BY <2>1, <2>2, <2>3, <2>4, FormulaAssumption
<1> HIDE DEF asked, new
<1>10. \A q \in Pos : cache[q] # NoCache => new[q] # NoCache
  BY <1>3, <1>9
<1>11. ASSUME NEW p \in Pos, new[p] # NoCache
       PROVE  /\ IsFormula(cells[p])
              /\ new[p] = val[p]
              /\ \A r \in ReadsIn(cells, p, val) : IsFormula(cells[r]) => new[r] # NoCache
  <2>1. CASE cache[p] # NoCache
    <3>1. /\ IsFormula(cells[p])
          /\ cache[p] = val[p]
          /\ \A r \in ReadsIn(cells, p, val) : IsFormula(cells[r]) => cache[r] # NoCache
      BY <2>1, <1>2 DEF Current
    <3> QED BY <3>1, <1>3, <1>4, <1>10
  <2>2. CASE cache[p] = NoCache
    <3>1. p \in asked /\ IsFormula(cells[p]) /\ new[p] = val[p] /\ val[p] # Thrown
      BY <2>2, <1>3, <1>11
    <3>2. ReadsIn(cells, p, val) \subseteq asked
      BY <2>2, <3>1, <1>7
    <3>3. \A r \in ReadsIn(cells, p, val) : val[r] # Thrown
      BY <2>2, <3>1, <1>12
    <3> QED BY <3>1, <3>2, <3>3, <1>3, <1>8, <1>9
  <2> QED BY <2>1, <2>2
<1> QED BY <1>2, <1>11 DEF Current, new

\* A cell that is worth the same to any formula, whatever the other cells hold.
SameData(c, d) ==
  /\ ~IsFormula(c) /\ ~IsFormula(d)
  /\ c = d \/ (~HasText(c) /\ ~HasText(d))

(***************************************************************************)
(* Why dropping some caches and changing some cells leaves the other       *)
(* caches current: each formula that keeps its cache is still there, and   *)
(* what it read is a formula that keeps its cache too, or the same data.   *)
(***************************************************************************)
LEMMA KeptCachesAreCurrent ==
  ASSUME NEW old \in [Pos -> Slot], NEW new \in [Pos -> Slot],
         Acyclic(old), Acyclic(new),
         NEW ca, NEW kept, Current(old, ca),
         \A q \in Pos : kept[q] # NoCache =>
           /\ kept[q] = ca[q]
           /\ new[q] = old[q]
           /\ \A r \in ReadsIn(old, q, Values(old, NoCaches)) :
                \/ IsFormula(old[r]) /\ kept[r] # NoCache
                \/ SameData(old[r], new[r])
  PROVE  Current(new, kept)
<1> DEFINE v == Values(old, NoCaches)
           w == Values(new, NoCaches)
           Bad == {q \in Pos : kept[q] # NoCache /\ w[q] # v[q]}
<1>1. /\ v \in [Pos -> Worth] /\ \A p \in Pos : v[p] = ValueOf(old[p], NoCache, v)
      /\ w \in [Pos -> Worth] /\ \A p \in Pos : w[p] = ValueOf(new[p], NoCache, w)
  BY IdealValues
<1>2. \A q \in Pos : kept[q] # NoCache =>
        /\ IsFormula(old[q]) /\ new[q] = old[q] /\ kept[q] = v[q]
        /\ old[q].formula \in Formula
        /\ GetReferencedCells(old[q]) = Refs(old[q].formula)
        /\ ReadsIn(old, q, v) \subseteq Refs(old[q].formula)
        /\ Refs(old[q].formula) \subseteq Pos
        /\ \A r \in ReadsIn(old, q, v) :
             \/ IsFormula(old[r]) /\ kept[r] # NoCache
             \/ SameData(old[r], new[r])
  <2> SUFFICES ASSUME NEW q \in Pos, kept[q] # NoCache
               PROVE  /\ IsFormula(old[q]) /\ new[q] = old[q] /\ kept[q] = v[q]
                      /\ old[q].formula \in Formula
                      /\ GetReferencedCells(old[q]) = Refs(old[q].formula)
                      /\ ReadsIn(old, q, v) \subseteq Refs(old[q].formula)
                      /\ Refs(old[q].formula) \subseteq Pos
    OBVIOUS
  <2>1. kept[q] = ca[q] /\ new[q] = old[q]
    OBVIOUS
  <2>2. IsFormula(old[q]) /\ ca[q] = v[q]
    BY <2>1 DEF Current
  <2> HIDE DEF v
  <2> QED BY <2>1, <2>2, <1>1, FormulaSlot, OperandsType DEF ReadsIn
<1> HIDE DEF v, w
<1>3. ASSUME NEW r \in Pos, SameData(old[r], new[r])
      PROVE  v[r] = w[r]
  <2>1. v[r] = ValueOf(old[r], NoCache, v) /\ w[r] = ValueOf(new[r], NoCache, w)
    BY <1>1
  <2> QED BY <2>1, <1>3 DEF SameData, IsFormula, HasText, ValueOf
<1>4. ASSUME NEW q \in Pos, kept[q] # NoCache,
             \A r \in ReadsIn(old, q, v) : v[r] = w[r]
      PROVE  w[q] = v[q] /\ ReadsIn(new, q, w) = ReadsIn(old, q, v)
  <2>1. IsFormula(old[q]) /\ new[q] = old[q] /\ old[q].formula \in Formula
    BY <1>2, <1>4
  <2> DEFINE f == old[q].formula
  <2>2. v[q] = Exec(f, Operands(f, v)) /\ w[q] = Exec(f, Operands(f, w))
    BY <2>1, <1>1 DEF ValueOf, IsFormula
  <2>3. /\ Exec(f, Operands(f, w)) = Exec(f, Operands(f, v))
        /\ Reads(f, Operands(f, w)) = Reads(f, Operands(f, v))
    <3>1. \A r \in Reads(f, Operands(f, v)) : v[r] = w[r]
      BY <1>4 DEF ReadsIn
    <3> HIDE DEF f
    <3> QED BY <3>1, <2>1, <1>1, SameReadsSameValue DEF f
  <2> QED BY <2>1, <2>2, <2>3 DEF ReadsIn
<1>5. Bad = {}
  <2> SUFFICES ASSUME Bad # {} PROVE FALSE
    OBVIOUS
  <2>1. PICK q \in Bad : GetReferencedCells(old[q]) \cap Bad = {}
    <3>1. Bad \in SUBSET Pos
      OBVIOUS
    <3> HIDE DEF Bad
    <3> QED BY <3>1 DEF Acyclic
  <2>2. ASSUME NEW r \in ReadsIn(old, q, v) PROVE v[r] = w[r]
    <3>1. r \in Pos /\ r \notin Bad
      BY <2>1, <1>2
    <3>2. CASE IsFormula(old[r]) /\ kept[r] # NoCache
      BY <3>1, <3>2
    <3>3. CASE SameData(old[r], new[r])
      BY <3>1, <3>3, <1>3
    <3> QED BY <3>2, <3>3, <1>2
  <2> QED BY <2>1, <2>2, <1>4
<1>6. ASSUME NEW q \in Pos, kept[q] # NoCache
      PROVE  \A r \in ReadsIn(old, q, v) : v[r] = w[r]
  <2> SUFFICES ASSUME NEW r \in ReadsIn(old, q, v) PROVE v[r] = w[r]
    OBVIOUS
  <2>1. r \in Pos
    BY <1>2, <1>6
  <2> QED BY <2>1, <1>2, <1>3, <1>5, <1>6
<1>7. ASSUME NEW q \in Pos, kept[q] # NoCache
      PROVE  /\ IsFormula(new[q])
             /\ kept[q] = w[q]
             /\ \A r \in ReadsIn(new, q, w) : IsFormula(new[r]) => kept[r] # NoCache
  <2>1. w[q] = v[q] /\ ReadsIn(new, q, w) = ReadsIn(old, q, v)
    BY <1>4, <1>6, <1>7
  <2> QED BY <2>1, <1>2, <1>7 DEF SameData
<1> QED BY <1>7 DEF Current, w

\* ClearCaches reaches every formula whose result may change.
LEMMA StoreKeepsCurrent ==
  ASSUME Table, Current(cells, cache), NEW p \in Pos, NEW impl \in Slot \ {Outside, Null},
         ~IsCircular(p, GetReferencedCells(impl)), Store(p, impl)
  PROVE  Current(cells', cache')
<1> DEFINE refs == GetReferencedCells(impl)
           added == {q \in refs \cup {p} : ~Exists(q)}
           v == Values(cells, NoCaches)
<1>1. Table'
  BY StoreKeepsTable
<1>2. /\ cells \in [Pos -> Slot] /\ Acyclic(cells)
      /\ cells' \in [Pos -> Slot] /\ Acyclic(cells')
  BY <1>1 DEF Table, NoCircularDependency
<1>3. cells' = [WithCells(added) EXCEPT ![p] = impl]
  BY DEF Store
<1>4. cache' = CacheWithout({p} \cup Invalidated(p))
  BY DEF Store
<1>5. \A q \in Pos : cache'[q] # NoCache =>
        cache'[q] = cache[q] /\ q # p /\ q \notin Invalidated(p)
  BY <1>4 DEF CacheWithout
<1>6. /\ CachedDependents[p] \subseteq Invalidated(p)
      /\ \A x \in Invalidated(p) : CachedDependents[x] \subseteq Invalidated(p)
      /\ Invalidated(p) \subseteq Pos
  <2>1. CachedDependents \in [Pos -> SUBSET Pos]
    BY DEF CachedDependents, Table
  <2>2. CachedDependents[p] \in SUBSET Pos
    BY <2>1
  <2> QED BY <2>1, <2>2, ReachIsClosure DEF Invalidated
<1>7. \A q \in Pos \ {p} :
        /\ Exists(q) => cells'[q] = cells[q]
        /\ ~Exists(q) => ~HasText(cells[q]) /\ ~HasText(cells'[q])
  <2>1. added \in SUBSET Pos /\ \A s \in added : ~Exists(s)
    BY ReferencesArePositions
  <2>2. /\ WithCells(added) \in [Pos -> Slot]
        /\ \A q \in Pos :
             /\ Exists(q) => WithCells(added)[q] = cells[q]
             /\ ~Exists(q) => WithCells(added)[q] \in {Outside, Null, EmptyImpl}
    <3> HIDE DEF added
    <3> QED BY <2>1, WithCellsAdds
  <2>3. \A q \in Pos \ {p} : cells'[q] = WithCells(added)[q]
    BY <1>3, <2>2
  <2> HIDE DEF added
  <2> QED BY <2>2, <2>3 DEF Exists, HasText, Outside, Null, EmptyImpl
<1> HIDE DEF refs, added
<1>8. \A q \in Pos : IsFormula(cells[q]) => Exists(q) /\ HasText(cells[q])
  BY DEF IsFormula, Exists, HasText
<1>9. ASSUME NEW q \in Pos, cache'[q] # NoCache
      PROVE  /\ cache'[q] = cache[q]
             /\ cells'[q] = cells[q]
             /\ \A r \in ReadsIn(cells, q, v) :
                  \/ IsFormula(cells[r]) /\ cache'[r] # NoCache
                  \/ SameData(cells[r], cells'[r])
  <2>1. cache'[q] = cache[q] /\ q # p /\ q \notin Invalidated(p)
    BY <1>5, <1>9
  <2>2. /\ IsFormula(cells[q])
        /\ \A r \in ReadsIn(cells, q, v) : IsFormula(cells[r]) => cache[r] # NoCache
    BY <2>1, <1>9 DEF Current
  <2>3. cells'[q] = cells[q]
    BY <2>1, <2>2, <1>7, <1>8
  <2>4. ASSUME NEW r \in ReadsIn(cells, q, v)
        PROVE  \/ IsFormula(cells[r]) /\ cache'[r] # NoCache
               \/ SameData(cells[r], cells'[r])
    <3>1. v \in [Pos -> Worth]
      BY <1>2, IdealValues
    <3> HIDE DEF v
    <3>2. r \in Pos /\ r \in GetReferencedCells(cells[q])
      BY <3>1, <2>2, <2>4, <1>2, FormulaSlot, OperandsType DEF ReadsIn
    <3>3. q \in CachedDependents[r]
      BY <3>2, <2>1, <1>9 DEF CachedDependents, Table, EdgesMatch
    <3>4. r # p /\ r \notin Invalidated(p)
      BY <3>3, <2>1, <1>6
    <3>5. CASE IsFormula(cells[r])
      BY <3>2, <3>4, <3>5, <2>2, <2>4, <1>4 DEF CacheWithout
    <3>6. CASE ~IsFormula(cells[r]) /\ Exists(r)
      BY <3>2, <3>4, <3>6, <1>7 DEF SameData
    <3>7. CASE ~IsFormula(cells[r]) /\ ~Exists(r)
      <4>1. ~HasText(cells[r]) /\ ~HasText(cells'[r])
        BY <3>2, <3>4, <3>7, <1>7
      <4> QED BY <4>1 DEF SameData, IsFormula, HasText
    <3> QED BY <3>5, <3>6, <3>7
  <2> QED BY <2>1, <2>3, <2>4
<1> HIDE DEF v
<1> QED BY <1>2, <1>9, KeptCachesAreCurrent DEF v

\* New empty cells are worth what the absence of a cell was.
LEMMA WithCellsKeepsCurrent ==
  ASSUME Table, NEW S \in SUBSET Pos, \A s \in S : ~Exists(s),
         NEW ca \in [Pos -> Result \cup {NoCache}], Current(cells, ca)
  PROVE  Current(WithCells(S), ca)
<1> DEFINE new == WithCells(S)
           v == Values(cells, NoCaches)
<1>1. /\ new \in [Pos -> Slot]
      /\ \A q \in Pos :
           /\ GetReferencedCells(new[q]) = GetReferencedCells(cells[q])
           /\ Exists(q) => new[q] = cells[q]
           /\ ~Exists(q) => new[q] \in {Outside, Null, EmptyImpl}
  BY WithCellsAdds
<1>2. cells \in [Pos -> Slot] /\ Acyclic(cells) /\ Acyclic(new)
  BY <1>1 DEF Table, NoCircularDependency, Acyclic
<1>3. v \in [Pos -> Worth]
  BY <1>2, IdealValues
<1> HIDE DEF new, v
<1>4. \A q \in Pos : IsFormula(cells[q]) => Exists(q)
  BY DEF IsFormula, Exists
<1>5. ASSUME NEW r \in Pos, ~IsFormula(cells[r])
      PROVE  SameData(cells[r], new[r])
  BY <1>1, <1>5 DEF SameData, IsFormula, HasText, Exists, Outside, Null, EmptyImpl
<1>6. ASSUME NEW q \in Pos, ca[q] # NoCache
      PROVE  /\ new[q] = cells[q]
             /\ \A r \in ReadsIn(cells, q, v) :
                  \/ IsFormula(cells[r]) /\ ca[r] # NoCache
                  \/ SameData(cells[r], new[r])
  <2>1. /\ IsFormula(cells[q])
        /\ \A r \in ReadsIn(cells, q, v) : IsFormula(cells[r]) => ca[r] # NoCache
    BY <1>6 DEF Current, v
  <2>2. ReadsIn(cells, q, v) \subseteq Pos
    BY <2>1, <1>2, <1>3, FormulaSlot, OperandsType DEF ReadsIn
  <2> QED BY <2>1, <2>2, <1>1, <1>4, <1>5
<1>7. Current(new, ca)
  BY <1>1, <1>2, <1>6, KeptCachesAreCurrent DEF v
<1> QED BY <1>7 DEF new

\* Evaluating a formula that no cell holds leaves the caches current.
LEMMA EvaluateFormulaKeepsCurrent ==
  ASSUME Table, Current(cells, cache), NEW f \in Formula, EvaluateFormula(f)
  PROVE  Current(cells', cache')
<1> DEFINE val == Values(cells, cache)
           asked == Reads(f, Operands(f, val))
           added == {p \in asked : ~Exists(p)}
<1>1. asked \in SUBSET Pos
  <2>1. val \in [Pos -> Worth]
    BY ValuesDefined DEF Table, NoCircularDependency
  <2> HIDE DEF val
  <2> QED BY <2>1, OperandsType
<1>2. cells' = WithCells(added) /\ cache' = CacheAfter(asked)
  BY DEF EvaluateFormula
<1> HIDE DEF asked
<1>3. added \in SUBSET Pos /\ \A s \in added : ~Exists(s)
  BY <1>1
<1>4. CacheAfter(asked) \in [Pos -> Result \cup {NoCache}]
  BY CacheAfterType
<1>5. Current(cells, CacheAfter(asked))
  BY <1>1, CacheAfterIsCurrent
<1> HIDE DEF added
<1> QED BY <1>2, <1>3, <1>4, <1>5, WithCellsKeepsCurrent

\* Cell::Set, however it ends, leaves the caches current.
LEMMA CellSetKeepsCurrent ==
  ASSUME Table, Current(cells, cache), NEW p \in Pos, NEW t \in Text, CellSet(p, t)
  PROVE  Current(cells', cache')
<1>1. CASE UNCHANGED <<cells, cache>>
  BY <1>1
<1>2. CASE /\ t \in FormulaText =>
                ParseOutcome(t) = "ok" /\ ~IsCircular(p, Refs(Parse(t)))
           /\ Store(p, ImplOf(t))
  <2>1. ImplOf(t) \in Slot \ {Outside, Null}
    BY <1>2, ImplOfText
  <2>2. ~IsCircular(p, GetReferencedCells(ImplOf(t)))
    BY <1>2, ImplOfText, EmptyIsNeverCircular
  <2> QED BY <1>2, <2>1, <2>2, StoreKeepsCurrent
<1> QED BY <1>1, <1>2 DEF CellSet, Throw

\* Every call leaves the caches current.
LEMMA NextKeepsCurrent ==
  ASSUME Table, Current(cells, cache), [Next]_vars
  PROVE  Current(cells', cache')
<1>1. CASE UNCHANGED <<cells, cache>>
  BY <1>1
<1>2. ASSUME NEW p \in Pos, NEW t \in Text, CellSet(p, t)
      PROVE  Current(cells', cache')
  BY <1>2, CellSetKeepsCurrent
<1>3. ASSUME NEW p \in AnyPos, NEW t \in Text, SetCell(p, t)
      PROVE  Current(cells', cache')
  BY <1>1, <1>2, <1>3 DEF SetCell, SetExistingCell, SetNewCell, InvalidPosition, Throw
<1>4. ASSUME NEW p \in Pos, NEW t \in Text, SetThroughCell(p, t)
      PROVE  Current(cells', cache')
  BY <1>2, <1>4 DEF SetThroughCell
<1>5. ASSUME NEW p \in AnyPos, ClearCell(p)
      PROVE  Current(cells', cache')
  BY <1>1, <1>2, <1>5, SheetAssumption DEF ClearCell, InvalidPosition, Throw
<1>6. ASSUME NEW p \in AnyPos, GetValue(p)
      PROVE  Current(cells', cache')
  <2>1. CASE InvalidPosition
    BY <1>1, <2>1 DEF InvalidPosition, Throw
  <2>2. CASE p \in Pos /\ cache' = CacheAfter({p}) /\ UNCHANGED cells
    BY <2>2, CacheAfterIsCurrent
  <2> QED BY <1>6, <2>1, <2>2 DEF GetValue
<1>7. CASE PrintValues
  <2> DEFINE val == Values(cells, cache)
             printed == {p \in Pos : Exists(p) /\ p.row < size.rows /\ p.col < size.cols}
             throwing == {p \in printed : ThrowsFrom(p, val)}
             seed == {p \in printed : \A q \in throwing : ~PrintedBefore(q, p)}
  <2>1. cache' = CacheAfter(seed) /\ UNCHANGED cells /\ seed \in SUBSET Pos
    BY <1>7 DEF PrintValues
  <2> HIDE DEF seed
  <2> QED BY <2>1, CacheAfterIsCurrent
<1>8. ASSUME NEW f \in Formula, EvaluateFormula(f)
      PROVE  Current(cells', cache')
  BY <1>8, EvaluateFormulaKeepsCurrent
<1>9. CASE UNCHANGED vars
  BY <1>1, <1>9 DEF vars
<1> QED BY <1>3, <1>4, <1>5, <1>6, <1>7, <1>8, <1>9 DEF Next

SheetInv == Table /\ SizeType /\ outcome \in Outcome /\ Current(cells, cache)

\* The whole inductive invariant holds in every state.
LEMMA SheetInvariant == Spec => []SheetInv
<1>1. Init => SheetInv
  BY InitTable DEF SheetInv, Current, Init
<1>2. SheetInv /\ [Next]_vars => SheetInv'
  BY NextKeepsTable, NextKeepsCurrent DEF SheetInv
<1> QED BY <1>1, <1>2, PTL DEF Spec

(***************************************************************************)
(* No sequence of calls leaves a stale result in a cache: what a formula   *)
(* has cached is what evaluating the whole table afresh would give.        *)
(***************************************************************************)
THEOREM CachesNeverStale == Spec => []CachesCurrent
<1>1. SheetInv => CachesCurrent
  BY CachesCurrentIsCurrent DEF SheetInv
<1> QED BY <1>1, SheetInvariant, PTL

(***************************************************************************)
(* The contents.                                                           *)
(***************************************************************************)
\* The content of a slot names the cells that the slot names.
LEMMA ContentsOfSlot ==
  ASSUME NEW cl \in [Pos -> Slot], NEW p \in Pos
  PROVE  /\ Contents(cl)[p] = IF cl[p] \in {Outside, Null} THEN EmptyImpl ELSE cl[p]
         /\ Promised!RefsOf(Contents(cl)[p]) = GetReferencedCells(cl[p])
<1>1. cl[p].kind \in {"outside", "null"} <=> cl[p] \in {Outside, Null}
  BY DEF Slot, EmptyImpl, TextImpl, FormulaImpl, Outside, Null
<1>2. Contents(cl)[p] = IF cl[p] \in {Outside, Null} THEN EmptyImpl ELSE cl[p]
  BY <1>1 DEF Contents
<1>3. CASE cl[p] \in {Outside, Null}
  BY <1>2, <1>3 DEF Promised!RefsOf, GetReferencedCells, IsFormula, EmptyImpl, Outside, Null
<1>4. CASE cl[p] \notin {Outside, Null}
  BY <1>2, <1>4 DEF Promised!RefsOf, GetReferencedCells, IsFormula
<1> QED BY <1>2, <1>3, <1>4

\* A table has a circular dependency if and only if its contents have one.
LEMMA SameAcyclicity ==
  ASSUME NEW cl \in [Pos -> Slot]
  PROVE  Promised!Acyclic(Contents(cl)) <=> Acyclic(cl)
BY ContentsOfSlot DEF Promised!Acyclic, Acyclic

\* The values the contents determine are those of a table without caches.
LEMMA ValuesOfContents ==
  ASSUME NEW cl \in [Pos -> Slot], Acyclic(cl)
  PROVE  Promised!ValuesOf(Contents(cl)) = Values(cl, NoCaches)
<1> DEFINE table == Contents(cl)
           P(f) == f = [p \in Pos |-> Promised!WorthOf(table[p], f)]
           v == Values(cl, NoCaches)
<1>1. /\ v \in [Pos -> Worth]
      /\ \A p \in Pos : v[p] = ValueOf(cl[p], NoCache, v)
  BY IdealValues
<1>2. ASSUME NEW f, NEW p \in Pos
      PROVE  Promised!WorthOf(table[p], f) = ValueOf(cl[p], NoCache, f)
  <2>1. CASE cl[p] \in {Outside, Null}
    <3>1. table[p] = EmptyImpl
      BY <2>1, ContentsOfSlot
    <3> QED BY <2>1, <3>1 DEF ValueOf, Promised!WorthOf, EmptyImpl, Outside, Null
  <2>2. CASE cl[p] \notin {Outside, Null}
    <3>1. table[p] = cl[p]
      BY <2>2, ContentsOfSlot
    <3> HIDE DEF table
    <3> QED BY <3>1 DEF ValueOf, Promised!WorthOf, Operands
  <2> QED BY <2>1, <2>2
<1> HIDE DEF v
<1>3. P(v)
  BY <1>1, <1>2
<1> DEFINE u == Promised!ValuesOf(Contents(cl))
<1>4. u = CHOOSE f : P(f)
  BY DEF Promised!ValuesOf
<1>5. P(u)
  <2> HIDE DEF P, u
  <2> QED BY <1>3, <1>4
<1> HIDE DEF u
<1>6. \A p \in Pos : u[p] = ValueOf(cl[p], NoCache, u)
  BY <1>2, <1>5
<1>7. \A p \in Pos : u[p] = v[p]
  <2>1. Closed(cl, Pos)
    BY ReferencesArePositions DEF Closed
  <2>2. Solves(cl, NoCaches, Pos, u) /\ Solves(cl, NoCaches, Pos, v)
    BY <1>1, <1>6 DEF Solves, NoCaches
  <2> QED BY <2>1, <2>2, SolutionsAgree
<1>8. u = v
  <2>1. u = [p \in Pos |-> u[p]] /\ v = [p \in Pos |-> v[p]]
    BY <1>1, <1>5
  <2> QED BY <1>7, <2>1
<1> QED BY <1>8 DEF u, v

\* What a cell is worth, through the caches, is what the contents say.
LEMMA ValueIsPromised ==
  ASSUME SheetInv
  PROVE  Values(cells, cache) = Promised!ValuesOf(Contents(cells))
<1>1. /\ cells \in [Pos -> Slot]
      /\ cache \in [Pos -> Result \cup {NoCache}]
      /\ Acyclic(cells)
      /\ Current(cells, cache)
  BY DEF SheetInv, Table, NoCircularDependency
<1> QED BY <1>1, CachesAreTransparent, ValuesOfContents

\* CheckCircularDependency refuses nothing but circular dependencies.
LEMMA RefusedIsCircular ==
  ASSUME NEW old \in [Pos -> Slot], NEW new \in [Pos -> Slot], NEW p \in Pos,
         \A q \in Pos \ {p} : GetReferencedCells(new[q]) = GetReferencedCells(old[q]),
         p \in Reach(GetReferencedCells(new[p]), References(old))
  PROVE  ~Acyclic(new)
<1> DEFINE refs(q) == GetReferencedCells(new[q])
           reach(q) == Reach(refs(q), References(old))
           S == {q \in Pos : p \in reach(q)}
<1>1. ASSUME NEW q \in Pos
      PROVE  /\ refs(q) \in SUBSET Pos
             /\ reach(q) \in SUBSET Pos
             /\ refs(q) \subseteq reach(q)
             /\ \A x \in reach(q) : References(old)[x] \subseteq reach(q)
  <2>1. refs(q) \in SUBSET Pos
    BY ReferencesArePositions
  <2> QED BY <2>1, ReferencesType, ReachIsClosure
<1>2. \A x \in Pos \ {p} : References(old)[x] = refs(x)
  BY DEF References
<1>3. p \in S
  OBVIOUS
<1> HIDE DEF refs, reach
<1>4. ASSUME NEW q \in S, refs(q) \cap S = {} PROVE FALSE
  <2> DEFINE R == {x \in reach(q) : x # p /\ x \notin S}
  <2>1. q \in Pos /\ p \in reach(q)
    OBVIOUS
  <2>2. refs(q) \subseteq R
    BY <1>1, <1>3, <1>4, <2>1
  <2>3. ASSUME NEW x \in R, NEW y \in References(old)[x]
        PROVE  y \in R
    <3>1. x \in Pos /\ x # p /\ p \notin reach(x) /\ x \in reach(q)
      BY <1>1, <2>1
    <3>2. y \in refs(x) /\ y \in reach(q) /\ y \in Pos
      BY <1>1, <1>2, <2>1, <2>3, <3>1
    <3>3. y \in reach(x) /\ y # p
      BY <1>1, <3>1, <3>2
    <3>4. refs(y) \subseteq reach(x)
      BY <1>1, <1>2, <3>1, <3>2, <3>3
    <3>5. reach(y) \subseteq reach(x)
      <4>1. reach(x) \in SUBSET Pos /\ \A z \in reach(x) : References(old)[z] \subseteq reach(x)
        BY <1>1, <3>1
      <4> QED BY <4>1, <3>4, ReachIsLeast DEF reach
    <3>6. y \notin S
      BY <3>1, <3>5
    <3> QED BY <3>2, <3>3, <3>6
  <2>4. R \in SUBSET Pos
    BY <1>1, <2>1
  <2> HIDE DEF R
  <2>5. reach(q) \subseteq R
    BY <2>2, <2>3, <2>4, ReachIsLeast DEF reach
  <2> QED BY <2>1, <2>5 DEF R
<1>5. S \in SUBSET Pos /\ S # {}
  BY <1>3
<1> HIDE DEF S
<1> QED BY <1>4, <1>5 DEF Acyclic, refs

\* A text means the same content to the caller and to Cell::Set.
LEMMA ContentOfText ==
  ASSUME NEW t \in Text
  PROVE  Promised!ContentOf(t) = ImplOf(t)
BY DEF Promised!ContentOf, Promised!Empty, ImplOf, EmptyImpl, FormulaImpl, TextImpl

\* What Store writes is one change of the contents.
LEMMA StoreChangesOneContent ==
  ASSUME Table, NEW p \in Pos, NEW impl \in Slot \ {Outside, Null}, Store(p, impl)
  PROVE  Contents(cells') = [Contents(cells) EXCEPT ![p] = impl]
<1> DEFINE refs == GetReferencedCells(impl)
           added == {q \in refs \cup {p} : ~Exists(q)}
<1>1. added \in SUBSET Pos /\ \A s \in added : ~Exists(s)
  BY ReferencesArePositions
<1>2. /\ WithCells(added) \in [Pos -> Slot]
      /\ \A q \in Pos :
           /\ Exists(q) => WithCells(added)[q] = cells[q]
           /\ ~Exists(q) => WithCells(added)[q] \in {Outside, Null, EmptyImpl}
  <2> HIDE DEF added
  <2> QED BY <1>1, WithCellsAdds
<1>3. cells' = [WithCells(added) EXCEPT ![p] = impl]
  BY DEF Store
<1> HIDE DEF refs, added
<1>4. impl.kind \notin {"outside", "null"}
  BY DEF Slot, EmptyImpl, TextImpl, FormulaImpl
<1>5. ASSUME NEW q \in Pos
      PROVE  Contents(cells')[q] = [Contents(cells) EXCEPT ![p] = impl][q]
  <2>1. CASE q = p
    BY <2>1, <1>2, <1>3, <1>4 DEF Contents
  <2>2. CASE q # p /\ Exists(q)
    BY <2>2, <1>2, <1>3 DEF Contents, Exists
  <2>3. CASE q # p /\ ~Exists(q)
    BY <2>3, <1>2, <1>3 DEF Contents, Exists, EmptyImpl, Outside, Null
  <2> QED BY <2>1, <2>2, <2>3
<1> QED BY <1>5 DEF Contents

\* The empty table maps to the empty contents.
LEMMA InitIsPromised ==
  ASSUME Init
  PROVE  Promised!Init
<1>1. Table
  BY InitTable
<1>2. /\ Values(cells, cache) \in [Pos -> Worth]
      /\ \A p \in Pos : Values(cells, cache)[p] = ValueOf(cells[p], cache[p], Values(cells, cache))
  BY <1>1, ValuesDefined DEF Table, NoCircularDependency
<1>3. \A p \in Pos : cells[p] = Outside
  BY DEF Init
<1>4. \A p \in Pos : Values(cells, cache)[p] = Zero
  BY <1>2, <1>3 DEF ValueOf, Outside
<1>5. Values(cells, cache) = [p \in Pos |-> Zero]
  <2> DEFINE val == Values(cells, cache)
  <2>1. val \in [Pos -> Worth] /\ \A p \in Pos : val[p] = Zero
    BY <1>2, <1>4
  <2> HIDE DEF val
  <2>2. val = [p \in Pos |-> Zero]
    BY <2>1
  <2> QED BY <2>2 DEF val
<1>6. Contents(cells) = [p \in Pos |-> Promised!Empty]
  BY <1>3 DEF Contents, Outside, EmptyImpl, Promised!Empty
<1> QED BY <1>5, <1>6 DEF Promised!Init, Init

\* A call that throws, or returns having changed nothing.
LEMMA ThrowIsPromised ==
  ASSUME NEW e, Throw(e)
  PROVE  Promised!Throw(e)
BY DEF Throw, Promised!Throw

\* Cell::Set, however it ends, is one step of the contents.
LEMMA CellSetIsPromised ==
  ASSUME SheetInv, SheetInv', NEW p \in Pos, NEW t \in Text, CellSet(p, t)
  PROVE  Promised!Set(p, t)
<1> DEFINE table == [Contents(cells) EXCEPT ![p] = Promised!ContentOf(t)]
<1>1. cells \in [Pos -> Slot] /\ cells' \in [Pos -> Slot] /\ Acyclic(cells')
  BY DEF SheetInv, Table, NoCircularDependency
<1>2. CASE t \in FormulaText /\ ParseOutcome(t) # "ok" /\ Throw(ParseOutcome(t))
  BY <1>2, ThrowIsPromised DEF Promised!Set
<1>3. CASE /\ t \in FormulaText /\ ParseOutcome(t) = "ok"
           /\ IsCircular(p, Refs(Parse(t)))
           /\ Throw("CircularDependencyException")
  <2> DEFINE new == [cells EXCEPT ![p] = ImplOf(t)]
  <2>1. /\ ImplOf(t) \in Slot \ {Outside, Null}
        /\ GetReferencedCells(ImplOf(t)) = Refs(Parse(t))
    BY <1>3, ImplOfText
  <2>2. /\ new \in [Pos -> Slot] /\ new[p] = ImplOf(t)
        /\ \A q \in Pos \ {p} : new[q] = cells[q]
    BY <1>1, <2>1
  <2>3. ~Acyclic(new)
    BY <1>1, <1>3, <2>1, <2>2, RefusedIsCircular DEF IsCircular
  <2>4. Contents(new) = table
    <3>1. Promised!ContentOf(t) = ImplOf(t)
      BY ContentOfText
    <3>2. ImplOf(t).kind \notin {"outside", "null"}
      BY <2>1 DEF Slot, EmptyImpl, TextImpl, FormulaImpl
    <3> HIDE DEF new
    <3> QED BY <2>2, <3>1, <3>2 DEF Contents
  <2>5. ~Promised!Acyclic(table)
    <3> HIDE DEF new, table
    <3> QED BY <2>2, <2>3, <2>4, SameAcyclicity
  <2> QED BY <1>3, <2>5, ThrowIsPromised DEF Promised!Set
<1>4. CASE /\ t \in FormulaText =>
                ParseOutcome(t) = "ok" /\ ~IsCircular(p, Refs(Parse(t)))
           /\ Store(p, ImplOf(t))
  <2>1. Contents(cells') = table
    BY <1>4, ImplOfText, ContentOfText, StoreChangesOneContent DEF SheetInv
  <2>2. Promised!Acyclic(Contents(cells'))
    BY <1>1, SameAcyclicity
  <2>3. Values(cells', cache') = Promised!ValuesOf(Contents(cells'))
    <3>1. /\ cells' \in [Pos -> Slot]
          /\ cache' \in [Pos -> Result \cup {NoCache}]
          /\ Acyclic(cells')
          /\ Current(cells', cache')
      BY DEF SheetInv, Table, NoCircularDependency
    <3> QED BY <3>1, CachesAreTransparent, ValuesOfContents
  <2>4. outcome' = "ok"
    BY <1>4 DEF Store
  <2> HIDE DEF table
  <2> QED BY <1>4, <2>1, <2>2, <2>3, <2>4 DEF Promised!Set, table
<1> QED BY <1>2, <1>3, <1>4 DEF CellSet

\* A call that leaves the contents alone is a read of them.
LEMMA EvaluationIsPromised ==
  ASSUME SheetInv, SheetInv',
         \/ outcome' = "ok"
         \/ outcome' = "out_of_range" /\ \E p \in Pos : Values(cells, cache)[p] = Thrown,
         Contents(cells') = Contents(cells)
  PROVE  Promised!Read
<1>1. Values(cells, cache) = Promised!ValuesOf(Contents(cells))
  BY ValueIsPromised
<1>2. Values(cells', cache') = Promised!ValuesOf(Contents(cells'))
  <2>1. /\ cells' \in [Pos -> Slot]
        /\ cache' \in [Pos -> Result \cup {NoCache}]
        /\ Acyclic(cells')
        /\ Current(cells', cache')
    BY DEF SheetInv, Table, NoCircularDependency
  <2> QED BY <2>1, CachesAreTransparent, ValuesOfContents
<1> QED BY <1>1, <1>2 DEF Promised!Read

\* The cells that an evaluation adds to the table change no content.
LEMMA EvaluateFormulaKeepsContents ==
  ASSUME Table, NEW f \in Formula, EvaluateFormula(f)
  PROVE  Contents(cells') = Contents(cells)
<1> DEFINE val == Values(cells, cache)
           asked == Reads(f, Operands(f, val))
           added == {p \in asked : ~Exists(p)}
<1>1. asked \in SUBSET Pos
  <2>1. val \in [Pos -> Worth]
    BY ValuesDefined DEF Table, NoCircularDependency
  <2> HIDE DEF val
  <2> QED BY <2>1, OperandsType
<1>2. cells' = WithCells(added)
  BY DEF EvaluateFormula
<1> HIDE DEF asked
<1>3. added \in SUBSET Pos /\ \A s \in added : ~Exists(s)
  BY <1>1
<1> HIDE DEF added
<1>4. \A q \in Pos : /\ Exists(q) => cells'[q] = cells[q]
                     /\ ~Exists(q) => cells'[q] \in {Outside, Null, EmptyImpl}
  BY <1>2, <1>3, WithCellsAdds
<1> QED BY <1>4 DEF Contents, Exists, Outside, Null, EmptyImpl

\* Every call is a step of the contents, or none.
LEMMA NextIsPromised ==
  ASSUME SheetInv, SheetInv', [Next]_vars
  PROVE  [Promised!Next]_(Promised!vars)
<1>1. ASSUME NEW p \in Pos, NEW t \in Text, CellSet(p, t)
      PROVE  Promised!Next
  BY <1>1, CellSetIsPromised DEF Promised!Next
<1>2. ASSUME Throw("ok")
      PROVE  Promised!Next
  BY <1>2 DEF Throw, Promised!Next, Promised!Read
<1>3. ASSUME InvalidPosition
      PROVE  Promised!Next
  BY <1>3, ThrowIsPromised DEF InvalidPosition, Promised!Next, Promised!InvalidPosition
<1>4. ASSUME NEW p \in AnyPos, NEW t \in Text, SetCell(p, t)
      PROVE  Promised!Next
  BY <1>1, <1>2, <1>3, <1>4 DEF SetCell, SetExistingCell, SetNewCell
<1>5. ASSUME NEW p \in Pos, NEW t \in Text, SetThroughCell(p, t)
      PROVE  Promised!Next
  BY <1>1, <1>5 DEF SetThroughCell
<1>6. ASSUME NEW p \in AnyPos, ClearCell(p)
      PROVE  Promised!Next
  <2>1. CASE p \in Pos /\ cells[p] = Null /\ Throw("crash")
    <3>1. Contents(cells)[p] = Promised!Empty
      BY <2>1 DEF Contents, Null, EmptyImpl, Promised!Empty
    <3>2. Promised!Crash(p)
      BY <2>1, <3>1, ThrowIsPromised DEF Promised!Crash
    <3> QED BY <2>1, <3>2 DEF Promised!Next
  <2> QED BY <1>1, <1>2, <1>3, <1>6, <2>1, SheetAssumption DEF ClearCell
<1>7. ASSUME NEW p \in AnyPos, GetValue(p)
      PROVE  Promised!Next
  <2>1. CASE p \in Pos /\ ~InvalidPosition
    <3>1. outcome' \in {"ok", "out_of_range"} /\ UNCHANGED cells
      BY <1>7, <2>1 DEF GetValue
    <3>2. outcome' = "out_of_range" => Values(cells, cache)[p] = Thrown
      BY <1>7, <2>1 DEF GetValue, ThrowsFrom
    <3> QED BY <2>1, <3>1, <3>2, EvaluationIsPromised DEF Promised!Next
  <2> QED BY <1>3, <1>7, <2>1 DEF GetValue
<1>8. CASE PrintValues
  <2>1. outcome' \in {"ok", "out_of_range"} /\ UNCHANGED cells
    BY <1>8 DEF PrintValues
  <2>2. outcome' = "out_of_range" => \E p \in Pos : Values(cells, cache)[p] = Thrown
    <3> DEFINE val == Values(cells, cache)
               printed == {p \in Pos : Exists(p) /\ p.row < size.rows /\ p.col < size.cols}
               throwing == {p \in printed : ThrowsFrom(p, val)}
    <3>1. outcome' = IF throwing = {} THEN "ok" ELSE "out_of_range"
      BY <1>8 DEF PrintValues
    <3>2. throwing # {} => \E p \in Pos : val[p] = Thrown
      BY DEF ThrowsFrom
    <3> HIDE DEF throwing, val
    <3>3. outcome' = "out_of_range" => throwing # {}
      BY <3>1
    <3> QED BY <3>2, <3>3 DEF val
  <2> QED BY <2>1, <2>2, EvaluationIsPromised DEF Promised!Next
<1>9. ASSUME NEW f \in Formula, EvaluateFormula(f)
      PROVE  Promised!Next
  <2>1. Contents(cells') = Contents(cells)
    BY <1>9, EvaluateFormulaKeepsContents DEF SheetInv
  <2> DEFINE val == Values(cells, cache)
             v == Operands(f, val)
  <2>2. outcome' = IF Exec(f, v) = Thrown THEN "out_of_range" ELSE "ok"
    BY <1>9 DEF EvaluateFormula
  <2>3. val \in [Pos -> Worth]
    BY ValuesDefined DEF SheetInv, Table, NoCircularDependency
  <2> HIDE DEF val
  <2>4. /\ v \in [Refs(f) -> Worth] /\ Reads(f, v) \subseteq Refs(f) /\ Refs(f) \subseteq Pos
        /\ \A r \in Refs(f) : v[r] = val[r]
    BY <2>3, OperandsType DEF Operands
  <2> HIDE DEF v
  <2>5. Exec(f, v) = Thrown => \E r \in Reads(f, v) : v[r] = Thrown
    BY <2>4, FormulaAssumption
  <2>6. Exec(f, v) = Thrown => \E p \in Pos : val[p] = Thrown
    BY <2>4, <2>5
  <2> QED BY <2>1, <2>2, <2>6, EvaluationIsPromised DEF Promised!Next, val
<1>10. CASE UNCHANGED vars
  BY <1>10 DEF vars, Promised!vars
<1> QED BY <1>4, <1>5, <1>6, <1>7, <1>8, <1>9, <1>10 DEF Next

(***************************************************************************)
(* Whatever the calls, a caller cannot tell Sheet from its contents: each  *)
(* call changes one content, or refuses with the exception common.h names  *)
(* and changes nothing, and every cell is worth what the contents make it. *)
(***************************************************************************)
THEOREM SheetImplementsContents == Spec => ImplementsContents
<1>1. Init => Promised!Init
  BY InitIsPromised
<1>2. SheetInv /\ SheetInv' /\ [Next]_vars => [Promised!Next]_(Promised!vars)
  BY NextIsPromised
<1> QED BY <1>1, <1>2, SheetInvariant, PTL DEF Spec, ImplementsContents, Promised!Spec

(***************************************************************************)
(* The size of the printed area.                                           *)
(***************************************************************************)
\* RecalculateSize is exact.
LEMMA BoundingSizeIsExact ==
  ASSUME NEW cl, NEW sz, sz = BoundingSize(cl)
  PROVE  /\ \A p \in Pos : HasText(cl[p]) => p.row < sz.rows /\ p.col < sz.cols
         /\ sz.rows > 0 => \E p \in Pos : HasText(cl[p]) /\ p.row + 1 = sz.rows
         /\ sz.cols > 0 => \E p \in Pos : HasText(cl[p]) /\ p.col + 1 = sz.cols
<1> DEFINE filled == {p \in Pos : HasText(cl[p])}
           R == {0} \cup {p.row + 1 : p \in filled}
           C == {0} \cup {p.col + 1 : p \in filled}
<1>1. MaxRows \in Nat /\ MaxCols \in Nat
  BY SheetAssumption
<1>2. R \subseteq 0 .. MaxRows /\ R # {} /\ C \subseteq 0 .. MaxCols /\ C # {}
  BY <1>1 DEF Pos, Row, Col
<1>3. /\ Max(R) \in R /\ \A n \in R : n <= Max(R)
      /\ Max(C) \in C /\ \A n \in C : n <= Max(C)
  <2> HIDE DEF R, C
  <2> QED BY <1>1, <1>2, MaxOfBoundedSet
<1>4. sz.rows = Max(R) /\ sz.cols = Max(C)
  BY DEF BoundingSize
<1>5. ASSUME NEW p \in Pos, HasText(cl[p])
      PROVE  p.row < sz.rows /\ p.col < sz.cols
  <2>1. p.row + 1 \in R /\ p.col + 1 \in C
    BY <1>5
  <2>2. p.row + 1 <= sz.rows /\ p.col + 1 <= sz.cols
    BY <1>3, <1>4, <2>1
  <2>3. p.row \in Int /\ p.col \in Int /\ sz.rows \in Int /\ sz.cols \in Int
    BY <1>2, <1>3, <1>4, SheetAssumption DEF Pos, Row, Col
  <2> HIDE DEF R, C
  <2> QED BY <2>2, <2>3
<1>6. sz.rows \in R /\ sz.cols \in C
  BY <1>3, <1>4
<1>7. sz.rows > 0 => \E p \in Pos : HasText(cl[p]) /\ p.row + 1 = sz.rows
  BY <1>6
<1>8. sz.cols > 0 => \E p \in Pos : HasText(cl[p]) /\ p.col + 1 = sz.cols
  BY <1>6
<1> QED BY <1>5, <1>7, <1>8

\* Which cells have a text after a call of Cell::Set that stored one.
LEMMA TextsAfterStore ==
  ASSUME Table, NEW p \in Pos, NEW impl \in Slot \ {Outside, Null}, Store(p, impl)
  PROVE  \A q \in Pos : HasText(cells'[q]) <=> IF q = p THEN HasText(impl) ELSE HasText(cells[q])
<1> DEFINE refs == GetReferencedCells(impl)
           added == {q \in refs \cup {p} : ~Exists(q)}
<1>1. added \in SUBSET Pos /\ \A s \in added : ~Exists(s)
  BY ReferencesArePositions
<1>2. /\ WithCells(added) \in [Pos -> Slot]
      /\ \A q \in Pos :
           /\ Exists(q) => WithCells(added)[q] = cells[q]
           /\ ~Exists(q) => WithCells(added)[q] \in {Outside, Null, EmptyImpl}
  <2> HIDE DEF added
  <2> QED BY <1>1, WithCellsAdds
<1>3. cells' = [WithCells(added) EXCEPT ![p] = impl]
  BY DEF Store
<1> HIDE DEF refs, added
<1>4. \A q \in Pos : ~Exists(q) => ~HasText(cells[q])
  BY DEF Exists, HasText
<1>5. \A c \in {Outside, Null, EmptyImpl} : ~HasText(c)
  BY DEF Outside, Null, EmptyImpl, HasText
<1> HIDE DEF HasText, Exists
<1> QED BY <1>2, <1>3, <1>4, <1>5

\* The size stays right if no cell gets a text or loses one.
LEMMA SameTextsSameExactness ==
  ASSUME UNCHANGED size, \A q \in Pos : HasText(cells'[q]) <=> HasText(cells[q])
  PROVE  SizeIsExact => SizeIsExact'
<1> HIDE DEF HasText
<1> QED BY DEF SizeIsExact, EveryTextIsPrinted

\* Cell::Set gives or takes a text at its own cell only.
LEMMA CellSetTexts ==
  ASSUME Table, NEW p \in Pos, NEW t \in Text, CellSet(p, t)
  PROVE  \/ outcome' # "ok" /\ UNCHANGED cells
         \/ /\ outcome' = "ok"
            /\ \A q \in Pos : HasText(cells'[q]) <=> IF q = p THEN t # EmptyText ELSE HasText(cells[q])
<1>1. CASE t \in FormulaText /\ ParseOutcome(t) # "ok" /\ Throw(ParseOutcome(t))
  BY <1>1 DEF Throw
<1>2. CASE Throw("CircularDependencyException")
  BY <1>2 DEF Throw
<1>3. CASE /\ t \in FormulaText => ParseOutcome(t) = "ok"
           /\ Store(p, ImplOf(t))
  <2>1. ImplOf(t) \in Slot \ {Outside, Null} /\ (HasText(ImplOf(t)) <=> t # EmptyText)
    BY <1>3, ImplOfText
  <2>2. outcome' = "ok"
    BY <1>3 DEF Store
  <2> QED BY <1>3, <2>1, <2>2, TextsAfterStore
<1> QED BY <1>1, <1>2, <1>3 DEF CellSet

\* SetCell on a cell that was not there keeps the size exact.
LEMMA SetNewCellKeepsSizeExact ==
  ASSUME Table, SizeType, SizeIsExact, NEW p \in Pos, NEW t \in Text, SetNewCell(p, t)
  PROVE  SizeIsExact'
<1>1. CellSet(p, t) /\ ~HasText(cells[p])
  BY DEF SetNewCell, Exists, HasText
<1>2. CASE outcome' # "ok" /\ UNCHANGED cells
  BY <1>2, SameTextsSameExactness DEF SetNewCell
<1>3. CASE /\ outcome' = "ok"
           /\ \A q \in Pos : HasText(cells'[q]) <=> IF q = p THEN t # EmptyText ELSE HasText(cells[q])
  <2>1. CASE t = EmptyText
    <3>1. \A q \in Pos : HasText(cells'[q]) <=> HasText(cells[q])
      BY <1>1, <1>3, <2>1
    <3> QED BY <2>1, <3>1, SameTextsSameExactness DEF SetNewCell
  <2>2. CASE t # EmptyText
    <3>1. size' = SizeWith(p)
      BY <1>3, <2>2 DEF SetNewCell
    <3>2. /\ size'.rows = IF p.row + 1 > size.rows THEN p.row + 1 ELSE size.rows
          /\ size'.cols = IF p.col + 1 > size.cols THEN p.col + 1 ELSE size.cols
      BY <3>1 DEF SizeWith
    <3>3. \A q \in Pos : q.row \in Nat /\ q.col \in Nat
      BY SheetAssumption DEF Pos, Row, Col
    <3>4. size.rows \in Nat /\ size.cols \in Nat
      BY SheetAssumption DEF SizeType
    <3>5. \A q \in Pos : HasText(cells'[q]) <=> (q = p \/ HasText(cells[q]))
      BY <1>3, <2>2
    <3>6. \A q \in Pos : HasText(cells[q]) => q.row < size.rows /\ q.col < size.cols
      BY DEF SizeIsExact, EveryTextIsPrinted
    <3>7. \A q \in Pos : HasText(cells'[q]) => q.row < size'.rows /\ q.col < size'.cols
      <4> HIDE DEF HasText
      <4> QED BY <3>2, <3>3, <3>4, <3>5, <3>6
    <3>8. size'.rows > 0 => \E q \in Pos : HasText(cells'[q]) /\ q.row + 1 = size'.rows
      <4> HIDE DEF HasText
      <4> QED BY <3>2, <3>5 DEF SizeIsExact
    <3>9. size'.cols > 0 => \E q \in Pos : HasText(cells'[q]) /\ q.col + 1 = size'.cols
      <4> HIDE DEF HasText
      <4> QED BY <3>2, <3>5 DEF SizeIsExact
    <3> QED BY <3>7, <3>8, <3>9 DEF SizeIsExact, EveryTextIsPrinted
  <2> QED BY <2>1, <2>2
<1> QED BY <1>1, <1>2, <1>3, CellSetTexts

\* RecalculateSize makes the size exact whatever it was.
LEMMA RecalculatedSizeIsExact ==
  ASSUME size' = BoundingSize(cells')
  PROVE  SizeIsExact'
<1> HIDE DEF HasText
<1> QED BY BoundingSizeIsExact DEF SizeIsExact, EveryTextIsPrinted

\* A cell inside the area can be cleared without looking at the others.
LEMMA ClearCellKeepsSizeExact ==
  ASSUME Table, SizeType, SizeIsExact, NEW p \in Pos, ClearCell(p)
  PROVE  SizeIsExact'
<1>1. CASE UNCHANGED <<cells, size>>
  BY <1>1, SameTextsSameExactness
<1>2. CASE CellSet(p, EmptyText) /\ size' = BoundingSize(cells')
  BY <1>2, RecalculatedSizeIsExact
<1>3. CASE /\ CellSet(p, EmptyText) /\ UNCHANGED size
           /\ p.row + 1 # size.rows /\ p.col + 1 # size.cols
  <2>1. EmptyText \in Text
    BY SheetAssumption
  <2>2. CASE UNCHANGED cells
    BY <1>3, <2>2, SameTextsSameExactness
  <2>3. CASE \A q \in Pos : HasText(cells'[q]) <=> (q # p /\ HasText(cells[q]))
    <3> HIDE DEF HasText
    <3> QED BY <1>3, <2>3 DEF SizeIsExact, EveryTextIsPrinted
  <2> QED BY <1>3, <2>1, <2>2, <2>3, CellSetTexts
<1> QED BY <1>1, <1>2, <1>3 DEF ClearCell, InvalidPosition, Throw

\* Every call but an overwrite keeps the size exact.
LEMMA StepKeepsSizeExact ==
  ASSUME SheetInv, Next
  PROVE  SizeIsExact => \/ SizeIsExact'
                        \/ ~cleared' /\ \E p \in Pos, t \in Text : Overwrite(p, t)
<1> SUFFICES ASSUME SizeIsExact
             PROVE  \/ SizeIsExact'
                    \/ ~cleared' /\ \E p \in Pos, t \in Text : Overwrite(p, t)
  OBVIOUS
<1>1. Table /\ SizeType
  BY DEF SheetInv
<1>2. ASSUME UNCHANGED <<cells, size>>
      PROVE  SizeIsExact'
  BY <1>2, SameTextsSameExactness
<1>3. ASSUME NEW p \in AnyPos, NEW t \in Text, SetCell(p, t)
      PROVE  SizeIsExact' \/ \E q \in Pos, s \in Text : Overwrite(q, s)
  <2>1. CASE InvalidPosition
    BY <1>2, <2>1 DEF InvalidPosition, Throw
  <2>2. CASE p \in Pos /\ SetExistingCell(p, t)
    BY <2>2 DEF Overwrite
  <2>3. CASE p \in Pos /\ SetNewCell(p, t)
    BY <1>1, <2>3, SetNewCellKeepsSizeExact
  <2> QED BY <1>3, <2>1, <2>2, <2>3 DEF SetCell
<1>4. ASSUME NEW p \in Pos, NEW t \in Text, SetThroughCell(p, t)
      PROVE  Overwrite(p, t)
  BY <1>4 DEF Overwrite
<1>5. ASSUME NEW p \in AnyPos, ClearCell(p)
      PROVE  SizeIsExact'
  <2>1. CASE p \in Pos
    BY <1>1, <1>5, <2>1, ClearCellKeepsSizeExact
  <2>2. CASE p \notin Pos
    BY <1>2, <1>5, <2>2 DEF ClearCell, InvalidPosition, Throw
  <2> QED BY <2>1, <2>2
<1>6. ASSUME NEW p \in AnyPos, GetValue(p)
      PROVE  SizeIsExact'
  <2>1. UNCHANGED <<cells, size>>
    BY <1>6 DEF GetValue, InvalidPosition, Throw
  <2> QED BY <1>2, <2>1
<1>7. CASE PrintValues
  <2>1. UNCHANGED <<cells, size>>
    BY <1>7 DEF PrintValues
  <2> QED BY <1>2, <2>1
<1>8. ASSUME NEW f \in Formula, EvaluateFormula(f)
      PROVE  SizeIsExact'
  <2>1. Contents(cells') = Contents(cells) /\ UNCHANGED size
    BY <1>1, <1>8, EvaluateFormulaKeepsContents DEF EvaluateFormula
  <2>2. ASSUME NEW q \in Pos
        PROVE  /\ HasText(cells[q]) <=> HasText(Contents(cells)[q])
               /\ HasText(cells'[q]) <=> HasText(Contents(cells')[q])
    BY DEF HasText, Contents, EmptyImpl
  <2> QED BY <2>1, <2>2, SameTextsSameExactness
<1> QED BY <1>3, <1>4, <1>5, <1>6, <1>7, <1>8 DEF Next

(***************************************************************************)
(* The printed area is the bounding rectangle of the cells with a text     *)
(* after every call but the overwriting of a cell that was already there:  *)
(* the one case in which common.h is not kept to.                          *)
(***************************************************************************)
THEOREM OnlyOverwritingLosesTheSize == Spec => SizeStaysExact
<1>1. SheetInv /\ [Next]_vars
        => [SizeIsExact => \/ SizeIsExact'
                           \/ ~cleared' /\ \E p \in Pos, t \in Text : Overwrite(p, t)]_vars
  BY StepKeepsSizeExact
<1> QED BY <1>1, SheetInvariant, PTL DEF Spec, SizeStaysExact

(***************************************************************************)
(* Clearing a text of the last row or column makes the size right, even if *)
(* overwriting had made it wrong.                                          *)
(***************************************************************************)
THEOREM BorderClearRepairsTheSize == Spec => BorderClearMakesSizeExact
<1>1. ASSUME SheetInv, Next, NEW p \in Pos, cleared', HasText(cells[p]), ~HasText(cells'[p]),
             p.row + 1 = size.rows \/ p.col + 1 = size.cols
      PROVE  SizeIsExact'
  <2>1. PICK q \in AnyPos : ClearCell(q)
    BY <1>1 DEF Next
  <2>2. cells' # cells
    BY <1>1
  <2>3. /\ q \in Pos /\ CellSet(q, EmptyText)
        /\ size' = IF q.row + 1 = size.rows \/ q.col + 1 = size.cols
                   THEN BoundingSize(cells')
                   ELSE size
    BY <2>1, <2>2 DEF ClearCell, InvalidPosition, Throw
  <2>4. EmptyText \in Text /\ Table
    BY <1>1, SheetAssumption DEF SheetInv
  <2>5. q = p
    <3> HIDE DEF HasText
    <3> QED BY <1>1, <2>2, <2>3, <2>4, CellSetTexts
  <2> QED BY <1>1, <2>3, <2>5, RecalculatedSizeIsExact
<1>2. SheetInv /\ [Next]_vars
        => [\A p \in Pos :
              /\ cleared' /\ HasText(cells[p]) /\ ~HasText(cells'[p])
              /\ p.row + 1 = size.rows \/ p.col + 1 = size.cols
              => SizeIsExact']_vars
  BY <1>1
<1> QED BY <1>2, SheetInvariant, PTL DEF Spec, BorderClearMakesSizeExact
=============================================================================
