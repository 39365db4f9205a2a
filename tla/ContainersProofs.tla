-------------------------- MODULE ContainersProofs --------------------------
(***************************************************************************)
(* Proofs about the containers of MCContainers, for any number of them,    *)
(* any memory and any element values.                                      *)
(*                                                                         *)
(* Vector.  VectorInv says what the memory of a vector holds: an object in *)
(* each slot below its size and, if the elements can be assigned by move   *)
(* without a throw, in no other.  With it each step is a step on the       *)
(* sequences of VectorContents, for elements of any type.                  *)
(*                                                                         *)
(* SinglyLinkedList.  Its code has pointers only: next_node of each node,  *)
(* and a head.  The invariant (ListInv) says that from each head they make *)
(* a chain that holds no node twice, as long as size_, that no two chains  *)
(* share a node, and that what is allocated is in a chain or strayed.      *)
(* Every call is shown to make chains of chains, and what stands in them   *)
(* is what the abstract list holds.                                        *)
(*                                                                         *)
(* SimpleVector.  Each array has as many slots as its room, and capacity_  *)
(* is that, or 0 behind a move that failed (SimpleInv).                    *)
(*                                                                         *)
(* Optional.  The marks are only compared with what is there (Truthful).   *)
(***************************************************************************)
EXTENDS MCContainers, FiniteSetTheorems, SequenceTheorems, WellFoundedInduction, TLAPS

(***************************************************************************)
(* Vector.                                                                 *)
(***************************************************************************)
\* A memory of n slots that holds k elements, and holds nothing else while
\* the count of objects agrees.
Good(m, n, k) ==
  /\ n \in Size /\ m \in Memory(n) /\ k \in 0 .. n
  /\ \A i \in 0 .. k - 1 : m[i] # Raw
Tight(m, n, k, objects) ==
  objects = k /\ \A i \in k .. n - 1 : m[i] = Raw

Owned(v) ==
  IF Exists(v)
  THEN \E n \in Size : /\ Good(data[v], n, size[v])
                       /\ ~T.assign_may_throw => Tight(data[v], n, size[v], alive[v])
  ELSE size[v] = 0 /\ (~T.assign_may_throw => alive[v] = 0)

VectorInv ==
  /\ T \in ElementType /\ outcome \in {"ok", "exception"}
  /\ data \in [Vec -> {None} \cup UNION {Memory(n) : n \in Size}]
  /\ size \in [Vec -> Nat] /\ alive \in [Vec -> Int]
  /\ \A v \in Vec : Owned(v)

LEMMA GoodMemory ==
  ASSUME NEW m, NEW n, NEW k, Good(m, n, k)
  PROVE  /\ n \in Nat /\ n \in Size /\ k \in 0 .. n
         /\ DOMAIN m = 0 .. n - 1 /\ m \in [0 .. n - 1 -> Element \cup {Raw}]
         /\ \A i \in 0 .. n - 1 : m[i] \in Element \cup {Raw}
         /\ \A i \in 0 .. k - 1 : i \in 0 .. n - 1 /\ m[i] \in Element \cup {Raw} /\ m[i] # Raw
<1>1. n \in Nat /\ n \in Size /\ k \in 0 .. n
  BY VectorAssumption DEF Good, Size
<1>2. 0 + n - 1 = n - 1
  BY <1>1
<1>3. m \in [0 .. n - 1 -> Element \cup {Raw}]
  BY <1>2 DEF Good, Memory, From
<1>4. \A i \in 0 .. k - 1 : i \in 0 .. n - 1
  BY <1>1
<1> QED BY <1>1, <1>3, <1>4 DEF Good

\* The capacity of a vector is the number of slots of its memory.
LEMMA CapacityOfMemory ==
  ASSUME NEW v \in Vec, NEW n \in Nat, data[v] \in Memory(n)
  PROVE  Capacity(v) = n
<1>1. DOMAIN data[v] = 0 .. n - 1
  BY DEF Memory, From
<1>2. Cardinality(0 .. n - 1) = n
  BY FS_Interval
<1> QED BY <1>1, <1>2 DEF Capacity

\* A call that returns keeps the invariant, and the vector in its lifetime, if
\* what it returns is good.
LEMMA ReturnKeeps ==
  ASSUME VectorInv, NEW v \in Vec, NEW m, NEW n, NEW k, NEW objects \in Int,
         Good(m, n, k), ~T.assign_may_throw => Tight(m, n, k, objects),
         Return(v, m, k, objects)
  PROVE  VectorInv' /\ Exists(v)'
<1>1. k \in Nat /\ n \in Size
  BY VectorAssumption DEF Good, Size
<1>2. m \in UNION {Memory(i) : i \in Size} /\ m # None
  BY NoneAssumption DEF Good
<1>3. data' \in [Vec -> {None} \cup UNION {Memory(i) : i \in Size}]
  BY <1>2 DEF VectorInv, Return
<1>4. size' \in [Vec -> Nat] /\ alive' \in [Vec -> Int] /\ T' = T /\ outcome' = "ok"
  BY <1>1 DEF VectorInv, Return
<1>5. data'[v] = m /\ size'[v] = k /\ alive'[v] = objects
  BY DEF VectorInv, Return
<1>6. ASSUME NEW w \in Vec PROVE Owned(w)'
  <2>1. CASE w = v
    BY <2>1, <1>1, <1>2, <1>4, <1>5 DEF Owned, Exists, Good, Tight
  <2>2. CASE w # v
    <3>1. data'[w] = data[w] /\ size'[w] = size[w] /\ alive'[w] = alive[w]
      BY <2>2 DEF VectorInv, Return
    <3> QED BY <3>1, <1>4 DEF VectorInv, Owned, Exists, Good, Tight
  <2> QED BY <2>1, <2>2
<1> QED BY <1>2, <1>3, <1>4, <1>5, <1>6 DEF VectorInv, Exists

\* A call that throws keeps it if what it leaves is good.
LEMMA ThrowKeeps ==
  ASSUME VectorInv, NEW v \in Vec, NEW m, NEW n, NEW objects \in Int, Exists(v),
         Good(m, n, size[v]), ~T.assign_may_throw => Tight(m, n, size[v], objects),
         ThrowWith(v, m, objects)
  PROVE  VectorInv' /\ Exists(v)'
<1>2. m \in UNION {Memory(i) : i \in Size} /\ m # None /\ n \in Size
  BY NoneAssumption DEF Good
<1>3. data' \in [Vec -> {None} \cup UNION {Memory(i) : i \in Size}]
  BY <1>2 DEF VectorInv, ThrowWith
<1>4. size' = size /\ alive' \in [Vec -> Int] /\ T' = T /\ outcome' = "exception"
  BY DEF VectorInv, ThrowWith
<1>5. data'[v] = m /\ alive'[v] = objects
  BY DEF VectorInv, ThrowWith
<1>6. ASSUME NEW w \in Vec PROVE Owned(w)'
  <2>1. CASE w = v
    BY <2>1, <1>2, <1>4, <1>5 DEF Owned, Exists, Good, Tight
  <2>2. CASE w # v
    <3>1. data'[w] = data[w] /\ alive'[w] = alive[w]
      BY <2>2 DEF VectorInv, ThrowWith
    <3> QED BY <3>1, <1>4 DEF VectorInv, Owned, Exists, Good, Tight
  <2> QED BY <2>1, <2>2
<1> QED BY <1>2, <1>3, <1>4, <1>5, <1>6 DEF VectorInv, Exists

\* A call that throws and has changed nothing keeps it.
LEMMA PlainThrowKeeps ==
  ASSUME VectorInv, Throw, NEW v \in Vec
  PROVE  VectorInv' /\ (Exists(v) => Exists(v)')
BY DEF VectorInv, Throw, Owned, Exists, Good, Tight

\* The memory of a vector, as the invariant describes it.
LEMMA MemoryOf ==
  ASSUME VectorInv, NEW v \in Vec, Exists(v)
  PROVE  /\ Capacity(v) \in Size /\ size[v] \in 0 .. Capacity(v) /\ alive[v] \in Int
         /\ Good(data[v], Capacity(v), size[v])
         /\ ~T.assign_may_throw => Tight(data[v], Capacity(v), size[v], alive[v])
         /\ size[v] \in Size
<1>1. PICK n \in Size : /\ Good(data[v], n, size[v])
                        /\ ~T.assign_may_throw => Tight(data[v], n, size[v], alive[v])
  BY DEF VectorInv, Owned
<1>2. Capacity(v) = n
  BY <1>1, CapacityOfMemory DEF Good, Size
<1>3. size[v] \in Size
  BY <1>1, VectorAssumption DEF Good, Size
<1> QED BY <1>1, <1>2, <1>3 DEF Good, VectorInv

\* Construction: of n objects T(), and of the copies of w's.
LEMMA SizeConstructKeeps ==
  ASSUME VectorInv, NEW v \in Vec, NEW n \in Size, SizeConstruct(v, n)
  PROVE  VectorInv' /\ (outcome' = "ok" => Exists(v)')
<1> DEFINE m == Filled(Allocated(n), From(0, n), LAMBDA i : Default)
<1>1. CASE Throw
  BY <1>1, PlainThrowKeeps DEF Throw
<1>2. CASE Return(v, m, n, alive[v] + n)
  <2>1. Good(m, n, n) /\ Tight(m, n, n, n)
    BY VectorAssumption DEF Good, Tight, Filled, Allocated, Memory, From, Element, Size
  <2>2. alive[v] + n \in Int /\ (~T.assign_may_throw => alive[v] + n = n)
    BY DEF VectorInv, Owned, SizeConstruct, ConstructN, Size
  <2> QED BY <1>2, <2>1, <2>2, ReturnKeeps
<1> QED BY <1>1, <1>2 DEF SizeConstruct, ConstructN

LEMMA CopyConstructKeeps ==
  ASSUME VectorInv, NEW v \in Vec, NEW w \in Vec, CopyConstruct(v, w)
  PROVE  VectorInv' /\ (outcome' = "ok" => Exists(v)')
<1> DEFINE n == size[w]
           m == Filled(Allocated(n), From(0, n), LAMBDA i : data[w][i])
<1>1. CASE Throw
  BY <1>1, PlainThrowKeeps DEF Throw
<1>2. CASE Return(v, m, n, alive[v] + n)
  <2>0. Exists(w)
    BY DEF CopyConstruct
  <2>1. Good(data[w], Capacity(w), n) /\ Capacity(w) \in Size /\ n \in Size
    BY <2>0, MemoryOf
  <2>2. Good(m, n, n) /\ Tight(m, n, n, n)
    BY <2>1, VectorAssumption DEF Good, Tight, Filled, Allocated, Memory, From, Element, Size
  <2>3. alive[v] + n \in Int /\ (~T.assign_may_throw => alive[v] + n = n)
    BY <2>1 DEF VectorInv, Owned, CopyConstruct, ConstructN, Size
  <2> QED BY <1>2, <2>1, <2>2, <2>3, ReturnKeeps
<1> QED BY <1>1, <1>2 DEF CopyConstruct, ConstructN

LEMMA DestroyKeeps ==
  ASSUME VectorInv, NEW v \in Vec, Destroy(v)
  PROVE  VectorInv'
<1>1. /\ data' = [data EXCEPT ![v] = None] /\ size' = [size EXCEPT ![v] = 0]
      /\ alive' = [alive EXCEPT ![v] = alive[v] - size[v]]
      /\ T' = T /\ outcome' = "ok"
  BY DEF Destroy, Return
<1>2. alive[v] - size[v] \in Int
  BY DEF VectorInv
<1> QED BY <1>1, <1>2 DEF VectorInv, Owned, Exists, Good, Tight

\* Exchanging what two vectors own.
LEMMA SwapKeeps ==
  ASSUME VectorInv, NEW v \in Vec, NEW w \in Vec \ {v}, Swap(v, w)
  PROVE  VectorInv'
BY DEF VectorInv, Swap, Exchanged, Owned, Exists, Good, Tight

LEMMA MoveConstructKeeps ==
  ASSUME VectorInv, NEW v \in Vec, NEW w \in Vec \ {v}, MoveConstruct(v, w)
  PROVE  VectorInv'
<1>1. 0 \in Size /\ Good(Allocated(0), 0, 0) /\ Tight(Allocated(0), 0, 0, 0)
  BY VectorAssumption DEF Good, Tight, Allocated, Memory, From, Size
<1>2. Allocated(0) \in Memory(0) /\ Allocated(0) # None
  BY <1>1, NoneAssumption DEF Good
<1>3. /\ data' \in [Vec -> {None} \cup UNION {Memory(n) : n \in Size}]
      /\ size' \in [Vec -> Nat] /\ alive' \in [Vec -> Int] /\ T' = T /\ outcome' = "ok"
  BY <1>1, <1>2 DEF VectorInv, MoveConstruct, Exchanged
<1>4. /\ data'[v] = data[w] /\ size'[v] = size[w] /\ alive'[v] = alive[w]
      /\ data'[w] = Allocated(0) /\ size'[w] = 0
      /\ ~T.assign_may_throw => alive'[w] = 0
  BY DEF VectorInv, MoveConstruct, Exchanged, Owned, Exists
<1>5. ASSUME NEW u \in Vec PROVE Owned(u)'
  <2>1. CASE u = v
    BY <2>1, <1>3, <1>4 DEF VectorInv, MoveConstruct, Owned, Exists, Good, Tight
  <2>2. CASE u = w
    BY <2>2, <1>1, <1>2, <1>3, <1>4 DEF Owned, Exists, Tight
  <2>3. CASE u \notin {v, w}
    BY <2>3, <1>3 DEF VectorInv, MoveConstruct, Exchanged, Owned, Exists, Good, Tight
  <2> QED BY <2>1, <2>2, <2>3
<1> QED BY <1>3, <1>5 DEF VectorInv

\* Assignment by copy: into a new memory, and into the one there is.
LEMMA CopyAssignByCopyKeeps ==
  ASSUME VectorInv, NEW v \in Vec, NEW w \in Vec, Exists(v), Exists(w), CopyAssignByCopy(v, w)
  PROVE  VectorInv' /\ Exists(v)'
<1> DEFINE n == size[w]
           m == [i \in From(0, n) |-> data[w][i]]
           objects == alive[v] + size[w] - size[v]
<1>1. CASE Throw
  BY <1>1, PlainThrowKeeps
<1>2. CASE Return(v, m, n, objects)
  <2>1. Good(data[w], Capacity(w), n) /\ n \in Size
    BY MemoryOf
  <2>2. /\ alive[v] \in Int /\ size[v] \in Size
        /\ ~T.assign_may_throw => Tight(data[v], Capacity(v), size[v], alive[v])
    BY MemoryOf
  <2>3. objects \in Int
    BY <2>1, <2>2 DEF Size
  <2>4. Good(m, n, n)
    BY <2>1 DEF Good, Memory, From, Size
  <2>5. ~T.assign_may_throw => Tight(m, n, n, objects)
    BY <2>1, <2>2 DEF Tight, Size
  <2> QED BY <1>2, <2>3, <2>4, <2>5, ReturnKeeps
<1> QED BY <1>1, <1>2 DEF CopyAssignByCopy

LEMMA CopyAssignInPlaceKeeps ==
  ASSUME VectorInv, NEW v \in Vec, NEW w \in Vec, Exists(v), Exists(w), CopyAssignInPlace(v, w)
  PROVE  VectorInv' /\ Exists(v)'
<1> DEFINE c == Capacity(v)
           n == size[w]
<1>1. /\ Good(data[v], c, size[v]) /\ c \in Size /\ size[v] \in 0 .. c /\ alive[v] \in Int
      /\ Good(data[w], Capacity(w), n) /\ n \in Size /\ n <= c
      /\ ~T.assign_may_throw => Tight(data[v], c, size[v], alive[v])
  <2>1. Good(data[w], Capacity(w), n) /\ n \in Size
    BY MemoryOf
  <2>2. n <= c
    BY DEF CopyAssignInPlace
  <2> QED BY <2>1, <2>2, MemoryOf
<1>2. CASE Return(v, Destroyed(Filled(data[v], From(0, n), LAMBDA i : data[w][i]),
                               From(n, size[v] - n)),
                  n, alive[v] + n - size[v])
  <2> DEFINE m == Destroyed(Filled(data[v], From(0, n), LAMBDA i : data[w][i]),
                            From(n, size[v] - n))
             objects == alive[v] + n - size[v]
  <2>1. Good(m, c, n)
    BY <1>1 DEF Good, Filled, Destroyed, Memory, From, Size
  <2>2. ~T.assign_may_throw => Tight(m, c, n, objects)
    BY <1>1 DEF Good, Tight, Filled, Destroyed, Memory, From, Size
  <2>3. objects \in Int
    BY <1>1 DEF Size
  <2> HIDE DEF m, objects, c
  <2> QED BY <1>2, <2>1, <2>2, <2>3, ReturnKeeps DEF m, objects
<1>3. ASSUME NEW k \in From(0, Common(v, w)),
             ThrowWith(v, Filled(data[v], From(0, k + 1),
                                 LAMBDA i : IF i = k THEN Unspecified ELSE data[w][i]),
                       alive[v])
      PROVE  VectorInv' /\ Exists(v)'
  <2> DEFINE m == Filled(data[v], From(0, k + 1),
                         LAMBDA i : IF i = k THEN Unspecified ELSE data[w][i])
  <2>0. k \in Nat /\ k < size[v] /\ k < n
    BY <1>1 DEF From, Common, Size
  <2>1. Good(m, c, size[v])
    BY <1>1, <2>0, VectorAssumption DEF Good, Filled, Memory, From, Size, Element
  <2>2. ~T.assign_may_throw => Tight(m, c, size[v], alive[v])
    BY <1>1, <2>0 DEF Good, Tight, Filled, Memory, From, Size
  <2> HIDE DEF m, c
  <2> QED BY <1>1, <1>3, <2>1, <2>2, ThrowKeeps DEF m
<1>4. ASSUME size[v] < n,
             ThrowWith(v, Filled(data[v], From(0, size[v]), LAMBDA i : data[w][i]), alive[v])
      PROVE  VectorInv' /\ Exists(v)'
  <2> DEFINE m == Filled(data[v], From(0, size[v]), LAMBDA i : data[w][i])
  <2>1. Good(m, c, size[v])
    BY <1>1, <1>4 DEF Good, Filled, Memory, From, Size
  <2>2. ~T.assign_may_throw => Tight(m, c, size[v], alive[v])
    BY <1>1 DEF Good, Tight, Filled, Memory, From, Size
  <2> HIDE DEF m, c
  <2> QED BY <1>1, <1>4, <2>1, <2>2, ThrowKeeps DEF m
<1> QED BY <1>2, <1>3, <1>4 DEF CopyAssignInPlace

\* A throw in ShiftDataToNewMemory leaves the elements, moved from or not.
LEMMA ThrowInShiftKeeps ==
  ASSUME VectorInv, NEW v \in Vec, Exists(v), NEW first \in Nat, NEW last \in 0 .. size[v],
         ThrowInShift(v, first, last, alive[v])
  PROVE  VectorInv' /\ Exists(v)'
<1>1. PICK k \in first .. last : ThrowWith(v, AfterFailedShift(v, k), alive[v])
  BY DEF ThrowInShift
<1> DEFINE c == Capacity(v)
           m == AfterFailedShift(v, k)
<1>2. /\ Good(data[v], c, size[v]) /\ c \in Size /\ alive[v] \in Int /\ size[v] \in Size
      /\ ~T.assign_may_throw => Tight(data[v], c, size[v], alive[v])
  BY MemoryOf
<1>3. k \in Nat /\ k <= size[v]
  BY <1>2 DEF Size
<1>4. Good(m, c, size[v])
  BY <1>2, <1>3, VectorAssumption DEF Good, AfterFailedShift, Filled, Memory, From, Size, Element
<1>5. ~T.assign_may_throw => Tight(m, c, size[v], alive[v])
  BY <1>2, <1>3 DEF Tight, AfterFailedShift, Filled, From, Size, Good, Memory
<1> HIDE DEF c, m
<1> QED BY <1>1, <1>2, <1>4, <1>5, ThrowKeeps DEF m

\* The elements in a larger memory.
LEMMA MovedIsGood ==
  ASSUME VectorInv, NEW v \in Vec, Exists(v), NEW n \in Size, Capacity(v) <= n
  PROVE  /\ Good(Moved(v, n), n, size[v])
         /\ ~T.assign_may_throw => Tight(Moved(v, n), n, size[v], alive[v])
<1>1. /\ Good(data[v], Capacity(v), size[v]) /\ Capacity(v) \in Size /\ size[v] \in Size
      /\ ~T.assign_may_throw => Tight(data[v], Capacity(v), size[v], alive[v])
  BY MemoryOf
<1>2. Good(Moved(v, n), n, size[v])
  <2>1. size[v] \in 0 .. n
    BY <1>1, VectorAssumption DEF Good, Size
  <2>2. \A i \in 0 .. size[v] - 1 : data[v][i] \in Element \cup {Raw} /\ data[v][i] # Raw
    BY <1>1 DEF Good, Memory, From, Size
  <2>3. Moved(v, n) \in Memory(n)
    BY <2>1, <2>2 DEF Moved, Memory, From, Size
  <2> QED BY <2>1, <2>2, <2>3 DEF Good, Moved, From, Size
<1>3. ~T.assign_may_throw => Tight(Moved(v, n), n, size[v], alive[v])
  BY <1>1 DEF Tight, Moved, From, Size
<1> QED BY <1>2, <1>3

\* Growing and shrinking.
LEMMA ReserveKeeps ==
  ASSUME VectorInv, NEW v \in Vec, NEW n \in Size, Reserve(v, n)
  PROVE  VectorInv' /\ Exists(v)'
<1>0. Exists(v)
  BY DEF Reserve
<1>1. /\ Good(data[v], Capacity(v), size[v]) /\ Capacity(v) \in Size /\ size[v] \in Size
      /\ ~T.assign_may_throw => Tight(data[v], Capacity(v), size[v], alive[v])
      /\ alive[v] \in Int
  BY <1>0, MemoryOf
<1>2. CASE Return(v, data[v], size[v], alive[v])
  BY <1>1, <1>2, ReturnKeeps
<1>3. CASE n > Capacity(v) /\ Return(v, Moved(v, n), size[v], alive[v])
  <2>1. Capacity(v) <= n
    BY <1>1, <1>3 DEF Size
  <2> QED BY <1>0, <1>1, <1>3, <2>1, MovedIsGood, ReturnKeeps
<1>4. CASE Throw
  BY <1>0, <1>4, PlainThrowKeeps
<1>5. CASE ThrowInShift(v, 0, size[v], alive[v])
  BY <1>0, <1>1, <1>5, ThrowInShiftKeeps DEF Size
<1> QED BY <1>2, <1>3, <1>4, <1>5 DEF Reserve

LEMMA ResizeKeeps ==
  ASSUME VectorInv, NEW v \in Vec, NEW n \in Size, Resize(v, n)
  PROVE  VectorInv' /\ Exists(v)'
<1>0. Exists(v)
  BY DEF Resize
<1> DEFINE c == IF n > Capacity(v) THEN n ELSE Capacity(v)
           grown == Filled(Larger(v, n), From(size[v], n - size[v]), LAMBDA i : Default)
           shrunk == Destroyed(data[v], From(n, size[v] - n))
           objects == alive[v] + n - size[v]
<1>1. /\ Good(data[v], Capacity(v), size[v]) /\ Capacity(v) \in Size /\ size[v] \in Size
      /\ ~T.assign_may_throw => Tight(data[v], Capacity(v), size[v], alive[v])
      /\ alive[v] \in Int
  BY <1>0, MemoryOf
<1>2. /\ Good(Larger(v, n), c, size[v]) /\ c \in Size /\ n <= c
      /\ ~T.assign_may_throw => Tight(Larger(v, n), c, size[v], alive[v])
  BY <1>0, <1>1, MovedIsGood DEF Larger, Size
<1>3. objects \in Int
  BY <1>1 DEF Size
<1>4. CASE n > size[v] /\ Return(v, grown, n, objects)
  <2>1. Good(grown, c, n)
    BY <1>1, <1>2, <1>4, VectorAssumption DEF Good, Filled, Memory, From, Size, Element
  <2>2. ~T.assign_may_throw => Tight(grown, c, n, objects)
    BY <1>1, <1>2, <1>4 DEF Tight, Good, Memory, Filled, From, Size
  <2> HIDE DEF c, grown, objects
  <2> QED BY <1>3, <1>4, <2>1, <2>2, ReturnKeeps
<1>5. CASE ~(n > size[v]) /\ Return(v, shrunk, n, objects)
  <2>1. Good(shrunk, Capacity(v), n)
    BY <1>1, <1>5 DEF Good, Destroyed, Filled, Memory, From, Size
  <2>2. ~T.assign_may_throw => Tight(shrunk, Capacity(v), n, objects)
    BY <1>1, <1>5 DEF Tight, Good, Memory, Destroyed, Filled, From, Size
  <2> HIDE DEF shrunk, objects
  <2> QED BY <1>3, <1>5, <2>1, <2>2, ReturnKeeps
<1>6. CASE Throw
  BY <1>0, <1>6, PlainThrowKeeps
<1>7. CASE ThrowInShift(v, 0, size[v], alive[v])
  BY <1>0, <1>1, <1>7, ThrowInShiftKeeps DEF Size
<1>8. CASE ThrowWith(v, Larger(v, n), alive[v])
  <2> HIDE DEF c
  <2> QED BY <1>0, <1>1, <1>2, <1>8, ThrowKeeps
<1> QED BY <1>4, <1>5, <1>6, <1>7, <1>8 DEF Resize

\* What the two catches destroy is what had been constructed.
LEMMA CatchesDestroyAll ==
  ASSUME NEW offset \in Nat
  PROVE  Cardinality(FirstCatch(offset)) = 1 /\ Cardinality(SecondCatch(offset)) = offset + 1
<1>1. FirstCatch(offset) = {offset} /\ SecondCatch(offset) = 0 .. offset
  BY DEF FirstCatch, SecondCatch, From
<1>2. Cardinality({offset}) = 1
  BY FS_Singleton
<1>3. Cardinality(0 .. offset) = offset + 1
  BY FS_Interval
<1> QED BY <1>1, <1>2, <1>3

\* A memory with a new element at offset.
LEMMA OpenedIsGood ==
  ASSUME VectorInv, NEW v \in Vec, Exists(v), NEW offset \in 0 .. size[v],
         NEW n \in Size, Capacity(v) <= n, size[v] < n, NEW x \in Element
  PROVE  /\ Good(Opened(v, offset, n, x), n, size[v] + 1)
         /\ ~T.assign_may_throw => Tight(Opened(v, offset, n, x), n, size[v] + 1, alive[v] + 1)
<1>1. /\ Good(data[v], Capacity(v), size[v]) /\ size[v] \in Size
      /\ ~T.assign_may_throw => Tight(data[v], Capacity(v), size[v], alive[v])
  BY MemoryOf
<1>2. \A i \in 0 .. size[v] - 1 : data[v][i] \in Element \cup {Raw} /\ data[v][i] # Raw
  BY <1>1, VectorAssumption DEF Good, Memory, From, Size
<1>3. x # Raw
  BY VectorAssumption DEF Element
<1>4. Opened(v, offset, n, x) \in Memory(n)
  BY <1>1, <1>2, VectorAssumption DEF Opened, Memory, From, Size
<1>5. Good(Opened(v, offset, n, x), n, size[v] + 1)
  BY <1>1, <1>2, <1>3, <1>4, VectorAssumption DEF Good, Opened, From, Size
<1>6. ~T.assign_may_throw => Tight(Opened(v, offset, n, x), n, size[v] + 1, alive[v] + 1)
  BY <1>1, VectorAssumption DEF Tight, Opened, From, Size
<1> QED BY <1>5, <1>6

\* The argument of Emplace is a value.
LEMMA ReadIsElement ==
  ASSUME VectorInv, NEW v \in Vec, Exists(v), NEW arg \in Outside \cup Inside(v)
  PROVE  Read(data[v], arg) \in Element
<1>1. Good(data[v], Capacity(v), size[v]) /\ size[v] \in Size
  BY MemoryOf
<1>2. CASE arg \in Outside
  BY <1>2 DEF Outside, Read, Element
<1>3. CASE arg \in Inside(v)
  <2>1. PICK i \in From(0, size[v]) : arg = <<"element", i>>
    BY <1>3 DEF Inside
  <2>2. data[v][i] \in Element
    BY <1>1, <2>1, VectorAssumption DEF Good, Memory, From, Size
  <2> QED BY <2>1, <2>2 DEF Read
<1> QED BY <1>2, <1>3

\* Inserting into new memory, at the end, and in the middle.
LEMMA EmplaceInNewMemoryKeeps ==
  ASSUME VectorInv, NEW v \in Vec, Exists(v), NEW offset \in 0 .. size[v],
         NEW arg \in Outside \cup Inside(v), EmplaceInNewMemory(v, offset, arg)
  PROVE  VectorInv' /\ Exists(v)'
<1> DEFINE n == Doubled(v)
           x == Read(data[v], arg)
           m == Opened(v, offset, n, x)
<1>1. /\ Capacity(v) = size[v] /\ size[v] \in Nat /\ alive[v] \in Int /\ offset \in Nat
  BY MemoryOf DEF EmplaceInNewMemory, Size
<1>2. CASE n <= MaxCapacity /\ Return(v, m, size[v] + 1, alive[v] + (size[v] + 1) - size[v])
  <2>1. n \in Size /\ Capacity(v) <= n /\ size[v] < n
    BY <1>1, <1>2, VectorAssumption DEF Doubled, Size
  <2>2. x \in Element
    BY ReadIsElement
  <2>3. alive[v] + (size[v] + 1) - size[v] = alive[v] + 1 /\ alive[v] + 1 \in Int
    BY <1>1
  <2> HIDE DEF n, x
  <2>4. Good(m, n, size[v] + 1) /\ (~T.assign_may_throw => Tight(m, n, size[v] + 1, alive[v] + 1))
    BY <2>1, <2>2, OpenedIsGood
  <2> HIDE DEF m
  <2> QED BY <1>2, <2>3, <2>4, ReturnKeeps
<1>3. CASE Throw
  BY <1>3, PlainThrowKeeps
<1>4. CASE ThrowInShift(v, 0, offset, alive[v] + 1 - Cardinality(FirstCatch(offset)))
  <2>1. alive[v] + 1 - Cardinality(FirstCatch(offset)) = alive[v]
    BY <1>1, CatchesDestroyAll
  <2> QED BY <1>1, <1>4, <2>1, ThrowInShiftKeeps
<1>5. CASE ThrowInShift(v, offset, size[v],
                        alive[v] + (offset + 1) - Cardinality(SecondCatch(offset)))
  <2>1. alive[v] + (offset + 1) - Cardinality(SecondCatch(offset)) = alive[v]
    BY <1>1, CatchesDestroyAll
  <2>2. size[v] \in 0 .. size[v]
    BY <1>1
  <2> QED BY <1>1, <1>5, <2>1, <2>2, ThrowInShiftKeeps
<1> QED BY <1>2, <1>3, <1>4, <1>5 DEF EmplaceInNewMemory

LEMMA EmplaceReturnsInPlace ==
  ASSUME VectorInv, NEW v \in Vec, Exists(v), NEW offset \in 0 .. size[v],
         NEW arg \in Outside \cup Inside(v), size[v] < Capacity(v),
         Return(v, Opened(v, offset, Capacity(v), Read(data[v], arg)), size[v] + 1, alive[v] + 1)
  PROVE  VectorInv' /\ Exists(v)'
<1> DEFINE c == Capacity(v)
           x == Read(data[v], arg)
           m == Opened(v, offset, c, x)
<1>1. c \in Size /\ c <= c /\ alive[v] + 1 \in Int
  BY MemoryOf DEF Size
<1>2. x \in Element
  BY ReadIsElement
<1>3. Good(m, c, size[v] + 1) /\ (~T.assign_may_throw => Tight(m, c, size[v] + 1, alive[v] + 1))
  BY <1>1, <1>2, OpenedIsGood
<1> HIDE DEF m
<1> QED BY <1>1, <1>3, ReturnKeeps DEF m

LEMMA EmplaceBetweenKeeps ==
  ASSUME VectorInv, NEW v \in Vec, Exists(v), NEW offset \in 0 .. size[v], offset < size[v],
         NEW arg \in Outside \cup Inside(v), EmplaceBetween(v, offset, arg)
  PROVE  VectorInv' /\ Exists(v)'
<1> DEFINE c == Capacity(v)
<1>1. /\ Good(data[v], c, size[v]) /\ c \in Size /\ size[v] \in Size /\ size[v] < c
      /\ alive[v] \in Int
      /\ ~T.assign_may_throw => Tight(data[v], c, size[v], alive[v])
  BY MemoryOf DEF EmplaceBetween
<1>2. CASE Return(v, Opened(v, offset, Capacity(v), Read(data[v], arg)), size[v] + 1, alive[v] + 1)
  BY <1>1, <1>2, EmplaceReturnsInPlace
<1>3. CASE Throw
  BY <1>3, PlainThrowKeeps
<1>4. CASE ThrowWith(v, Filled(data[v], {size[v] - 1}, LAMBDA i : Unspecified), alive[v])
  <2> DEFINE m == Filled(data[v], {size[v] - 1}, LAMBDA i : Unspecified)
  <2>1. Good(m, c, size[v])
    BY <1>1, VectorAssumption DEF Good, Filled, Memory, From, Size, Element
  <2>2. ~T.assign_may_throw => Tight(m, c, size[v], alive[v])
    BY <1>1, VectorAssumption DEF Tight, Filled, Good, Memory, From, Size
  <2> HIDE DEF m, c
  <2> QED BY <1>1, <1>4, <2>1, <2>2, ThrowKeeps DEF m
<1>5. ASSUME T.assign_may_throw, NEW k \in 0 .. size[v] - 1 - offset,
             ThrowWith(v, HalfOpened(v, offset, k), alive[v] + 1)
      PROVE  VectorInv' /\ Exists(v)'
  <2> DEFINE m == HalfOpened(v, offset, k)
  <2>0. /\ c \in Nat /\ size[v] \in Nat /\ DOMAIN data[v] = 0 .. c - 1
        /\ \A i \in 0 .. c - 1 : data[v][i] \in Element \cup {Raw}
        /\ \A i \in 0 .. size[v] - 1 : data[v][i] \in Element \cup {Raw} /\ data[v][i] # Raw
    BY <1>1, GoodMemory
  <2>1. \A i \in 0 .. size[v] - 1 : data[v][i] \in Element \cup {Raw} /\ data[v][i] # Raw
    BY <2>0
  <2>2. m \in Memory(c)
    <3> HIDE DEF c
    <3>1. \A i \in 0 .. c - 1 : m[i] \in Element \cup {Raw}
      <4> SUFFICES ASSUME NEW i \in 0 .. c - 1 PROVE m[i] \in Element \cup {Raw}
        OBVIOUS
      <4>1. i > 0 => i - 1 \in 0 .. c - 1
        BY <2>0
      <4>2. i > size[v] - 1 - k => i > 0
        BY <2>0
      <4>3. Unspecified \in Element
        BY DEF Element
      <4> QED BY <2>0, <4>1, <4>2, <4>3 DEF HalfOpened
    <3>2. m = [i \in 0 .. c - 1 |-> m[i]]
      BY <2>0 DEF HalfOpened
    <3> HIDE DEF m
    <3>3. m \in [0 .. c - 1 -> Element \cup {Raw}] /\ 0 + c - 1 = c - 1
      BY <2>0, <3>1, <3>2
    <3> QED BY <3>3 DEF Memory, From
  <2>3. Good(m, c, size[v])
    BY <1>1, <2>1, <2>2, VectorAssumption DEF HalfOpened, Good, Memory, From, Size, Element
  <2>4. alive[v] + 1 \in Int
    BY <1>1
  <2> HIDE DEF m, c
  <2> QED BY <1>1, <1>5, <2>3, <2>4, ThrowKeeps DEF m
<1> QED BY <1>2, <1>3, <1>4, <1>5 DEF EmplaceBetween

LEMMA EmplaceKeeps ==
  ASSUME VectorInv, NEW v \in Vec, NEW offset \in Size, NEW arg \in Outside \cup Inside(v),
         Emplace(v, offset, arg)
  PROVE  VectorInv' /\ Exists(v)'
<1>0. Exists(v) /\ offset \in 0 .. size[v]
  BY DEF Emplace
<1>1. CASE EmplaceInNewMemory(v, offset, arg)
  BY <1>0, <1>1, EmplaceInNewMemoryKeeps
<1>2. CASE offset = size[v] /\ EmplaceAtEnd(v, arg)
  <2>1. CASE Throw
    BY <1>0, <2>1, PlainThrowKeeps
  <2>2. CASE Return(v, Opened(v, size[v], Capacity(v), Read(data[v], arg)), size[v] + 1, alive[v] + 1)
    BY <1>0, <1>2, <2>2, EmplaceReturnsInPlace DEF EmplaceAtEnd
  <2> QED BY <1>2, <2>1, <2>2 DEF EmplaceAtEnd
<1>3. CASE offset < size[v] /\ EmplaceBetween(v, offset, arg)
  BY <1>0, <1>3, EmplaceBetweenKeeps
<1> QED BY <1>1, <1>2, <1>3 DEF Emplace

\* Removing.
LEMMA PopBackKeeps ==
  ASSUME VectorInv, NEW v \in Vec, PopBack(v)
  PROVE  VectorInv' /\ Exists(v)'
<1> DEFINE c == Capacity(v)
           m == Destroyed(data[v], {size[v] - 1})
           n == size[v] - 1
           objects == alive[v] - 1
<1>1. /\ Good(data[v], c, size[v]) /\ c \in Size /\ size[v] \in Size /\ size[v] > 0
      /\ alive[v] \in Int
      /\ ~T.assign_may_throw => Tight(data[v], c, size[v], alive[v])
  BY MemoryOf DEF PopBack
<1>2. Good(m, c, n)
  BY <1>1, VectorAssumption DEF Good, Destroyed, Filled, Memory, From, Size
<1>3. ~T.assign_may_throw => Tight(m, c, n, objects)
  BY <1>1, VectorAssumption DEF Tight, Good, Destroyed, Filled, Memory, From, Size
<1>4. objects \in Int /\ Return(v, m, n, objects)
  BY <1>1 DEF PopBack
<1> HIDE DEF c, m, n, objects
<1> QED BY <1>2, <1>3, <1>4, ReturnKeeps

LEMMA EraseKeeps ==
  ASSUME VectorInv, NEW v \in Vec, NEW offset \in Size, Erase(v, offset)
  PROVE  VectorInv' /\ Exists(v)'
<1> DEFINE c == Capacity(v)
           n == size[v] - 1
           shifted == ShiftedLeft(v, offset, n - offset)
           m == Destroyed(shifted, {size[v] - 1})
           objects == alive[v] - 1
<1>1. /\ Good(data[v], c, size[v]) /\ c \in Size /\ size[v] \in Size /\ offset < size[v]
      /\ alive[v] \in Int /\ Exists(v) /\ offset \in Nat /\ size[v] <= c
      /\ ~T.assign_may_throw => Tight(data[v], c, size[v], alive[v])
  <2>1. Exists(v) /\ offset < size[v] /\ offset \in Nat
    BY DEF Erase, From, Size, VectorInv
  <2> QED BY <2>1, MemoryOf DEF Good
<1>2. \A i \in 0 .. size[v] - 1 : data[v][i] \in Element \cup {Raw} /\ data[v][i] # Raw
  BY <1>1, VectorAssumption DEF Good, Memory, From, Size
<1>3. CASE Return(v, m, n, objects)
  <2>1. m \in Memory(c)
    BY <1>1, <1>2, VectorAssumption DEF ShiftedLeft, Good, Destroyed, Filled, Memory, From, Size
  <2>2. Good(m, c, n)
    BY <1>1, <1>2, <2>1, VectorAssumption DEF ShiftedLeft, Good, Destroyed, Filled, Memory, From, Size
  <2>3. ASSUME ~T.assign_may_throw PROVE Tight(m, c, n, objects)
    <3>1. objects = n /\ \A i \in size[v] .. c - 1 : data[v][i] = Raw
      BY <1>1, <2>3 DEF Tight
    <3>2. \A i \in size[v] .. c - 1 : m[i] = data[v][i]
      BY <1>1 DEF ShiftedLeft, Good, Destroyed, Filled, Memory, From, Size
    <3>3. m[size[v] - 1] = Raw
      BY <1>1 DEF ShiftedLeft, Good, Destroyed, Filled, Memory, From, Size
    <3> HIDE DEF m, objects
    <3> QED BY <1>1, <3>1, <3>2, <3>3 DEF Tight, Size
  <2>4. objects \in Int
    BY <1>1
  <2> HIDE DEF c, m, n, objects
  <2> QED BY <1>3, <2>2, <2>3, <2>4, ReturnKeeps
<1>4. ASSUME T.assign_may_throw, NEW k \in From(0, size[v] - 1 - offset),
             ThrowWith(v, Filled(ShiftedLeft(v, offset, k), {offset + k, offset + k + 1},
                                 LAMBDA i : Unspecified), alive[v])
      PROVE  VectorInv' /\ Exists(v)'
  <2> DEFINE half == Filled(ShiftedLeft(v, offset, k), {offset + k, offset + k + 1},
                            LAMBDA i : Unspecified)
  <2>0. k \in Nat /\ offset + k + 1 < size[v]
    BY <1>1, VectorAssumption DEF From, Size
  <2>1. half = [i \in 0 .. c - 1 |->
                  IF i \in {offset + k, offset + k + 1} THEN Unspecified
                  ELSE IF i \in From(offset, k) THEN data[v][i + 1] ELSE data[v][i]]
    BY <1>1, <2>0 DEF ShiftedLeft, Good, Filled, Memory, From, Size
  <2>2. \A i \in 0 .. c - 1 : data[v][i] \in Element \cup {Raw}
    BY <1>1, GoodMemory
  <2> HIDE DEF half, c
  <2>3. ASSUME NEW i \in 0 .. c - 1
        PROVE  half[i] \in Element \cup {Raw} /\ (i < size[v] => half[i] # Raw)
    <3>1. CASE i \in {offset + k, offset + k + 1}
      <4>1. half[i] = Unspecified
        BY <2>1, <3>1
      <4> QED BY <4>1, VectorAssumption DEF Element
    <3>2. CASE i \notin {offset + k, offset + k + 1} /\ i \in From(offset, k)
      <4>1. half[i] = data[v][i + 1]
        BY <2>1, <3>2
      <4>2. i + 1 \in 0 .. size[v] - 1
        BY <1>1, <2>0, <3>2 DEF From, Size
      <4> QED BY <1>2, <4>1, <4>2
    <3>3. CASE i \notin {offset + k, offset + k + 1} /\ i \notin From(offset, k)
      <4>1. half[i] = data[v][i]
        BY <2>1, <3>3
      <4> QED BY <1>1, <1>2, <2>2, <4>1 DEF Size
    <3> QED BY <3>1, <3>2, <3>3
  <2>4. half \in Memory(c)
    <3>1. From(0, c) = 0 .. c - 1 /\ 0 .. size[v] - 1 \subseteq 0 .. c - 1
      BY <1>1 DEF From, Size
    <3>2. half \in [0 .. c - 1 -> Element \cup {Raw}]
      BY <2>1, <2>3
    <3> QED BY <3>1, <3>2 DEF Memory
  <2>5. Good(half, c, size[v])
    BY <1>1, <2>3, <2>4 DEF Good, Size
  <2> QED BY <1>1, <1>4, <2>5, ThrowKeeps DEF half
<1> QED BY <1>3, <1>4 DEF Erase

\* Initially no vector exists.
THEOREM VectorInitially == Init => VectorInv
BY DEF Init, VectorInv, Owned, Exists

LEMMA NextKeeps == VectorInv /\ [Next]_vars => VectorInv'
<1> SUFFICES ASSUME VectorInv, [Next]_vars PROVE VectorInv'
  OBVIOUS
<1>1. CASE UNCHANGED vars
  BY <1>1 DEF vars, VectorInv, Owned, Exists, Good, Tight
<1>2. ASSUME NEW v \in Vec, NEW n \in Size,
             SizeConstruct(v, n) \/ Reserve(v, n) \/ Resize(v, n)
      PROVE  VectorInv'
  BY <1>2, SizeConstructKeeps, ReserveKeeps, ResizeKeeps
<1>3. ASSUME NEW v \in Vec, NEW w \in Vec \ {v},
             CopyConstruct(v, w) \/ MoveConstruct(v, w) \/ CopyAssign(v, w) \/ MoveAssign(v, w)
      PROVE  VectorInv'
  BY <1>3, CopyConstructKeeps, MoveConstructKeeps, CopyAssignByCopyKeeps,
     CopyAssignInPlaceKeeps, SwapKeeps DEF CopyAssign, MoveAssign
<1>4. ASSUME NEW v \in Vec, Destroy(v) \/ PopBack(v) PROVE VectorInv'
  BY <1>4, DestroyKeeps, PopBackKeeps
<1>5. ASSUME NEW v \in Vec, NEW offset \in Size, Erase(v, offset) PROVE VectorInv'
  BY <1>5, EraseKeeps
<1>6. ASSUME NEW v \in Vec, NEW offset \in Size, NEW arg \in Outside \cup Inside(v),
             Emplace(v, offset, arg)
      PROVE  VectorInv'
  BY <1>6, EmplaceKeeps
<1> QED BY <1>1, <1>2, <1>3, <1>4, <1>5, <1>6 DEF Next

LEMMA InvOwns == VectorInv => OwnsExactlyItsObjects
<1> SUFFICES ASSUME VectorInv, ~T.assign_may_throw, NEW v \in Vec PROVE OwnsItsObjects(v)
  BY DEF OwnsExactlyItsObjects
<1>1. CASE ~Exists(v)
  BY <1>1 DEF VectorInv, Owned, OwnsItsObjects
<1>2. CASE Exists(v)
  <2>1. PICK n \in Size : Good(data[v], n, size[v]) /\ Tight(data[v], n, size[v], alive[v])
    BY <1>2 DEF VectorInv, Owned
  <2> QED BY <2>1, VectorAssumption DEF OwnsItsObjects, Good, Tight, Memory, From, Size
<1> QED BY <1>1, <1>2

\* Whatever throws, if assigning by move does not: the slots below the size
\* hold objects, the others none, and every object is destroyed once.
THEOREM VectorOwnsItsObjects == Spec => []OwnsExactlyItsObjects
<1>1. Spec => []VectorInv
  BY VectorInitially, NextKeeps, PTL DEF Spec
<1> QED BY <1>1, InvOwns, PTL

(***************************************************************************)
(* Losing objects.                                                         *)
(***************************************************************************)
\* For each vector the objects made are as many more than those destroyed as
\* its size says, or more than that, as before.
KeepsLosses == \A v \in Vec : Lost(v)' = Lost(v)

LEMMA ReturnKeepsLosses ==
  ASSUME VectorInv, NEW v \in Vec, NEW m, NEW n \in Int, NEW objects \in Int,
         Return(v, m, n, objects), objects - n = alive[v] - size[v]
  PROVE  KeepsLosses
BY DEF VectorInv, Return, KeepsLosses, Lost

LEMMA ThrowKeepsLosses ==
  ASSUME VectorInv, NEW v \in Vec, NEW m, NEW objects,
         ThrowWith(v, m, objects), objects = alive[v]
  PROVE  KeepsLosses
BY DEF VectorInv, ThrowWith, KeepsLosses, Lost

LEMMA PlainThrowKeepsLosses == Throw => KeepsLosses
BY DEF Throw, KeepsLosses, Lost

LEMMA ShiftKeepsLosses ==
  ASSUME VectorInv, NEW v \in Vec, NEW first, NEW last, NEW objects,
         ThrowInShift(v, first, last, objects), objects = alive[v]
  PROVE  KeepsLosses
BY ThrowKeepsLosses DEF ThrowInShift

LEMMA ConstructLosses ==
  ASSUME VectorInv, NEW v \in Vec, NEW w \in Vec, NEW n \in Size,
         SizeConstruct(v, n) \/ CopyConstruct(v, w)
  PROVE  KeepsLosses
<1>1. size[v] = 0 /\ size[w] \in Int /\ alive[v] \in Int /\ n \in Int
  BY DEF VectorInv, Owned, SizeConstruct, CopyConstruct, ConstructN, Size
<1>2. ASSUME NEW m, NEW k \in Int, Return(v, m, k, alive[v] + k) PROVE KeepsLosses
  <2> DEFINE objects == alive[v] + k
  <2>1. objects \in Int /\ objects - k = alive[v] - size[v]
    BY <1>1
  <2>2. Return(v, m, k, objects)
    BY <1>2
  <2> HIDE DEF objects
  <2> QED BY <2>1, <2>2, ReturnKeepsLosses
<1>3. SizeConstruct(v, n) => KeepsLosses
  BY <1>1, <1>2, PlainThrowKeepsLosses DEF SizeConstruct, ConstructN
<1>4. CopyConstruct(v, w) => KeepsLosses
  BY <1>1, <1>2, PlainThrowKeepsLosses DEF CopyConstruct, ConstructN
<1> QED BY <1>3, <1>4

LEMMA CopyAssignLosses ==
  ASSUME VectorInv, NEW v \in Vec, NEW w \in Vec, CopyAssign(v, w)
  PROVE  KeepsLosses
<1>1. size[v] \in Int /\ size[w] \in Int /\ alive[v] \in Int
  BY DEF VectorInv
<1>2. ASSUME NEW m, Return(v, m, size[w], alive[v] + size[w] - size[v]) PROVE KeepsLosses
  <2>1. /\ alive[v] + size[w] - size[v] \in Int
        /\ alive[v] + size[w] - size[v] - size[w] = alive[v] - size[v]
    BY <1>1
  <2> QED BY <1>1, <1>2, <2>1, ReturnKeepsLosses
<1> QED BY <1>2, ThrowKeepsLosses, PlainThrowKeepsLosses
        DEF CopyAssign, CopyAssignByCopy, CopyAssignInPlace

LEMMA GrowLosses ==
  ASSUME VectorInv, NEW v \in Vec, NEW n \in Size, Reserve(v, n) \/ Resize(v, n)
  PROVE  KeepsLosses
<1>1. size[v] \in Int /\ alive[v] \in Int /\ n \in Int
  BY DEF VectorInv, Size
<1>2. ASSUME NEW m, Return(v, m, size[v], alive[v]) PROVE KeepsLosses
  BY <1>1, <1>2, ReturnKeepsLosses
<1>3. ASSUME NEW m, Return(v, m, n, alive[v] + n - size[v]) PROVE KeepsLosses
  <2>1. alive[v] + n - size[v] \in Int /\ alive[v] + n - size[v] - n = alive[v] - size[v]
    BY <1>1
  <2> QED BY <1>1, <1>3, <2>1, ReturnKeepsLosses
<1>4. Reserve(v, n) => KeepsLosses
  BY <1>2, ShiftKeepsLosses, PlainThrowKeepsLosses DEF Reserve
<1>5. Resize(v, n) => KeepsLosses
  BY <1>3, ShiftKeepsLosses, ThrowKeepsLosses, PlainThrowKeepsLosses DEF Resize
<1> QED BY <1>4, <1>5

LEMMA ShrinkLosses ==
  ASSUME VectorInv, NEW v \in Vec, NEW offset, Destroy(v) \/ PopBack(v) \/ Erase(v, offset)
  PROVE  KeepsLosses
<1>1. size[v] \in Int /\ alive[v] \in Int
  BY DEF VectorInv
<1>2. /\ alive[v] - size[v] \in Int /\ alive[v] - size[v] - 0 = alive[v] - size[v]
      /\ size[v] - 1 \in Int /\ alive[v] - 1 \in Int
      /\ (alive[v] - 1) - (size[v] - 1) = alive[v] - size[v]
  BY <1>1
<1>3. ASSUME NEW m, Return(v, m, size[v] - 1, alive[v] - 1) PROVE KeepsLosses
  BY <1>2, <1>3, ReturnKeepsLosses
<1>4. Destroy(v) => KeepsLosses
  BY <1>2, ReturnKeepsLosses DEF Destroy
<1>5. PopBack(v) => KeepsLosses
  BY <1>3 DEF PopBack
<1>6. Erase(v, offset) => KeepsLosses
  BY <1>3, ThrowKeepsLosses DEF Erase
<1> QED BY <1>4, <1>5, <1>6

\* Of the exchanges, both vectors have lost nothing after if they had before.
LEMMA ExchangeLosses ==
  ASSUME VectorInv, NEW v \in Vec, NEW w \in Vec \ {v}, MoveConstruct(v, w) \/ MoveAssign(v, w)
  PROVE  (\A u \in Vec : Lost(u) = 0) => \A u \in Vec : Lost(u)' = 0
BY DEF VectorInv, MoveConstruct, MoveAssign, Swap, Exchanged, Lost

\* Of Emplace, one throw of EmplaceBetween loses an object, of its vector.
LEMMA EmplaceLosses ==
  ASSUME VectorInv, NEW v \in Vec, NEW offset \in Size, NEW arg \in Outside \cup Inside(v),
         Emplace(v, offset, arg)
  PROVE  \/ KeepsLosses
         \/ /\ \A u \in Vec \ {v} : Lost(u)' = Lost(u)
            /\ T.assign_may_throw /\ outcome' = "exception"
            /\ offset \in From(0, size[v]) /\ EmplaceBetween(v, offset, arg)
<1>1. size[v] \in Nat /\ alive[v] \in Int /\ offset \in Nat
  BY DEF VectorInv, Size
<1>2. ASSUME NEW m, Return(v, m, size[v] + 1, alive[v] + 1) PROVE KeepsLosses
  <2> DEFINE n == size[v] + 1
             objects == alive[v] + 1
  <2>1. n \in Int /\ objects \in Int /\ objects - n = alive[v] - size[v]
    BY <1>1
  <2>2. Return(v, m, n, objects)
    BY <1>2
  <2> HIDE DEF n, objects
  <2> QED BY <2>1, <2>2, ReturnKeepsLosses
<1>3. CASE EmplaceInNewMemory(v, offset, arg)
  <2>1. /\ alive[v] + (size[v] + 1) - size[v] = alive[v] + 1
        /\ alive[v] + 1 - Cardinality(FirstCatch(offset)) = alive[v]
        /\ alive[v] + (offset + 1) - Cardinality(SecondCatch(offset)) = alive[v]
    BY <1>1, CatchesDestroyAll
  <2> QED BY <1>2, <1>3, <2>1, ShiftKeepsLosses, PlainThrowKeepsLosses DEF EmplaceInNewMemory
<1>4. CASE EmplaceAtEnd(v, arg)
  BY <1>2, <1>4, PlainThrowKeepsLosses DEF EmplaceAtEnd
<1>5. CASE offset < size[v] /\ EmplaceBetween(v, offset, arg)
  <2>1. ASSUME T.assign_may_throw, NEW m, ThrowWith(v, m, alive[v] + 1)
        PROVE  outcome' = "exception" /\ \A u \in Vec \ {v} : Lost(u)' = Lost(u)
    BY <2>1 DEF VectorInv, ThrowWith, Lost
  <2>2. offset \in From(0, size[v])
    BY <1>1, <1>5 DEF From
  <2> QED BY <1>2, <1>5, <2>1, <2>2, ThrowKeepsLosses, PlainThrowKeepsLosses DEF EmplaceBetween
<1> QED BY <1>3, <1>4, <1>5 DEF Emplace

\* Emplace in the middle, into memory that has room: the one call that loses an
\* object, when an assignment throws.
THEOREM VectorLosesOnlyBetween == Spec => OnlyEmplaceBetweenLoses
<1>1. Spec => []VectorInv
  BY VectorInitially, NextKeeps, PTL DEF Spec
<1>2. VectorInv /\ [Next]_vars
        => [\A v \in Vec :
              Lost(v) = 0 => \/ Lost(v)' = 0 \/ (\E w \in Vec : Lost(w) # 0)
                             \/ /\ T.assign_may_throw /\ outcome' = "exception"
                                /\ \E offset \in From(0, size[v]), arg \in Outside \cup Inside(v) :
                                     EmplaceBetween(v, offset, arg)]_vars
  <2> DEFINE Loses(v) == /\ T.assign_may_throw /\ outcome' = "exception"
                         /\ \E offset \in From(0, size[v]), arg \in Outside \cup Inside(v) :
                              EmplaceBetween(v, offset, arg)
             Known == \A v \in Vec :
                        Lost(v) = 0 => Lost(v)' = 0 \/ (\E w \in Vec : Lost(w) # 0) \/ Loses(v)
  <2> SUFFICES ASSUME VectorInv, Next PROVE Known
    OBVIOUS
  <2>1. KeepsLosses => Known
    BY DEF KeepsLosses
  <2> HIDE DEF Known
  <2>2. ASSUME NEW v \in Vec, NEW n \in Size, SizeConstruct(v, n) \/ Reserve(v, n) \/ Resize(v, n)
        PROVE  Known
    BY <2>1, <2>2, ConstructLosses, GrowLosses
  <2>3. ASSUME NEW v \in Vec, NEW w \in Vec \ {v}, CopyConstruct(v, w) \/ CopyAssign(v, w)
        PROVE  Known
    <3>1. 0 \in Size
      BY VectorAssumption DEF Size
    <3> QED BY <2>1, <2>3, <3>1, ConstructLosses, CopyAssignLosses
  <2>4. ASSUME NEW v \in Vec, NEW w \in Vec \ {v}, MoveConstruct(v, w) \/ MoveAssign(v, w)
        PROVE  Known
    <3>1. (\A u \in Vec : Lost(u) = 0) => \A u \in Vec : Lost(u)' = 0
      BY <2>4, ExchangeLosses
    <3> QED BY <3>1 DEF Known
  <2>5. ASSUME NEW v \in Vec, NEW offset, Destroy(v) \/ PopBack(v) \/ Erase(v, offset)
        PROVE  Known
    BY <2>1, <2>5, ShrinkLosses
  <2>6. ASSUME NEW v \in Vec, NEW offset \in Size, NEW arg \in Outside \cup Inside(v),
               Emplace(v, offset, arg)
        PROVE  Known
    <3>1. CASE KeepsLosses
      BY <2>1, <3>1
    <3>2. CASE (\A u \in Vec \ {v} : Lost(u)' = Lost(u)) /\ Loses(v)
      BY <3>2 DEF Known
    <3> QED BY <2>6, <3>1, <3>2, EmplaceLosses
  <2> QED BY <2>2, <2>3, <2>4, <2>5, <2>6 DEF Next
<1> QED BY <1>1, <1>2, PTL DEF Spec, OnlyEmplaceBetweenLoses

(***************************************************************************)
(* Vector implements VectorContents.                                       *)
(***************************************************************************)
\* The first k objects of a memory, as a sequence.
Listed(m, k) == [i \in 1 .. k |-> m[i - 1]]

LEMMA ListedIsSequence ==
  ASSUME NEW m, NEW n, NEW k, Good(m, n, k)
  PROVE  /\ k \in Size /\ k \in Nat
         /\ Listed(m, k) \in [1 .. k -> Element] /\ Listed(m, k) \in Seq(Element)
         /\ Len(Listed(m, k)) = k /\ Listed(m, k) # None
         /\ \A i \in 1 .. k : Listed(m, k)[i] = m[i - 1]
<1>1. k \in Size /\ k \in Nat
  BY VectorAssumption DEF Good, Size
<1>2. \A i \in 1 .. k : i - 1 \in 0 .. k - 1 /\ m[i - 1] \in Element
  BY <1>1, VectorAssumption DEF Good, Memory, From, Size
<1>3. Listed(m, k) \in [1 .. k -> Element]
  BY <1>2 DEF Listed
<1>4. Listed(m, k) \in Seq(Element)
  BY <1>1, <1>3, SeqDef
<1>5. Len(Listed(m, k)) = k
  BY <1>1, <1>3, <1>4
<1>6. Listed(m, k) # None
  BY <1>1, <1>3, ContentsAssumption
<1> QED BY <1>1, <1>3, <1>4, <1>5, <1>6 DEF Listed

\* What a vector contains, as VectorContents sees it.
LEMMA ContentsOfVector ==
  ASSUME VectorInv, NEW v \in Vec
  PROVE  /\ Contents[v] = IF Exists(v) THEN Listed(data[v], size[v]) ELSE None
         /\ Promised!Exists(v) <=> Exists(v)
<1>1. Contents[v] = IF Exists(v) THEN Listed(data[v], size[v]) ELSE None
  BY DEF Contents, Listed
<1>2. Exists(v) => Listed(data[v], size[v]) # None
  BY MemoryOf, ListedIsSequence
<1> QED BY <1>1, <1>2 DEF Promised!Exists

\* A call that returns.
LEMMA ReturnBecomes ==
  ASSUME VectorInv, NEW v \in Vec, NEW m, NEW k, NEW objects,
         Return(v, m, k, objects), Exists(v)'
  PROVE  Promised!Becomes(v, Listed(m, k))
<1>1. data' = [data EXCEPT ![v] = m] /\ size' = [size EXCEPT ![v] = k]
  BY DEF Return
<1>2. data'[v] = m /\ size'[v] = k /\ m # None
  BY <1>1 DEF VectorInv, Exists
<1>3. Contents' = [Contents EXCEPT ![v] = Listed(m, k)]
  <2>1. ASSUME NEW w \in Vec PROVE Contents'[w] = [Contents EXCEPT ![v] = Listed(m, k)][w]
    <3>1. CASE w = v
      BY <1>2, <3>1 DEF Contents, Listed, Exists
    <3>2. CASE w # v
      <4>1. data'[w] = data[w] /\ size'[w] = size[w]
        BY <1>1, <3>2 DEF VectorInv
      <4> QED BY <3>2, <4>1 DEF Contents, Exists
    <3> QED BY <3>1, <3>2
  <2> QED BY <2>1 DEF Contents
<1> QED BY <1>3 DEF Return, Promised!Becomes

\* A call that throws: it changes none of the elements, or some of them.
LEMMA PlainThrowPromised ==
  ASSUME Throw
  PROVE  Promised!Throws
BY DEF Throw, Promised!Throws, Contents, Exists

LEMMA ThrowPromised ==
  ASSUME VectorInv, VectorInv', NEW v \in Vec, NEW m, NEW objects,
         ThrowWith(v, m, objects), Exists(v), Exists(v)'
  PROVE  /\ Promised!Disturbs(v)
         /\ (\A i \in 0 .. size[v] - 1 : m[i] = data[v][i]) => Promised!Throws
<1>1. data' = [data EXCEPT ![v] = m] /\ size' = size
  BY DEF ThrowWith
<1>2. data'[v] = m /\ size'[v] = size[v]
  BY <1>1 DEF VectorInv
<1>3. Contents[v] = Listed(data[v], size[v]) /\ Contents'[v] = Listed(m, size[v])
  BY <1>2 DEF Contents, Listed, Exists
<1>4. Contents' = [Contents EXCEPT ![v] = Contents'[v]]
  <2>1. ASSUME NEW w \in Vec, w # v PROVE Contents'[w] = Contents[w]
    <3>1. data'[w] = data[w] /\ size'[w] = size[w]
      BY <1>1, <2>1 DEF VectorInv
    <3> QED BY <3>1 DEF Contents, Exists
  <2> QED BY <2>1 DEF Contents
<1>5. PICK n : Good(data[v], n, size[v])
  BY DEF VectorInv, Owned
<1>6. PICK c : Good(m, c, size[v])
  BY <1>1, <1>2 DEF VectorInv, Owned, Exists, Good
<1>7. Contents'[v] \in Seq(Element) /\ Len(Contents'[v]) = Len(Contents[v])
  BY <1>3, <1>5, <1>6, ListedIsSequence
<1>8. Promised!Disturbs(v)
  BY <1>4, <1>7 DEF ThrowWith, Promised!Disturbs, Promised!Element, Element
<1>9. ASSUME \A i \in 0 .. size[v] - 1 : m[i] = data[v][i] PROVE Promised!Throws
  <2>1. \A i \in 1 .. size[v] : m[i - 1] = data[v][i - 1]
    BY <1>5, <1>9, ListedIsSequence
  <2>2. Contents'[v] = Contents[v]
    BY <1>3, <2>1 DEF Listed
  <2>3. Contents' = Contents
    BY <1>4, <2>2 DEF Contents
  <2> QED BY <2>3 DEF ThrowWith, Promised!Throws
<1> QED BY <1>8, <1>9

LEMMA SizeConstructPromised ==
  ASSUME VectorInv, NEW v \in Vec, NEW n \in Size, SizeConstruct(v, n)
  PROVE  Promised!Next
<1> DEFINE m == Filled(Allocated(n), From(0, n), LAMBDA i : Default)
           s == [i \in 1 .. n |-> Default]
<1>1. VectorInv' /\ (outcome' = "ok" => Exists(v)')
  BY SizeConstructKeeps
<1>2. ~Promised!Exists(v)
  BY ContentsOfVector DEF SizeConstruct, ConstructN
<1>3. Promised!Becomes(v, s) \/ (s # <<>> /\ Promised!Throws)
  <2>1. CASE n > 0 /\ Throw
    <3>1. 1 \in DOMAIN s
      BY <2>1 DEF Size
    <3>2. s # <<>>
      BY <3>1
    <3> QED BY <2>1, <3>2, PlainThrowPromised
  <2>2. CASE Return(v, m, n, alive[v] + n)
    <3>1. Exists(v)'
      BY <1>1, <2>2 DEF Return
    <3>2. \A i \in 1 .. n : m[i - 1] = Default
      BY VectorAssumption DEF Filled, Allocated, From, Size
    <3>3. Listed(m, n) = s
      BY <3>2 DEF Listed
    <3> HIDE DEF m, s
    <3> QED BY <2>2, <3>1, <3>3, ReturnBecomes
  <2> QED BY <2>1, <2>2 DEF SizeConstruct, ConstructN
<1> QED BY <1>2, <1>3 DEF Promised!Next, Promised!Construct

LEMMA CopyConstructPromised ==
  ASSUME VectorInv, NEW v \in Vec, NEW w \in Vec \ {v}, CopyConstruct(v, w)
  PROVE  Promised!Next
<1> DEFINE n == size[w]
           m == Filled(Allocated(n), From(0, n), LAMBDA i : data[w][i])
<1>1. VectorInv' /\ (outcome' = "ok" => Exists(v)')
  BY CopyConstructKeeps
<1>2. ~Promised!Exists(v) /\ Promised!Exists(w) /\ Contents[w] = Listed(data[w], n)
  BY ContentsOfVector DEF CopyConstruct, ConstructN
<1>3. Good(data[w], Capacity(w), n)
  BY MemoryOf DEF CopyConstruct
<1>4. Promised!Becomes(v, Contents[w]) \/ (Contents[w] # <<>> /\ Promised!Throws)
  <2>1. CASE n > 0 /\ Throw
    <3>1. Len(Contents[w]) = n /\ Contents[w] \in Seq(Element) /\ n \in Nat
      BY <1>2, <1>3, ListedIsSequence
    <3>2. Contents[w] # <<>>
      BY <2>1, <3>1
    <3> QED BY <2>1, <3>2, PlainThrowPromised
  <2>2. CASE Return(v, m, n, alive[v] + n)
    <3>1. Exists(v)'
      BY <1>1, <2>2 DEF Return
    <3>2. n \in Nat
      BY <1>3, ListedIsSequence
    <3>3. \A i \in 1 .. n : m[i - 1] = data[w][i - 1]
      BY <3>2 DEF Filled, Allocated, From
    <3>4. Listed(m, n) = Contents[w]
      BY <1>2, <3>3 DEF Listed
    <3> HIDE DEF m, n
    <3> QED BY <2>2, <3>1, <3>4, ReturnBecomes
  <2> QED BY <2>1, <2>2 DEF CopyConstruct, ConstructN
<1> QED BY <1>2, <1>4 DEF Promised!Next, Promised!Construct

LEMMA DestroyPromised ==
  ASSUME VectorInv, NEW v \in Vec, Destroy(v)
  PROVE  Promised!Next
<1>1. Promised!Exists(v)
  BY ContentsOfVector DEF Destroy
<1>2. data' = [data EXCEPT ![v] = None] /\ size' = [size EXCEPT ![v] = 0]
  BY DEF Destroy, Return
<1>3. Contents' = [Contents EXCEPT ![v] = None]
  <2>1. ASSUME NEW w \in Vec PROVE Contents'[w] = [Contents EXCEPT ![v] = None][w]
    <3>1. CASE w = v
      BY <1>2, <3>1 DEF Contents, Exists, VectorInv
    <3>2. CASE w # v
      <4>1. data'[w] = data[w] /\ size'[w] = size[w]
        BY <1>2, <3>2 DEF VectorInv
      <4> QED BY <3>2, <4>1 DEF Contents, Exists
    <3> QED BY <3>1, <3>2
  <2> QED BY <2>1 DEF Contents
<1>4. Promised!Becomes(v, None)
  BY <1>3 DEF Destroy, Return, Promised!Becomes
<1> QED BY <1>1, <1>4 DEF Promised!Next, Promised!Destroy

\* Construction and assignment by move.
LEMMA MovePromised ==
  ASSUME VectorInv, NEW v \in Vec, NEW w \in Vec \ {v},
         MoveConstruct(v, w) \/ MoveAssign(v, w)
  PROVE  Promised!Next
<1> DEFINE left == IF Exists(v) THEN Contents[v] ELSE <<>>
<1>1. Exists(w) /\ Promised!Exists(w) /\ (Promised!Exists(v) <=> Exists(v))
  BY ContentsOfVector DEF MoveConstruct, MoveAssign, Swap
<1>2. Contents' = [Contents EXCEPT ![v] = Contents[w], ![w] = left]
  <2>1. CASE MoveConstruct(v, w)
    <3>1. /\ data'[v] = data[w] /\ size'[v] = size[w] /\ ~Exists(v)
          /\ data'[w] = Allocated(0) /\ size'[w] = 0
      BY <2>1 DEF MoveConstruct, Exchanged, VectorInv, Owned
    <3>2. Allocated(0) # None
      <4>1. 0 \in Size /\ Allocated(0) \in Memory(0)
        BY VectorAssumption DEF Allocated, Memory, From, Size
      <4> QED BY <4>1, NoneAssumption
    <3>3. ASSUME NEW u \in Vec
          PROVE  Contents'[u] = [Contents EXCEPT ![v] = Contents[w], ![w] = left][u]
      <4>1. CASE u = v
        BY <1>1, <3>1, <4>1 DEF Contents, Exists
      <4>2. CASE u = w
        <5>1. Contents'[w] = [i \in 1 .. 0 |-> data'[w][i - 1]]
          BY <3>1, <3>2 DEF Contents, Exists
        <5>2. Contents'[w] = <<>>
          BY <5>1
        <5> QED BY <3>1, <4>2, <5>2 DEF Contents
      <4>3. CASE u \notin {v, w}
        <5>1. data'[u] = data[u] /\ size'[u] = size[u]
          BY <2>1, <4>3 DEF MoveConstruct, Exchanged, VectorInv
        <5> QED BY <4>3, <5>1 DEF Contents, Exists
      <4> QED BY <4>1, <4>2, <4>3
    <3> QED BY <3>3 DEF Contents
  <2>2. CASE Swap(v, w)
    <3>1. /\ data'[v] = data[w] /\ size'[v] = size[w] /\ Exists(v)
          /\ data'[w] = data[v] /\ size'[w] = size[v]
      BY <2>2 DEF Swap, Exchanged, VectorInv
    <3>3. ASSUME NEW u \in Vec
          PROVE  Contents'[u] = [Contents EXCEPT ![v] = Contents[w], ![w] = left][u]
      <4>1. CASE u = v
        BY <1>1, <3>1, <4>1 DEF Contents, Exists
      <4>2. CASE u = w
        BY <3>1, <4>2 DEF Contents, Exists
      <4>3. CASE u \notin {v, w}
        <5>1. data'[u] = data[u] /\ size'[u] = size[u]
          BY <2>2, <4>3 DEF Swap, Exchanged, VectorInv
        <5> QED BY <4>3, <5>1 DEF Contents, Exists
      <4> QED BY <4>1, <4>2, <4>3
    <3> QED BY <3>3 DEF Contents
  <2> QED BY <2>1, <2>2 DEF MoveAssign
<1>3. outcome' = "ok" /\ UNCHANGED T
  BY DEF MoveConstruct, MoveAssign, Swap
<1>4. Promised!Move(v, w)
  BY <1>1, <1>2, <1>3 DEF Promised!Move
<1> QED BY <1>4 DEF Promised!Next

\* Assignment by copy.
LEMMA CopyAssignPromised ==
  ASSUME VectorInv, VectorInv', NEW v \in Vec, NEW w \in Vec \ {v}, CopyAssign(v, w)
  PROVE  Promised!Next
<1> DEFINE n == size[w]
<1>1. /\ Exists(v) /\ Exists(w) /\ Promised!Exists(v) /\ Promised!Exists(w)
      /\ Contents[w] = Listed(data[w], n)
  BY ContentsOfVector DEF CopyAssign
<1>2. Exists(v)'
  BY <1>1, CopyAssignByCopyKeeps, CopyAssignInPlaceKeeps DEF CopyAssign
<1>3. /\ n \in Nat /\ size[v] \in Nat /\ Good(data[v], Capacity(v), size[v])
      /\ Capacity(v) \in Nat
  BY <1>1, MemoryOf DEF Size
<1>4. SUFFICES Promised!Becomes(v, Contents[w]) \/ Promised!Throws \/ Promised!Disturbs(v)
  BY <1>1 DEF Promised!Next, Promised!Assign
<1>5. ASSUME NEW m, Return(v, m, n, alive[v] + n - size[v]), \A i \in From(0, n) : m[i] = data[w][i]
      PROVE  Promised!Becomes(v, Contents[w])
  <2>1. \A i \in 1 .. n : m[i - 1] = data[w][i - 1]
    BY <1>3, <1>5 DEF From
  <2>2. Listed(m, n) = Contents[w]
    BY <1>1, <2>1 DEF Listed
  <2> HIDE DEF n
  <2> QED BY <1>2, <1>5, <2>2, ReturnBecomes
<1>6. CASE CopyAssignByCopy(v, w)
  <2> DEFINE m == [i \in From(0, n) |-> data[w][i]]
  <2>1. CASE Return(v, m, n, alive[v] + n - size[v])
    <3>1. \A i \in From(0, n) : m[i] = data[w][i]
      OBVIOUS
    <3> HIDE DEF m, n
    <3> QED BY <1>5, <2>1, <3>1
  <2> QED BY <1>6, <2>1, PlainThrowPromised DEF CopyAssignByCopy
<1>7. CASE CopyAssignInPlace(v, w)
  <2> DEFINE m == Destroyed(Filled(data[v], From(0, n), LAMBDA i : data[w][i]),
                            From(n, size[v] - n))
  <2>1. CASE Return(v, m, n, alive[v] + n - size[v])
    <3>1. From(0, n) \subseteq DOMAIN data[v]
      BY <1>3, <1>7 DEF CopyAssignInPlace, Good, Memory, From
    <3>2. \A i \in From(0, n) : m[i] = data[w][i]
      BY <1>3, <3>1 DEF Destroyed, Filled, From
    <3> HIDE DEF m, n
    <3> QED BY <1>5, <2>1, <3>2
  <2>2. ASSUME NEW k \in From(0, Common(v, w)),
               ThrowWith(v, Filled(data[v], From(0, k + 1),
                                   LAMBDA i : IF i = k THEN Unspecified ELSE data[w][i]),
                         alive[v])
        PROVE  Promised!Disturbs(v)
    BY <1>1, <1>2, <2>2, ThrowPromised
  <2>3. ASSUME ThrowWith(v, Filled(data[v], From(0, size[v]), LAMBDA i : data[w][i]), alive[v])
        PROVE  Promised!Disturbs(v)
    BY <1>1, <1>2, <2>3, ThrowPromised
  <2> QED BY <1>7, <2>1, <2>2, <2>3 DEF CopyAssignInPlace
<1> QED BY <1>6, <1>7 DEF CopyAssign

\* ShiftDataToNewMemory, when it throws, has moved from some elements only if
\* it could not copy them.
LEMMA ThrowInShiftPromised ==
  ASSUME VectorInv, VectorInv', NEW v \in Vec, NEW first, NEW last, NEW objects,
         Exists(v), Exists(v)', ThrowInShift(v, first, last, objects)
  PROVE  Promised!Throws \/ (~T.copyable /\ Promised!Disturbs(v))
<1>1. PICK k \in first .. last : ThrowWith(v, AfterFailedShift(v, k), objects)
  BY DEF ThrowInShift
<1>2. CASE T.copyable
  <2>1. AfterFailedShift(v, k) = data[v]
    BY <1>2 DEF ThrowInShift, ShiftMayThrow, ShiftMoves, AfterFailedShift
  <2> QED BY <1>1, <2>1, ThrowPromised
<1>3. CASE ~T.copyable
  BY <1>1, <1>3, ThrowPromised
<1> QED BY <1>2, <1>3

LEMMA ReservePromised ==
  ASSUME VectorInv, VectorInv', NEW v \in Vec, NEW n \in Size, Reserve(v, n)
  PROVE  Promised!Next
<1>1. /\ Exists(v) /\ Exists(v)' /\ Promised!Exists(v)
      /\ Contents[v] = Listed(data[v], size[v])
  BY ReserveKeeps, ContentsOfVector DEF Reserve
<1>2. SUFFICES \/ Promised!Becomes(v, Contents[v]) \/ Promised!Throws
               \/ ~T.copyable /\ Promised!Disturbs(v)
  BY <1>1 DEF Promised!Next, Promised!Reserve
<1>3. CASE Return(v, data[v], size[v], alive[v])
  BY <1>1, <1>3, ReturnBecomes
<1>4. CASE n > Capacity(v) /\ Return(v, Moved(v, n), size[v], alive[v])
  <2>1. size[v] \in Nat /\ size[v] <= n
    BY <1>1, <1>4, MemoryOf DEF Size
  <2>2. \A i \in 1 .. size[v] : Moved(v, n)[i - 1] = data[v][i - 1]
    BY <2>1 DEF Moved, From, Size
  <2>3. Listed(Moved(v, n), size[v]) = Contents[v]
    BY <1>1, <2>2 DEF Listed
  <2> QED BY <1>1, <1>4, <2>3, ReturnBecomes
<1>5. CASE Throw
  BY <1>5, PlainThrowPromised
<1>6. CASE ThrowInShift(v, 0, size[v], alive[v])
  BY <1>1, <1>6, ThrowInShiftPromised
<1> QED BY <1>3, <1>4, <1>5, <1>6 DEF Reserve

\* The elements are where they were in the memory Resize works in.
LEMMA LargerKeepsElements ==
  ASSUME VectorInv, NEW v \in Vec, Exists(v), NEW n \in Size, NEW i \in 0 .. size[v] - 1
  PROVE  Larger(v, n)[i] = data[v][i]
<1>1. size[v] \in Nat /\ size[v] <= Capacity(v) /\ Capacity(v) \in Nat
  BY MemoryOf DEF Size
<1> QED BY <1>1 DEF Larger, Moved, From, Size

LEMMA ResizePromised ==
  ASSUME VectorInv, VectorInv', NEW v \in Vec, NEW n \in Size, Resize(v, n)
  PROVE  Promised!Next
<1> DEFINE s == [i \in 1 .. n |-> IF i <= Len(Contents[v]) THEN Contents[v][i] ELSE Default]
           grown == Filled(Larger(v, n), From(size[v], n - size[v]), LAMBDA i : Default)
           shrunk == Destroyed(data[v], From(n, size[v] - n))
           objects == alive[v] + n - size[v]
<1>1. /\ Exists(v) /\ Exists(v)' /\ Promised!Exists(v)
      /\ Contents[v] = Listed(data[v], size[v])
  BY ResizeKeeps, ContentsOfVector DEF Resize
<1>2. /\ Good(data[v], Capacity(v), size[v]) /\ Capacity(v) \in Size /\ size[v] \in Nat
      /\ size[v] <= Capacity(v) /\ Capacity(v) \in Nat /\ n \in Nat
  BY <1>1, MemoryOf DEF Size
<1>3. /\ Len(Contents[v]) = size[v]
      /\ \A i \in 1 .. size[v] : Contents[v][i] = data[v][i - 1]
  BY <1>1, <1>2, ListedIsSequence
<1>4. SUFFICES Promised!Becomes(v, s) \/ Promised!Throws \/ (~T.copyable /\ Promised!Disturbs(v))
  BY <1>1 DEF Promised!Next, Promised!Resize
<1>5. CASE n > size[v] /\ Return(v, grown, n, objects)
  <2>1. 0 .. n - 1 \subseteq DOMAIN Larger(v, n)
    BY <1>2 DEF Larger, Moved, Good, Memory, From
  <2>2. \A i \in 1 .. size[v] : Larger(v, n)[i - 1] = data[v][i - 1]
    <3>1. \A i \in 1 .. size[v] : i - 1 \in 0 .. size[v] - 1
      BY <1>2
    <3> QED BY <1>1, <3>1, LargerKeepsElements
  <2>3. ASSUME NEW i \in 1 .. n PROVE grown[i - 1] = s[i]
    <3>1. i - 1 \in DOMAIN Larger(v, n) /\ i \in Nat
      BY <1>2, <2>1
    <3>2. CASE i <= size[v]
      <4>1. i \in 1 .. size[v] /\ i - 1 \notin From(size[v], n - size[v])
        BY <1>2, <3>1, <3>2 DEF From
      <4>2. grown[i - 1] = Larger(v, n)[i - 1]
        BY <3>1, <4>1 DEF Filled
      <4> QED BY <1>3, <2>2, <3>2, <4>1, <4>2
    <3>3. CASE ~(i <= size[v])
      <4>1. i - 1 \in From(size[v], n - size[v])
        BY <1>2, <3>1, <3>3 DEF From
      <4>2. grown[i - 1] = Default
        BY <3>1, <4>1 DEF Filled
      <4> QED BY <1>3, <3>3, <4>2
    <3> QED BY <3>2, <3>3
  <2> HIDE DEF grown
  <2>4. Listed(grown, n) = s
    BY <2>3 DEF Listed
  <2> HIDE DEF s, objects
  <2> QED BY <1>1, <1>5, <2>4, ReturnBecomes
<1>6. CASE ~(n > size[v]) /\ Return(v, shrunk, n, objects)
  <2>1. ASSUME NEW i \in 1 .. n PROVE shrunk[i - 1] = s[i]
    <3>1. i - 1 \in DOMAIN data[v] /\ i - 1 \notin From(n, size[v] - n) /\ i <= size[v]
      BY <1>2, <1>6 DEF Good, Memory, From
    <3>2. shrunk[i - 1] = data[v][i - 1]
      BY <3>1 DEF Destroyed, Filled
    <3> QED BY <1>2, <1>3, <3>1, <3>2
  <2> HIDE DEF shrunk
  <2>2. Listed(shrunk, n) = s
    BY <2>1 DEF Listed
  <2> HIDE DEF s, objects
  <2> QED BY <1>1, <1>6, <2>2, ReturnBecomes
<1>7. CASE Throw
  BY <1>7, PlainThrowPromised
<1>8. CASE ThrowInShift(v, 0, size[v], alive[v])
  BY <1>1, <1>8, ThrowInShiftPromised
<1>9. CASE ThrowWith(v, Larger(v, n), alive[v])
  <2>1. \A i \in 0 .. size[v] - 1 : Larger(v, n)[i] = data[v][i]
    BY <1>1, LargerKeepsElements
  <2> QED BY <1>1, <1>9, <2>1, ThrowPromised
<1> QED BY <1>5, <1>6, <1>7, <1>8, <1>9 DEF Resize

\* What the operators on sequences do, element by element.
LEMMA InsertedSequence ==
  ASSUME NEW Elems, NEW s \in Seq(Elems), NEW pos \in 1 .. Len(s) + 1, NEW x \in Elems
  PROVE  Promised!InsertAt(s, pos, x) =
           [i \in 1 .. Len(s) + 1 |-> IF i < pos THEN s[i] ELSE IF i = pos THEN x ELSE s[i - 1]]
<1> DEFINE front == SubSeq(s, 1, pos - 1)
           back == SubSeq(s, pos, Len(s))
           all == (front \o <<x>>) \o back
<1>1. Len(s) \in Nat /\ \A i \in 1 .. Len(s) : s[i] \in Elems
  BY LenProperties, ElementOfSeq
<1>2. /\ front \in Seq(Elems) /\ Len(front) = pos - 1
      /\ \A i \in 1 .. pos - 1 : front[i] = s[i]
  BY <1>1, SubSeqProperties
<1>3. /\ back \in Seq(Elems) /\ Len(back) = Len(s) - pos + 1
      /\ \A i \in 1 .. Len(s) - pos + 1 : back[i] = s[pos + i - 1]
  BY <1>1, SubSeqProperties
<1>4. <<x>> \in Seq(Elems) /\ Len(<<x>>) = 1 /\ <<x>>[1] = x
  OBVIOUS
<1> HIDE DEF front, back
<1>5. /\ front \o <<x>> \in Seq(Elems) /\ Len(front \o <<x>>) = pos
      /\ \A i \in 1 .. pos : (front \o <<x>>)[i] = IF i < pos THEN s[i] ELSE x
  BY <1>1, <1>2, <1>4, ConcatProperties
<1>6. /\ all \in Seq(Elems) /\ Len(all) = Len(s) + 1
      /\ \A i \in 1 .. Len(s) + 1 : all[i] = IF i <= pos THEN (front \o <<x>>)[i] ELSE back[i - pos]
  BY <1>1, <1>3, <1>5, ConcatProperties
<1>7. ASSUME NEW i \in 1 .. Len(s) + 1
      PROVE  all[i] = IF i < pos THEN s[i] ELSE IF i = pos THEN x ELSE s[i - 1]
  <2>1. CASE i <= pos
    BY <1>1, <1>5, <1>6, <2>1
  <2>2. CASE ~(i <= pos)
    <3>1. i - pos \in 1 .. Len(s) - pos + 1 /\ pos + (i - pos) - 1 = i - 1
      BY <1>1, <2>2
    <3> QED BY <1>1, <1>3, <1>6, <2>2, <3>1
  <2> QED BY <2>1, <2>2
<1>8. DOMAIN all = 1 .. Len(s) + 1 /\ all \in [1 .. Len(s) + 1 -> Elems]
  BY <1>6, LenProperties
<1>9. all = Promised!InsertAt(s, pos, x)
  BY DEF Promised!InsertAt, front, back
<1> HIDE DEF all
<1> QED BY <1>7, <1>8, <1>9

LEMMA RemovedSequence ==
  ASSUME NEW Elems, NEW s \in Seq(Elems), NEW pos \in 1 .. Len(s)
  PROVE  Promised!RemoveAt(s, pos) =
           [i \in 1 .. Len(s) - 1 |-> IF i < pos THEN s[i] ELSE s[i + 1]]
<1> DEFINE front == SubSeq(s, 1, pos - 1)
           back == SubSeq(s, pos + 1, Len(s))
           all == front \o back
<1>1. Len(s) \in Nat /\ \A i \in 1 .. Len(s) : s[i] \in Elems
  BY LenProperties, ElementOfSeq
<1>2. /\ front \in Seq(Elems) /\ Len(front) = pos - 1
      /\ \A i \in 1 .. pos - 1 : front[i] = s[i]
  BY <1>1, SubSeqProperties
<1>3. /\ back \in Seq(Elems) /\ Len(back) = Len(s) - pos
      /\ \A i \in 1 .. Len(s) - pos : back[i] = s[pos + i]
  <2>1. /\ back \in Seq(Elems)
        /\ Len(back) = IF pos + 1 <= Len(s) THEN Len(s) - (pos + 1) + 1 ELSE 0
        /\ \A i \in 1 .. Len(s) - (pos + 1) + 1 : back[i] = s[(pos + 1) + i - 1]
    <3>1. pos + 1 \in Int /\ Len(s) \in Int /\ \A i \in pos + 1 .. Len(s) : s[i] \in Elems
      BY <1>1
    <3> QED BY <3>1, SubSeqProperties
  <2>2. \A i \in 1 .. Len(s) - pos : (pos + 1) + i - 1 = pos + i
    BY <1>1
  <2>3. Len(s) - (pos + 1) + 1 = Len(s) - pos /\ (~(pos + 1 <= Len(s)) => Len(s) - pos = 0)
    BY <1>1
  <2> QED BY <2>1, <2>2, <2>3
<1> HIDE DEF front, back
<1>4. /\ all \in Seq(Elems) /\ Len(all) = Len(s) - 1
      /\ \A i \in 1 .. Len(s) - 1 : all[i] = IF i <= pos - 1 THEN front[i] ELSE back[i - (pos - 1)]
  <2>1. /\ all \in Seq(Elems) /\ Len(all) = Len(front) + Len(back)
        /\ \A i \in 1 .. Len(front) + Len(back) : all[i] = IF i <= Len(front) THEN front[i] ELSE back[i - Len(front)]
    BY <1>2, <1>3, ConcatProperties
  <2>2. Len(front) + Len(back) = Len(s) - 1
    BY <1>1, <1>2, <1>3
  <2> HIDE DEF all
  <2> QED BY <1>2, <2>1, <2>2
<1>5. ASSUME NEW i \in 1 .. Len(s) - 1 PROVE all[i] = IF i < pos THEN s[i] ELSE s[i + 1]
  <2>1. CASE i <= pos - 1
    BY <1>1, <1>2, <1>4, <2>1
  <2>2. CASE ~(i <= pos - 1)
    <3>1. i - (pos - 1) \in 1 .. Len(s) - pos /\ pos + (i - (pos - 1)) = i + 1 /\ ~(i < pos)
      BY <1>1, <2>2
    <3> QED BY <1>3, <1>4, <2>2, <3>1
  <2> QED BY <2>1, <2>2
<1>6. all \in [1 .. Len(s) - 1 -> Elems]
  BY <1>4, LenProperties
<1>7. all = Promised!RemoveAt(s, pos)
  BY DEF Promised!RemoveAt, front, back
<1> HIDE DEF all
<1> QED BY <1>5, <1>6, <1>7

LEMMA FrontSequence ==
  ASSUME NEW Elems, NEW s \in Seq(Elems), Len(s) > 0
  PROVE  Promised!Front(s) = [i \in 1 .. Len(s) - 1 |-> s[i]]
<1> DEFINE front == SubSeq(s, 1, Len(s) - 1)
<1>1. Len(s) \in Nat /\ \A i \in 1 .. Len(s) : s[i] \in Elems
  BY LenProperties, ElementOfSeq
<1>2. /\ front \in Seq(Elems) /\ Len(front) = Len(s) - 1
      /\ \A i \in 1 .. Len(s) - 1 : front[i] = s[i]
  <2>1. /\ front \in Seq(Elems)
        /\ Len(front) = IF 1 <= Len(s) - 1 THEN Len(s) - 1 - 1 + 1 ELSE 0
        /\ \A i \in 1 .. Len(s) - 1 - 1 + 1 : front[i] = s[1 + i - 1]
    <3>1. 1 \in Int /\ Len(s) - 1 \in Int /\ \A i \in 1 .. Len(s) - 1 : s[i] \in Elems
      BY <1>1
    <3> QED BY <3>1, SubSeqProperties
  <2>2. Len(s) - 1 - 1 + 1 = Len(s) - 1 /\ \A i \in 1 .. Len(s) - 1 : 1 + i - 1 = i
    BY <1>1
  <2>3. ~(1 <= Len(s) - 1) => Len(s) - 1 = 0
    <3>1. PICK k \in Nat : k = Len(s) /\ k > 0
      BY <1>1
    <3>2. ~(1 <= k - 1) => k - 1 = 0
      BY <3>1
    <3> QED BY <3>1, <3>2
  <2> HIDE DEF front
  <2> QED BY <2>1, <2>2, <2>3
<1>3. front \in [1 .. Len(s) - 1 -> Elems]
  BY <1>2, LenProperties
<1>4. front = Promised!Front(s)
  BY DEF Promised!Front
<1> HIDE DEF front
<1> QED BY <1>2, <1>3, <1>4

LEMMA PopBackPromised ==
  ASSUME VectorInv, VectorInv', NEW v \in Vec, PopBack(v)
  PROVE  Promised!Next
<1> DEFINE n == size[v] - 1
           m == Destroyed(data[v], {n})
<1>1. /\ Exists(v) /\ Exists(v)' /\ Promised!Exists(v) /\ size[v] > 0
      /\ Contents[v] = Listed(data[v], size[v])
  BY PopBackKeeps, ContentsOfVector DEF PopBack
<1>2. Good(data[v], Capacity(v), size[v]) /\ size[v] \in Nat /\ size[v] <= Capacity(v)
  BY <1>1, MemoryOf DEF Size
<1>3. /\ Len(Contents[v]) = size[v] /\ Contents[v] \in Seq(Element)
      /\ \A i \in 1 .. size[v] : Contents[v][i] = data[v][i - 1]
  BY <1>1, <1>2, ListedIsSequence
<1>4. Promised!Front(Contents[v]) = [i \in 1 .. n |-> Contents[v][i]]
  BY <1>1, <1>3, FrontSequence
<1>5. ASSUME NEW i \in 1 .. n PROVE m[i - 1] = Contents[v][i]
  <2>1. i - 1 \in DOMAIN data[v] /\ i - 1 # n /\ i \in 1 .. size[v]
    BY <1>2, MemoryOf, <1>1 DEF Good, Memory, From, Size
  <2> QED BY <1>3, <2>1 DEF Destroyed, Filled
<1>6. Listed(m, n) = Promised!Front(Contents[v])
  BY <1>4, <1>5 DEF Listed
<1>7. Return(v, m, n, alive[v] - 1)
  BY DEF PopBack
<1> HIDE DEF m, n
<1>8. Promised!Becomes(v, Promised!Front(Contents[v]))
  BY <1>1, <1>6, <1>7, ReturnBecomes
<1>9. Contents[v] # <<>>
  BY <1>1, <1>3
<1> QED BY <1>1, <1>8, <1>9 DEF Promised!Next, Promised!PopBack

LEMMA ErasePromised ==
  ASSUME VectorInv, VectorInv', NEW v \in Vec, NEW offset \in Size, Erase(v, offset)
  PROVE  Promised!Next
<1> DEFINE n == size[v] - 1
           pos == offset + 1
           shifted == ShiftedLeft(v, offset, n - offset)
           m == Destroyed(shifted, {n})
<1>1. /\ Exists(v) /\ Exists(v)' /\ Promised!Exists(v) /\ offset \in From(0, size[v])
      /\ Contents[v] = Listed(data[v], size[v])
  BY EraseKeeps, ContentsOfVector DEF Erase
<1>2. /\ Good(data[v], Capacity(v), size[v]) /\ Capacity(v) \in Nat /\ size[v] \in Nat
      /\ size[v] <= Capacity(v) /\ size[v] \in Size
  BY <1>1, MemoryOf DEF Size
<1>3. /\ Len(Contents[v]) = size[v] /\ Contents[v] \in Seq(Element)
      /\ DOMAIN Contents[v] = 1 .. size[v]
      /\ \A i \in 1 .. size[v] : Contents[v][i] = data[v][i - 1]
  BY <1>1, <1>2, ListedIsSequence
<1>4. /\ offset \in Nat /\ n \in Nat /\ offset <= n
      /\ pos \in 1 .. Len(Contents[v]) /\ pos \in DOMAIN Contents[v]
  BY <1>1, <1>2, <1>3 DEF From
<1>5. pos \in Size
  BY <1>2, <1>4, VectorAssumption DEF Size
<1>6. Promised!RemoveAt(Contents[v], pos) =
        [i \in 1 .. n |-> IF i < pos THEN Contents[v][i] ELSE Contents[v][i + 1]]
  BY <1>3, <1>4, RemovedSequence
<1>7. ASSUME NEW i \in 1 .. n
      PROVE  m[i - 1] = IF i < pos THEN Contents[v][i] ELSE Contents[v][i + 1]
  <2>1. /\ i \in 1 .. size[v] /\ i + 1 \in 1 .. size[v] /\ i - 1 # n
        /\ i - 1 \in 0 .. Capacity(v) - 1 /\ (i + 1) - 1 = (i - 1) + 1
    BY <1>2, <1>4
  <2>2. DOMAIN data[v] = 0 .. Capacity(v) - 1
    BY <1>2 DEF Good, Memory, From
  <2>3. m[i - 1] = shifted[i - 1]
    BY <2>1, <2>2 DEF Destroyed, Filled, ShiftedLeft
  <2>4. shifted[i - 1] = IF i - 1 \in From(offset, n - offset) THEN data[v][(i - 1) + 1] ELSE data[v][i - 1]
    BY <2>1, <2>2 DEF Filled, ShiftedLeft
  <2>5. i - 1 \in From(offset, n - offset) <=> ~(i < pos)
    BY <1>4, <2>1 DEF From
  <2>6. Contents[v][i] = data[v][i - 1] /\ Contents[v][i + 1] = data[v][(i - 1) + 1]
    BY <1>3, <2>1
  <2> HIDE DEF m, shifted, n, pos
  <2> QED BY <2>3, <2>4, <2>5, <2>6
<1>8. CASE Return(v, m, n, alive[v] - 1)
  <2> HIDE DEF m, n
  <2>1. Listed(m, n) = Promised!RemoveAt(Contents[v], pos)
    BY <1>6, <1>7 DEF Listed
  <2> HIDE DEF pos
  <2>2. Promised!Becomes(v, Promised!RemoveAt(Contents[v], pos))
    BY <1>1, <1>8, <2>1, ReturnBecomes
  <2> QED BY <1>1, <1>4, <1>5, <2>2 DEF Promised!Next, Promised!Erase
<1>9. ASSUME T.assign_may_throw, NEW k \in From(0, size[v] - 1 - offset),
             ThrowWith(v, Filled(ShiftedLeft(v, offset, k), {offset + k, offset + k + 1},
                                 LAMBDA i : Unspecified), alive[v])
      PROVE  Promised!Next
  <2>1. Promised!Disturbs(v)
    BY <1>1, <1>9, ThrowPromised
  <2> HIDE DEF pos, m, n
  <2> QED BY <1>1, <1>4, <1>5, <1>9, <2>1 DEF Promised!Next, Promised!Erase
<1> QED BY <1>8, <1>9 DEF Erase

\* The memory that Emplace leaves holds the sequence with the new element.
LEMMA OpenedSequence ==
  ASSUME VectorInv, NEW v \in Vec, Exists(v), NEW offset \in 0 .. size[v],
         NEW n \in Nat, size[v] < n, NEW x \in Element
  PROVE  Listed(Opened(v, offset, n, x), size[v] + 1) = Promised!InsertAt(Contents[v], offset + 1, x)
<1> DEFINE m == Opened(v, offset, n, x)
           pos == offset + 1
<1>1. Contents[v] = Listed(data[v], size[v]) /\ Good(data[v], Capacity(v), size[v]) /\ size[v] \in Nat
  BY ContentsOfVector, MemoryOf DEF Size
<1>2. /\ Len(Contents[v]) = size[v] /\ Contents[v] \in Seq(Element)
      /\ \A i \in 1 .. size[v] : Contents[v][i] = data[v][i - 1]
  BY <1>1, ListedIsSequence
<1>3. pos \in 1 .. Len(Contents[v]) + 1 /\ offset \in Nat
  BY <1>1, <1>2
<1>4. Promised!InsertAt(Contents[v], pos, x) =
        [i \in 1 .. size[v] + 1 |-> IF i < pos THEN Contents[v][i]
                                    ELSE IF i = pos THEN x ELSE Contents[v][i - 1]]
  <2> HIDE DEF pos
  <2> DEFINE s == Contents[v]
  <2>1. s \in Seq(Element) /\ pos \in 1 .. Len(s) + 1 /\ Len(s) = size[v]
    BY <1>2, <1>3
  <2> HIDE DEF s
  <2>2. Promised!InsertAt(s, pos, x) =
          [i \in 1 .. Len(s) + 1 |-> IF i < pos THEN s[i] ELSE IF i = pos THEN x ELSE s[i - 1]]
    BY <2>1, InsertedSequence
  <2> QED BY <2>1, <2>2 DEF s
<1>5. ASSUME NEW i \in 1 .. size[v] + 1
      PROVE  m[i - 1] = IF i < pos THEN Contents[v][i] ELSE IF i = pos THEN x ELSE Contents[v][i - 1]
  <2>1. i - 1 \in From(0, n) /\ i - 1 <= size[v] /\ i \in Nat
    BY <1>1 DEF From
  <2>2. m[i - 1] = IF i - 1 < offset THEN data[v][i - 1]
                   ELSE IF i - 1 = offset THEN x ELSE data[v][(i - 1) - 1]
    BY <2>1 DEF Opened
  <2>3. (i - 1 < offset <=> i < pos) /\ (i - 1 = offset <=> i = pos)
    BY <1>3, <2>1
  <2>4. i < pos => i \in 1 .. size[v]
    BY <1>1, <1>3
  <2>5. ~(i < pos) /\ i # pos => i - 1 \in 1 .. size[v]
    BY <1>1, <1>3
  <2> HIDE DEF m, pos
  <2> QED BY <1>2, <2>2, <2>3, <2>4, <2>5
<1> HIDE DEF m
<1>6. Listed(m, size[v] + 1) = Promised!InsertAt(Contents[v], pos, x)
  BY <1>4, <1>5 DEF Listed
<1> QED BY <1>6 DEF m

\* The argument of Emplace is a value, or in the sequence.
LEMMA ReadIsPromised ==
  ASSUME VectorInv, NEW v \in Vec, Exists(v), NEW arg \in Outside \cup Inside(v)
  PROVE  Read(data[v], arg) \in Value \cup Promised!ToSet(Contents[v])
<1>1. /\ Contents[v] = Listed(data[v], size[v]) /\ size[v] \in Nat
      /\ Good(data[v], Capacity(v), size[v])
  BY ContentsOfVector, MemoryOf DEF Size
<1>2. CASE arg \in Outside
  BY <1>2 DEF Outside, Read
<1>3. CASE arg \in Inside(v)
  <2>1. PICK i \in From(0, size[v]) : arg = <<"element", i>>
    BY <1>3 DEF Inside
  <2>2. i + 1 \in 1 .. size[v] /\ (i + 1) - 1 = i
    BY <1>1, <2>1 DEF From
  <2>3. i + 1 \in DOMAIN Contents[v] /\ Contents[v][i + 1] = data[v][i]
    BY <1>1, <2>2, ListedIsSequence
  <2> QED BY <2>1, <2>3 DEF Read, Promised!ToSet
<1> QED BY <1>2, <1>3

\* At the limit of the capacity a new memory is what fails, as in Reserve.
LEMMA EmplacePromised ==
  ASSUME VectorInv, VectorInv', NEW v \in Vec, NEW offset \in Size,
         NEW arg \in Outside \cup Inside(v), Emplace(v, offset, arg)
  PROVE  Promised!Next
<1> DEFINE x == Read(data[v], arg)
           pos == offset + 1
<1>1. /\ Exists(v) /\ Exists(v)' /\ Promised!Exists(v) /\ offset \in 0 .. size[v]
      /\ Contents[v] = Listed(data[v], size[v])
  BY EmplaceKeeps, ContentsOfVector DEF Emplace
<1>2. /\ Good(data[v], Capacity(v), size[v]) /\ Capacity(v) \in Nat /\ Capacity(v) <= MaxCapacity
      /\ size[v] \in Nat /\ size[v] <= Capacity(v)
  BY <1>1, MemoryOf, VectorAssumption DEF Size
<1>3. Len(Contents[v]) = size[v]
  BY <1>1, <1>2, ListedIsSequence
<1>4. pos \in 1 .. Len(Contents[v]) + 1 /\ offset \in Nat
  BY <1>1, <1>2, <1>3
<1>5. x \in Element /\ x \in Promised!Element /\ x \in Value \cup Promised!ToSet(Contents[v])
  BY <1>1, ReadIsElement, ReadIsPromised DEF Promised!Element, Element
<1> HIDE DEF x
<1>6. ASSUME pos \in Size,
             \/ Promised!Becomes(v, Promised!InsertAt(Contents[v], pos, x)) \/ Promised!Throws
             \/ /\ T.move_may_throw \/ T.assign_may_throw
                /\ pos <= Len(Contents[v]) /\ Promised!Disturbs(v)
      PROVE  Promised!Next
  <2> HIDE DEF pos
  <2>1. Promised!Emplace(v, pos, x)
    BY <1>1, <1>4, <1>5, <1>6 DEF Promised!Emplace
  <2> QED BY <1>5, <1>6, <2>1 DEF Promised!Next
<1>7. ASSUME NEW n \in Nat, n <= MaxCapacity, size[v] < n, NEW objects,
             Return(v, Opened(v, offset, n, x), size[v] + 1, objects)
      PROVE  Promised!Next
  <2>1. Listed(Opened(v, offset, n, x), size[v] + 1) = Promised!InsertAt(Contents[v], pos, x)
    BY <1>1, <1>5, <1>7, OpenedSequence
  <2>2. pos \in Size
    BY <1>1, <1>2, <1>4, <1>7, VectorAssumption DEF Size
  <2> HIDE DEF pos
  <2>3. Promised!Becomes(v, Promised!InsertAt(Contents[v], pos, x))
    BY <1>1, <1>7, <2>1, ReturnBecomes
  <2> QED BY <1>6, <2>2, <2>3
<1>8. ASSUME Promised!Throws \/ (~T.copyable /\ Promised!Disturbs(v)) PROVE Promised!Next
  BY <1>1, <1>8 DEF Promised!Next, Promised!Reserve
<1>9. CASE Throw
  BY <1>8, <1>9, PlainThrowPromised
<1>10. ASSUME NEW first, NEW last, NEW objects, ThrowInShift(v, first, last, objects)
       PROVE  Promised!Next
  <2>1. Promised!Throws \/ (~T.copyable /\ Promised!Disturbs(v))
    BY <1>1, <1>10, ThrowInShiftPromised
  <2> QED BY <1>8, <2>1
<1>11. CASE EmplaceInNewMemory(v, offset, arg)
  <2>1. size[v] < Doubled(v) /\ Doubled(v) \in Nat
    BY <1>2 DEF Doubled
  <2> QED BY <1>7, <1>9, <1>10, <1>11, <2>1 DEF EmplaceInNewMemory, x
<1>12. ASSUME size[v] < Capacity(v),
              Return(v, Opened(v, offset, Capacity(v), x), size[v] + 1, alive[v] + 1)
       PROVE  Promised!Next
  BY <1>2, <1>7, <1>12
<1>13. CASE offset = size[v] /\ EmplaceAtEnd(v, arg)
  BY <1>9, <1>12, <1>13 DEF EmplaceAtEnd, x
<1>14. CASE offset < size[v] /\ EmplaceBetween(v, offset, arg)
  <2>1. pos <= Len(Contents[v]) /\ pos \in Size
    BY <1>2, <1>3, <1>4, <1>14, VectorAssumption DEF Size
  <2>2. ASSUME T.move_may_throw \/ T.assign_may_throw, NEW m, NEW objects, ThrowWith(v, m, objects)
        PROVE  Promised!Next
    <3>1. Promised!Disturbs(v)
      BY <1>1, <2>2, ThrowPromised
    <3> HIDE DEF pos
    <3> QED BY <1>6, <2>1, <2>2, <3>1
  <2>3. CASE Return(v, Opened(v, offset, Capacity(v), Read(data[v], arg)), size[v] + 1, alive[v] + 1)
    BY <1>12, <1>14, <2>3 DEF EmplaceBetween, x
  <2>4. CASE /\ T.move_may_throw
             /\ ThrowWith(v, Filled(data[v], {size[v] - 1}, LAMBDA i : Unspecified), alive[v])
    BY <2>2, <2>4
  <2>5. CASE /\ T.assign_may_throw
             /\ \E k \in 0 .. size[v] - 1 - offset :
                  ThrowWith(v, HalfOpened(v, offset, k), alive[v] + 1)
    BY <2>2, <2>5
  <2> QED BY <1>9, <1>14, <2>3, <2>4, <2>5 DEF EmplaceBetween
<1> QED BY <1>11, <1>13, <1>14 DEF Emplace

LEMMA InitPromised == Init => Promised!Init
BY DEF Init, Promised!Init, Contents, Exists

LEMMA NextPromised == VectorInv /\ VectorInv' /\ [Next]_vars => [Promised!Next]_(Promised!vars)
<1> SUFFICES ASSUME VectorInv, VectorInv', [Next]_vars PROVE [Promised!Next]_(Promised!vars)
  OBVIOUS
<1>1. CASE UNCHANGED vars
  BY <1>1 DEF vars, Promised!vars, Contents, Exists
<1>2. ASSUME NEW v \in Vec, NEW n \in Size,
             SizeConstruct(v, n) \/ Reserve(v, n) \/ Resize(v, n)
      PROVE  Promised!Next
  BY <1>2, SizeConstructPromised, ReservePromised, ResizePromised
<1>3. ASSUME NEW v \in Vec, NEW w \in Vec \ {v},
             CopyConstruct(v, w) \/ MoveConstruct(v, w) \/ CopyAssign(v, w) \/ MoveAssign(v, w)
      PROVE  Promised!Next
  BY <1>3, CopyConstructPromised, CopyAssignPromised, MovePromised
<1>4. ASSUME NEW v \in Vec, Destroy(v) \/ PopBack(v) PROVE Promised!Next
  BY <1>4, DestroyPromised, PopBackPromised
<1>5. ASSUME NEW v \in Vec, NEW offset \in Size, Erase(v, offset) PROVE Promised!Next
  BY <1>5, ErasePromised
<1>6. ASSUME NEW v \in Vec, NEW offset \in Size, NEW arg \in Outside \cup Inside(v),
             Emplace(v, offset, arg)
      PROVE  Promised!Next
  BY <1>6, EmplacePromised
<1> QED BY <1>1, <1>2, <1>3, <1>4, <1>5, <1>6 DEF Next

\* Vector: for elements of any type, vectors behave as sequences.  Of the calls
\* that throw, only assignment by copy, those that move what cannot be copied,
\* and those that shift elements in place change any, and never how many.
THEOREM VectorImplementsContents == Spec => ImplementsContents
<1>1. Spec => []VectorInv
  BY VectorInitially, NextKeeps, PTL DEF Spec
<1> QED BY <1>1, InitPromised, NextPromised, PTL DEF Spec, ImplementsContents, Promised!Spec

(***************************************************************************)
(* SinglyLinkedList: the walk from a head, for any lists and any memory.   *)
(***************************************************************************)
\* A chain: the head of a list, each node in front of the next, and no node
\* twice.
Link(l, s, k) == IF k = 0 THEN l ELSE s[k]
IsChain(next, l, s) ==
  /\ s \in Seq(Address)
  /\ \A j, k \in 1 .. Len(s) : s[j] = s[k] => j = k
  /\ \A k \in 0 .. Len(s) : next[Link(l, s, k)] = IF k = Len(s) THEN None ELSE s[k + 1]

\* The recursion of Nodes.
Bound == Cardinality(Address) + 1
Walked(next, f, n) ==
  [p \in Address \cup {None} |-> IF p = None \/ n = 0 THEN <<>> ELSE <<p>> \o f[n - 1][next[p]]]
IsWalk(next, f) == f = [n \in 0 .. Bound |-> Walked(next, f, n)]

LEMMA LeastNatural ==
  ASSUME NEW Q, Q \subseteq Nat, Q # {}
  PROVE  \E n \in Q : \A d \in Q : n <= d
<1> DEFINE R == OpToRel(<, Nat)
<1>1. IsWellFoundedOn(R, Nat)
  BY NatLessThanWellFounded
<1>2. \A d, n \in Nat : d < n => <<d, n>> \in R
  BY DEF OpToRel
<1> HIDE DEF R
<1>3. PICK n \in Q : \A d \in Q : ~(<<d, n>> \in R)
  BY <1>1, WFMin
<1>4. \A d \in Q : ~(d < n)
  BY <1>2, <1>3
<1> QED BY <1>4

LEMMA WalkExists == ASSUME NEW next, Bound \in Nat PROVE \E f : IsWalk(next, f)
<1> DEFINE Upto(n, f) == \A j \in 0 .. n : f[j] = Walked(next, f, j)
           Bad == {n \in Nat : ~\E f : Upto(n, f)}
<1>1. 0 \notin Bad
  <2> DEFINE z == [j \in 0 .. 0 |-> [p \in Address \cup {None} |-> <<>>]]
  <2>1. z[0] = Walked(next, z, 0)
    BY DEF Walked
  <2>2. Upto(0, z)
    BY <2>1
  <2> HIDE DEF z, Upto
  <2> QED BY <2>2
<1>2. ASSUME NEW n \in Nat, n \notin Bad PROVE n + 1 \notin Bad
  <2>1. PICK f : Upto(n, f)
    BY <1>2
  <2> DEFINE g == [j \in 0 .. n + 1 |-> IF j <= n THEN f[j] ELSE Walked(next, f, n + 1)]
  <2>2. \A j \in 0 .. n : g[j] = f[j]
    OBVIOUS
  <2>3. g[n + 1] = Walked(next, f, n + 1)
    OBVIOUS
  <2> HIDE DEF g
  <2>4. ASSUME NEW j \in 0 .. n + 1 PROVE Walked(next, g, j) = Walked(next, f, j)
    <3>1. j = 0 \/ j - 1 \in 0 .. n
      OBVIOUS
    <3>2. j = 0 \/ g[j - 1] = f[j - 1]
      BY <2>2, <3>1
    <3> QED BY <3>2 DEF Walked
  <2>5. ASSUME NEW j \in 0 .. n + 1 PROVE g[j] = Walked(next, g, j)
    <3>1. CASE j \in 0 .. n
      BY <2>1, <2>2, <2>4, <3>1
    <3>2. CASE j = n + 1
      BY <2>3, <2>4, <3>2
    <3> QED BY <3>1, <3>2
  <2>6. Upto(n + 1, g)
    BY <2>5
  <2> HIDE DEF Upto
  <2> QED BY <2>6
<1>3. Bad = {}
  <2> SUFFICES ASSUME Bad # {} PROVE FALSE
    OBVIOUS
  <2>1. Bad \subseteq Nat
    OBVIOUS
  <2> HIDE DEF Bad
  <2>2. PICK n \in Bad : \A d \in Bad : n <= d
    BY <2>1, LeastNatural
  <2>3. n \in Nat /\ n # 0 /\ n - 1 \in Nat
    BY <1>1, <2>1
  <2>4. n - 1 \notin Bad
    BY <2>2, <2>3
  <2>5. (n - 1) + 1 \notin Bad
    BY <1>2, <2>3, <2>4
  <2> QED BY <2>3, <2>5
<1>4. PICK f : Upto(Bound, f)
  BY <1>3
<1> DEFINE h == [j \in 0 .. Bound |-> f[j]]
<1>5. ASSUME NEW j \in 0 .. Bound PROVE h[j] = Walked(next, h, j)
  <2>1. j = 0 \/ j - 1 \in 0 .. Bound
    OBVIOUS
  <2>2. h[j] = f[j] /\ (j = 0 \/ h[j - 1] = f[j - 1])
    BY <2>1
  <2> HIDE DEF h
  <2> QED BY <1>4, <2>2 DEF Walked
<1>6. h = [j \in 0 .. Bound |-> h[j]]
  OBVIOUS
<1> HIDE DEF h
<1>7. IsWalk(next, h)
  BY <1>5, <1>6 DEF IsWalk
<1> QED BY <1>7

NodesOf(next, l) == (CHOOSE f : IsWalk(next, f))[Bound][next[l]]

LEMMA CardinalityOfLists ==
  ASSUME NEW Q PROVE L!Cardinality(Q) = Cardinality(Q) /\ (L!IsFiniteSet(Q) <=> IsFiniteSet(Q))
BY DEF L!Cardinality, Cardinality, L!IsFiniteSet, IsFiniteSet

LEMMA NodesOfTheList ==
  ASSUME NEW l
  PROVE  L!Nodes(l) = NodesOf(list_next, l) /\ L!Nodes(l)' = NodesOf(list_next', l)
<1>1. L!Cardinality(Address) = Cardinality(Address)
  BY CardinalityOfLists
<1> DEFINE c == Cardinality(Address)
<1>2. L!Cardinality(Address) = c
  BY <1>1
<1> HIDE DEF c
<1>3. NodesOf(list_next, l)
        = (CHOOSE f : f = [n \in 0 .. c + 1 |-> Walked(list_next, f, n)])[c + 1][list_next[l]]
  BY DEF NodesOf, IsWalk, Bound, c
<1>4. NodesOf(list_next', l)
        = (CHOOSE f : f = [n \in 0 .. c + 1 |-> Walked(list_next', f, n)])[c + 1][list_next'[l]]
  BY DEF NodesOf, IsWalk, Bound, c
<1> QED BY <1>2, <1>3, <1>4, Zenon DEF L!Nodes, Walked

\* The nodes of a list are its chain.
LEMMA NodesAreTheChain ==
  ASSUME IsFiniteSet(Address), None \notin Address, NEW next, NEW l, NEW s,
         IsChain(next, l, s), Len(s) <= Cardinality(Address)
  PROVE  NodesOf(next, l) = s
<1> DEFINE h == CHOOSE f : IsWalk(next, f)
<1>0. Cardinality(Address) \in Nat /\ Bound \in Nat
  BY FS_CardinalityType DEF Bound
<1>1. NodesOf(next, l) = h[Bound][next[l]]
  BY DEF NodesOf
<1>2. IsWalk(next, h)
  BY <1>0, WalkExists
<1> HIDE DEF h
<1> DEFINE n == Len(s)
<1>3. n \in Nat /\ n < Bound /\ Bound \in Nat /\ \A j \in 1 .. n : s[j] \in Address
  BY <1>0 DEF IsChain, Bound
<1>4. \A j \in 0 .. Bound : h[j] = Walked(next, h, j)
  BY <1>2 DEF IsWalk
\* From a link on, with steps enough, the rest is met.
<1> DEFINE Rest(k) == \A j \in 0 .. Bound :
             j >= k => h[j][next[Link(l, s, n - k)]] = SubSeq(s, n - k + 1, n)
           Bad == {k \in Nat : k <= n /\ ~Rest(k)}
<1>5. Rest(0)
  <2> SUFFICES ASSUME NEW j \in 0 .. Bound PROVE h[j][None] = SubSeq(s, n + 1, n)
    BY <1>3 DEF IsChain
  <2>1. h[j][None] = <<>>
    BY <1>4 DEF Walked
  <2>2. SubSeq(s, n + 1, n) = <<>>
    BY <1>3, SubSeqEmpty DEF IsChain
  <2> QED BY <2>1, <2>2
<1>6. ASSUME NEW k \in Nat, k + 1 <= n, Rest(k) PROVE Rest(k + 1)
  <2> SUFFICES ASSUME NEW j \in 0 .. Bound, j >= k + 1
               PROVE  h[j][next[Link(l, s, n - (k + 1))]] = SubSeq(s, n - (k + 1) + 1, n)
    OBVIOUS
  <2> DEFINE i0 == n - k
  <2>1. /\ i0 \in 1 .. n /\ n - (k + 1) \in 0 .. n /\ n - (k + 1) # n
        /\ n - (k + 1) + 1 = i0 /\ s[i0] \in Address /\ n - k + 1 = i0 + 1 /\ n - k # 0
    BY <1>3, <1>6
  <2>2. next[Link(l, s, n - (k + 1))] = s[i0]
    BY <2>1 DEF IsChain
  <2>3. j - 1 \in 0 .. Bound /\ j - 1 >= k /\ j # 0
    BY <1>3
  <2>4. h[j][s[i0]] = <<s[i0]>> \o h[j - 1][next[s[i0]]]
    BY <1>4, <2>1, <2>3 DEF Walked
  <2>5. h[j - 1][next[s[i0]]] = SubSeq(s, i0 + 1, n)
    <3>1. h[j - 1][next[Link(l, s, n - k)]] = SubSeq(s, n - k + 1, n)
      BY <1>6, <2>3
    <3>2. Link(l, s, n - k) = s[i0] /\ n - k + 1 = i0 + 1
      BY <2>1 DEF Link
    <3> QED BY <3>1, <3>2
  <2>6. SubSeq(s, i0, n) = <<s[i0]>> \o SubSeq(s, i0 + 1, n)
    <3> HIDE DEF i0, n
    <3>1. s \in Seq(Address) /\ n = Len(s)
      BY DEF IsChain, n
    <3> QED BY <2>1, <3>1
  <2> HIDE DEF i0
  <2> QED BY <2>1, <2>2, <2>4, <2>5, <2>6
<1>7. Bad = {}
  <2> SUFFICES ASSUME Bad # {} PROVE FALSE
    OBVIOUS
  <2>1. Bad \subseteq Nat
    OBVIOUS
  <2>2. \A k \in Bad : k <= n /\ ~Rest(k)
    OBVIOUS
  <2>3. \A k \in Nat : k <= n /\ k \notin Bad => Rest(k)
    OBVIOUS
  <2> HIDE DEF Bad, Rest
  <2>4. PICK k \in Bad : \A d \in Bad : k <= d
    BY <2>1, LeastNatural
  <2>5. k \in Nat /\ k # 0 /\ k - 1 \in Nat /\ k - 1 <= n /\ (k - 1) + 1 = k /\ k <= n
    BY <1>3, <1>5, <2>1, <2>2
  <2>6. k - 1 \notin Bad
    BY <2>4, <2>5
  <2>7. Rest((k - 1) + 1)
    BY <1>6, <2>3, <2>5, <2>6
  <2> QED BY <2>2, <2>5, <2>7
<1>8. Rest(n)
  <2> HIDE DEF Rest
  <2> QED BY <1>3, <1>7
<1>9. h[Bound][next[Link(l, s, n - n)]] = SubSeq(s, n - n + 1, n)
  <2>1. Bound \in 0 .. Bound /\ Bound >= n
    BY <1>3
  <2> QED BY <1>8, <2>1
<1>10. Link(l, s, n - n) = l /\ SubSeq(s, n - n + 1, n) = s
  <2>1. n - n = 0 /\ n - n + 1 = 1
    BY <1>3
  <2>2. SubSeq(s, 1, n) = s
    BY SubSeqFull DEF IsChain
  <2> QED BY <2>1, <2>2 DEF Link
<1> QED BY <1>1, <1>9, <1>10

LEMMA ListFacts ==
  /\ IsFiniteSet(Address) /\ List \cap Address = {} /\ None \notin List /\ None \notin Address
  /\ Raw \notin Value
BY ContainersAssumption, CardinalityOfLists DEF L!ListAssumption

(***************************************************************************)
(* SinglyLinkedList: the invariant.  chains has the nodes of each list.    *)
(***************************************************************************)
ListTypes(next, val, sizes) ==
  /\ next \in [List \cup Address -> Address \cup {None}]
  /\ val \in [Address -> Value \cup {Raw}]
  /\ sizes \in [List -> Nat]

Has(s, a) == \E j \in 1 .. Len(s) : s[j] = a

Owns(next, val, sizes, apart, chains) ==
  /\ chains \in [List -> Seq(Address)] /\ apart \subseteq Address
  /\ \A l \in List : IsChain(next, l, chains[l]) /\ sizes[l] = Len(chains[l])
  /\ \A l, m \in List : \A a \in Address : Has(chains[l], a) /\ Has(chains[m], a) => l = m
  /\ \A l \in List : \A a \in apart : ~Has(chains[l], a)
  /\ \A a \in Address : val[a] # Raw <=> a \in apart \/ \E l \in List : Has(chains[l], a)

Chains == [l \in List |-> L!Nodes(l)]
ListInv ==
  /\ ListTypes(list_next, list_value, list_size)
  /\ Owns(list_next, list_value, list_size, list_stray, Chains)

\* No chain is longer than the memory.
LEMMA ChainFits ==
  ASSUME NEW next, NEW l, NEW s, IsChain(next, l, s)
  PROVE  Len(s) \in Nat /\ Len(s) <= Cardinality(Address)
<1>1. Len(s) \in Nat /\ s \in [1 .. Len(s) -> Address]
  BY DEF IsChain
<1>2. s \in Injection(1 .. Len(s), Address)
  BY <1>1 DEF IsChain, Injection, IsInjective
<1>3. Cardinality(1 .. Len(s)) <= Cardinality(Address)
  BY <1>2, FS_Injection, ListFacts
<1>4. Cardinality(1 .. Len(s)) = Len(s)
  BY <1>1, FS_Interval
<1> QED BY <1>1, <1>3, <1>4

\* The chains are what the walks meet: there are no others.
LEMMA ChainsAreTheNodes ==
  ASSUME NEW next, NEW val, NEW sizes, NEW apart, NEW chains, Owns(next, val, sizes, apart, chains)
  PROVE  chains = [l \in List |-> NodesOf(next, l)]
<1>1. ASSUME NEW l \in List PROVE NodesOf(next, l) = chains[l]
  <2>1. IsChain(next, l, chains[l])
    BY DEF Owns
  <2> QED BY <2>1, ChainFits, NodesAreTheChain, ListFacts
<1> QED BY <1>1 DEF Owns

LEMMA NextChains ==
  ASSUME NEW chains, ListTypes(list_next', list_value', list_size'),
         Owns(list_next', list_value', list_size', list_stray', chains)
  PROVE  ListInv' /\ Chains' = chains
<1>1. Chains' = [l \in List |-> NodesOf(list_next', l)]
  <2>1. \A l \in List : L!Nodes(l)' = NodesOf(list_next', l)
    BY NodesOfTheList
  <2> QED BY <2>1 DEF Chains
<1>2. Chains' = chains
  BY <1>1, ChainsAreTheNodes
<1> QED BY <1>2 DEF ListInv

\* The links of a chain are different, and in front of a node or at the end.
LEMMA LinksOfChain ==
  ASSUME NEW next, NEW l \in List, NEW s, IsChain(next, l, s)
  PROVE  /\ Len(s) \in Nat
         /\ \A j \in 1 .. Len(s) : s[j] \in Address /\ Has(s, s[j])
         /\ \A k \in 0 .. Len(s) : Link(l, s, k) \in List \cup Address
         /\ \A j, k \in 0 .. Len(s) : Link(l, s, j) = Link(l, s, k) => j = k
<1>1. Len(s) \in Nat /\ \A j \in 1 .. Len(s) : s[j] \in Address
  BY DEF IsChain
<1>2. \A j \in 1 .. Len(s) : Has(s, s[j])
  BY DEF Has
<1>3. \A k \in 0 .. Len(s) : k = 0 \/ k \in 1 .. Len(s)
  BY <1>1
<1>4. \A k \in 0 .. Len(s) : Link(l, s, k) \in List \cup Address
  BY <1>1, <1>3 DEF Link
<1>5. \A j, k \in 1 .. Len(s) : s[j] = s[k] => j = k
  BY DEF IsChain
<1>6. \A j \in 1 .. Len(s) : s[j] # l
  BY <1>1, ListFacts
<1>7. \A j \in 1 .. Len(s) : j # 0
  BY <1>1
<1>8. \A j, k \in 0 .. Len(s) : Link(l, s, j) = Link(l, s, k) => j = k
  BY <1>3, <1>5, <1>6, <1>7 DEF Link
<1> QED BY <1>1, <1>2, <1>4, <1>8

\* A chain stays one when its links do.
LEMMA ChainKept ==
  ASSUME NEW next, NEW next2, NEW l \in List, NEW s, IsChain(next, l, s), next2[l] = next[l],
         \A a \in Address : Has(s, a) => next2[a] = next[a]
  PROVE  IsChain(next2, l, s)
<1>1. Len(s) \in Nat /\ \A j \in 1 .. Len(s) : s[j] \in Address /\ Has(s, s[j])
  BY LinksOfChain
<1>2. ASSUME NEW k \in 0 .. Len(s) PROVE next2[Link(l, s, k)] = next[Link(l, s, k)]
  <2>1. k = 0 \/ k \in 1 .. Len(s)
    BY <1>1
  <2> QED BY <1>1, <2>1 DEF Link
<1> QED BY <1>2 DEF IsChain

\* A node a is put behind the k-th link, or the one behind it is taken out.
Inserted(s, k, a) ==
  [j \in 1 .. Len(s) + 1 |-> IF j <= k THEN s[j] ELSE IF j = k + 1 THEN a ELSE s[j - 1]]
Removed(s, k) == [j \in 1 .. Len(s) - 1 |-> IF j <= k THEN s[j] ELSE s[j + 1]]

LEMMA InsertedIn ==
  ASSUME NEW Q, NEW s \in Seq(Q), NEW k \in 0 .. Len(s), NEW a \in Q
  PROVE  /\ Inserted(s, k, a) \in Seq(Q) /\ Len(Inserted(s, k, a)) = Len(s) + 1
         /\ \A b : Has(Inserted(s, k, a), b) <=> b = a \/ Has(s, b)
<1> DEFINE t == Inserted(s, k, a)
<1>1. Len(s) \in Nat /\ \A j \in 1 .. Len(s) : s[j] \in Q
  OBVIOUS
<1>2. t = [j \in 1 .. Len(s) + 1 |-> IF j <= k THEN s[j] ELSE IF j = k + 1 THEN a ELSE s[j - 1]]
  BY DEF Inserted
<1> HIDE DEF t
<1>3. \A j \in 1 .. Len(s) + 1 : /\ j <= k => j \in 1 .. Len(s) /\ t[j] = s[j]
                                 /\ j = k + 1 => t[j] = a
                                 /\ j > k + 1 => j - 1 \in 1 .. Len(s) /\ t[j] = s[j - 1]
                                 /\ t[j] \in Q
  BY <1>1, <1>2
<1>4. t \in Seq(Q) /\ Len(t) = Len(s) + 1
  BY <1>1, <1>2, <1>3
<1>5. ASSUME NEW b, Has(s, b) PROVE Has(t, b)
  <2>1. PICK j \in 1 .. Len(s) : s[j] = b
    BY <1>5 DEF Has
  <2>2. j \in 1 .. Len(s) + 1 /\ j + 1 \in 1 .. Len(s) + 1 /\ (j + 1) - 1 = j /\ (j <= k \/ j + 1 > k + 1)
    BY <1>1
  <2>3. t[j] = b \/ t[j + 1] = b
    BY <1>3, <2>1, <2>2
  <2> QED BY <1>4, <2>2, <2>3 DEF Has
<1>6. Has(t, a)
  <2>1. k + 1 \in 1 .. Len(t) /\ k + 1 \in 1 .. Len(s) + 1
    BY <1>1, <1>4
  <2> QED BY <1>3, <2>1 DEF Has
<1>7. ASSUME NEW b, Has(t, b) PROVE b = a \/ Has(s, b)
  <2>1. PICK j \in 1 .. Len(s) + 1 : t[j] = b
    BY <1>4, <1>7 DEF Has
  <2>2. j <= k \/ j = k + 1 \/ j > k + 1
    BY <1>1
  <2> QED BY <1>3, <2>1, <2>2 DEF Has
<1> QED BY <1>4, <1>5, <1>6, <1>7 DEF t

LEMMA InsertedChain ==
  ASSUME NEW next \in [List \cup Address -> Address \cup {None}], NEW l \in List, NEW s,
         IsChain(next, l, s), NEW k \in 0 .. Len(s), NEW a \in Address, ~Has(s, a), NEW next2,
         next2 = [next EXCEPT ![a] = next[Link(l, s, k)], ![Link(l, s, k)] = a]
  PROVE  IsChain(next2, l, Inserted(s, k, a))
<1> DEFINE t == Inserted(s, k, a)
           p == Link(l, s, k)
           n == Len(s)
<1>1. /\ n \in Nat /\ s \in Seq(Address) /\ \A j \in 1 .. n : s[j] \in Address /\ s[j] # a
      /\ \A j \in 0 .. n : Link(l, s, j) \in List \cup Address
      /\ \A i, j \in 0 .. n : Link(l, s, i) = Link(l, s, j) => i = j
  <2>1. s \in Seq(Address)
    BY DEF IsChain
  <2>2. \A j \in 1 .. n : s[j] \in Address /\ Has(s, s[j])
    BY LinksOfChain
  <2>3. /\ \A j \in 0 .. n : Link(l, s, j) \in List \cup Address
        /\ \A i, j \in 0 .. n : Link(l, s, i) = Link(l, s, j) => i = j
    BY LinksOfChain
  <2> QED BY <2>1, <2>2, <2>3
<1>2. t \in Seq(Address) /\ Len(t) = n + 1
  BY <1>1, InsertedIn
<1>3. t = [j \in 1 .. n + 1 |-> IF j <= k THEN s[j] ELSE IF j = k + 1 THEN a ELSE s[j - 1]]
  BY DEF Inserted
<1>4. \A j \in 0 .. n : Link(l, s, j) # a
  BY <1>1, ListFacts DEF Link
<1>5. /\ next2[a] = next[p] /\ next2[p] = a
      /\ \A b \in List \cup Address : b # a /\ b # p => next2[b] = next[b]
  BY <1>1, <1>4
<1>6. \A j \in 0 .. n : next[Link(l, s, j)] = IF j = n THEN None ELSE s[j + 1]
  BY DEF IsChain
<1>7. ASSUME NEW i \in 1 .. n + 1, NEW j \in 1 .. n + 1, t[i] = t[j] PROVE i = j
  <2>1. \A d \in 1 .. n + 1 : t[d] = IF d <= k THEN s[d] ELSE IF d = k + 1 THEN a ELSE s[d - 1]
    BY <1>3
  <2>2. \A d, e \in 1 .. n : s[d] = s[e] => d = e
    BY DEF IsChain
  <2> HIDE DEF t
  <2>3. /\ i <= k => i \in 1 .. n
        /\ j <= k => j \in 1 .. n
        /\ i > k + 1 => i - 1 \in 1 .. n
        /\ j > k + 1 => j - 1 \in 1 .. n
        /\ i <= k \/ i = k + 1 \/ i > k + 1
        /\ j <= k \/ j = k + 1 \/ j > k + 1
    BY <1>1
  <2>4. (t[i] = a <=> i = k + 1) /\ (t[j] = a <=> j = k + 1)
    BY <1>1, <2>1, <2>3
  <2>5. CASE i <= k
    BY <1>1, <1>7, <2>1, <2>2, <2>3, <2>4, <2>5
  <2>6. CASE i = k + 1
    BY <1>7, <2>4, <2>6
  <2>7. CASE i > k + 1
    BY <1>1, <1>7, <2>1, <2>2, <2>3, <2>4, <2>7
  <2> QED BY <2>3, <2>5, <2>6, <2>7
<1>8. ASSUME NEW j \in 0 .. n + 1
      PROVE  next2[Link(l, t, j)] = IF j = n + 1 THEN None ELSE t[j + 1]
  <2>1. \A d \in 1 .. n + 1 : t[d] = IF d <= k THEN s[d] ELSE IF d = k + 1 THEN a ELSE s[d - 1]
    BY <1>3
  <2> HIDE DEF t
  <2>2. CASE j < k
    <3>1. j \in 0 .. n /\ j + 1 \in 1 .. n + 1 /\ j # n /\ (j = 0 \/ j \in 1 .. n + 1) /\ j + 1 <= k
      BY <1>1, <2>2
    <3>2. Link(l, t, j) = Link(l, s, j) /\ t[j + 1] = s[j + 1]
      BY <2>1, <2>2, <3>1 DEF Link
    <3>3. Link(l, s, j) # p /\ Link(l, s, j) # a
      BY <1>1, <1>4, <2>2, <3>1
    <3> QED BY <1>1, <1>5, <1>6, <3>1, <3>2, <3>3
  <2>3. CASE j = k
    <3>1. j \in 0 .. n /\ j + 1 \in 1 .. n + 1 /\ (j = 0 \/ j \in 1 .. n + 1) /\ j # n + 1
      BY <1>1, <2>3
    <3>2. Link(l, t, j) = p /\ t[j + 1] = a
      BY <2>1, <2>3, <3>1 DEF Link
    <3> QED BY <1>5, <3>1, <3>2
  <2>4. CASE j = k + 1
    <3>1. j \in 1 .. n + 1 /\ j # 0 /\ k \in 0 .. n
      BY <1>1, <2>4
    <3>2. Link(l, t, j) = a /\ next2[a] = IF k = n THEN None ELSE s[k + 1]
      BY <1>5, <1>6, <2>1, <2>4, <3>1 DEF Link
    <3>3. ASSUME j # n + 1 PROVE t[j + 1] = s[k + 1]
      <4>1. j + 1 \in 1 .. n + 1 /\ ~(j + 1 <= k) /\ j + 1 # k + 1 /\ (j + 1) - 1 = k + 1
        BY <1>1, <2>4, <3>3
      <4> QED BY <2>1, <4>1
    <3> QED BY <1>1, <2>4, <3>2, <3>3
  <2>5. CASE j > k + 1
    <3>1. j \in 1 .. n + 1 /\ j # 0 /\ j - 1 \in 1 .. n /\ j - 1 \in 0 .. n /\ j - 1 # k /\ j - 1 # 0
      BY <1>1, <2>5
    <3>2. Link(l, t, j) = Link(l, s, j - 1)
      BY <2>1, <2>5, <3>1 DEF Link
    <3>3. Link(l, s, j - 1) # p /\ Link(l, s, j - 1) # a
      BY <1>1, <1>4, <3>1
    <3>4. next2[Link(l, t, j)] = IF j - 1 = n THEN None ELSE s[(j - 1) + 1]
      BY <1>1, <1>5, <1>6, <3>1, <3>2, <3>3
    <3>5. ASSUME j # n + 1 PROVE t[j + 1] = s[(j - 1) + 1]
      <4>1. j + 1 \in 1 .. n + 1 /\ ~(j + 1 <= k) /\ j + 1 # k + 1 /\ (j + 1) - 1 = (j - 1) + 1
        BY <1>1, <2>5, <3>5
      <4> QED BY <2>1, <4>1
    <3> QED BY <1>1, <3>4, <3>5
  <2> QED BY <1>1, <2>2, <2>3, <2>4, <2>5
<1> HIDE DEF t
<1>9. IsChain(next2, l, t)
  BY <1>1, <1>2, <1>7, <1>8 DEF IsChain
<1> QED BY <1>9 DEF t

LEMMA RemovedFrom ==
  ASSUME NEW Q, NEW s \in Seq(Q), NEW k \in 0 .. Len(s) - 1,
         \A i, j \in 1 .. Len(s) : s[i] = s[j] => i = j
  PROVE  /\ Removed(s, k) \in Seq(Q) /\ Len(Removed(s, k)) = Len(s) - 1
         /\ \A i, j \in 1 .. Len(Removed(s, k)) : Removed(s, k)[i] = Removed(s, k)[j] => i = j
         /\ \A b : Has(Removed(s, k), b) <=> b # s[k + 1] /\ Has(s, b)
<1> DEFINE t == Removed(s, k)
           n == Len(s)
<1>1. n \in Nat /\ \A j \in 1 .. n : s[j] \in Q
  OBVIOUS
<1>2. t = [j \in 1 .. n - 1 |-> IF j <= k THEN s[j] ELSE s[j + 1]]
  BY DEF Removed
<1> HIDE DEF t
<1>3. \A j \in 1 .. n - 1 : /\ j \in 1 .. n /\ j + 1 \in 1 .. n
                            /\ j <= k => t[j] = s[j]
                            /\ ~(j <= k) => t[j] = s[j + 1]
                            /\ t[j] \in Q
  BY <1>1, <1>2
<1>4. t \in Seq(Q) /\ Len(t) = n - 1
  BY <1>1, <1>2, <1>3
<1>5. ASSUME NEW b, Has(s, b), b # s[k + 1] PROVE Has(t, b)
  <2>1. PICK j \in 1 .. n : s[j] = b
    BY <1>5 DEF Has
  <2>2. CASE j <= k
    <3>1. j \in 1 .. n - 1
      BY <1>1, <2>2
    <3> QED BY <1>3, <1>4, <2>1, <2>2, <3>1 DEF Has
  <2>3. CASE j > k + 1
    <3>1. j - 1 \in 1 .. n - 1 /\ ~(j - 1 <= k) /\ (j - 1) + 1 = j
      BY <1>1, <2>3
    <3> QED BY <1>3, <1>4, <2>1, <3>1 DEF Has
  <2>4. j # k + 1
    BY <1>5, <2>1
  <2> QED BY <1>1, <2>2, <2>3, <2>4
<1>6. ASSUME NEW b, Has(t, b) PROVE b # s[k + 1] /\ Has(s, b)
  <2>1. PICK j \in 1 .. n - 1 : t[j] = b
    BY <1>4, <1>6 DEF Has
  <2>2. k + 1 \in 1 .. n /\ (j <= k => j # k + 1) /\ (~(j <= k) => j + 1 # k + 1)
    BY <1>1
  <2> QED BY <1>3, <2>1, <2>2 DEF Has
<1>7. ASSUME NEW i \in 1 .. n - 1, NEW j \in 1 .. n - 1, t[i] = t[j] PROVE i = j
  <2>1. PICK d \in 1 .. n : d = (IF i <= k THEN i ELSE i + 1) /\ t[i] = s[d]
    BY <1>3
  <2>2. PICK e \in 1 .. n : e = (IF j <= k THEN j ELSE j + 1) /\ t[j] = s[e]
    BY <1>3
  <2>3. d = e
    BY <1>7, <2>1, <2>2
  <2> QED BY <2>1, <2>2, <2>3
<1> QED BY <1>4, <1>5, <1>6, <1>7 DEF t

LEMMA RemovedChain ==
  ASSUME NEW next \in [List \cup Address -> Address \cup {None}], NEW l \in List, NEW s,
         IsChain(next, l, s), NEW k \in 0 .. Len(s) - 1, NEW next2,
         next2 = [next EXCEPT ![Link(l, s, k)] = next[s[k + 1]], ![s[k + 1]] = None]
  PROVE  IsChain(next2, l, Removed(s, k))
<1> DEFINE t == Removed(s, k)
           p == Link(l, s, k)
           a == s[k + 1]
           n == Len(s)
<1>1. /\ n \in Nat /\ k \in 0 .. n /\ k + 1 \in 1 .. n /\ a = Link(l, s, k + 1) /\ k + 1 \in 0 .. n
      /\ \A j \in 0 .. n : Link(l, s, j) \in List \cup Address
      /\ \A i, j \in 0 .. n : Link(l, s, i) = Link(l, s, j) => i = j
  <2>1. n \in Nat
    BY LinksOfChain
  <2>2. k \in 0 .. n /\ k + 1 \in 1 .. n /\ k + 1 \in 0 .. n /\ k + 1 # 0
    BY <2>1
  <2>3. a = Link(l, s, k + 1)
    BY <2>2 DEF Link
  <2> QED BY <2>1, <2>2, <2>3, LinksOfChain
<1>2. s \in Seq(Address) /\ \A i, j \in 1 .. n : s[i] = s[j] => i = j
  BY DEF IsChain
<1>3. t \in Seq(Address) /\ Len(t) = n - 1 /\ \A i, j \in 1 .. Len(t) : t[i] = t[j] => i = j
  BY <1>2, RemovedFrom
<1>4. t = [j \in 1 .. n - 1 |-> IF j <= k THEN s[j] ELSE s[j + 1]]
  BY DEF Removed
<1>5. p # a /\ p \in List \cup Address /\ a \in List \cup Address
  BY <1>1
<1>6. /\ next2[p] = next[a]
      /\ \A b \in List \cup Address : b # a /\ b # p => next2[b] = next[b]
  BY <1>5
<1>7. \A j \in 0 .. n : next[Link(l, s, j)] = IF j = n THEN None ELSE s[j + 1]
  BY DEF IsChain
<1>8. ASSUME NEW j \in 0 .. n - 1
      PROVE  next2[Link(l, t, j)] = IF j = n - 1 THEN None ELSE t[j + 1]
  <2>1. \A d \in 1 .. n - 1 : t[d] = IF d <= k THEN s[d] ELSE s[d + 1]
    BY <1>4
  <2> HIDE DEF t
  <2>2. CASE j < k
    <3>1. /\ j \in 0 .. n /\ j + 1 \in 1 .. n - 1 /\ j # n /\ (j = 0 \/ j \in 1 .. n - 1) /\ j + 1 <= k
          /\ j # n - 1
      BY <1>1, <2>2
    <3>2. Link(l, t, j) = Link(l, s, j) /\ t[j + 1] = s[j + 1]
      BY <2>1, <2>2, <3>1 DEF Link
    <3>3. Link(l, s, j) # p /\ Link(l, s, j) # a
      BY <1>1, <2>2, <3>1
    <3> QED BY <1>1, <1>6, <1>7, <3>1, <3>2, <3>3
  <2>3. CASE j = k
    <3>1. (j = 0 \/ j \in 1 .. n - 1) /\ (k + 1 = n <=> j = n - 1)
      BY <1>1, <2>3
    <3>2. Link(l, t, j) = p
      BY <2>1, <2>3, <3>1 DEF Link
    <3>3. next2[p] = IF k + 1 = n THEN None ELSE s[(k + 1) + 1]
      BY <1>1, <1>6, <1>7
    <3>4. ASSUME j # n - 1 PROVE t[j + 1] = s[(k + 1) + 1]
      <4>1. j + 1 \in 1 .. n - 1 /\ ~(j + 1 <= k)
        BY <1>1, <2>3, <3>4
      <4> QED BY <2>1, <2>3, <4>1
    <3> QED BY <3>1, <3>2, <3>3, <3>4
  <2>4. CASE j > k
    <3>1. /\ j \in 1 .. n - 1 /\ j # 0 /\ j + 1 \in 0 .. n /\ j + 1 # 0 /\ j + 1 # k /\ j + 1 # k + 1
          /\ (j + 1 = n <=> j = n - 1) /\ ~(j <= k)
      BY <1>1, <2>4
    <3>2. Link(l, t, j) = Link(l, s, j + 1)
      BY <2>1, <3>1 DEF Link
    <3>3. Link(l, s, j + 1) # p /\ Link(l, s, j + 1) # a
      BY <1>1, <3>1
    <3>4. next2[Link(l, t, j)] = IF j + 1 = n THEN None ELSE s[(j + 1) + 1]
      BY <1>1, <1>6, <1>7, <3>1, <3>2, <3>3
    <3>5. ASSUME j # n - 1 PROVE t[j + 1] = s[(j + 1) + 1]
      <4>1. j + 1 \in 1 .. n - 1 /\ ~(j + 1 <= k)
        BY <1>1, <2>4, <3>5
      <4> QED BY <2>1, <4>1
    <3> QED BY <3>1, <3>4, <3>5
  <2> QED BY <1>1, <2>2, <2>3, <2>4
<1> HIDE DEF t
<1>9. n - 1 \in Nat
  BY <1>1
<1>10. IsChain(next2, l, t)
  BY <1>3, <1>8, <1>9 DEF IsChain
<1> QED BY <1>10 DEF t

\* Each list has its own links and nodes, and no one has the memory that is free.
LEMMA LinksAreOwn ==
  ASSUME NEW next, NEW val, NEW sizes, NEW apart, NEW chains,
         Owns(next, val, sizes, apart, chains), NEW l \in List
  PROVE  /\ IsChain(next, l, chains[l]) /\ chains[l] \in Seq(Address) /\ sizes[l] = Len(chains[l])
         /\ \A a \in Address : val[a] = Raw => ~Has(chains[l], a) /\ a \notin apart
         /\ \A m \in List \ {l} : \A k \in 0 .. Len(chains[m]) :
              /\ Link(m, chains[m], k) # l
              /\ \A a \in Address : Has(chains[l], a) => Link(m, chains[m], k) # a
<1>1. /\ IsChain(next, l, chains[l]) /\ chains[l] \in Seq(Address) /\ sizes[l] = Len(chains[l])
      /\ \A a \in Address : val[a] = Raw => ~Has(chains[l], a) /\ a \notin apart
  BY DEF Owns
<1>2. ASSUME NEW m \in List \ {l}, NEW k \in 0 .. Len(chains[m])
      PROVE  /\ Link(m, chains[m], k) # l
             /\ \A a \in Address : Has(chains[l], a) => Link(m, chains[m], k) # a
  <2>1. IsChain(next, m, chains[m])
    BY DEF Owns
  <2>2. /\ Len(chains[m]) \in Nat
        /\ \A j \in 1 .. Len(chains[m]) : chains[m][j] \in Address /\ Has(chains[m], chains[m][j])
    BY <2>1, LinksOfChain
  <2>3. CASE k = 0
    BY <2>3, ListFacts DEF Link
  <2>4. CASE k \in 1 .. Len(chains[m])
    <3>1. Link(m, chains[m], k) = chains[m][k]
      BY <2>2, <2>4 DEF Link
    <3>2. \A a \in Address : Has(chains[l], a) => ~Has(chains[m], a)
      BY DEF Owns
    <3> QED BY <2>2, <2>4, <3>1, <3>2, ListFacts
  <2> QED BY <2>2, <2>3, <2>4
<1> QED BY <1>1, <1>2

LEMMA OwnsInserted ==
  ASSUME NEW next, NEW val, NEW sizes, NEW apart, NEW chains,
         ListTypes(next, val, sizes), Owns(next, val, sizes, apart, chains),
         NEW l \in List, NEW x \in Value, NEW k \in 0 .. Len(chains[l]), NEW a \in Address,
         val[a] = Raw, NEW next2,
         next2 = [next EXCEPT ![a] = next[Link(l, chains[l], k)], ![Link(l, chains[l], k)] = a]
  PROVE  /\ ListTypes(next2, [val EXCEPT ![a] = x], [sizes EXCEPT ![l] = @ + 1])
         /\ Owns(next2, [val EXCEPT ![a] = x], [sizes EXCEPT ![l] = @ + 1], apart,
                 [chains EXCEPT ![l] = Inserted(chains[l], k, a)])
<1> DEFINE s == chains[l]
           p == Link(l, s, k)
           t == Inserted(s, k, a)
           val2 == [val EXCEPT ![a] = x]
           chains2 == [chains EXCEPT ![l] = t]
           sizes2 == [sizes EXCEPT ![l] = @ + 1]
<1>1. IsChain(next, l, s) /\ s \in Seq(Address) /\ sizes[l] = Len(s) /\ Len(s) \in Nat
  BY LinksAreOwn
<1>2. p \in List \cup Address
  BY <1>1, LinksOfChain
<1>3. \A m \in List : ~Has(chains[m], a) /\ a \notin apart
  BY LinksAreOwn
<1>4. /\ next \in [List \cup Address -> Address \cup {None}]
      /\ val \in [Address -> Value \cup {Raw}] /\ sizes \in [List -> Nat]
      /\ chains \in [List -> Seq(Address)]
  BY DEF ListTypes, Owns
<1>5. /\ t \in Seq(Address) /\ Len(t) = Len(s) + 1
      /\ \A b : Has(t, b) <=> b = a \/ Has(s, b)
  BY <1>1, InsertedIn
<1>6. IsChain(next2, l, t)
  BY <1>1, <1>3, <1>4, InsertedChain
<1>7. ListTypes(next2, val2, sizes2)
  <2>1. next[p] \in Address \cup {None}
    BY <1>2, <1>4
  <2>2. next2 \in [List \cup Address -> Address \cup {None}]
    BY <1>4, <2>1
  <2>3. val2 \in [Address -> Value \cup {Raw}] /\ sizes2 \in [List -> Nat]
    BY <1>4
  <2> QED BY <2>2, <2>3 DEF ListTypes
<1>8. ASSUME NEW m \in List PROVE IsChain(next2, m, chains2[m]) /\ sizes2[m] = Len(chains2[m])
  <2>1. CASE m = l
    BY <1>1, <1>4, <1>5, <1>6, <2>1
  <2>2. CASE m # l
    <3>1. /\ IsChain(next, m, chains[m]) /\ p # m /\ sizes[m] = Len(chains[m])
          /\ \A b \in Address : Has(chains[m], b) => p # b
      BY <2>2, LinksAreOwn
    <3>2. next2[m] = next[m] /\ \A b \in Address : Has(chains[m], b) => next2[b] = next[b]
      <4> HIDE DEF p
      <4> QED BY <1>3, <1>4, <3>1, ListFacts DEF p
    <3>3. IsChain(next2, m, chains[m])
      BY <3>1, <3>2, ChainKept
    <3> QED BY <1>4, <2>2, <3>1, <3>3
  <2> QED BY <2>1, <2>2
<1>9. \A m \in List : \A b : Has(chains2[m], b) <=> (m = l /\ b = a) \/ Has(chains[m], b)
  BY <1>4, <1>5
<1>10. chains2 \in [List -> Seq(Address)]
  BY <1>4, <1>5
<1>11. \A b \in Address : val2[b] # Raw <=> b = a \/ val[b] # Raw
  BY <1>4, ListFacts
<1>12. /\ apart \subseteq Address
       /\ \A i, m \in List : \A b \in Address : Has(chains[i], b) /\ Has(chains[m], b) => i = m
       /\ \A m \in List : \A b \in apart : ~Has(chains[m], b)
       /\ \A b \in Address : val[b] # Raw <=> b \in apart \/ \E m \in List : Has(chains[m], b)
  BY DEF Owns
<1> HIDE DEF chains2, val2, sizes2, t, s, p
<1>13. Owns(next2, val2, sizes2, apart, chains2)
  BY <1>3, <1>8, <1>9, <1>10, <1>11, <1>12 DEF Owns
<1> QED BY <1>7, <1>13 DEF chains2, val2, sizes2, t, s

Erased(val, a) == [b \in Address |-> IF b = a THEN Raw ELSE val[b]]

LEMMA OwnsRemoved ==
  ASSUME NEW next, NEW val, NEW sizes, NEW apart, NEW chains,
         ListTypes(next, val, sizes), Owns(next, val, sizes, apart, chains),
         NEW l \in List, NEW k \in 0 .. Len(chains[l]) - 1, NEW next2,
         NEW val2, val2 = Erased(val, chains[l][k + 1]),
         next2 = [next EXCEPT ![Link(l, chains[l], k)] = next[chains[l][k + 1]], ![chains[l][k + 1]] = None]
  PROVE  /\ ListTypes(next2, val2, [sizes EXCEPT ![l] = @ - 1])
         /\ Owns(next2, val2, [sizes EXCEPT ![l] = @ - 1], apart,
                 [chains EXCEPT ![l] = Removed(chains[l], k)])
<1> DEFINE s == chains[l]
           p == Link(l, s, k)
           a == s[k + 1]
           t == Removed(s, k)
           chains2 == [chains EXCEPT ![l] = t]
           sizes2 == [sizes EXCEPT ![l] = @ - 1]
<1>1. IsChain(next, l, s) /\ s \in Seq(Address) /\ sizes[l] = Len(s) /\ Len(s) \in Nat
  BY LinksAreOwn
<1>2. p \in List \cup Address /\ k \in 0 .. Len(s) /\ k + 1 \in 1 .. Len(s) /\ a \in Address /\ Has(s, a)
  <2>1. k \in 0 .. Len(s) /\ k + 1 \in 1 .. Len(s)
    BY <1>1
  <2> QED BY <1>1, <2>1, LinksOfChain
<1>3. \A i, j \in 1 .. Len(s) : s[i] = s[j] => i = j
  BY <1>1 DEF IsChain
<1>4. /\ next \in [List \cup Address -> Address \cup {None}]
      /\ val \in [Address -> Value \cup {Raw}] /\ sizes \in [List -> Nat]
      /\ chains \in [List -> Seq(Address)]
  BY DEF ListTypes, Owns
<1>5. /\ t \in Seq(Address) /\ Len(t) = Len(s) - 1
      /\ \A b : Has(t, b) <=> b # a /\ Has(s, b)
  BY <1>1, <1>3, RemovedFrom
<1>6. IsChain(next2, l, t)
  BY <1>1, <1>4, RemovedChain
<1>7. ListTypes(next2, val2, sizes2)
  <2>1. next[a] \in Address \cup {None}
    BY <1>2, <1>4
  <2>2. next2 \in [List \cup Address -> Address \cup {None}]
    BY <1>4, <2>1
  <2>3. val2 \in [Address -> Value \cup {Raw}]
    BY <1>4 DEF Erased
  <2>4. Len(s) - 1 \in Nat
    BY <1>1
  <2>5. sizes2 \in [List -> Nat]
    BY <1>1, <1>4, <2>4
  <2> QED BY <2>2, <2>3, <2>5 DEF ListTypes
<1>8. ASSUME NEW m \in List PROVE IsChain(next2, m, chains2[m]) /\ sizes2[m] = Len(chains2[m])
  <2>1. CASE m = l
    BY <1>1, <1>4, <1>5, <1>6, <2>1
  <2>2. CASE m # l
    <3>1. /\ IsChain(next, m, chains[m]) /\ p # m /\ sizes[m] = Len(chains[m])
          /\ \A b \in Address : Has(chains[m], b) => p # b
      BY <1>2, <2>2, LinksAreOwn
    <3>2. ~Has(chains[m], a)
      BY <1>2, <2>2 DEF Owns
    <3>3. next2[m] = next[m] /\ \A b \in Address : Has(chains[m], b) => next2[b] = next[b]
      <4> HIDE DEF p, a
      <4> QED BY <1>2, <1>4, <3>1, <3>2, ListFacts DEF p, a
    <3>4. IsChain(next2, m, chains[m])
      BY <3>1, <3>3, ChainKept
    <3> QED BY <1>4, <2>2, <3>1, <3>4
  <2> QED BY <2>1, <2>2
<1>9. \A m \in List : \A b : Has(chains2[m], b) <=> Has(chains[m], b) /\ ~(m = l /\ b = a)
  BY <1>4, <1>5
<1>10. chains2 \in [List -> Seq(Address)]
  BY <1>4, <1>5
<1>11. \A b \in Address : val2[b] # Raw <=> b # a /\ val[b] # Raw
  BY DEF Erased
<1>12. /\ apart \subseteq Address
       /\ \A i, m \in List : \A b \in Address : Has(chains[i], b) /\ Has(chains[m], b) => i = m
       /\ \A m \in List : \A b \in apart : ~Has(chains[m], b)
       /\ \A b \in Address : val[b] # Raw <=> b \in apart \/ \E m \in List : Has(chains[m], b)
  BY DEF Owns
<1>13. \A m \in List : Has(chains[m], a) <=> m = l
  BY <1>2, <1>12
<1>14. a \notin apart
  BY <1>2, <1>12
<1> HIDE DEF chains2, sizes2, t, s, p, a
<1>15. Owns(next2, val2, sizes2, apart, chains2)
  <2>1. \A b \in Address : val2[b] # Raw <=> b \in apart \/ \E m \in List : Has(chains2[m], b)
    <3> SUFFICES ASSUME NEW b \in Address
                 PROVE  val2[b] # Raw <=> b \in apart \/ \E m \in List : Has(chains2[m], b)
      OBVIOUS
    <3>1. CASE b = a
      <4>1. \A m \in List : ~Has(chains2[m], b)
        BY <1>9, <1>13, <3>1
      <4> QED BY <1>11, <1>14, <3>1, <4>1
    <3>2. CASE b # a
      <4>1. \A m \in List : Has(chains2[m], b) <=> Has(chains[m], b)
        BY <1>9, <3>2
      <4> QED BY <1>11, <1>12, <3>2, <4>1
    <3> QED BY <3>1, <3>2
  <2>2. /\ \A i, m \in List : \A b \in Address : Has(chains2[i], b) /\ Has(chains2[m], b) => i = m
        /\ \A m \in List : \A b \in apart : ~Has(chains2[m], b)
    BY <1>9, <1>12
  <2> QED BY <1>8, <1>10, <1>12, <2>1, <2>2 DEF Owns
<1> QED BY <1>7, <1>15 DEF chains2, sizes2, t, s

\* A node that no list gets.
LEMMA OwnsStray ==
  ASSUME NEW next, NEW val, NEW sizes, NEW apart, NEW chains,
         ListTypes(next, val, sizes), Owns(next, val, sizes, apart, chains),
         NEW x \in Value, NEW a \in Address, val[a] = Raw
  PROVE  /\ ListTypes([next EXCEPT ![a] = None], [val EXCEPT ![a] = x], sizes)
         /\ Owns([next EXCEPT ![a] = None], [val EXCEPT ![a] = x], sizes, apart \cup {a}, chains)
<1> DEFINE next2 == [next EXCEPT ![a] = None]
           val2 == [val EXCEPT ![a] = x]
<1>1. /\ next \in [List \cup Address -> Address \cup {None}]
      /\ val \in [Address -> Value \cup {Raw}] /\ sizes \in [List -> Nat]
  BY DEF ListTypes
<1>2. ListTypes(next2, val2, sizes)
  BY <1>1 DEF ListTypes
<1>3. \A m \in List : ~Has(chains[m], a)
  BY LinksAreOwn
<1>4. ASSUME NEW m \in List PROVE IsChain(next2, m, chains[m])
  <2>1. IsChain(next, m, chains[m])
    BY LinksAreOwn
  <2>2. next2[m] = next[m] /\ \A b \in Address : Has(chains[m], b) => next2[b] = next[b]
    BY <1>1, <1>3, ListFacts
  <2> QED BY <2>1, <2>2, ChainKept
<1>5. \A b \in Address : val2[b] # Raw <=> b = a \/ val[b] # Raw
  BY <1>1, ListFacts
<1> HIDE DEF next2, val2
<1>6. Owns(next2, val2, sizes, apart \cup {a}, chains)
  BY <1>3, <1>4, <1>5 DEF Owns
<1> QED BY <1>2, <1>6 DEF next2, val2

\* One list gets a chain of nodes that were free, and loses its own.
IsFresh(t, val) ==
  /\ \A i, j \in 1 .. Len(t) : t[i] = t[j] => i = j
  /\ \A a \in Address : Has(t, a) => val[a] = Raw
Relinked(next2, next, l, t, s) ==
  /\ next2 \in [List \cup Address -> Address \cup {None}]
  /\ \A k \in 0 .. Len(t) : next2[Link(l, t, k)] = IF k = Len(t) THEN None ELSE t[k + 1]
  /\ \A p \in List \cup Address : p # l /\ ~Has(t, p) /\ ~Has(s, p) => next2[p] = next[p]
Restored(val2, val, t, s) ==
  /\ val2 \in [Address -> Value \cup {Raw}]
  /\ \A a \in Address : val2[a] # Raw <=> Has(t, a) \/ (val[a] # Raw /\ ~Has(s, a))

LEMMA OwnsReplaced ==
  ASSUME NEW next, NEW val, NEW sizes, NEW apart, NEW chains,
         ListTypes(next, val, sizes), Owns(next, val, sizes, apart, chains), NEW l \in List,
         NEW t \in Seq(Address), IsFresh(t, val), NEW next2, Relinked(next2, next, l, t, chains[l]),
         NEW val2, Restored(val2, val, t, chains[l])
  PROVE  /\ ListTypes(next2, val2, [sizes EXCEPT ![l] = Len(t)])
         /\ Owns(next2, val2, [sizes EXCEPT ![l] = Len(t)], apart, [chains EXCEPT ![l] = t])
<1> DEFINE sizes2 == [sizes EXCEPT ![l] = Len(t)]
           chains2 == [chains EXCEPT ![l] = t]
<1>1. sizes \in [List -> Nat] /\ chains \in [List -> Seq(Address)] /\ Len(t) \in Nat
  BY DEF ListTypes, Owns
<1>2. ListTypes(next2, val2, sizes2)
  BY <1>1 DEF ListTypes, Relinked, Restored
<1>3. IsChain(next2, l, t)
  BY DEF IsChain, IsFresh, Relinked
<1>4. \A m \in List : \A a \in Address : Has(t, a) => ~Has(chains[m], a) /\ a \notin apart
  BY LinksAreOwn DEF IsFresh
<1>5. \A j \in 1 .. Len(t) : t[j] \in Address
  OBVIOUS
<1>6. \A m \in List : ~Has(t, m) /\ ~Has(chains[l], m)
  BY <1>1, <1>5, ListFacts DEF Has
<1>7. ASSUME NEW m \in List PROVE IsChain(next2, m, chains2[m]) /\ sizes2[m] = Len(chains2[m])
  <2>1. CASE m = l
    BY <1>1, <1>3, <2>1
  <2>2. CASE m # l
    <3>1. IsChain(next, m, chains[m]) /\ sizes[m] = Len(chains[m])
      BY LinksAreOwn
    <3>2. \A b \in Address : Has(chains[m], b) => ~Has(t, b) /\ ~Has(chains[l], b)
      BY <1>4, <2>2 DEF Owns
    <3>3. next2[m] = next[m] /\ \A b \in Address : Has(chains[m], b) => next2[b] = next[b]
      BY <1>6, <2>2, <3>2, ListFacts DEF Relinked
    <3>4. IsChain(next2, m, chains[m])
      BY <3>1, <3>3, ChainKept
    <3> QED BY <1>1, <2>2, <3>1, <3>4
  <2> QED BY <2>1, <2>2
<1>8. \A m \in List : \A b : Has(chains2[m], b) <=> IF m = l THEN Has(t, b) ELSE Has(chains[m], b)
  BY <1>1
<1>9. chains2 \in [List -> Seq(Address)]
  BY <1>1
<1>10. /\ apart \subseteq Address
       /\ \A i, m \in List : \A b \in Address : Has(chains[i], b) /\ Has(chains[m], b) => i = m
       /\ \A m \in List : \A b \in apart : ~Has(chains[m], b)
       /\ \A b \in Address : val[b] # Raw <=> b \in apart \/ \E m \in List : Has(chains[m], b)
  BY DEF Owns
<1> HIDE DEF chains2, sizes2
<1>11. ASSUME NEW b \in Address
       PROVE  val2[b] # Raw <=> b \in apart \/ \E m \in List : Has(chains2[m], b)
  <2>0. val2[b] # Raw <=> Has(t, b) \/ (val[b] # Raw /\ ~Has(chains[l], b))
    BY DEF Restored
  <2>1. CASE Has(t, b)
    BY <1>8, <2>0, <2>1
  <2>2. CASE ~Has(t, b) /\ Has(chains[l], b)
    <3>1. b \notin apart /\ \A m \in List : Has(chains[m], b) => m = l
      BY <1>10, <2>2
    <3> QED BY <1>8, <2>0, <2>2, <3>1
  <2>3. CASE ~Has(t, b) /\ ~Has(chains[l], b)
    <3>1. \A m \in List : Has(chains2[m], b) <=> Has(chains[m], b)
      BY <1>8, <2>3
    <3> QED BY <1>10, <2>0, <2>3, <3>1
  <2> QED BY <2>1, <2>2, <2>3
<1>12. /\ \A i, m \in List : \A b \in Address : Has(chains2[i], b) /\ Has(chains2[m], b) => i = m
       /\ \A m \in List : \A b \in apart : ~Has(chains2[m], b)
  BY <1>4, <1>8, <1>10
<1>13. Owns(next2, val2, sizes2, apart, chains2)
  BY <1>7, <1>9, <1>10, <1>11, <1>12 DEF Owns
<1> QED BY <1>2, <1>13 DEF chains2, sizes2

LEMMA OwnsSwapped ==
  ASSUME NEW next, NEW val, NEW sizes, NEW apart, NEW chains,
         ListTypes(next, val, sizes), Owns(next, val, sizes, apart, chains),
         NEW l \in List, NEW m \in List
  PROVE  /\ ListTypes([next EXCEPT ![l] = next[m], ![m] = next[l]], val,
                      [sizes EXCEPT ![l] = sizes[m], ![m] = sizes[l]])
         /\ Owns([next EXCEPT ![l] = next[m], ![m] = next[l]], val,
                 [sizes EXCEPT ![l] = sizes[m], ![m] = sizes[l]], apart,
                 [chains EXCEPT ![l] = chains[m], ![m] = chains[l]])
<1> DEFINE next2 == [next EXCEPT ![l] = next[m], ![m] = next[l]]
           sizes2 == [sizes EXCEPT ![l] = sizes[m], ![m] = sizes[l]]
           chains2 == [chains EXCEPT ![l] = chains[m], ![m] = chains[l]]
           Other(i) == IF i = l THEN m ELSE IF i = m THEN l ELSE i
<1>1. /\ next \in [List \cup Address -> Address \cup {None}]
      /\ val \in [Address -> Value \cup {Raw}] /\ sizes \in [List -> Nat]
      /\ chains \in [List -> Seq(Address)]
  BY DEF ListTypes, Owns
<1>2. /\ next2 \in [List \cup Address -> Address \cup {None}] /\ sizes2 \in [List -> Nat]
      /\ chains2 \in [List -> Seq(Address)]
  BY <1>1
<1>3. ListTypes(next2, val, sizes2)
  BY <1>1, <1>2 DEF ListTypes
<1>4. \A i \in List : /\ Other(i) \in List /\ Other(Other(i)) = i
                      /\ chains2[i] = chains[Other(i)] /\ next2[i] = next[Other(i)]
                      /\ sizes2[i] = sizes[Other(i)]
  BY <1>1
<1>5. \A b \in Address : next2[b] = next[b]
  BY <1>1, ListFacts
<1> HIDE DEF next2, sizes2, chains2, Other
<1>6. ASSUME NEW i \in List PROVE IsChain(next2, i, chains2[i]) /\ sizes2[i] = Len(chains2[i])
  <2> DEFINE o == Other(i)
             s == chains[o]
  <2>1. IsChain(next, o, s) /\ sizes[o] = Len(s)
    BY <1>4, LinksAreOwn
  <2>2. Len(s) \in Nat /\ \A j \in 1 .. Len(s) : s[j] \in Address
    BY <1>4, <2>1, LinksOfChain
  <2>3. ASSUME NEW k \in 0 .. Len(s) PROVE next2[Link(i, s, k)] = next[Link(o, s, k)]
    <3>1. k = 0 \/ (k # 0 /\ k \in 1 .. Len(s))
      BY <2>2
    <3> QED BY <1>4, <1>5, <2>2, <3>1 DEF Link
  <2>4. IsChain(next2, i, s)
    <3> HIDE DEF s, o
    <3> QED BY <2>1, <2>3 DEF IsChain
  <2> QED BY <1>4, <2>1, <2>4
<1>7. /\ apart \subseteq Address
      /\ \A i, j \in List : \A b \in Address : Has(chains[i], b) /\ Has(chains[j], b) => i = j
      /\ \A i \in List : \A b \in apart : ~Has(chains[i], b)
      /\ \A b \in Address : val[b] # Raw <=> b \in apart \/ \E i \in List : Has(chains[i], b)
  BY DEF Owns
<1>8. \A b \in Address : (\E i \in List : Has(chains2[i], b)) <=> \E i \in List : Has(chains[i], b)
  BY <1>4
<1>9. /\ \A i, j \in List : \A b \in Address : Has(chains2[i], b) /\ Has(chains2[j], b) => i = j
      /\ \A i \in List : \A b \in apart : ~Has(chains2[i], b)
  BY <1>4, <1>7
<1>10. Owns(next2, val, sizes2, apart, chains2)
  BY <1>2, <1>6, <1>7, <1>8, <1>9 DEF Owns
<1> QED BY <1>3, <1>10 DEF next2, sizes2, chains2

(***************************************************************************)
(* SinglyLinkedList: each call keeps the invariant, and does to the        *)
(* contents what ContainerContents says.                                   *)
(***************************************************************************)
ContentsOf(val, s) == [i \in 1 .. Len(s) |-> val[s[i]]]
ListContents == [l \in List |-> L!Contents(l)]

LEMMA FunctionIsSequence ==
  ASSUME NEW Q, NEW n \in Nat, NEW f \in [1 .. n -> Q]
  PROVE  f \in Seq(Q) /\ Len(f) = n
OBVIOUS

LEMMA RemovalFromContents ==
  ASSUME NEW Q, NEW s \in Seq(Q), NEW k \in 0 .. Len(s) - 1
  PROVE  L!Promised!RemoveAt(s, k + 1) = Removed(s, k)
<1>1. L!Promised!RemoveAt(s, k + 1) = Promised!RemoveAt(s, k + 1)
  BY DEF L!Promised!RemoveAt, Promised!RemoveAt
<1>2. k + 1 \in 1 .. Len(s)
  OBVIOUS
<1>3. Promised!RemoveAt(s, k + 1) = [j \in 1 .. Len(s) - 1 |-> IF j < k + 1 THEN s[j] ELSE s[j + 1]]
  BY <1>2, RemovedSequence
<1>4. \A j \in 1 .. Len(s) - 1 : j < k + 1 <=> j <= k
  OBVIOUS
<1> QED BY <1>1, <1>3, <1>4 DEF Removed

LEMMA ContentsAreOfTheChains ==
  /\ ListInv => ListContents = [l \in List |-> ContentsOf(list_value, Chains[l])]
  /\ ListInv' => ListContents' = [l \in List |-> ContentsOf(list_value', Chains'[l])]
<1>1. ASSUME ListInv, NEW l \in List PROVE L!Contents(l) = ContentsOf(list_value, Chains[l])
  <2>1. Chains[l] \in Seq(Address) /\ Chains[l] = L!Nodes(l)
    BY <1>1 DEF ListInv, Owns, Chains
  <2>2. DOMAIN L!Nodes(l) = 1 .. Len(Chains[l])
    BY <2>1
  <2> QED BY <2>1, <2>2 DEF L!Contents, ContentsOf
<1>2. ASSUME ListInv', NEW l \in List PROVE L!Contents(l)' = ContentsOf(list_value', Chains'[l])
  <2>1. Chains'[l] \in Seq(Address) /\ Chains'[l] = L!Nodes(l)'
    BY <1>2 DEF ListInv, Owns, Chains
  <2>2. DOMAIN L!Nodes(l)' = 1 .. Len(Chains'[l])
    BY <2>1
  <2> QED BY <2>1, <2>2 DEF L!Contents, ContentsOf
<1> QED BY <1>1, <1>2 DEF ListContents

LEMMA SameContents ==
  ASSUME NEW s \in Seq(Address), NEW val, NEW val2, \A a \in Address : Has(s, a) => val2[a] = val[a]
  PROVE  ContentsOf(val2, s) = ContentsOf(val, s)
<1>1. \A i \in 1 .. Len(s) : s[i] \in Address /\ Has(s, s[i])
  BY DEF Has
<1> QED BY <1>1 DEF ContentsOf

\* What a call leaves: these chains.
NowOwns(chains) ==
  /\ ListTypes(list_next', list_value', list_size')
  /\ Owns(list_next', list_value', list_size', list_stray', chains)

\* A call that changes one list at most does this to its contents.
LEMMA CallOnOne ==
  ASSUME ListInv, NEW l \in List, NEW t \in Seq(Address), NowOwns([Chains EXCEPT ![l] = t]),
         \A m \in List \ {l} : \A a \in Address : Has(Chains[m], a) => list_value'[a] = list_value[a],
         L!Promised!Call(ContentsOf(list_value, Chains[l]), ContentsOf(list_value', t))
  PROVE  ListInv' /\ L!Promised!Next
<1>1. ListInv' /\ Chains' = [Chains EXCEPT ![l] = t]
  BY NextChains DEF NowOwns
<1>2. Chains \in [List -> Seq(Address)]
  BY DEF ListInv, Owns
<1>3. ListContents = [m \in List |-> ContentsOf(list_value, Chains[m])]
  BY ContentsAreOfTheChains
<1>4. ListContents' = [m \in List |-> ContentsOf(list_value', Chains'[m])]
  BY <1>1, ContentsAreOfTheChains
<1>5. \A m \in List \ {l} : ListContents'[m] = ListContents[m]
  <2>1. ASSUME NEW m \in List \ {l} PROVE ListContents'[m] = ListContents[m]
    <3>1. Chains'[m] = Chains[m] /\ Chains[m] \in Seq(Address)
      BY <1>1, <1>2
    <3>2. ContentsOf(list_value', Chains[m]) = ContentsOf(list_value, Chains[m])
      BY <3>1, SameContents
    <3> QED BY <1>3, <1>4, <3>1, <3>2
  <2> QED BY <2>1
<1>6. ListContents[l] = ContentsOf(list_value, Chains[l]) /\ ListContents'[l] = ContentsOf(list_value', t)
  BY <1>1, <1>2, <1>3, <1>4
<1>7. L!Promised!CallOn(l)
  <2> DEFINE c == ListContents
             c2 == ListContents'
  <2>1. L!Promised!Call(c[l], c2[l]) /\ \A d \in List \ {l} : c2[d] = c[d]
    BY <1>5, <1>6
  <2> QED BY <2>1 DEF L!Promised!CallOn, ListContents
<1> QED BY <1>1, <1>7 DEF L!Promised!Next

LEMMA PushInserts ==
  ASSUME ListInv, NEW l \in List, NEW k \in 0 .. Len(Chains[l]), NEW a \in L!Unused, NEW x \in Value,
         list_next' = [list_next EXCEPT ![a] = list_next[Link(l, Chains[l], k)],
                                        ![Link(l, Chains[l], k)] = a],
         list_value' = [list_value EXCEPT ![a] = x],
         list_size' = [list_size EXCEPT ![l] = @ + 1], list_stray' = list_stray, list_outcome' = "ok"
  PROVE  ListInv' /\ L!Promised!Next
<1> DEFINE s == Chains[l]
           t == Inserted(s, k, a)
           before == ContentsOf(list_value, s)
           after == ContentsOf(list_value', t)
<1>1. a \in Address /\ list_value[a] = Raw
  BY DEF L!Unused, L!Allocated
<1>2. s \in Seq(Address) /\ Len(s) \in Nat /\ list_value \in [Address -> Value \cup {Raw}]
  BY DEF ListInv, Owns, ListTypes
<1>3. NowOwns([Chains EXCEPT ![l] = t])
  BY <1>1, OwnsInserted DEF ListInv, NowOwns
<1>4. \A m \in List : ~Has(Chains[m], a)
  BY <1>1, LinksAreOwn DEF ListInv
<1>5. t \in Seq(Address) /\ Len(t) = Len(s) + 1
  BY <1>1, <1>2, InsertedIn
<1>6. \A b \in Address : b # a => list_value'[b] = list_value[b]
  BY <1>2
<1>7. /\ before = [i \in 1 .. Len(s) |-> list_value[s[i]]]
      /\ after = [i \in 1 .. Len(s) + 1 |-> list_value'[t[i]]]
  BY <1>5 DEF ContentsOf
<1>8. \A i \in 1 .. Len(s) : s[i] \in Address /\ s[i] # a
  BY <1>2, <1>4 DEF Has
<1>9. t = [j \in 1 .. Len(s) + 1 |-> IF j <= k THEN s[j] ELSE IF j = k + 1 THEN a ELSE s[j - 1]]
  BY DEF Inserted
<1>10. list_value'[a] = x
  BY <1>1, <1>2
<1> HIDE DEF t, before, after
<1>11. /\ after \in Seq(Value \cup {Raw}) /\ Len(after) = Len(s) + 1
       /\ before \in Seq(Value \cup {Raw}) /\ Len(before) = Len(s)
  <2>1. \A i \in 1 .. Len(s) + 1 : t[i] \in Address
    BY <1>5
  <2>2. \A b \in Address : list_value'[b] \in Value \cup {Raw} /\ list_value[b] \in Value \cup {Raw}
    BY <1>2, <1>6, <1>10
  <2>3. after \in [1 .. Len(s) + 1 -> Value \cup {Raw}] /\ before \in [1 .. Len(s) -> Value \cup {Raw}]
    BY <1>7, <1>8, <2>1, <2>2
  <2>4. Len(s) + 1 \in Nat
    BY <1>2
  <2> QED BY <1>2, <2>3, <2>4, FunctionIsSequence
<1>12. k + 1 \in DOMAIN after /\ after[k + 1] = x
  BY <1>2, <1>7, <1>9, <1>10
<1>13. L!Promised!RemoveAt(after, k + 1) = before
  <2>1. k \in 0 .. Len(after) - 1
    BY <1>2, <1>11
  <2>2. L!Promised!RemoveAt(after, k + 1) = Removed(after, k)
    BY <1>11, <2>1, RemovalFromContents
  <2>3. Removed(after, k) = [j \in 1 .. Len(s) |-> IF j <= k THEN after[j] ELSE after[j + 1]]
    BY <1>2, <1>11 DEF Removed
  <2>4. ASSUME NEW j \in 1 .. Len(s) PROVE (IF j <= k THEN after[j] ELSE after[j + 1]) = before[j]
    <3>1. j \in 1 .. Len(s) + 1 /\ j + 1 \in 1 .. Len(s) + 1 /\ (j + 1) - 1 = j
      BY <1>2
    <3>2. CASE j <= k
      BY <1>6, <1>7, <1>8, <1>9, <3>1, <3>2
    <3>3. CASE ~(j <= k)
      <4>1. ~(j + 1 <= k) /\ j + 1 # k + 1
        BY <1>2, <3>3
      <4>2. t[j + 1] = s[j]
        BY <1>9, <3>1, <4>1
      <4> QED BY <1>6, <1>7, <1>8, <3>1, <3>3, <4>2
    <3> QED BY <3>2, <3>3
  <2>5. DOMAIN before = 1 .. Len(s) /\ before = [j \in 1 .. Len(s) |-> before[j]]
    BY <1>7
  <2> QED BY <2>2, <2>3, <2>4, <2>5
<1>14. L!Promised!Inserts(before, after)
  BY <1>11, <1>12, <1>13 DEF L!Promised!Inserts
<1>15. L!Promised!Call(before, after)
  BY <1>14 DEF L!Promised!Call
<1> QED BY <1>3, <1>4, <1>5, <1>6, <1>15, CallOnOne DEF before, after, t

LEMMA ListUnchanged ==
  ASSUME ListInv, UNCHANGED <<list_next, list_value, list_size, list_stray>>
  PROVE  ListInv' /\ ListContents' = ListContents
<1>1. Chains' = Chains
  BY DEF Chains, L!Nodes
<1>2. ListInv'
  BY <1>1 DEF ListInv
<1> QED BY <1>1, <1>2, ContentsAreOfTheChains

LEMMA FailureFails ==
  ASSUME ListInv, UNCHANGED <<list_next, list_value, list_size, list_stray>>,
         list_outcome' \in {"exception", "crash"}
  PROVE  ListInv' /\ L!Promised!Next
<1>1. ListInv' /\ ListContents' = ListContents
  BY ListUnchanged
<1>2. L!Promised!Fail
  BY <1>1 DEF L!Promised!Fail, ListContents
<1> QED BY <1>1, <1>2 DEF L!Promised!Next

LEMMA NothingDone ==
  ASSUME ListInv, NEW l \in List, L!Unchanged
  PROVE  ListInv' /\ L!Promised!Next
<1>1. UNCHANGED <<list_next, list_value, list_size, list_stray>> /\ list_outcome' = "ok"
  BY DEF L!Unchanged, L!Done
<1>2. ListInv' /\ ListContents' = ListContents
  BY <1>1, ListUnchanged
<1>3. L!Promised!CallOn(l)
  <2> DEFINE c == ListContents
             c2 == ListContents'
  <2>1. L!Promised!Call(c[l], c2[l]) /\ \A d \in List \ {l} : c2[d] = c[d]
    BY <1>1, <1>2 DEF L!Promised!Call
  <2> QED BY <2>1 DEF L!Promised!CallOn, ListContents
<1> QED BY <1>2, <1>3 DEF L!Promised!Next

\* A position of the list is one of its links.
LEMMA ReachableIsLink ==
  ASSUME ListInv, NEW l \in List, NEW pos \in L!Reachable(l)
  PROVE  \E k \in 0 .. Len(Chains[l]) : pos = Link(l, Chains[l], k)
<1>1. Chains[l] \in Seq(Address) /\ Chains[l] = L!Nodes(l) /\ Len(Chains[l]) \in Nat
  BY DEF ListInv, Owns, Chains
<1>2. pos = l \/ \E k \in 1 .. Len(Chains[l]) : pos = Chains[l][k]
  BY <1>1 DEF L!Reachable, L!ToSet
<1>3. 0 \in 0 .. Len(Chains[l]) /\ \A k \in 1 .. Len(Chains[l]) : k \in 0 .. Len(Chains[l]) /\ k # 0
  BY <1>1
<1> QED BY <1>2, <1>3 DEF Link

LEMMA PushFrontKeeps ==
  ASSUME ListInv, NEW l \in List, NEW x \in Value, L!PushFront(l, x)
  PROVE  ListInv' /\ L!Promised!Next
<1>1. CASE L!BadAlloc
  BY <1>1, FailureFails DEF L!BadAlloc
<1>2. ASSUME NEW a \in L!Unused,
             list_next' = [list_next EXCEPT ![a] = list_next[l], ![l] = a],
             list_value' = [list_value EXCEPT ![a] = x],
             list_size' = [list_size EXCEPT ![l] = @ + 1], L!Done, list_stray' = list_stray
      PROVE  ListInv' /\ L!Promised!Next
  <2>1. 0 \in 0 .. Len(Chains[l])
    BY DEF ListInv, Owns
  <2>2. Link(l, Chains[l], 0) = l
    BY DEF Link
  <2> QED BY <1>2, <2>1, <2>2, PushInserts DEF L!Done
<1> QED BY <1>1, <1>2 DEF L!PushFront

LEMMA InsertAfterKeeps ==
  ASSUME ListInv, NEW l \in List, NEW pos, NEW x \in Value, L!InsertAfter(l, pos, x)
  PROVE  ListInv' /\ L!Promised!Next
<1>1. CASE L!BadAlloc
  BY <1>1, FailureFails DEF L!BadAlloc
<1>2. ASSUME NEW a \in L!Unused, list_value' = [list_value EXCEPT ![a] = x], pos \in L!Reachable(l),
             list_next' = [list_next EXCEPT ![a] = list_next[pos], ![pos] = a],
             list_size' = [list_size EXCEPT ![l] = @ + 1], list_stray' = list_stray, L!Done
      PROVE  ListInv' /\ L!Promised!Next
  <2>1. PICK k \in 0 .. Len(Chains[l]) : pos = Link(l, Chains[l], k)
    BY <1>2, ReachableIsLink
  <2> QED BY <1>2, <2>1, PushInserts DEF L!Done
<1>3. ASSUME NEW a \in L!Unused, list_value' = [list_value EXCEPT ![a] = x],
             list_next' = [list_next EXCEPT ![a] = None],
             list_stray' = list_stray \cup {a}, list_size' = list_size, L!Done
      PROVE  ListInv' /\ L!Promised!Next
  <2>1. a \in Address /\ list_value[a] = Raw
    BY DEF L!Unused, L!Allocated
  <2>2. NowOwns(Chains)
    BY <1>3, <2>1, OwnsStray DEF ListInv, NowOwns
  <2>3. /\ Chains[l] \in Seq(Address) /\ Chains = [Chains EXCEPT ![l] = Chains[l]]
        /\ list_value \in [Address -> Value \cup {Raw}]
    BY DEF ListInv, Owns, ListTypes
  <2>4. \A m \in List : ~Has(Chains[m], a)
    BY <2>1, LinksAreOwn DEF ListInv
  <2>5. \A m \in List : \A b \in Address : Has(Chains[m], b) => list_value'[b] = list_value[b]
    BY <1>3, <2>3, <2>4
  <2>6. ContentsOf(list_value', Chains[l]) = ContentsOf(list_value, Chains[l])
    BY <2>3, <2>5, SameContents
  <2>7. L!Promised!Call(ContentsOf(list_value, Chains[l]), ContentsOf(list_value', Chains[l]))
    BY <1>3, <2>6 DEF L!Promised!Call, L!Done
  <2>8. NowOwns([Chains EXCEPT ![l] = Chains[l]])
    BY <2>2, <2>3
  <2> QED BY <2>3, <2>5, <2>7, <2>8, CallOnOne
<1> QED BY <1>1, <1>2, <1>3 DEF L!InsertAfter

LEMMA UnlinkKeeps ==
  ASSUME ListInv, NEW l \in List, NEW p \in L!Reachable(l), list_next[p] # None, L!Unlink(l, p)
  PROVE  ListInv' /\ L!Promised!Next
<1> DEFINE s == Chains[l]
<1>1. PICK k \in 0 .. Len(s) : p = Link(l, s, k)
  BY ReachableIsLink
<1>2. IsChain(list_next, l, s) /\ s \in Seq(Address) /\ Len(s) \in Nat
  BY LinksAreOwn DEF ListInv
<1>3. k # Len(s) /\ list_next[p] = s[k + 1]
  BY <1>1, <1>2 DEF IsChain
<1>4. k \in 0 .. Len(s) - 1 /\ k + 1 \in 1 .. Len(s)
  BY <1>2, <1>3
<1> DEFINE a == s[k + 1]
           t == Removed(s, k)
           before == ContentsOf(list_value, s)
           after == ContentsOf(list_value', t)
<1>5. /\ list_next' = [list_next EXCEPT ![Link(l, s, k)] = list_next[a], ![a] = None]
      /\ list_value' = [b \in Address |-> IF b = a THEN Raw ELSE list_value[b]]
      /\ list_size' = [list_size EXCEPT ![l] = @ - 1] /\ list_stray' = list_stray /\ list_outcome' = "ok"
  <2>1. \A b : b \in {a} <=> b = a
    OBVIOUS
  <2> QED BY <1>1, <1>3, <2>1 DEF L!Unlink, L!Done, L!Deleted
<1>6. NowOwns([Chains EXCEPT ![l] = t])
  <2>1. /\ ListTypes(list_next, list_value, list_size)
        /\ Owns(list_next, list_value, list_size, list_stray, Chains)
    BY DEF ListInv
  <2>2. /\ ListTypes(list_next', list_value', [list_size EXCEPT ![l] = @ - 1])
        /\ Owns(list_next', list_value', [list_size EXCEPT ![l] = @ - 1], list_stray,
                [Chains EXCEPT ![l] = t])
    <3>1. k \in 0 .. Len(Chains[l]) - 1
      BY <1>4
    <3>2. list_next' = [list_next EXCEPT ![Link(l, Chains[l], k)] = list_next[Chains[l][k + 1]],
                                         ![Chains[l][k + 1]] = None]
      BY <1>5
    <3>3. list_value' = Erased(list_value, Chains[l][k + 1])
      BY <1>5 DEF Erased
    <3> HIDE DEF s, t, a
    <3> QED BY <2>1, <3>1, <3>2, <3>3, OwnsRemoved DEF t, s
  <2> QED BY <1>5, <2>2 DEF NowOwns
<1>7. \A i, j \in 1 .. Len(s) : s[i] = s[j] => i = j
  BY <1>2 DEF IsChain
<1>8. t \in Seq(Address) /\ Len(t) = Len(s) - 1
  BY <1>2, <1>4, <1>7, RemovedFrom
<1>9. a \in Address /\ Has(s, a)
  BY <1>2, <1>4 DEF Has
<1>10. \A m \in List \ {l} : ~Has(Chains[m], a)
  BY <1>9 DEF ListInv, Owns
<1>11. \A b \in Address : b # a => list_value'[b] = list_value[b]
  BY <1>5
<1>12. after = L!Promised!RemoveAt(before, k + 1)
  <2>1. /\ before = [i \in 1 .. Len(s) |-> list_value[s[i]]]
        /\ after = [i \in 1 .. Len(s) - 1 |-> list_value'[t[i]]]
    BY <1>8 DEF ContentsOf
  <2>2. list_value \in [Address -> Value \cup {Raw}]
    BY DEF ListInv, ListTypes
  <2>3. before \in Seq(Value \cup {Raw}) /\ Len(before) = Len(s)
    <3>1. \A i \in 1 .. Len(s) : s[i] \in Address
      BY <1>2
    <3>2. before \in [1 .. Len(s) -> Value \cup {Raw}]
      BY <2>1, <2>2, <3>1
    <3> QED BY <1>2, <3>2, FunctionIsSequence
  <2>4. L!Promised!RemoveAt(before, k + 1) = Removed(before, k)
    BY <1>4, <2>3, RemovalFromContents
  <2>5. Removed(before, k) = [j \in 1 .. Len(s) - 1 |-> IF j <= k THEN before[j] ELSE before[j + 1]]
    BY <2>3 DEF Removed
  <2>6. t = [j \in 1 .. Len(s) - 1 |-> IF j <= k THEN s[j] ELSE s[j + 1]]
    BY DEF Removed
  <2>7. ASSUME NEW j \in 1 .. Len(s) - 1
        PROVE  list_value'[t[j]] = IF j <= k THEN before[j] ELSE before[j + 1]
    <3> DEFINE i == IF j <= k THEN j ELSE j + 1
    <3>1. i \in 1 .. Len(s) /\ i # k + 1 /\ t[j] = s[i]
      BY <1>2, <1>4, <2>6
    <3>2. (IF j <= k THEN before[j] ELSE before[j + 1]) = before[i]
      OBVIOUS
    <3> HIDE DEF i, t, before
    <3>3. s[i] # a /\ s[i] \in Address
      BY <1>2, <1>4, <1>7, <3>1
    <3> QED BY <1>11, <2>1, <3>1, <3>2, <3>3
  <2> HIDE DEF t, before, after
  <2>8. Removed(before, k) = [j \in 1 .. Len(s) - 1 |-> list_value'[t[j]]]
    BY <2>5, <2>7, Zenon
  <2> QED BY <2>1, <2>4, <2>8, Zenon
<1>13. Len(before) = Len(after) + 1 /\ k + 1 \in DOMAIN before
  <2>1. /\ before = [i \in 1 .. Len(s) |-> list_value[s[i]]]
        /\ after = [i \in 1 .. Len(s) - 1 |-> list_value'[t[i]]]
    BY <1>8 DEF ContentsOf
  <2>2. Len(s) - 1 \in Nat
    BY <1>4
  <2> HIDE DEF before, after
  <2>3. Len(before) = Len(s) /\ Len(after) = Len(s) - 1
    BY <1>2, <2>1, <2>2
  <2> QED BY <1>2, <1>4, <2>1, <2>3
<1> HIDE DEF before, after, t
<1>14. L!Promised!Call(before, after)
  BY <1>5, <1>12, <1>13 DEF L!Promised!Call, L!Promised!Deletes
<1>15. \A m \in List \ {l} : \A b \in Address : Has(Chains[m], b) => list_value'[b] = list_value[b]
  BY <1>10, <1>11
<1> QED BY <1>6, <1>8, <1>14, <1>15, CallOnOne DEF before, after, t

LEMMA EraseAfterKeeps ==
  ASSUME ListInv, NEW l \in List, NEW pos, L!EraseAfter(l, pos)
  PROVE  ListInv' /\ L!Promised!Next
<1>1. CASE pos \in L!Reachable(l) /\ list_next[pos] # None /\ L!Unlink(l, pos)
  BY <1>1, UnlinkKeeps
<1>2. CASE list_outcome' = "crash" /\ UNCHANGED <<list_next, list_value, list_size, list_stray>>
  BY <1>2, FailureFails
<1>3. CASE L!Unchanged
  BY <1>3, NothingDone
<1> QED BY <1>1, <1>2, <1>3 DEF L!EraseAfter

LEMMA PopFrontKeeps ==
  ASSUME ListInv, NEW l \in List, L!PopFront(l)
  PROVE  ListInv' /\ L!Promised!Next
<1>1. l \in L!Reachable(l)
  BY DEF L!Reachable
<1> QED BY <1>1, UnlinkKeeps, NothingDone DEF L!PopFront

LEMMA NodesAsSet ==
  ASSUME ListInv, NEW l \in List
  PROVE  /\ \A p : p \in L!ToSet(L!Nodes(l)) <=> Has(Chains[l], p)
         /\ \A p : p \in L!Reachable(l) <=> p = l \/ Has(Chains[l], p)
         /\ L!Nodes(l) = Chains[l] /\ Chains[l] \in Seq(Address) /\ list_size[l] = Len(Chains[l])
<1>1. Chains[l] \in Seq(Address) /\ Chains[l] = L!Nodes(l) /\ list_size[l] = Len(Chains[l])
  BY DEF ListInv, Owns, Chains
<1>2. DOMAIN Chains[l] = 1 .. Len(Chains[l])
  BY <1>1
<1>3. \A p : p \in L!ToSet(L!Nodes(l)) <=> Has(Chains[l], p)
  BY <1>1, <1>2 DEF L!ToSet, Has
<1> QED BY <1>1, <1>3 DEF L!Reachable

\* The values of the other lists stay where a list only gets new nodes and
\* loses its own.
KeptElse(val2, val, t, s) ==
  \A a \in Address : ~Has(t, a) /\ ~Has(s, a) => val2[a] = val[a]

LEMMA OthersKeepTheirs ==
  ASSUME ListInv, NEW l \in List, NEW t \in Seq(Address), IsFresh(t, list_value), NEW val2,
         KeptElse(val2, list_value, t, Chains[l]),
         NEW m \in List \ {l}, NEW a \in Address, Has(Chains[m], a)
  PROVE  val2[a] = list_value[a]
<1>1. ~Has(Chains[l], a)
  BY DEF ListInv, Owns
<1>2. list_value[a] # Raw
  BY DEF ListInv, Owns
<1> QED BY <1>1, <1>2 DEF IsFresh, KeptElse

LEMMA ClearKeeps ==
  ASSUME ListInv, NEW l \in List, L!Clear(l)
  PROVE  ListInv' /\ L!Promised!Next
<1> DEFINE s == Chains[l]
           t == <<>>
<1>1. /\ \A p : p \in L!ToSet(L!Nodes(l)) <=> Has(s, p)
      /\ \A p : p \in L!Reachable(l) <=> p = l \/ Has(s, p)
      /\ L!Nodes(l) = s /\ s \in Seq(Address) /\ list_size[l] = Len(s)
  BY NodesAsSet
<1>2. /\ list_next \in [List \cup Address -> Address \cup {None}] /\ Len(s) \in Nat
      /\ list_value \in [Address -> Value \cup {Raw}] /\ list_size \in [List -> Nat]
  BY <1>1 DEF ListInv, ListTypes
<1>3. t \in Seq(Address) /\ Len(t) = 0 /\ \A p : ~Has(t, p)
  BY DEF Has
<1>4. IsFresh(t, list_value)
  BY <1>3 DEF IsFresh
<1>5. Relinked(list_next', list_next, l, t, s)
  <2>1. list_next' = [p \in List \cup Address |-> IF p \in L!Reachable(l) THEN None ELSE list_next[p]]
    BY <1>2 DEF L!Clear, L!Nulled
  <2>2. list_next' \in [List \cup Address -> Address \cup {None}]
    BY <1>2, <2>1
  <2>3. \A k \in 0 .. 0 : k = 0
    OBVIOUS
  <2>4. list_next'[l] = None
    BY <1>1, <2>1
  <2>5. \A k \in 0 .. 0 : Link(l, t, k) = l
    BY <2>3 DEF Link
  <2> HIDE DEF t
  <2>6. \A k \in 0 .. Len(t) : list_next'[Link(l, t, k)] = IF k = Len(t) THEN None ELSE t[k + 1]
    BY <1>3, <2>3, <2>4, <2>5
  <2>7. \A p \in List \cup Address : p # l /\ ~Has(t, p) /\ ~Has(s, p) => list_next'[p] = list_next[p]
    BY <1>1, <2>1
  <2> QED BY <2>2, <2>6, <2>7 DEF Relinked
<1>6. /\ list_value' = [a \in Address |-> IF a \in L!ToSet(L!Nodes(l)) THEN Raw ELSE list_value[a]]
      /\ list_size' = [list_size EXCEPT ![l] = 0] /\ list_stray' = list_stray /\ list_outcome' = "ok"
  <2>1. list_size[l] - Len(L!Nodes(l)) = 0
    BY <1>1, <1>2
  <2> QED BY <2>1 DEF L!Clear, L!Deleted, L!Done
<1>7. Restored(list_value', list_value, t, s)
  BY <1>1, <1>2, <1>3, <1>6 DEF Restored
<1>8. NowOwns([Chains EXCEPT ![l] = t])
  <2>1. /\ ListTypes(list_next, list_value, list_size)
        /\ Owns(list_next, list_value, list_size, list_stray, Chains)
    BY DEF ListInv
  <2> HIDE DEF t
  <2> QED BY <1>3, <1>4, <1>5, <1>6, <1>7, <2>1, OwnsReplaced DEF NowOwns
<1>9. KeptElse(list_value', list_value, t, s)
  BY <1>1, <1>6 DEF KeptElse
<1>10. \A m \in List \ {l} : \A a \in Address : Has(Chains[m], a) => list_value'[a] = list_value[a]
  <2>1. t \in Seq(Address) /\ IsFresh(t, list_value) /\ KeptElse(list_value', list_value, t, Chains[l])
    BY <1>3, <1>4, <1>9
  <2> HIDE DEF t, s
  <2> QED BY <2>1, OthersKeepTheirs
<1>11. ContentsOf(list_value', t) = <<>>
  BY DEF ContentsOf
<1>12. L!Promised!Call(ContentsOf(list_value, s), ContentsOf(list_value', t))
  BY <1>6, <1>11 DEF L!Promised!Call
<1> HIDE DEF t
<1> QED BY <1>3, <1>8, <1>10, <1>12, CallOnOne

LEMMA SwapKeepsLists ==
  ASSUME ListInv, NEW l \in List, NEW m \in List, L!Swap(l, m)
  PROVE  ListInv' /\ L!Promised!Next
<1> DEFINE chains2 == [Chains EXCEPT ![l] = Chains[m], ![m] = Chains[l]]
<1>1. /\ list_next' = [list_next EXCEPT ![l] = list_next[m], ![m] = list_next[l]]
      /\ list_size' = [list_size EXCEPT ![l] = list_size[m], ![m] = list_size[l]]
      /\ list_value' = list_value /\ list_stray' = list_stray /\ list_outcome' = "ok"
  BY DEF L!Swap, L!Done
<1>2. NowOwns(chains2)
  <2>1. /\ ListTypes(list_next, list_value, list_size)
        /\ Owns(list_next, list_value, list_size, list_stray, Chains)
    BY DEF ListInv
  <2> QED BY <1>1, <2>1, OwnsSwapped DEF NowOwns
<1> HIDE DEF chains2
<1>3. ListInv' /\ Chains' = chains2
  BY <1>2, NextChains DEF NowOwns
<1>4. ListContents = [i \in List |-> ContentsOf(list_value, Chains[i])]
  BY ContentsAreOfTheChains
<1>5. ListContents' = [i \in List |-> ContentsOf(list_value, chains2[i])]
  BY <1>1, <1>3, ContentsAreOfTheChains
<1>6. \A i \in List : chains2[i] = Chains[IF i = m THEN l ELSE IF i = l THEN m ELSE i]
  BY DEF chains2, ListInv, Owns
<1>7. \A i \in List : ListContents'[i] = ListContents[IF i = m THEN l ELSE IF i = l THEN m ELSE i]
  BY <1>4, <1>5, <1>6
<1>8. ListContents' = [ListContents EXCEPT ![l] = ListContents[m], ![m] = ListContents[l]]
  <2> DEFINE c == ListContents
             c2 == ListContents'
             c3 == [c EXCEPT ![l] = c[m], ![m] = c[l]]
  <2>1. DOMAIN c = List /\ DOMAIN c2 = List /\ c2 = [i \in List |-> c2[i]] /\ c = [i \in List |-> c[i]]
    BY <1>4, <1>5
  <2>2. \A i \in List : c2[i] = c[IF i = m THEN l ELSE IF i = l THEN m ELSE i]
    BY <1>7
  <2> HIDE DEF c, c2
  <2>3. c3 = [i \in List |-> c3[i]] /\ \A i \in List : c3[i] = c2[i]
    BY <2>1, <2>2
  <2> HIDE DEF c3
  <2>4. c2 = c3
    BY <2>1, <2>3
  <2> QED BY <2>4 DEF c, c2, c3
<1>9. L!Promised!Swap(l, m)
  BY <1>1, <1>8 DEF L!Promised!Swap, ListContents
<1> QED BY <1>3, <1>9 DEF L!Promised!Next

\* Of the addresses that new gives, no two are the same.
LEMMA NewNodesAreFresh ==
  ASSUME NEW n \in Nat, NEW t \in L!NewNodes(n)
  PROVE  t \in Seq(Address) /\ Len(t) = n /\ IsFresh(t, list_value)
<1>1. t \in [1 .. n -> L!Unused] /\ L!Cardinality(L!ToSet(t)) = n
  BY DEF L!NewNodes
<1>2. \A a \in L!Unused : a \in Address /\ list_value[a] = Raw
  BY DEF L!Unused, L!Allocated
<1>3. t \in [1 .. n -> Address]
  BY <1>1, <1>2
<1>4. t \in Seq(Address) /\ Len(t) = n
  BY <1>3, FunctionIsSequence
<1> DEFINE R == {t[i] : i \in 1 .. n}
<1>5. L!ToSet(t) = R
  BY <1>1 DEF L!ToSet
<1>6. Cardinality(R) = n
  BY <1>1, <1>5, CardinalityOfLists
<1>7. t \in Surjection(1 .. n, R)
  BY <1>1 DEF Surjection
<1>8. IsFiniteSet(1 .. n) /\ Cardinality(1 .. n) = n
  BY FS_Interval
<1>9. t \in Injection(1 .. n, R)
  BY <1>6, <1>7, <1>8, FS_SurjSameCardinalityImpliesInj
<1>10. \A i, j \in 1 .. n : t[i] = t[j] => i = j
  BY <1>9 DEF Injection, IsInjective
<1>11. \A a \in Address : Has(t, a) => list_value[a] = Raw
  BY <1>1, <1>2, <1>4 DEF Has
<1> QED BY <1>4, <1>10, <1>11 DEF IsFresh

LEMMA CopyAssignKeepsLists ==
  ASSUME ListInv, NEW l \in List, NEW m \in List, L!CopyAssign(l, m)
  PROVE  ListInv' /\ L!Promised!Next
<1>1. CASE L!Unchanged
  BY <1>1, NothingDone
<1>2. CASE L!BadAlloc
  BY <1>2, FailureFails DEF L!BadAlloc
<1> DEFINE s == L!Contents(m)
           old == L!ToSet(L!Nodes(l))
<1>3. ASSUME l # m, NEW t \in L!NewNodes(Len(s)),
             list_next' = [L!Chained(t, L!Nulled(list_next, old)) EXCEPT
                             ![l] = IF s = <<>> THEN None ELSE t[1]],
             list_value' = L!Stored(t, s, L!Deleted(list_value, old)),
             list_size' = [list_size EXCEPT ![l] = Len(s)], L!Done, list_stray' = list_stray
      PROVE  ListInv' /\ L!Promised!Next
  <2> DEFINE n == Len(s)
             c == Chains[l]
  <2>1. /\ \A p : p \in old <=> Has(c, p)
        /\ c \in Seq(Address)
    BY NodesAsSet
  <2>2. Chains[m] \in Seq(Address) /\ L!Nodes(m) = Chains[m]
    BY NodesAsSet
  <2>3. /\ list_next \in [List \cup Address -> Address \cup {None}]
        /\ list_value \in [Address -> Value \cup {Raw}] /\ list_size \in [List -> Nat]
    BY DEF ListInv, ListTypes
  <2>4. ListContents[m] = s /\ ListContents[l] = L!Contents(l)
    BY DEF ListContents
  <2>5. s = [i \in 1 .. Len(Chains[m]) |-> list_value[Chains[m][i]]]
    BY <2>4, ContentsAreOfTheChains DEF ContentsOf
  <2>6. \A i \in 1 .. Len(Chains[m]) : list_value[Chains[m][i]] \in Value
    <3>1. \A i \in 1 .. Len(Chains[m]) : Chains[m][i] \in Address /\ Has(Chains[m], Chains[m][i])
      BY <2>2 DEF Has
    <3>2. \A a \in Address : Has(Chains[m], a) => list_value[a] # Raw
      BY DEF ListInv, Owns
    <3> QED BY <2>3, <3>1, <3>2
  <2>7. s \in Seq(Value) /\ n \in Nat /\ \A i \in 1 .. n : s[i] \in Value
    <3>1. s \in [1 .. Len(Chains[m]) -> Value] /\ Len(Chains[m]) \in Nat
      BY <2>2, <2>5, <2>6
    <3>2. s \in Seq(Value)
      BY <3>1, FunctionIsSequence
    <3> HIDE DEF s
    <3> QED BY <3>2
  <2> HIDE DEF s
  <2>8. t \in Seq(Address) /\ Len(t) = n /\ IsFresh(t, list_value)
    BY <2>7, NewNodesAreFresh
  <2>9. \A i, j \in 1 .. n : t[i] = t[j] => i = j
    BY <2>8 DEF IsFresh
  <2>10. \A i \in 1 .. n : t[i] \in Address
    BY <2>8
  <2>11. \A p : p \in L!ToSet(t) <=> Has(t, p)
    BY <2>8 DEF L!ToSet, Has
  <2>12. \A i \in 1 .. n : (CHOOSE j \in DOMAIN t : t[j] = t[i]) = i
    <3>1. DOMAIN t = 1 .. n
      BY <2>8
    <3> QED BY <2>9, <3>1
  <2> DEFINE nulled == [p \in List \cup Address |-> IF p \in old THEN None ELSE list_next[p]]
             chained == L!Chained(t, nulled)
  <2>13. L!Nulled(list_next, old) = nulled
    BY <2>3 DEF L!Nulled
  <2>14. /\ DOMAIN chained = List \cup Address
         /\ \A i \in 1 .. n : chained[t[i]] = IF i = n THEN None ELSE t[i + 1]
         /\ \A p \in List \cup Address : ~Has(t, p) => chained[p] = nulled[p]
    <3> HIDE DEF nulled
    <3>1. DOMAIN nulled = List \cup Address
      BY DEF nulled
    <3> DEFINE Index(p) == CHOOSE j \in DOMAIN t : t[j] = p
    <3>2. chained = [p \in List \cup Address |->
             IF p \in L!ToSet(t) THEN IF Index(p) = Len(t) THEN None ELSE t[Index(p) + 1]
             ELSE nulled[p]]
      BY <3>1 DEF L!Chained
    <3>5. \A i \in 1 .. n : Index(t[i]) = i
      BY <2>12
    <3> HIDE DEF Index
    <3>3. \A i \in 1 .. n : t[i] \in L!ToSet(t) /\ t[i] \in List \cup Address
      BY <2>8, <2>10, <2>11 DEF Has
    <3> HIDE DEF chained
    <3>4. ASSUME NEW i \in 1 .. n PROVE chained[t[i]] = IF i = n THEN None ELSE t[i + 1]
      BY <2>8, <3>2, <3>3, <3>5
    <3> QED BY <2>11, <3>2, <3>4
  <2>15. chained \in [List \cup Address -> Address \cup {None}]
    <3>1. \A p \in List \cup Address : nulled[p] \in Address \cup {None}
      BY <2>3
    <3> HIDE DEF nulled, chained
    <3>2. ASSUME NEW p \in List \cup Address PROVE chained[p] \in Address \cup {None}
      <4>1. CASE ~Has(t, p)
        BY <2>14, <3>1, <4>1
      <4>2. CASE Has(t, p)
        <5>1. PICK i \in 1 .. n : t[i] = p
          BY <2>8, <4>2 DEF Has
        <5>2. i # n => i + 1 \in 1 .. n
          BY <2>7
        <5> QED BY <2>10, <2>14, <5>1, <5>2
      <4> QED BY <4>1, <4>2
    <3>3. chained = [p \in List \cup Address |-> chained[p]]
      <4>1. chained = [p \in DOMAIN nulled |->
             IF p \in L!ToSet(t)
             THEN LET i == CHOOSE i \in DOMAIN t : t[i] = p IN IF i = Len(t) THEN None ELSE t[i + 1]
             ELSE nulled[p]]
        BY DEF chained, L!Chained
      <4> QED BY <2>14, <4>1
    <3> QED BY <3>2, <3>3
  <2>16. ~Has(t, l) /\ ~Has(c, l)
    BY <2>1, <2>8, <2>10, ListFacts DEF Has
  <2>17. (s = <<>> <=> n = 0) /\ (n # 0 => 1 \in 1 .. n)
    BY <2>7
  <2>18. list_next' = [chained EXCEPT ![l] = IF n = 0 THEN None ELSE t[1]]
    BY <1>3, <2>13, <2>17
  <2>19. Relinked(list_next', list_next, l, t, c)
    <3> HIDE DEF chained, nulled, n, c
    <3>1. list_next' \in [List \cup Address -> Address \cup {None}]
      <4>1. (IF n = 0 THEN None ELSE t[1]) \in Address \cup {None}
        BY <2>10, <2>17
      <4> QED BY <2>15, <2>18, <4>1
    <3>2. list_next'[l] = IF n = 0 THEN None ELSE t[1]
      BY <2>15, <2>18
    <3>3. \A p \in List \cup Address : p # l => list_next'[p] = chained[p]
      BY <2>15, <2>18
    <3>4. ASSUME NEW k \in 0 .. Len(t)
          PROVE  list_next'[Link(l, t, k)] = IF k = Len(t) THEN None ELSE t[k + 1]
      <4>1. CASE k = 0
        BY <2>8, <3>2, <4>1 DEF Link
      <4>2. CASE k # 0
        <5>1. k \in 1 .. n /\ t[k] \in Address /\ Link(l, t, k) = t[k]
          BY <2>7, <2>8, <2>10, <4>2 DEF Link, n
        <5>2. t[k] # l /\ t[k] \in List \cup Address
          BY <5>1, ListFacts
        <5> QED BY <2>8, <2>14, <3>3, <5>1, <5>2
      <4> QED BY <4>1, <4>2
    <3>5. \A p \in List \cup Address : p # l /\ ~Has(t, p) /\ ~Has(c, p) => list_next'[p] = list_next[p]
      BY <2>1, <2>14, <3>3 DEF nulled
    <3> QED BY <3>1, <3>4, <3>5 DEF Relinked
  <2>20. /\ \A i \in 1 .. n : list_value'[t[i]] = s[i]
         /\ \A a \in Address : ~Has(t, a) =>
              list_value'[a] = IF Has(c, a) THEN Raw ELSE list_value[a]
         /\ list_value' \in [Address -> Value \cup {Raw}]
    <3>1. list_value' = [a \in Address |->
            IF a \in L!ToSet(t) THEN s[CHOOSE i \in DOMAIN t : t[i] = a]
            ELSE L!Deleted(list_value, old)[a]]
      BY <1>3 DEF L!Stored
    <3>2. \A a \in Address : L!Deleted(list_value, old)[a] = IF Has(c, a) THEN Raw ELSE list_value[a]
      BY <2>1 DEF L!Deleted
    <3> HIDE DEF old, c, n
    <3>3. \A i \in 1 .. n : t[i] \in L!ToSet(t) /\ t[i] \in Address
      BY <2>8, <2>10, <2>11 DEF Has
    <3>4. \A i \in 1 .. n : list_value'[t[i]] = s[i]
      BY <2>12, <3>1, <3>3
    <3>5. \A a \in Address : ~Has(t, a) =>
              list_value'[a] = IF Has(c, a) THEN Raw ELSE list_value[a]
      BY <2>11, <3>1, <3>2
    <3>6. ASSUME NEW a \in Address PROVE list_value'[a] \in Value \cup {Raw}
      <4>1. CASE ~Has(t, a)
        BY <2>3, <3>5, <4>1
      <4>2. CASE Has(t, a)
        <5>1. PICK i \in 1 .. n : t[i] = a
          BY <2>8, <4>2 DEF Has
        <5> QED BY <2>7, <3>4, <5>1 DEF n
      <4> QED BY <4>1, <4>2
    <3>7. list_value' = [a \in Address |-> list_value'[a]]
      BY <3>1
    <3> QED BY <3>4, <3>5, <3>6, <3>7
  <2>21. Restored(list_value', list_value, t, c)
    <3>1. \A a \in Address : Has(t, a) => list_value'[a] # Raw
      <4>1. ASSUME NEW a \in Address, Has(t, a) PROVE list_value'[a] # Raw
        <5>1. PICK i \in 1 .. n : t[i] = a
          BY <2>8, <4>1 DEF Has
        <5> QED BY <2>7, <2>20, <5>1, ListFacts
      <4> QED BY <4>1
    <3> QED BY <2>20, <3>1 DEF Restored
  <2>22. NowOwns([Chains EXCEPT ![l] = t])
    <3>1. /\ ListTypes(list_next, list_value, list_size)
          /\ Owns(list_next, list_value, list_size, list_stray, Chains)
      BY DEF ListInv
    <3>2. list_size' = [list_size EXCEPT ![l] = Len(t)] /\ list_stray' = list_stray
      BY <1>3, <2>8
    <3> QED BY <2>8, <2>19, <2>21, <3>1, <3>2, OwnsReplaced DEF NowOwns
  <2>23. \A i \in List \ {l} : \A a \in Address : Has(Chains[i], a) => list_value'[a] = list_value[a]
    <3>1. KeptElse(list_value', list_value, t, c)
      BY <2>20 DEF KeptElse
    <3> QED BY <2>8, <3>1, OthersKeepTheirs
  <2>24. ContentsOf(list_value', t) = s
    <3>1. s = [i \in 1 .. n |-> s[i]]
      BY <2>7
    <3> QED BY <2>8, <2>20, <3>1 DEF ContentsOf
  <2>25. L!Promised!Assigns(s)
    BY <2>4 DEF L!Promised!Assigns, ListContents, s
  <2>26. L!Promised!Call(ContentsOf(list_value, c), ContentsOf(list_value', t))
    BY <1>3, <2>24, <2>25 DEF L!Promised!Call, L!Done
  <2> QED BY <2>8, <2>22, <2>23, <2>26, CallOnOne
<1> QED BY <1>1, <1>2, <1>3 DEF L!CopyAssign

LEMMA ListInitially ==
  ASSUME L!Init
  PROVE  ListInv /\ L!Promised!Init
<1> DEFINE none == [l \in List |-> <<>>]
<1>1. /\ list_next = [p \in List \cup Address |-> None] /\ list_value = [a \in Address |-> Raw]
      /\ list_size = [l \in List |-> 0] /\ list_stray = {} /\ list_outcome = "ok"
  BY DEF L!Init
<1>2. ListTypes(list_next, list_value, list_size)
  BY <1>1 DEF ListTypes
<1>3. \A l \in List : none[l] = <<>> /\ Len(none[l]) = 0 /\ \A a : ~Has(none[l], a)
  BY DEF Has
<1>4. ASSUME NEW l \in List PROVE IsChain(list_next, l, none[l]) /\ list_size[l] = Len(none[l])
  <2>1. \A k \in 0 .. 0 : k = 0 /\ Link(l, none[l], k) = l
    BY DEF Link
  <2>2. list_next[l] = None /\ none[l] \in Seq(Address)
    BY <1>1
  <2> HIDE DEF none
  <2> QED BY <1>1, <1>3, <2>1, <2>2 DEF IsChain
<1>5. none \in [List -> Seq(Address)]
  OBVIOUS
<1> HIDE DEF none
<1>6. Owns(list_next, list_value, list_size, list_stray, none)
  BY <1>1, <1>3, <1>4, <1>5 DEF Owns
<1>7. Chains = none
  <2>1. \A l \in List : L!Nodes(l) = NodesOf(list_next, l)
    BY NodesOfTheList
  <2> QED BY <1>6, <2>1, ChainsAreTheNodes DEF Chains
<1>8. ListInv
  BY <1>2, <1>6, <1>7 DEF ListInv
<1>9. ListContents = [l \in List |-> ContentsOf(list_value, none[l])]
  BY <1>7, <1>8, ContentsAreOfTheChains
<1>10. \A l \in List : ContentsOf(list_value, none[l]) = <<>>
  BY <1>3 DEF ContentsOf
<1>11. ListContents \in [List -> {} \cup {<<>>}]
  BY <1>9, <1>10
<1> QED BY <1>1, <1>8, <1>11 DEF L!Promised!Init, ListContents

LEMMA ListCallKeeps ==
  ASSUME ListInv, L!Next
  PROVE  ListInv' /\ L!Promised!Next
BY PushFrontKeeps, EraseAfterKeeps, InsertAfterKeeps, PopFrontKeeps, ClearKeeps, SwapKeepsLists,
   CopyAssignKeepsLists DEF L!Next

AnyCall == VectorCall \/ ListCall \/ SimpleCall \/ OptionalCall

LEMMA ListStep ==
  ListInv /\ [AnyCall]_containers_vars => ListInv' /\ [L!Promised!Next]_(L!Promised!vars)
<1>1. CASE UNCHANGED list_state /\ ListInv
  <2>1. UNCHANGED <<list_next, list_value, list_size, list_stray>> /\ list_outcome' = list_outcome
    BY <1>1 DEF list_state
  <2>2. ListInv' /\ ListContents' = ListContents
    BY <1>1, <2>1, ListUnchanged
  <2> QED BY <2>1, <2>2 DEF L!Promised!vars, ListContents
<1>2. CASE ListCall /\ ListInv
  BY <1>2, ListCallKeeps DEF ListCall
<1> QED BY <1>1, <1>2 DEF AnyCall, VectorCall, SimpleCall, OptionalCall, containers_vars, list_state

LEMMA OwnershipIsInvariant == ListInv => ListsOwnTheirNodes
<1> SUFFICES ASSUME ListInv PROVE L!OwnsItsNodes
  BY DEF ListsOwnTheirNodes
<1>1. \A l \in List : /\ \A p : p \in L!ToSet(L!Nodes(l)) <=> Has(Chains[l], p)
                      /\ L!Nodes(l) = Chains[l] /\ Chains[l] \in Seq(Address)
                      /\ list_size[l] = Len(Chains[l])
  BY NodesAsSet
<1>2. ASSUME NEW l \in List
      PROVE  Len(L!Nodes(l)) = list_size[l] /\ L!Cardinality(L!ToSet(L!Nodes(l))) = list_size[l]
  <2> DEFINE s == Chains[l]
             R == {s[i] : i \in 1 .. Len(s)}
  <2>1. IsChain(list_next, l, s) /\ s \in Seq(Address) /\ Len(s) \in Nat
    BY LinksAreOwn DEF ListInv
  <2>2. s \in Bijection(1 .. Len(s), R)
    BY <2>1 DEF IsChain, Bijection, Injection, Surjection, IsInjective
  <2>3. ExistsBijection(1 .. Len(s), R)
    BY <2>2 DEF ExistsBijection
  <2>4. IsFiniteSet(1 .. Len(s)) /\ Cardinality(1 .. Len(s)) = Len(s)
    <3> HIDE DEF s
    <3> QED BY <2>1, FS_Interval
  <2>5. Cardinality(R) = Len(s)
    BY <2>3, <2>4, FS_Bijection
  <2>6. L!ToSet(L!Nodes(l)) = R
    BY <1>1 DEF Has
  <2> QED BY <1>1, <2>5, <2>6, CardinalityOfLists
<1>3. ASSUME NEW l \in List, NEW m \in List, l # m, NEW p, p \in L!ToSet(L!Nodes(l))
      PROVE  p \notin L!ToSet(L!Nodes(m))
  <2>1. p \in Address /\ Has(Chains[l], p)
    BY <1>1, <1>3 DEF Has
  <2> QED BY <1>1, <1>3, <2>1 DEF ListInv, Owns
<1>4. \A l \in List : \A p \in list_stray : p \notin L!ToSet(L!Nodes(l))
  BY <1>1 DEF ListInv, Owns
<1>5. L!Allocated = (UNION {L!ToSet(L!Nodes(l)) : l \in List}) \cup list_stray
  <2>1. \A a \in Address : list_value[a] # Raw <=> a \in list_stray \/ \E l \in List : Has(Chains[l], a)
    BY DEF ListInv, Owns
  <2>2. list_stray \subseteq Address /\ \A l \in List : \A p \in L!ToSet(L!Nodes(l)) : p \in Address
    BY <1>1 DEF ListInv, Owns, Has
  <2> QED BY <1>1, <2>1, <2>2 DEF L!Allocated
<1> QED BY <1>2, <1>3, <1>4, <1>5 DEF L!OwnsItsNodes

\* SinglyLinkedList, for any lists of a program and any memory: every list is
\* the chain that its size_ tells, no two share a node, and no call loses one
\* but InsertAfter behind a position that is not of its list.
THEOREM ListsOwnTheirs == ContainersSpec => []ListsOwnTheirNodes
<1>1. ContainersInit => ListInv
  BY ListInitially DEF ContainersInit
<1>2. ListInv /\ [AnyCall]_containers_vars => ListInv'
  BY ListStep
<1> QED BY <1>1, <1>2, OwnershipIsInvariant, PTL DEF ContainersSpec, AnyCall

\* SinglyLinkedList, for any lists and any memory: each is a sequence, and a
\* call that throws, or that crashes at the end of a list, changes none.
THEOREM ListsAreAsPromised == ContainersSpec => ListsAreSequences
<1>1. ContainersInit => ListInv /\ L!Promised!Init
  BY ListInitially DEF ContainersInit
<1>2. ListInv /\ [AnyCall]_containers_vars => ListInv' /\ [L!Promised!Next]_(L!Promised!vars)
  BY ListStep
<1> QED BY <1>1, <1>2, PTL
        DEF ContainersSpec, AnyCall, ListsAreSequences, L!ImplementsContents, L!Promised!Spec

(***************************************************************************)
(* SimpleVector: capacity_ is how many items_ has, or nothing after a move *)
(* that took the elements away or failed to.                               *)
(***************************************************************************)
IsSimple(r) ==
  /\ r.items \in Seq(Element) /\ r.room \in Nat /\ r.capacity \in {0, r.room}
  /\ r = [items |-> r.items, room |-> r.room, capacity |-> r.capacity]
SimpleInv ==
  /\ DOMAIN simple_vectors = Simple /\ simple_vectors = [v \in Simple |-> simple_vectors[v]]
  /\ \A v \in Simple : IsSimple(simple_vectors[v])
SimpleContents == [v \in Simple |-> simple_vectors[v].items]

\* A vector may become r after a call that ended like this.
MayBecome(v, r, how) ==
  \/ /\ how = "ok"
     /\ \/ r.items \in {simple_vectors[v].items, <<>>}
        \/ S!Promised!Inserts(simple_vectors[v].items, r.items)
        \/ S!Promised!Deletes(simple_vectors[v].items, r.items)
        \/ S!Promised!Resizes(simple_vectors[v].items, r.items)
        \/ \E w \in Simple : r.items = simple_vectors[w].items
  \/ how = "own element" /\ S!Promised!InsertsOwn(simple_vectors[v].items, r.items)
  \/ how = "exception" /\ S!Promised!Disturbs(simple_vectors[v].items, r.items)

LEMMA VectorBecomes ==
  ASSUME SimpleInv, NEW v \in Simple, NEW r, NEW how, IsSimple(r), MayBecome(v, r, how),
         simple_vectors' = [simple_vectors EXCEPT ![v] = r], simple_outcome' = how
  PROVE  SimpleInv' /\ S!Promised!Next /\ simple_outcome' \notin {"overrun", "behind"}
<1>1. DOMAIN simple_vectors = Simple /\ \A w \in Simple : IsSimple(simple_vectors[w])
  BY DEF SimpleInv
<1>2. /\ DOMAIN simple_vectors' = Simple /\ simple_vectors' = [w \in Simple |-> simple_vectors'[w]]
      /\ \A w \in Simple : simple_vectors'[w] = IF w = v THEN r ELSE simple_vectors[w]
  BY <1>1
<1>3. SimpleInv'
  BY <1>1, <1>2 DEF SimpleInv
<1>4. S!Promised!CallOn(v)
  <2> DEFINE c == SimpleContents
             c2 == SimpleContents'
  <2>1. /\ \A w \in Simple : c[w] = simple_vectors[w].items
        /\ c2[v] = r.items /\ \A w \in Simple \ {v} : c2[w] = c[w]
    BY <1>2 DEF SimpleContents
  <2>2. S!Promised!Call(c[v], c2[v])
    <3>1. S!Promised!Assigns(c2[v]) <=> \E w \in Simple : c2[v] = c[w]
      BY DEF S!Promised!Assigns, SimpleContents
    <3>2. c[v] = simple_vectors[v].items /\ c2[v] = r.items
      BY <2>1
    <3>3. (\E w \in Simple : r.items = simple_vectors[w].items) => S!Promised!Assigns(c2[v])
      BY <2>1, <3>1
    <3> HIDE DEF c, c2
    <3> QED BY <3>2, <3>3 DEF MayBecome, S!Promised!Call
  <2> QED BY <2>1, <2>2 DEF S!Promised!CallOn, SimpleContents
<1>5. simple_outcome' \notin {"overrun", "behind"}
  BY DEF MayBecome
<1> QED BY <1>3, <1>4, <1>5 DEF S!Promised!Next

LEMMA UndefinedFails ==
  ASSUME SimpleInv, NEW how \in {"behind", "overrun"}, S!Undefined(how)
  PROVE  SimpleInv' /\ S!Promised!Next /\ simple_outcome' = how
<1>1. simple_vectors' = simple_vectors /\ simple_outcome' = how
  BY DEF S!Undefined
<1>2. SimpleInv' /\ SimpleContents' = SimpleContents
  BY <1>1 DEF SimpleInv, SimpleContents
<1>3. S!Promised!Fail
  BY <1>1, <1>2 DEF S!Promised!Fail, SimpleContents
<1> QED BY <1>1, <1>2, <1>3 DEF S!Promised!Next

\* Some vector counts more elements than its capacity_.
Overfull == \E v \in Simple : Len(simple_vectors[v].items) > simple_vectors[v].capacity

\* Some array is full, or has less room than a vector has elements.
Crowded ==
  \E v \in Simple : LET n == Len(simple_vectors[v].items) IN
    n > 0 /\ (n = simple_vectors[v].room \/ \E w \in Simple : n > simple_vectors[w].room)

Kept ==
  /\ SimpleInv' /\ S!Promised!Next
  /\ (simple_outcome' = "overrun" => Overfull) /\ (simple_outcome' = "behind" => Crowded)

LEMMA OverrunOfOverfull ==
  ASSUME SimpleInv, NEW v \in Simple, Len(simple_vectors[v].items) > simple_vectors[v].capacity,
         S!Undefined("overrun")
  PROVE  Kept
BY UndefinedFails DEF Kept, Overfull

LEMMA ReadBehind == ASSUME SimpleInv, Crowded, S!Undefined("behind") PROVE Kept
BY UndefinedFails DEF Kept

LEMMA BecomesKeeps ==
  ASSUME SimpleInv, NEW v \in Simple, NEW r, IsSimple(r), MayBecome(v, r, "ok"), S!Becomes(v, r)
  PROVE  Kept
BY VectorBecomes DEF S!Becomes, Kept

LEMMA ThrowKeepsSimple ==
  ASSUME SimpleInv, NEW v \in Simple, NEW r, IsSimple(r), MayBecome(v, r, "exception"), S!Throw(v, r)
  PROVE  Kept
BY VectorBecomes DEF S!Throw, Kept

\* Nothing disturbs less than nothing.
LEMMA SameItems ==
  ASSUME SimpleInv, NEW v \in Simple, NEW r, r.items = simple_vectors[v].items
  PROVE  MayBecome(v, r, "ok") /\ MayBecome(v, r, "exception")
<1>1. r.items \in Seq(Element) /\ Len(r.items) - Len(r.items) = 0
  BY DEF SimpleInv, IsSimple
<1>2. S!Promised!Disturbs(simple_vectors[v].items, r.items)
  BY <1>1 DEF S!Promised!Disturbs
<1> QED BY <1>2 DEF MayBecome

LEMMA ArrayIsSimple ==
  ASSUME NEW s \in Seq(Element), NEW n \in Nat
  PROVE  IsSimple(S!Array(s, n)) /\ S!Array(s, n).items = s /\ S!Array(s, n).room = n
BY DEF S!Array, IsSimple

LEMMA WithIsSimple ==
  ASSUME NEW r, IsSimple(r), NEW s \in Seq(Element)
  PROVE  /\ IsSimple(S!With(r, s)) /\ S!With(r, s).items = s
         /\ S!With(r, s).room = r.room /\ S!With(r, s).capacity = r.capacity
<1>1. r = [items |-> r.items, room |-> r.room, capacity |-> r.capacity]
  BY DEF IsSimple
<1>2. S!With(r, s) = [items |-> s, room |-> r.room, capacity |-> r.capacity]
  BY <1>1 DEF S!With
<1> QED BY <1>2 DEF IsSimple

LEMMA ReservedIsSimple ==
  ASSUME NEW r, IsSimple(r), NEW n \in Nat
  PROVE  IsSimple(S!Reserved(r, n)) /\ S!Reserved(r, n).items = r.items
BY ArrayIsSimple DEF S!Reserved, IsSimple

LEMMA GrownIsSimple ==
  ASSUME NEW r, IsSimple(r)
  PROVE  /\ IsSimple(S!Grown(r)) /\ S!Grown(r).items = r.items
         /\ Len(r.items) >= S!Grown(r).room => Len(r.items) > r.capacity
<1>1. /\ r.capacity \in Nat /\ r.room \in Nat /\ Len(r.items) \in Nat /\ r.items \in Seq(Element)
      /\ S!GetDoubledCapacity(r) \in Nat /\ S!GetDoubledCapacity(r) > r.capacity
  BY DEF IsSimple, S!GetDoubledCapacity
<1>2. CASE Len(r.items) = r.capacity
  <2>1. S!Grown(r) = S!Array(r.items, S!GetDoubledCapacity(r))
    BY <1>1, <1>2 DEF S!Grown, S!Reserved
  <2>2. IsSimple(S!Grown(r)) /\ S!Grown(r).items = r.items /\ S!Grown(r).room = S!GetDoubledCapacity(r)
    BY <1>1, <2>1, ArrayIsSimple
  <2>3. ~(Len(r.items) >= S!Grown(r).room)
    BY <1>1, <1>2, <2>2
  <2> QED BY <2>2, <2>3
<1>3. CASE Len(r.items) # r.capacity
  <2>1. S!Grown(r) = r
    BY <1>3 DEF S!Grown
  <2> QED BY <1>1, <1>3, <2>1 DEF IsSimple
<1> QED BY <1>2, <1>3

LEMMA InsertionInto ==
  ASSUME NEW s \in Seq(Element), NEW i \in 1 .. Len(s) + 1, NEW x \in Element
  PROVE  /\ S!InsertAt(s, i, x) = Inserted(s, i - 1, x)
         /\ S!InsertAt(s, i, x) \in Seq(Element) /\ Len(S!InsertAt(s, i, x)) = Len(s) + 1
         /\ i \in DOMAIN S!InsertAt(s, i, x) /\ S!InsertAt(s, i, x)[i] = x
         /\ \A b : Has(S!InsertAt(s, i, x), b) <=> b = x \/ Has(s, b)
<1>1. S!InsertAt(s, i, x) = Promised!InsertAt(s, i, x)
  BY DEF S!InsertAt, Promised!InsertAt
<1>2. Promised!InsertAt(s, i, x)
        = [j \in 1 .. Len(s) + 1 |-> IF j < i THEN s[j] ELSE IF j = i THEN x ELSE s[j - 1]]
  BY InsertedSequence
<1>3. Len(s) \in Nat /\ i - 1 \in 0 .. Len(s)
  OBVIOUS
<1>4. \A j \in 1 .. Len(s) + 1 : (j < i <=> j <= i - 1) /\ (j = i <=> j = (i - 1) + 1)
  BY <1>3
<1>5. S!InsertAt(s, i, x) = Inserted(s, i - 1, x)
  BY <1>1, <1>2, <1>4 DEF Inserted
<1>6. /\ Inserted(s, i - 1, x) \in Seq(Element) /\ Len(Inserted(s, i - 1, x)) = Len(s) + 1
      /\ \A b : Has(Inserted(s, i - 1, x), b) <=> b = x \/ Has(s, b)
  BY <1>3, InsertedIn
<1>7. i \in 1 .. Len(s) + 1 /\ S!InsertAt(s, i, x)[i] = x
  BY <1>1, <1>2, <1>3
<1> QED BY <1>1, <1>2, <1>5, <1>6, <1>7

LEMMA RemovalFrom ==
  ASSUME NEW s \in Seq(Element), NEW i \in 1 .. Len(s)
  PROVE  /\ S!RemoveAt(s, i) = Removed(s, i - 1) /\ S!Promised!RemoveAt(s, i) = Removed(s, i - 1)
         /\ Removed(s, i - 1) \in Seq(Element) /\ Len(s) = Len(Removed(s, i - 1)) + 1
<1>1. S!RemoveAt(s, i) = Promised!RemoveAt(s, i) /\ S!Promised!RemoveAt(s, i) = Promised!RemoveAt(s, i)
  BY DEF S!RemoveAt, Promised!RemoveAt, S!Promised!RemoveAt
<1>2. Promised!RemoveAt(s, i) = [j \in 1 .. Len(s) - 1 |-> IF j < i THEN s[j] ELSE s[j + 1]]
  BY RemovedSequence
<1>3. \A j \in 1 .. Len(s) - 1 : j < i <=> j <= i - 1
  OBVIOUS
<1>4. Promised!RemoveAt(s, i) = Removed(s, i - 1)
  BY <1>2, <1>3 DEF Removed
<1>5. Len(s) - 1 \in Nat /\ \A j \in 1 .. Len(s) - 1 : s[j] \in Element /\ s[j + 1] \in Element
  <2>1. Len(s) \in Nat /\ \A j \in 1 .. Len(s) : s[j] \in Element
    OBVIOUS
  <2>2. \A j \in 1 .. Len(s) - 1 : j \in 1 .. Len(s) /\ j + 1 \in 1 .. Len(s)
    BY <2>1
  <2> QED BY <2>1, <2>2
<1>6. Removed(s, i - 1) \in [1 .. Len(s) - 1 -> Element]
  BY <1>5 DEF Removed
<1>7. Removed(s, i - 1) \in Seq(Element) /\ Len(Removed(s, i - 1)) = Len(s) - 1
  BY <1>5, <1>6, FunctionIsSequence
<1> QED BY <1>1, <1>4, <1>5, <1>7

LEMMA InsertionUndone ==
  ASSUME NEW s \in Seq(Element), NEW i \in 1 .. Len(s) + 1, NEW x \in Element
  PROVE  S!Promised!RemoveAt(S!InsertAt(s, i, x), i) = s
<1> DEFINE t == S!InsertAt(s, i, x)
           k == i - 1
<1>1. t = [j \in 1 .. Len(s) + 1 |-> IF j <= k THEN s[j] ELSE IF j = k + 1 THEN x ELSE s[j - 1]]
  BY InsertionInto DEF Inserted
<1>2. t \in Seq(Element) /\ Len(t) = Len(s) + 1 /\ i \in 1 .. Len(t)
  BY InsertionInto
<1> HIDE DEF t
<1>3. S!Promised!RemoveAt(t, i) = Removed(t, k)
  BY <1>2, RemovalFrom
<1>4. Removed(t, k) = [j \in 1 .. Len(s) |-> IF j <= k THEN t[j] ELSE t[j + 1]]
  <2>1. Len(t) - 1 = Len(s)
    BY <1>2
  <2> QED BY <2>1 DEF Removed
<1>5. ASSUME NEW j \in 1 .. Len(s) PROVE (IF j <= k THEN t[j] ELSE t[j + 1]) = s[j]
  <2>1. j \in 1 .. Len(s) + 1 /\ j + 1 \in 1 .. Len(s) + 1 /\ (j + 1) - 1 = j
    OBVIOUS
  <2>2. CASE j <= k
    BY <1>1, <2>1, <2>2
  <2>3. CASE ~(j <= k)
    <3>1. ~(j + 1 <= k) /\ j + 1 # k + 1
      BY <2>3
    <3> QED BY <1>1, <2>1, <2>3, <3>1
  <2> QED BY <2>2, <2>3
<1>6. s = [j \in 1 .. Len(s) |-> s[j]]
  OBVIOUS
<1>7. S!Promised!RemoveAt(t, i) = s
  BY <1>3, <1>4, <1>5, <1>6
<1> QED BY <1>7 DEF t

\* Elements of a sequence on other places or spoilt, of one as long or one longer.
LEMMA DisturbedSequence ==
  ASSUME NEW s \in Seq(Element), NEW t \in Seq(Element), Len(t) \in {Len(s), Len(s) + 1},
         \A j \in 1 .. Len(t) : t[j] = Unspecified \/ Has(s, t[j])
  PROVE  S!Promised!Disturbs(s, t)
<1>1. S!Promised!ToSet(t) = {t[j] : j \in 1 .. Len(t)} /\ S!Promised!ToSet(s) = {s[j] : j \in 1 .. Len(s)}
  BY DEF S!Promised!ToSet
<1>2. S!Promised!ToSet(t) \subseteq S!Promised!ToSet(s) \cup {Unspecified}
  BY <1>1 DEF Has
<1>3. Len(t) - Len(s) \in {0, 1}
  OBVIOUS
<1> QED BY <1>2, <1>3 DEF S!Promised!Disturbs

\* A call throws with elements of the vector on other places, or spoilt.
LEMMA SpoiltKeeps ==
  ASSUME SimpleInv, NEW v \in Simple, NEW r, IsSimple(r),
         LET s == simple_vectors[v].items IN
           /\ Len(r.items) \in {Len(s), Len(s) + 1}
           /\ \A j \in 1 .. Len(r.items) : r.items[j] = Unspecified \/ Has(s, r.items[j]),
         S!Throw(v, r)
  PROVE  Kept
<1>1. simple_vectors[v].items \in Seq(Element) /\ r.items \in Seq(Element)
  BY DEF SimpleInv, IsSimple
<1>2. S!Promised!Disturbs(simple_vectors[v].items, r.items)
  BY <1>1, DisturbedSequence
<1> QED BY <1>2, ThrowKeepsSimple DEF MayBecome

\* The same, of a sequence f(_) that is as long.
LEMMA SpoiltInPlaceKeeps ==
  ASSUME SimpleInv, NEW v \in Simple, NEW g, IsSimple(g), NEW t,
         LET s == simple_vectors[v].items IN
           /\ DOMAIN t = 1 .. Len(s) /\ t = [j \in 1 .. Len(s) |-> t[j]]
           /\ \A j \in 1 .. Len(s) : t[j] = Unspecified \/ Has(s, t[j]),
         S!Throw(v, S!With(g, t))
  PROVE  Kept
<1> DEFINE s == simple_vectors[v].items
<1>1. s \in Seq(Element) /\ Len(s) \in Nat /\ \A j \in 1 .. Len(s) : s[j] \in Element
  BY DEF SimpleInv, IsSimple
<1>2. \A j \in 1 .. Len(s) : t[j] \in Element
  BY <1>1 DEF Has, Element
<1>3. t \in [1 .. Len(s) -> Element]
  BY <1>2
<1>4. t \in Seq(Element) /\ Len(t) = Len(s)
  BY <1>1, <1>3, FunctionIsSequence
<1>5. IsSimple(S!With(g, t)) /\ S!With(g, t).items = t
  BY <1>4, WithIsSimple
<1> QED BY <1>4, <1>5, SpoiltKeeps

\* The elements that an allocation moves when one of them throws.
LEMMA ReserveThrowsKeeps ==
  ASSUME SimpleInv, NEW v \in Simple, NEW n \in Nat, S!ReserveThrows(v, n)
  PROVE  Kept
<1> DEFINE r == simple_vectors[v]
           s == r.items
           t(k) == [j \in DOMAIN s |-> IF j <= k THEN Unspecified ELSE s[j]]
<1>1. IsSimple(r) /\ s \in Seq(Element) /\ DOMAIN s = 1 .. Len(s)
  BY DEF SimpleInv, IsSimple
<1>2. PICK k \in 0 .. Len(s) : S!Throw(v, S!With(r, t(k)))
  BY DEF S!ReserveThrows, S!MovedFrom
<1>3. \A j \in 1 .. Len(s) : t(k)[j] = Unspecified \/ Has(s, t(k)[j])
  BY <1>1 DEF Has
<1> DEFINE f == t(k)
<1>4. DOMAIN f = 1 .. Len(s) /\ f = [j \in 1 .. Len(s) |-> f[j]] /\ S!Throw(v, S!With(r, f))
  BY <1>1, <1>2
<1>5. \A j \in 1 .. Len(s) : f[j] = Unspecified \/ Has(s, f[j])
  BY <1>3
<1> HIDE DEF f
<1> QED BY <1>1, <1>4, <1>5, SpoiltInPlaceKeeps

LEMMA GrowthThrowsKeeps ==
  ASSUME SimpleInv, NEW v \in Simple, S!GrowthThrows(v)
  PROVE  Kept
<1>1. S!GetDoubledCapacity(simple_vectors[v]) \in Nat
  BY DEF SimpleInv, IsSimple, S!GetDoubledCapacity
<1> QED BY <1>1, ReserveThrowsKeeps DEF S!GrowthThrows

LEMMA ReserveKeepsSimple ==
  ASSUME SimpleInv, NEW v \in Simple, NEW n \in 0 .. MaxSimpleSize, S!Reserve(v, n)
  PROVE  Kept
<1> DEFINE r == simple_vectors[v]
<1>1. IsSimple(r) /\ n \in Nat
  BY DEF SimpleInv
<1>2. CASE S!Becomes(v, S!Reserved(r, n))
  BY <1>1, <1>2, ReservedIsSimple, SameItems, BecomesKeeps
<1>3. CASE S!OverrunsNew(r, n) /\ S!Undefined("overrun")
  <2>1. Len(r.items) > r.capacity
    BY <1>1, <1>3 DEF S!OverrunsNew, IsSimple
  <2> QED BY <1>3, <2>1, OverrunOfOverfull
<1> QED BY <1>1, <1>2, <1>3, ReserveThrowsKeeps DEF S!Reserve

\* An element of the program is inserted.
LEMMA InsertsKeeps ==
  ASSUME SimpleInv, NEW v \in Simple, NEW i \in 1 .. Len(simple_vectors[v].items) + 1,
         NEW x \in Value, S!Becomes(v, S!With(S!Grown(simple_vectors[v]),
                                              S!InsertAt(simple_vectors[v].items, i, x)))
  PROVE  Kept
<1> DEFINE r == S!Grown(simple_vectors[v])
           s == simple_vectors[v].items
           t == S!InsertAt(s, i, x)
<1>1. s \in Seq(Element) /\ IsSimple(r) /\ x \in Element
  BY GrownIsSimple DEF SimpleInv, IsSimple, Element
<1>2. /\ t \in Seq(Element) /\ Len(t) = Len(s) + 1 /\ i \in DOMAIN t /\ t[i] = x
      /\ S!Promised!RemoveAt(t, i) = s
  BY <1>1, InsertionInto, InsertionUndone
<1>3. S!Becomes(v, S!With(r, t))
  OBVIOUS
<1> HIDE DEF t
<1>4. S!Promised!Inserts(s, t)
  BY <1>2 DEF S!Promised!Inserts
<1>5. IsSimple(S!With(r, t)) /\ S!With(r, t).items = t
  BY <1>1, <1>2, WithIsSimple
<1>6. MayBecome(v, S!With(r, t), "ok")
  BY <1>4, <1>5 DEF MayBecome
<1> QED BY <1>3, <1>5, <1>6, BecomesKeeps

LEMMA PushBackKeepsSimple ==
  ASSUME SimpleInv, NEW v \in Simple, NEW x \in Value, S!PushBack(v, x)
  PROVE  Kept
<1> DEFINE r == S!Grown(simple_vectors[v])
           s == simple_vectors[v].items
           n == Len(s)
<1>1. /\ s \in Seq(Element) /\ n \in Nat /\ IsSimple(r) /\ r.items = s /\ x \in Element
      /\ n >= r.room => n > simple_vectors[v].capacity
  BY GrownIsSimple DEF SimpleInv, IsSimple, Element
<1>2. CASE S!Becomes(v, S!With(r, Append(r.items, x)))
  <2>1. n + 1 \in 1 .. n + 1
    BY <1>1
  <2>2. S!InsertAt(s, n + 1, x) = Inserted(s, n, x)
    BY <1>1, <2>1, InsertionInto
  <2>3. Inserted(s, n, x) = Append(s, x)
    BY <1>1 DEF Inserted
  <2> QED BY <1>1, <1>2, <2>1, <2>2, <2>3, InsertsKeeps
<1>3. CASE S!Throw(v, r)
  BY <1>1, <1>3, SameItems, ThrowKeepsSimple
<1>4. CASE Len(r.items) >= r.room /\ S!Undefined("overrun")
  BY <1>1, <1>4, OverrunOfOverfull
<1> QED BY <1>2, <1>3, <1>4, GrowthThrowsKeeps DEF S!PushBack

LEMMA InsertKeepsSimple ==
  ASSUME SimpleInv, NEW v \in Simple, NEW i \in 1 .. Len(simple_vectors[v].items) + 1,
         NEW x \in Value, S!Insert(v, i, x)
  PROVE  Kept
<1> DEFINE r == S!Grown(simple_vectors[v])
           s == simple_vectors[v].items
           n == Len(s)
<1>1. /\ s \in Seq(Element) /\ IsSimple(r) /\ r.items = s /\ n \in Nat /\ DOMAIN s = 1 .. n
      /\ n >= r.room => n > simple_vectors[v].capacity
  BY GrownIsSimple DEF SimpleInv, IsSimple
<1>2. CASE S!Becomes(v, S!With(r, S!InsertAt(r.items, i, x)))
  BY <1>1, <1>2, InsertsKeeps
<1>3. ASSUME NEW k \in i .. n, NEW moved \in BOOLEAN, S!Throw(v, S!With(r, S!HalfOpened(s, i, k, moved)))
      PROVE  Kept
  <2> DEFINE t == S!HalfOpened(s, i, k, moved)
  <2>1. t = [j \in 1 .. n |-> IF j = k + 1 \/ (j = k /\ moved) THEN Unspecified
                              ELSE IF j > k THEN s[j - 1] ELSE s[j]]
    BY <1>1 DEF S!HalfOpened
  <2>2. ASSUME NEW j \in 1 .. n PROVE t[j] = Unspecified \/ Has(s, t[j])
    <3>1. t[j] = Unspecified \/ (j > k /\ t[j] = s[j - 1]) \/ t[j] = s[j]
      BY <2>1
    <3>2. j > k => j - 1 \in 1 .. n
      BY <1>1
    <3> QED BY <3>1, <3>2 DEF Has
  <2>3. DOMAIN t = 1 .. n /\ t = [j \in 1 .. n |-> t[j]] /\ S!Throw(v, S!With(r, t))
    BY <1>3, <2>1
  <2> HIDE DEF t
  <2> QED BY <1>1, <2>2, <2>3, SpoiltInPlaceKeeps
<1>4. CASE S!Throw(v, S!With(r, S!InsertAt(r.items, i, Unspecified)))
  <2> DEFINE t == S!InsertAt(s, i, Unspecified)
  <2>1. Unspecified \in Element
    BY DEF Element
  <2>2. /\ t \in Seq(Element) /\ Len(t) = n + 1
        /\ \A b : Has(t, b) => b = Unspecified \/ Has(s, b)
    BY <1>1, <2>1, InsertionInto
  <2>3. S!Throw(v, S!With(r, t))
    BY <1>1, <1>4
  <2> HIDE DEF t
  <2>4. \A j \in 1 .. Len(t) : t[j] = Unspecified \/ Has(s, t[j])
    BY <2>2 DEF Has
  <2>5. IsSimple(S!With(r, t)) /\ S!With(r, t).items = t
    BY <1>1, <2>2, WithIsSimple
  <2> QED BY <2>2, <2>3, <2>4, <2>5, SpoiltKeeps
<1>5. CASE Len(r.items) >= r.room /\ S!Undefined("overrun")
  BY <1>1, <1>5, OverrunOfOverfull
<1> QED BY <1>1, <1>2, <1>3, <1>4, <1>5, GrowthThrowsKeeps DEF S!Insert

LEMMA InsertOwnKeeps ==
  ASSUME SimpleInv, NEW v \in Simple, NEW i \in 1 .. Len(simple_vectors[v].items) + 1,
         NEW k \in DOMAIN simple_vectors[v].items, S!InsertOwn(v, i, k)
  PROVE  Kept
<1> DEFINE r == S!Grown(simple_vectors[v])
           s == simple_vectors[v].items
<1>1. s \in Seq(Element) /\ IsSimple(r) /\ r.items = s /\ DOMAIN s = 1 .. Len(s) /\ Len(s) \in Nat
  BY GrownIsSimple DEF SimpleInv, IsSimple
<1>2. ASSUME NEW x \in Element, simple_vectors' = [simple_vectors EXCEPT ![v] = S!With(r, S!InsertAt(r.items, i, x))],
             simple_outcome' = "own element"
      PROVE  Kept
  <2> DEFINE t == S!InsertAt(s, i, x)
  <2>1. /\ t \in Seq(Element) /\ Len(t) = Len(s) + 1 /\ i \in DOMAIN t
        /\ S!Promised!RemoveAt(t, i) = s
    BY <1>1, InsertionInto, InsertionUndone
  <2>2. simple_vectors' = [simple_vectors EXCEPT ![v] = S!With(r, t)]
    BY <1>1, <1>2
  <2> HIDE DEF t
  <2>3. S!Promised!InsertsOwn(s, t)
    BY <2>1 DEF S!Promised!InsertsOwn
  <2>4. IsSimple(S!With(r, t)) /\ S!With(r, t).items = t
    BY <1>1, <2>1, WithIsSimple
  <2>5. MayBecome(v, S!With(r, t), "own element")
    BY <2>3, <2>4 DEF MayBecome
  <2> QED BY <1>2, <2>2, <2>4, <2>5, VectorBecomes DEF Kept
<1>3. ASSUME r # simple_vectors[v], S!Undefined("behind")
      PROVE  Kept
  <2>1. Len(s) = simple_vectors[v].capacity /\ Len(s) > 0
    BY <1>1, <1>3 DEF S!Grown
  <2>2. Len(s) = simple_vectors[v].room
    BY <2>1 DEF SimpleInv, IsSimple
  <2> QED BY <1>3, <2>1, <2>2, ReadBehind DEF Crowded
<1>4. ASSUME r = simple_vectors[v],
             simple_vectors' = [simple_vectors EXCEPT ![v] =
               S!With(r, S!InsertAt(r.items, i, r.items[IF k > i THEN k - 1 ELSE k]))],
             simple_outcome' = "own element"
      PROVE  Kept
  <2>1. (IF k > i THEN k - 1 ELSE k) \in 1 .. Len(s)
    BY <1>1
  <2>2. r.items[IF k > i THEN k - 1 ELSE k] \in Element
    BY <1>1, <2>1
  <2> QED BY <1>2, <1>4, <2>2
<1>5. Value \cup {Unspecified} = Element
  BY DEF Element
<1> QED BY <1>2, <1>3, <1>4, <1>5 DEF S!InsertOwn

LEMMA PopBackKeepsSimple ==
  ASSUME SimpleInv, NEW v \in Simple, S!PopBack(v)
  PROVE  Kept
<1> DEFINE r == simple_vectors[v]
           s == r.items
           t == S!Front(s)
<1>1. /\ IsSimple(r) /\ s \in Seq(Element) /\ Len(s) \in Nat /\ Len(s) # 0
      /\ S!Becomes(v, S!With(r, t))
  BY DEF SimpleInv, IsSimple, S!PopBack
<1>2. Len(s) \in 1 .. Len(s) /\ Len(s) - 1 \in Nat
  BY <1>1
<1>3. t = [j \in 1 .. Len(s) - 1 |-> s[j]]
  <2>1. t = SubSeq(s, 1, Len(s) - 1)
    BY DEF S!Front
  <2> HIDE DEF t
  <2> QED BY <1>1, <1>2, <2>1
<1>4. Removed(s, Len(s) - 1) = t
  <2>1. \A j \in 1 .. Len(s) - 1 : j <= Len(s) - 1
    BY <1>1
  <2> HIDE DEF t
  <2> QED BY <1>3, <2>1 DEF Removed
<1>5. t \in Seq(Element) /\ Len(s) = Len(t) + 1 /\ t = S!Promised!RemoveAt(s, Len(s))
  BY <1>1, <1>2, <1>4, RemovalFrom
<1> HIDE DEF t
<1>6. S!Promised!Deletes(s, t)
  BY <1>1, <1>2, <1>5 DEF S!Promised!Deletes
<1>7. IsSimple(S!With(r, t)) /\ S!With(r, t).items = t
  BY <1>1, <1>5, WithIsSimple
<1>8. MayBecome(v, S!With(r, t), "ok")
  BY <1>6, <1>7 DEF MayBecome
<1> QED BY <1>1, <1>7, <1>8, BecomesKeeps

LEMMA EraseKeepsSimple ==
  ASSUME SimpleInv, NEW v \in Simple, NEW i \in DOMAIN simple_vectors[v].items, S!Erase(v, i)
  PROVE  Kept
<1> DEFINE r == simple_vectors[v]
           s == r.items
           n == Len(s)
<1>1. IsSimple(r) /\ s \in Seq(Element) /\ n \in Nat /\ i \in 1 .. n /\ DOMAIN s = 1 .. n
  BY DEF SimpleInv, IsSimple
<1>3. CASE S!Becomes(v, S!With(r, S!RemoveAt(s, i)))
  <2> DEFINE t == S!RemoveAt(s, i)
  <2>1. t \in Seq(Element) /\ Len(s) = Len(t) + 1 /\ t = S!Promised!RemoveAt(s, i)
    BY <1>1, RemovalFrom
  <2>2. S!Becomes(v, S!With(r, t))
    BY <1>3
  <2> HIDE DEF t
  <2>3. S!Promised!Deletes(s, t)
    BY <1>1, <2>1 DEF S!Promised!Deletes
  <2>4. IsSimple(S!With(r, t)) /\ S!With(r, t).items = t
    BY <1>1, <2>1, WithIsSimple
  <2>5. MayBecome(v, S!With(r, t), "ok")
    BY <2>3, <2>4 DEF MayBecome
  <2> QED BY <2>2, <2>4, <2>5, BecomesKeeps
<1>4. ASSUME n = r.room, S!Undefined("behind")
      PROVE  Kept
  BY <1>1, <1>4, ReadBehind DEF Crowded
<1>5. ASSUME NEW k \in i .. n, NEW moved \in BOOLEAN, S!Throw(v, S!With(r, S!HalfClosed(s, i, k, moved)))
      PROVE  Kept
  <2> DEFINE t == S!HalfClosed(s, i, k, moved)
  <2>1. t = [j \in 1 .. n |-> IF j = k \/ (j = k + 1 /\ moved) THEN Unspecified
                              ELSE IF j >= i /\ j < k THEN s[j + 1] ELSE s[j]]
    BY <1>1 DEF S!HalfClosed
  <2>2. ASSUME NEW j \in 1 .. n PROVE t[j] = Unspecified \/ Has(s, t[j])
    <3>1. t[j] = Unspecified \/ (j < k /\ t[j] = s[j + 1]) \/ t[j] = s[j]
      BY <2>1
    <3>2. j < k => j + 1 \in 1 .. n
      BY <1>1
    <3> QED BY <3>1, <3>2 DEF Has
  <2>3. DOMAIN t = 1 .. n /\ t = [j \in 1 .. n |-> t[j]] /\ S!Throw(v, S!With(r, t))
    BY <1>5, <2>1
  <2> HIDE DEF t
  <2> QED BY <1>1, <2>2, <2>3, SpoiltInPlaceKeeps
<1> QED BY <1>3, <1>4, <1>5 DEF S!Erase

LEMMA ClearKeepsSimple ==
  ASSUME SimpleInv, NEW v \in Simple, S!Clear(v)
  PROVE  Kept
<1> DEFINE r == simple_vectors[v]
<1>1. IsSimple(r) /\ S!Becomes(v, S!With(r, <<>>)) /\ <<>> \in Seq(Element)
  BY DEF SimpleInv, S!Clear
<1>2. IsSimple(S!With(r, <<>>)) /\ S!With(r, <<>>).items = <<>>
  BY <1>1, WithIsSimple
<1>3. MayBecome(v, S!With(r, <<>>), "ok")
  BY <1>2 DEF MayBecome
<1> QED BY <1>1, <1>2, <1>3, BecomesKeeps

LEMMA ResizeKeepsSimple ==
  ASSUME SimpleInv, NEW v \in Simple, NEW n \in 0 .. MaxSimpleSize, S!Resize(v, n)
  PROVE  Kept
<1> DEFINE r == simple_vectors[v]
           s == r.items
           asked == IF n > r.capacity * 2 THEN n ELSE r.capacity * 2
           larger == IF n > r.capacity THEN S!Reserved(r, asked) ELSE r
           t == S!ResizedTo(s, n)
<1>1. /\ IsSimple(r) /\ s \in Seq(Element) /\ Len(s) \in Nat /\ r.capacity \in Nat
      /\ n \in Nat /\ asked \in Nat /\ (n > r.capacity => asked > r.capacity)
  BY DEF SimpleInv, IsSimple
<1>2. IsSimple(larger) /\ larger.items = s
  BY <1>1, ReservedIsSimple
<1>3. ASSUME n > r.capacity, S!OverrunsNew(r, asked), S!Undefined("overrun")
      PROVE  Kept
  <2>1. Len(r.items) > r.capacity
    BY <1>1, <1>3 DEF S!OverrunsNew
  <2> QED BY <1>3, <2>1, OverrunOfOverfull
<1>4. CASE S!Throw(v, larger)
  <2> HIDE DEF larger
  <2> QED BY <1>2, <1>4, SameItems, ThrowKeepsSimple
<1>6. CASE S!Becomes(v, S!With(larger, S!ResizedTo(r.items, n)))
  <2>1. t = [j \in 1 .. n |-> IF j <= Len(s) THEN s[j] ELSE Default]
    BY DEF S!ResizedTo
  <2>2. Default \in Element
    BY ContainersAssumption DEF S!SimpleVectorAssumption, Element
  <2>3. \A j \in 1 .. n : j <= Len(s) => s[j] \in Element
    BY <1>1
  <2>4. t \in [1 .. n -> Element]
    BY <2>1, <2>2, <2>3
  <2>5. S!Becomes(v, S!With(larger, t))
    BY <1>6
  <2> HIDE DEF t, larger
  <2>6. t \in Seq(Element) /\ Len(t) = n /\ DOMAIN t = 1 .. n
    BY <1>1, <2>4, FunctionIsSequence
  <2>7. S!Promised!Resizes(s, t)
    BY <2>1, <2>6 DEF S!Promised!Resizes
  <2>8. IsSimple(S!With(larger, t)) /\ S!With(larger, t).items = t
    BY <1>2, <2>6, WithIsSimple
  <2>9. MayBecome(v, S!With(larger, t), "ok")
    BY <2>7, <2>8 DEF MayBecome
  <2> QED BY <2>5, <2>8, <2>9, BecomesKeeps
<1>7. ASSUME S!ReserveThrows(v, asked) PROVE Kept
  BY <1>1, <1>7, ReserveThrowsKeeps
<1> QED BY <1>3, <1>4, <1>6, <1>7 DEF S!Resize

LEMMA SwapKeepsSimple ==
  ASSUME SimpleInv, NEW v \in Simple, NEW w \in Simple, S!Swap(v, w)
  PROVE  Kept
<1>1. DOMAIN simple_vectors = Simple /\ \A u \in Simple : IsSimple(simple_vectors[u])
  BY DEF SimpleInv
<1>2. /\ simple_vectors' = [simple_vectors EXCEPT ![v] = simple_vectors[w], ![w] = simple_vectors[v]]
      /\ simple_outcome' = "ok"
  BY DEF S!Swap
<1>3. /\ DOMAIN simple_vectors' = Simple /\ simple_vectors' = [u \in Simple |-> simple_vectors'[u]]
      /\ \A u \in Simple : simple_vectors'[u] = simple_vectors[IF u = w THEN v ELSE IF u = v THEN w ELSE u]
  BY <1>1, <1>2
<1>4. SimpleInv'
  BY <1>1, <1>3 DEF SimpleInv
<1>5. SimpleContents' = [SimpleContents EXCEPT ![v] = SimpleContents[w], ![w] = SimpleContents[v]]
  BY <1>3 DEF SimpleContents
<1>6. S!Promised!Swap(v, w)
  BY <1>2, <1>5 DEF S!Promised!Swap, SimpleContents
<1> QED BY <1>2, <1>4, <1>6 DEF Kept, S!Promised!Next

LEMMA CopyAssignKeepsSimple ==
  ASSUME SimpleInv, NEW v \in Simple, NEW w \in Simple, S!CopyAssign(v, w)
  PROVE  Kept
<1> DEFINE lhs == simple_vectors[v]
           rhs == simple_vectors[w]
<1>1. /\ IsSimple(lhs) /\ IsSimple(rhs) /\ rhs.items \in Seq(Element) /\ rhs.capacity \in Nat
      /\ Len(rhs.items) \in Nat /\ <<>> \in Seq(Element)
  BY DEF SimpleInv, IsSimple
<1>2. ASSUME S!ComparesBehind(lhs, rhs), S!Undefined("behind")
      PROVE  Kept
  <2>1. Len(lhs.items) > rhs.room /\ Len(lhs.items) \in Nat /\ rhs.room \in Nat
    BY <1>2 DEF S!ComparesBehind, SimpleInv, IsSimple
  <2> QED BY <1>2, <2>1, ReadBehind DEF Crowded
<1>3. CASE S!Becomes(v, lhs)
  BY <1>1, <1>3, SameItems, BecomesKeeps
<1>4. CASE S!Becomes(v, S!With(lhs, <<>>))
  <2>1. IsSimple(S!With(lhs, <<>>)) /\ S!With(lhs, <<>>).items = <<>>
    BY <1>1, WithIsSimple
  <2>2. MayBecome(v, S!With(lhs, <<>>), "ok")
    BY <2>1 DEF MayBecome
  <2> QED BY <1>4, <2>1, <2>2, BecomesKeeps
<1>5. CASE S!Becomes(v, S!Array(rhs.items, rhs.capacity))
  <2> DEFINE r == S!Array(rhs.items, rhs.capacity)
  <2>1. IsSimple(r) /\ r.items = rhs.items
    BY <1>1, ArrayIsSimple
  <2> HIDE DEF r
  <2>2. MayBecome(v, r, "ok")
    BY <2>1 DEF MayBecome
  <2> QED BY <1>5, <2>1, <2>2, BecomesKeeps DEF r
<1>6. CASE Len(rhs.items) > rhs.capacity /\ S!Undefined("overrun")
  BY <1>6, OverrunOfOverfull
<1>7. CASE S!Throw(v, lhs)
  BY <1>1, <1>7, SameItems, ThrowKeepsSimple
<1> QED BY <1>2, <1>3, <1>4, <1>5, <1>6, <1>7 DEF S!CopyAssign

LEMMA MoveAssignKeepsSimple ==
  ASSUME SimpleInv, NEW v \in Simple, NEW w \in Simple, S!MoveAssign(v, w)
  PROVE  Kept
<1> DEFINE lhs == simple_vectors[v]
           rhs == simple_vectors[w]
           gone == IF v = w THEN S!Array(<<>>, rhs.capacity)
                   ELSE [items |-> <<>>, room |-> rhs.room, capacity |-> 0]
           taken == S!Array(IF v = w THEN <<>> ELSE rhs.items, rhs.capacity)
<1>1. /\ IsSimple(lhs) /\ IsSimple(rhs) /\ rhs.items \in Seq(Element) /\ rhs.capacity \in Nat
      /\ rhs.room \in Nat /\ <<>> \in Seq(Element)
      /\ rhs = [items |-> rhs.items, room |-> rhs.room, capacity |-> rhs.capacity]
  BY DEF SimpleInv, IsSimple
<1>2. CASE S!Becomes(v, S!With(lhs, <<>>))
  <2>1. IsSimple(S!With(lhs, <<>>)) /\ S!With(lhs, <<>>).items = <<>>
    BY <1>1, WithIsSimple
  <2>2. MayBecome(v, S!With(lhs, <<>>), "ok")
    BY <2>1 DEF MayBecome
  <2> QED BY <1>2, <2>1, <2>2, BecomesKeeps
<1>3. CASE Len(rhs.items) > rhs.capacity /\ S!Undefined("overrun")
  BY <1>3, OverrunOfOverfull
<1>4. ASSUME NEW k \in 0 .. Len(rhs.items), S!Throw(w, [S!MovedFrom(rhs, k) EXCEPT !.capacity = 0])
      PROVE  Kept
  <2> DEFINE s == rhs.items
             t == [j \in DOMAIN s |-> IF j <= k THEN Unspecified ELSE s[j]]
             g == [items |-> s, room |-> rhs.room, capacity |-> 0]
  <2>1. DOMAIN s = 1 .. Len(s)
    BY <1>1
  <2>2. \A j \in 1 .. Len(s) : t[j] = Unspecified \/ Has(s, t[j])
    BY <2>1 DEF Has
  <2>3. DOMAIN t = 1 .. Len(s) /\ t = [j \in 1 .. Len(s) |-> t[j]]
    BY <2>1
  <2>4. S!MovedFrom(rhs, k) = [rhs EXCEPT !.items = t]
    BY DEF S!MovedFrom, S!With
  <2> HIDE DEF t
  <2>5. [[rhs EXCEPT !.items = t] EXCEPT !.capacity = 0] = [items |-> t, room |-> rhs.room, capacity |-> 0]
    <3>1. [rhs EXCEPT !.items = t] = [items |-> t, room |-> rhs.room, capacity |-> rhs.capacity]
      BY <1>1
    <3> DEFINE m == [items |-> t, room |-> rhs.room, capacity |-> rhs.capacity]
    <3>2. [m EXCEPT !.capacity = 0] = [items |-> t, room |-> rhs.room, capacity |-> 0]
      OBVIOUS
    <3> QED BY <3>1, <3>2
  <2>6. S!With(g, t) = [items |-> t, room |-> rhs.room, capacity |-> 0]
    BY DEF S!With
  <2>7. IsSimple(g)
    BY <1>1 DEF IsSimple
  <2>8. S!Throw(w, S!With(g, t))
    BY <1>4, <2>4, <2>5, <2>6
  <2> HIDE DEF g
  <2> QED BY <2>2, <2>3, <2>7, <2>8, SpoiltInPlaceKeeps
<1>5. ASSUME simple_outcome' = "ok", simple_vectors' = [simple_vectors EXCEPT ![v] = taken, ![w] = gone]
      PROVE  Kept
  <2>1. DOMAIN simple_vectors = Simple /\ \A u \in Simple : IsSimple(simple_vectors[u])
    BY DEF SimpleInv
  <2>2. IsSimple(taken) /\ (v # w => taken.items = rhs.items)
    BY <1>1, ArrayIsSimple
  <2>3. IsSimple(gone) /\ gone.items = <<>>
    <3>1. CASE v = w
      BY <1>1, <3>1, ArrayIsSimple
    <3>2. CASE v # w
      BY <1>1, <3>2 DEF IsSimple
    <3> QED BY <3>1, <3>2
  <2> HIDE DEF taken, gone
  <2>4. /\ DOMAIN simple_vectors' = Simple /\ simple_vectors' = [u \in Simple |-> simple_vectors'[u]]
        /\ \A u \in Simple :
             simple_vectors'[u] = IF u = w THEN gone ELSE IF u = v THEN taken ELSE simple_vectors[u]
    BY <1>5, <2>1
  <2>5. SimpleInv'
    BY <2>1, <2>2, <2>3, <2>4 DEF SimpleInv
  <2>6. SimpleContents' = [SimpleContents EXCEPT ![v] = SimpleContents[w], ![w] = <<>>]
    BY <2>2, <2>3, <2>4 DEF SimpleContents
  <2>7. S!Promised!Take(v, w)
    BY <1>5, <2>6 DEF S!Promised!Take, SimpleContents
  <2> QED BY <1>5, <2>5, <2>7 DEF Kept, S!Promised!Next
<1> QED BY <1>2, <1>3, <1>4, <1>5 DEF S!MoveAssign

LEMMA SimpleCallKeeps ==
  ASSUME SimpleInv, S!Next
  PROVE  Kept
<1>1. PICK v \in Simple :
       \/ \E n \in 0 .. MaxSimpleSize : S!Reserve(v, n) \/ S!Resize(v, n)
       \/ \E i \in 1 .. Len(simple_vectors[v].items) + 1 :
            \/ \E x \in Value : S!Insert(v, i, x)
            \/ \E j \in DOMAIN simple_vectors[v].items : S!InsertOwn(v, i, j)
       \/ \E i \in DOMAIN simple_vectors[v].items : S!Erase(v, i)
       \/ \E x \in Value : S!PushBack(v, x)
       \/ S!PopBack(v) \/ S!Clear(v)
       \/ \E w \in Simple : S!Swap(v, w) \/ S!CopyAssign(v, w) \/ S!MoveAssign(v, w)
  BY DEF S!Next
<1> DEFINE grown == Len(simple_vectors[v].items) + 1
<1>2. ASSUME NEW n \in 0 .. MaxSimpleSize, S!Reserve(v, n) \/ S!Resize(v, n)
      PROVE  Kept
  BY <1>2, ReserveKeepsSimple, ResizeKeepsSimple
<1>3. ASSUME NEW i \in 1 .. grown, NEW x \in Value, S!Insert(v, i, x)
      PROVE  Kept
  BY <1>3, InsertKeepsSimple
<1>4. ASSUME NEW i \in 1 .. grown, NEW j \in DOMAIN simple_vectors[v].items, S!InsertOwn(v, i, j)
      PROVE  Kept
  BY <1>4, InsertOwnKeeps
<1>5. ASSUME NEW i \in DOMAIN simple_vectors[v].items, S!Erase(v, i)
      PROVE  Kept
  BY <1>5, EraseKeepsSimple
<1>6. CASE S!PopBack(v) \/ S!Clear(v)
  BY <1>6, PopBackKeepsSimple, ClearKeepsSimple
<1>7. ASSUME NEW w \in Simple, S!Swap(v, w) \/ S!CopyAssign(v, w) \/ S!MoveAssign(v, w)
      PROVE  Kept
  BY <1>7, SwapKeepsSimple, CopyAssignKeepsSimple, MoveAssignKeepsSimple
<1>8. ASSUME NEW x \in Value, S!PushBack(v, x)
      PROVE  Kept
  BY <1>8, PushBackKeepsSimple
<1> QED BY <1>1, <1>2, <1>3, <1>4, <1>5, <1>6, <1>7, <1>8

LEMMA SimpleInitially ==
  ASSUME S!Init
  PROVE  SimpleInv /\ S!Promised!Init
<1>1. simple_vectors \in [Simple -> S!Constructed] /\ simple_outcome = "ok"
  BY DEF S!Init
<1>2. ASSUME NEW r \in S!Constructed PROVE IsSimple(r) /\ r.items \in {<<>>, <<Default>>}
  <2>1. Default \in Element /\ <<>> \in Seq(Element)
    BY ContainersAssumption DEF S!SimpleVectorAssumption, Element
  <2>2. CASE r \in {S!Array(s, Len(s)) : s \in {<<>>, <<Default>>}}
    <3>1. PICK s \in {<<>>, <<Default>>} : r = S!Array(s, Len(s))
      BY <2>2
    <3>2. s \in Seq(Element)
      <4>1. CASE s = <<>>
        BY <2>1, <4>1
      <4>2. CASE s = <<Default>>
        BY <2>1, <4>2
      <4> QED BY <3>1, <4>1, <4>2
    <3>3. Len(s) \in Nat
      BY <3>2
    <3>4. IsSimple(r) /\ r.items = s
      BY <3>1, <3>2, <3>3, ArrayIsSimple
    <3> QED BY <3>1, <3>4
  <2>3. CASE r \in {S!Array(<<>>, n) : n \in 0 .. MaxSimpleSize}
    <3>1. PICK n \in 0 .. MaxSimpleSize : r = S!Array(<<>>, n)
      BY <2>3
    <3>2. n \in Nat
      OBVIOUS
    <3>3. IsSimple(r) /\ r.items = <<>>
      BY <2>1, <3>1, <3>2, ArrayIsSimple
    <3> QED BY <3>3
  <2> QED BY <2>2, <2>3 DEF S!Constructed
<1>3. SimpleInv
  BY <1>1, <1>2 DEF SimpleInv
<1>4. SimpleContents \in [Simple -> {<<>>, <<Default>>} \cup {<<>>}]
  BY <1>1, <1>2 DEF SimpleContents
<1> QED BY <1>1, <1>3, <1>4 DEF S!Promised!Init, SimpleContents

LEMMA SimpleStep ==
  SimpleInv /\ [AnyCall]_containers_vars
    => /\ SimpleInv' /\ [S!Promised!Next]_(S!Promised!vars)
       /\ [simple_outcome' = "overrun" => Overfull]_(S!simple_vars)
       /\ [simple_outcome' = "behind" => Crowded]_(S!simple_vars)
<1>1. CASE UNCHANGED simple_state /\ SimpleInv
  <2>1. simple_vectors' = simple_vectors /\ simple_outcome' = simple_outcome
    BY <1>1 DEF simple_state
  <2>2. SimpleInv' /\ SimpleContents' = SimpleContents
    BY <1>1, <2>1 DEF SimpleInv, SimpleContents
  <2> QED BY <2>1, <2>2 DEF S!Promised!vars, SimpleContents, S!simple_vars
<1>2. CASE SimpleCall /\ SimpleInv
  BY <1>2, SimpleCallKeeps DEF SimpleCall, Kept
<1> QED BY <1>1, <1>2 DEF AnyCall, VectorCall, ListCall, OptionalCall, containers_vars, simple_state

\* SimpleVector, for any vectors of a program and any memory: a call writes
\* behind an array only for a vector that counts more elements than its
\* capacity_, which a move that failed has set to 0.
THEOREM OnlyTheOverfullOverrun == ContainersSpec => OnlyFailedMovesOverrun
<1>1. ContainersInit => SimpleInv
  BY SimpleInitially DEF ContainersInit
<1>2. SimpleInv /\ [AnyCall]_containers_vars
        => SimpleInv' /\ [simple_outcome' = "overrun" => Overfull]_(S!simple_vars)
  BY SimpleStep
<1> QED BY <1>1, <1>2, PTL
        DEF ContainersSpec, AnyCall, OnlyFailedMovesOverrun, S!OnlyFailedMovesOverrun, Overfull

\* SimpleVector, for any vectors of a program and any memory: a call reads
\* behind an array only if that array is full, or shorter than the vector that
\* it is compared with.
THEOREM OnlyTheCrowdedAreReadBehind == ContainersSpec => OnlyFullArraysAreReadBehind
<1>1. ContainersInit => SimpleInv
  BY SimpleInitially DEF ContainersInit
<1>2. SimpleInv /\ [AnyCall]_containers_vars
        => SimpleInv' /\ [simple_outcome' = "behind" => Crowded]_(S!simple_vars)
  BY SimpleStep
<1> QED BY <1>1, <1>2, PTL
        DEF ContainersSpec, AnyCall, OnlyFullArraysAreReadBehind, S!OnlyFullArraysAreReadBehind, Crowded

\* SimpleVector, for any vectors and any memory: each is a sequence, but for a
\* call that is given an element of its own, and for one that throws: that one
\* may leave elements on other places or unspecified, and one more of them.
THEOREM SimpleVectorsAreAsPromised == ContainersSpec => SimpleVectorsAreSequences
<1>1. ContainersInit => SimpleInv /\ S!Promised!Init
  BY SimpleInitially DEF ContainersInit
<1>2. SimpleInv /\ [AnyCall]_containers_vars => SimpleInv' /\ [S!Promised!Next]_(S!Promised!vars)
  BY SimpleStep
<1> QED BY <1>1, <1>2, PTL
        DEF ContainersSpec, AnyCall, SimpleVectorsAreSequences, S!ImplementsContents, S!Promised!Spec

(***************************************************************************)
(* Optional.                                                               *)
(***************************************************************************)
OptionalInv ==
  /\ optional_data \in [Optionals -> Value \cup {Raw}]
  /\ optional_initialized \in [Optionals -> BOOLEAN]

\* What a call may do to optionals whose marks are true.
Faithful ==
  O!Truthful => (O!Truthful' /\ optional_outcome' # "no object") \/ optional_outcome' = "emplace threw"

LEMMA MarkedKeeps ==
  ASSUME OptionalInv, NEW o \in Optionals, NEW x \in Value \cup {Raw}, NEW flag \in BOOLEAN,
         O!Becomes(o, x, flag)
  PROVE  OptionalInv' /\ ((x # Raw <=> flag) => Faithful)
<1>1. \A p \in Optionals : /\ optional_data'[p] = IF p = o THEN x ELSE optional_data[p]
                           /\ optional_initialized'[p] = IF p = o THEN flag ELSE optional_initialized[p]
  BY DEF O!Becomes, OptionalInv
<1>2. OptionalInv'
  BY DEF O!Becomes, OptionalInv
<1>3. ASSUME x # Raw <=> flag, O!Truthful PROVE O!Truthful'
  <2>1. ASSUME NEW p \in Optionals PROVE optional_initialized'[p] <=> optional_data'[p] # Raw
    <3>1. optional_initialized[p] <=> optional_data[p] # Raw
      BY <1>3 DEF O!Truthful, O!HasValue, O!Holds
    <3>2. CASE p = o
      BY <1>1, <1>3, <3>2
    <3>3. CASE p # o
      BY <1>1, <3>1, <3>3
    <3> QED BY <3>2, <3>3
  <2> QED BY <2>1 DEF O!Truthful, O!HasValue, O!Holds
<1>4. optional_outcome' # "no object"
  BY DEF O!Becomes
<1> QED BY <1>2, <1>3, <1>4 DEF Faithful

LEMMA FailedKeeps ==
  ASSUME OptionalInv, NEW how, O!Fails(how)
  PROVE  OptionalInv' /\ (how # "no object" => Faithful)
<1>1. optional_data' = optional_data /\ optional_initialized' = optional_initialized /\ optional_outcome' = how
  BY DEF O!Fails
<1>2. O!Truthful' <=> O!Truthful
  BY <1>1 DEF O!Truthful, O!HasValue, O!Holds
<1> QED BY <1>1, <1>2 DEF OptionalInv, Faithful

\* Where an object is used that is not there, the marks were not true before.
LEMMA MisusedKeeps ==
  ASSUME OptionalInv, NEW o \in Optionals, O!HasValue(o) /\ ~O!Holds(o), O!Fails("no object")
  PROVE  OptionalInv' /\ Faithful
<1>1. ~O!Truthful
  BY DEF O!Truthful
<1> QED BY <1>1, FailedKeeps DEF Faithful

LEMMA OptionalEmplaceKeeps ==
  ASSUME OptionalInv, NEW o \in Optionals, NEW x \in Value, O!Emplace(o, x)
  PROVE  OptionalInv' /\ Faithful
<1>1. x # Raw /\ TRUE \in BOOLEAN /\ x \in Value \cup {Raw}
  BY ContainersAssumption DEF O!RawAssumption
<1>2. CASE O!HasValue(o) /\ ~O!Holds(o) /\ O!Fails("no object")
  BY <1>2, MisusedKeeps
<1>3. CASE O!Becomes(o, x, TRUE)
  BY <1>1, <1>3, MarkedKeeps
<1>4. CASE /\ optional_data' = [optional_data EXCEPT ![o] = Raw]
           /\ optional_initialized' = [optional_initialized EXCEPT ![o] = TRUE]
           /\ optional_outcome' = "emplace threw"
  BY <1>4 DEF OptionalInv, Faithful
<1> QED BY <1>2, <1>3, <1>4 DEF O!Emplace

LEMMA AssignKeeps ==
  ASSUME OptionalInv, NEW o \in Optionals, NEW x \in Value, O!Assign(o, x)
  PROVE  OptionalInv' /\ Faithful
<1>1. x # Raw /\ TRUE \in BOOLEAN /\ x \in Value \cup {Raw} /\ "exception" # "no object"
  BY ContainersAssumption DEF O!RawAssumption
<1>2. CASE O!HasValue(o) /\ ~O!Holds(o) /\ O!Fails("no object")
  BY <1>2, MisusedKeeps
<1>3. CASE O!Becomes(o, x, TRUE)
  BY <1>1, <1>3, MarkedKeeps
<1>4. CASE O!Fails("exception")
  BY <1>1, <1>4, FailedKeeps
<1> QED BY <1>2, <1>3, <1>4 DEF O!Assign

LEMMA ResetKeeps ==
  ASSUME OptionalInv, NEW o \in Optionals, O!Reset(o)
  PROVE  OptionalInv' /\ Faithful
<1>1. Raw \in Value \cup {Raw} /\ FALSE \in BOOLEAN /\ optional_data[o] \in Value \cup {Raw}
  BY DEF OptionalInv
<1>2. CASE O!HasValue(o) /\ ~O!Holds(o) /\ O!Fails("no object")
  BY <1>2, MisusedKeeps
<1>3. CASE O!Becomes(o, Raw, FALSE)
  BY <1>1, <1>3, MarkedKeeps
<1>4. CASE ~O!HasValue(o) /\ O!Becomes(o, optional_data[o], FALSE)
  <2>1. CASE optional_data[o] = Raw
    BY <1>1, <1>4, <2>1, MarkedKeeps
  <2>2. CASE optional_data[o] # Raw
    <3>1. ~O!Truthful
      BY <1>4, <2>2 DEF O!Truthful, O!Holds
    <3> QED BY <1>1, <1>4, <3>1, MarkedKeeps DEF Faithful
  <2> QED BY <2>1, <2>2
<1> QED BY <1>2, <1>3, <1>4 DEF O!Reset

LEMMA AssignOptionalKeeps ==
  ASSUME OptionalInv, NEW o \in Optionals, NEW w \in Optionals, O!AssignOptional(o, w)
  PROVE  OptionalInv' /\ Faithful
<1>1. CASE O!HasValue(w) /\ ~O!Holds(w) /\ O!Fails("no object")
  BY <1>1, MisusedKeeps
<1>2. CASE O!Holds(w) /\ O!Assign(o, optional_data[w])
  <2>1. optional_data[w] \in Value
    BY <1>2 DEF O!Holds, OptionalInv
  <2> QED BY <1>2, <2>1, AssignKeeps
<1>3. CASE O!Reset(o)
  BY <1>3, ResetKeeps
<1> QED BY <1>1, <1>2, <1>3 DEF O!AssignOptional

LEMMA UseValueKeeps ==
  ASSUME OptionalInv, NEW o \in Optionals, O!UseValue(o)
  PROVE  OptionalInv' /\ Faithful
<1>1. CASE O!HasValue(o) /\ ~O!Holds(o) /\ O!Fails("no object")
  BY <1>1, MisusedKeeps
<1>2. CASE O!Fails("exception") \/ O!Fails("ok")
  <2>1. "exception" # "no object" /\ "ok" # "no object"
    OBVIOUS
  <2> QED BY <1>2, <2>1, FailedKeeps
<1> QED BY <1>1, <1>2 DEF O!UseValue

LEMMA OptionalStep ==
  OptionalInv /\ [AnyCall]_containers_vars => OptionalInv' /\ [Faithful]_(O!optional_vars)
<1>1. CASE UNCHANGED optional_state /\ OptionalInv
  BY <1>1 DEF optional_state, OptionalInv, O!optional_vars
<1>2. CASE OptionalCall /\ OptionalInv
  <2>1. PICK o \in Optionals :
          \/ \E x \in Value : O!Emplace(o, x) \/ O!Assign(o, x)
          \/ O!Reset(o) \/ O!UseValue(o)
          \/ \E w \in Optionals : O!AssignOptional(o, w)
    BY <1>2 DEF OptionalCall, O!Next
  <2> QED BY <1>2, <2>1, OptionalEmplaceKeeps, AssignKeeps, ResetKeeps, UseValueKeeps, AssignOptionalKeeps
<1> QED BY <1>1, <1>2 DEF AnyCall, VectorCall, ListCall, SimpleCall, containers_vars, optional_state

\* Optional, for any optionals of a program and any type of what they hold:
\* is_initialized_ tells the truth, and no call uses or destroys what is not
\* there, up to the first Emplace whose constructor throws.
THEOREM OnlyEmplaceMakesTheMarkLie == ContainersSpec => OnlyEmplaceLies
<1>1. ContainersInit => OptionalInv
  BY DEF ContainersInit, O!Init, OptionalInv
<1>2. OptionalInv /\ [AnyCall]_containers_vars => OptionalInv' /\ [Faithful]_(O!optional_vars)
  BY OptionalStep
<1> QED BY <1>1, <1>2, PTL
        DEF ContainersSpec, AnyCall, OnlyEmplaceLies, O!OnlyEmplaceLies, Faithful
=============================================================================
