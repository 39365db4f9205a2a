------------------------------- MODULE Vector -------------------------------
(***************************************************************************)
(* Vector and RawMemory (vector/vector.h): objects in raw memory, of a     *)
(* type whose operations may throw.  One step is one call on one of the    *)
(* vectors of a program, with every constructor, assignment and destructor *)
(* it runs and, if it throws, with what is left of its work.               *)
(*                                                                         *)
(* A definition marked "Slip" is not the code: it is the definition after  *)
(* it with a mistake that the checks are shown to notice.                  *)
(***************************************************************************)
EXTENDS Integers, FiniteSets

CONSTANTS
  Vec,         \* the names of the vectors of a program
  Value,       \* the values of T
  Default,     \* T()
  Unspecified, \* an object that was moved from, or assigned half
  Raw,         \* memory without an object
  None,        \* a vector that is out of its lifetime
  MaxCapacity, \* operator new gives no more than this
  MaxLost      \* bound: a program ends that has lost this many objects

ASSUME VectorAssumption ==
  /\ MaxCapacity \in Nat /\ MaxLost \in Nat
  /\ Default \in Value
  /\ {Unspecified, Raw} \cap Value = {} /\ Unspecified # Raw

Element == Value \cup {Unspecified}
Size == 0 .. MaxCapacity

\* The n slots from first on, and the memories of n slots.
From(first, n) == first .. first + n - 1
Memory(n) == [From(0, n) -> Element \cup {Raw}]

ASSUME NoneAssumption == \A n \in Size : None \notin Memory(n)

\* A vector that is out of its lifetime has no contents.
ASSUME ContentsAssumption == \A n \in Size : None \notin [1 .. n -> Element]

VARIABLES
  T,       \* what the elements may do: is_copy_constructible_v<T>, and whether
           \* a move constructor or assignment may throw.  The other
           \* constructors and assignments always may.
  data,    \* data_: for each vector its memory, a function on its slots
  size,    \* size_
  alive,   \* for each vector, the objects constructed for it less those
           \* destroyed
  outcome  \* of the last call

vars == <<T, data, size, alive, outcome>>

ElementType == [copyable : BOOLEAN, move_may_throw : BOOLEAN, assign_may_throw : BOOLEAN]

Capacity(v) == Cardinality(DOMAIN data[v])
Exists(v) == data[v] # None

\* A memory in which some slots hold f(_).
Filled(m, slots, f(_)) == [i \in DOMAIN m |-> IF i \in slots THEN f(i) ELSE m[i]]
Destroyed(m, slots) == Filled(m, slots, LAMBDA i : Raw)

\* RawMemory(n): nullptr for no object at all; otherwise it may throw.
Allocated(n) == [i \in From(0, n) |-> Raw]

Init ==
  /\ T \in ElementType
  /\ data = [v \in Vec |-> None]
  /\ size = [v \in Vec |-> 0] /\ alive = [v \in Vec |-> 0]
  /\ outcome = "ok"

Return(v, m, n, objects) ==
  /\ data' = [data EXCEPT ![v] = m]
  /\ size' = [size EXCEPT ![v] = n]
  /\ alive' = [alive EXCEPT ![v] = objects]
  /\ outcome' = "ok" /\ UNCHANGED T

\* A throw after which v has memory m and so many objects.
ThrowWith(v, m, objects) ==
  /\ data' = [data EXCEPT ![v] = m]
  /\ alive' = [alive EXCEPT ![v] = objects]
  /\ outcome' = "exception" /\ UNCHANGED <<T, size>>

Throw == outcome' = "exception" /\ UNCHANGED <<T, data, size, alive>>

(***************************************************************************)
(* Construction, destruction and assignment.                               *)
(***************************************************************************)
\* A throw in the body of a constructor frees data_, in which
\* uninitialized_copy_n has left no object.
ConstructN(v, n, f(_)) ==
  /\ ~Exists(v)
  /\ \/ n <= MaxCapacity /\ Return(v, Filled(Allocated(n), From(0, n), f), n, alive[v] + n)
     \/ n > 0 /\ Throw

SizeConstruct(v, n) == ConstructN(v, n, LAMBDA i : Default)

CopyConstruct(v, w) ==
  /\ T.copyable /\ Exists(w)
  /\ ConstructN(v, size[w], LAMBDA i : data[w][i])

Destroy(v) ==
  Exists(v) /\ Return(v, None, 0, alive[v] - size[v])

Exchanged(f, v, w) == [f EXCEPT ![v] = f[w], ![w] = f[v]]

Swap(v, w) ==
  /\ Exists(v) /\ Exists(w)
  /\ data' = Exchanged(data, v, w)
  /\ size' = Exchanged(size, v, w)
  /\ alive' = Exchanged(alive, v, w)
  /\ outcome' = "ok" /\ UNCHANGED T

MoveAssign(v, w) == Swap(v, w)

\* The new vector, which has no memory, swaps.
MoveConstruct(v, w) ==
  /\ ~Exists(v) /\ Exists(w)
  /\ data' = [data EXCEPT ![v] = data[w], ![w] = Allocated(0)]
  /\ size' = Exchanged(size, v, w)
  /\ alive' = Exchanged(alive, v, w)
  /\ outcome' = "ok" /\ UNCHANGED T

\* A copy is made, swapped in, and takes the old elements with it.
CopyAssignByCopy(v, w) ==
  /\ size[w] > Capacity(v)
  /\ \/ Return(v, [i \in From(0, size[w]) |-> data[w][i]], size[w],
               alive[v] + size[w] - size[v])
     \/ Throw

Common(v, w) == IF size[v] < size[w] THEN size[v] ELSE size[w]

\* std::copy, which leaves what it has done when an assignment throws, then
\* uninitialized_copy_n or destroy_n.
CopyAssignInPlace(v, w) ==
  /\ size[w] <= Capacity(v)
  /\ \/ Return(v, Destroyed(Filled(data[v], From(0, size[w]), LAMBDA i : data[w][i]),
                            From(size[w], size[v] - size[w])),
               size[w], alive[v] + size[w] - size[v])
     \/ \E k \in From(0, Common(v, w)) :
          ThrowWith(v, Filled(data[v], From(0, k + 1),
                              LAMBDA i : IF i = k THEN Unspecified ELSE data[w][i]),
                    alive[v])
     \/ /\ size[v] < size[w]
        /\ ThrowWith(v, Filled(data[v], From(0, size[v]), LAMBDA i : data[w][i]), alive[v])

CopyAssign(v, w) ==
  /\ T.copyable /\ Exists(v) /\ Exists(w)
  /\ CopyAssignByCopy(v, w) \/ CopyAssignInPlace(v, w)

(***************************************************************************)
(* Growing.                                                                *)
(***************************************************************************)
\* ShiftDataToNewMemory moves, or copies, and when it throws leaves nothing
\* in the new memory; if it moves, some of the old elements are gone.
ShiftMoves == ~T.move_may_throw \/ ~T.copyable
ShiftMayThrow == T.move_may_throw
AfterFailedShift(v, k) ==
  IF ShiftMoves THEN Filled(data[v], From(0, k), LAMBDA i : Unspecified) ELSE data[v]

ThrowInShift(v, first, last, objects) ==
  ShiftMayThrow /\ \E k \in first .. last : ThrowWith(v, AfterFailedShift(v, k), objects)

\* The elements of v in a memory of n slots.
Moved(v, n) == [i \in From(0, n) |-> IF i < size[v] THEN data[v][i] ELSE Raw]

Reserve(v, n) ==
  /\ Exists(v)
  /\ \/ n <= Capacity(v) /\ Return(v, data[v], size[v], alive[v])
     \/ /\ n > Capacity(v)
        /\ \/ n <= MaxCapacity /\ Return(v, Moved(v, n), size[v], alive[v])
           \/ Throw
           \/ size[v] > 0 /\ ThrowInShift(v, 0, size[v], alive[v])

\* What Resize works in, once it has reserved.
Larger(v, n) == IF n > Capacity(v) THEN Moved(v, n) ELSE data[v]

\* Slip: one object too few is destroyed.
ResizeKeepsOne(v, n) ==
  /\ Exists(v)
  /\ \/ /\ n <= MaxCapacity
        /\ Return(v, IF n > size[v] THEN Filled(Larger(v, n), From(size[v], n - size[v]), LAMBDA i : Default)
                     ELSE Destroyed(data[v], From(n + 1, size[v] - n)),
                  n, alive[v] + n - size[v])
     \/ n > Capacity(v) /\ Throw

Resize(v, n) ==
  /\ Exists(v)
  /\ \/ /\ n <= MaxCapacity
        /\ Return(v, IF n > size[v] THEN Filled(Larger(v, n), From(size[v], n - size[v]), LAMBDA i : Default)
                     ELSE Destroyed(data[v], From(n, size[v] - n)),
                  n, alive[v] + n - size[v])
     \/ n > Capacity(v) /\ (Throw \/ (size[v] > 0 /\ ThrowInShift(v, 0, size[v], alive[v])))
     \/ n > size[v] /\ n <= MaxCapacity /\ ThrowWith(v, Larger(v, n), alive[v])

(***************************************************************************)
(* Inserting.  The argument is a value from outside or a reference to an   *)
(* element of the vector itself.                                           *)
(***************************************************************************)
Outside == {<<"value", x>> : x \in Value}
Inside(v) == IF T.copyable THEN {<<"element", i>> : i \in From(0, size[v])} ELSE {}
Read(m, arg) == IF arg[1] = "value" THEN arg[2] ELSE m[arg[2]]

\* GetDoubledCapacity
Doubled(v) == IF size[v] = 0 THEN 1 ELSE size[v] * 2

\* A hole at offset, in a memory of n slots that has the elements of v.
Opened(v, offset, n, x) ==
  [i \in From(0, n) |-> IF i < offset THEN data[v][i]
                        ELSE IF i = offset THEN x
                        ELSE IF i <= size[v] THEN data[v][i - 1] ELSE Raw]

\* Slip: the elements before the new one are forgotten in the second catch.
SecondCatchOfOne(offset) == From(offset, 1)

\* What each catch destroys in the new memory.
FirstCatch(offset) == From(offset, 1)
SecondCatch(offset) == From(0, offset + 1)

EmplaceInNewMemory(v, offset, arg) ==
  /\ size[v] = Capacity(v)
  /\ \/ /\ Doubled(v) <= MaxCapacity
        /\ Return(v, Opened(v, offset, Doubled(v), Read(data[v], arg)), size[v] + 1,
                  alive[v] + (size[v] + 1) - size[v])
     \/ Throw
     \/ offset > 0 /\ ThrowInShift(v, 0, offset, alive[v] + 1 - Cardinality(FirstCatch(offset)))
     \/ /\ offset < size[v]
        /\ ThrowInShift(v, offset, size[v],
                        alive[v] + (offset + 1) - Cardinality(SecondCatch(offset)))

EmplaceAtEnd(v, arg) ==
  /\ size[v] < Capacity(v)
  /\ \/ Return(v, Opened(v, size[v], Capacity(v), Read(data[v], arg)), size[v] + 1, alive[v] + 1)
     \/ Throw

\* The k-th assignment of move_backward, or the one after the last, throws:
\* its target is in no known state, nor is its source among the elements.
HalfOpened(v, offset, k) ==
  LET target == size[v] - 1 - k
  IN  [i \in DOMAIN data[v] |->
         IF i > target /\ i <= size[v] THEN data[v][i - 1]
         ELSE IF i = target \/ (i = target - 1 /\ i >= offset) THEN Unspecified
         ELSE data[v][i]]

\* Slip: the argument is read when the elements have been moved.
EmplaceBetweenReadsLate(v, offset, arg) ==
  /\ size[v] < Capacity(v)
  /\ Return(v, Opened(v, offset, Capacity(v),
                      Read(Opened(v, offset, Capacity(v), Unspecified), arg)),
            size[v] + 1, alive[v] + 1)

\* temp_val is gone in any case.  The object made at end() is not, and size_
\* does not count it when a later assignment throws.
EmplaceBetween(v, offset, arg) ==
  /\ size[v] < Capacity(v)
  /\ \/ Return(v, Opened(v, offset, Capacity(v), Read(data[v], arg)), size[v] + 1, alive[v] + 1)
     \/ Throw
     \/ /\ T.move_may_throw
        /\ ThrowWith(v, Filled(data[v], {size[v] - 1}, LAMBDA i : Unspecified), alive[v])
     \/ /\ T.assign_may_throw
        /\ \E k \in 0 .. size[v] - 1 - offset :
             ThrowWith(v, HalfOpened(v, offset, k), alive[v] + 1)

\* Also Insert, and with offset = size[v] EmplaceBack and PushBack.
Emplace(v, offset, arg) ==
  /\ Exists(v) /\ offset \in 0 .. size[v]
  /\ \/ EmplaceInNewMemory(v, offset, arg)
     \/ offset = size[v] /\ EmplaceAtEnd(v, arg)
     \/ offset < size[v] /\ EmplaceBetween(v, offset, arg)

(***************************************************************************)
(* Removing.                                                               *)
(***************************************************************************)
PopBack(v) ==
  /\ Exists(v) /\ size[v] > 0
  /\ Return(v, Destroyed(data[v], {size[v] - 1}), size[v] - 1, alive[v] - 1)

\* The elements from offset on, k of them moved to the left.
ShiftedLeft(v, offset, k) == Filled(data[v], From(offset, k), LAMBDA i : data[v][i + 1])

Erase(v, offset) ==
  /\ Exists(v) /\ offset \in From(0, size[v])
  /\ \/ Return(v, Destroyed(ShiftedLeft(v, offset, size[v] - 1 - offset), {size[v] - 1}),
               size[v] - 1, alive[v] - 1)
     \/ /\ T.assign_may_throw
        /\ \E k \in From(0, size[v] - 1 - offset) :
             ThrowWith(v, Filled(ShiftedLeft(v, offset, k), {offset + k, offset + k + 1},
                                 LAMBDA i : Unspecified),
                       alive[v])

Lost(v) == alive[v] - size[v]

Next ==
  \E v \in Vec : Lost(v) < MaxLost /\
    \/ \E n \in Size : SizeConstruct(v, n) \/ Reserve(v, n) \/ Resize(v, n)
    \/ \E w \in Vec \ {v} :
         CopyConstruct(v, w) \/ MoveConstruct(v, w) \/ CopyAssign(v, w) \/ MoveAssign(v, w)
    \/ Destroy(v) \/ PopBack(v)
    \/ \E offset \in Size :
         Erase(v, offset) \/ \E arg \in Outside \cup Inside(v) : Emplace(v, offset, arg)

Spec == Init /\ [][Next]_vars

(***************************************************************************)
(* Properties.                                                             *)
(***************************************************************************)
\* The slots below size_ hold objects and the others none, and no object was
\* lost or destroyed twice: whatever has thrown, if assigning by move does not.
OwnsItsObjects(v) ==
  /\ alive[v] = size[v]
  /\ Exists(v) => \A i \in DOMAIN data[v] : data[v][i] # Raw <=> i < size[v]
OwnsExactlyItsObjects == ~T.assign_may_throw => \A v \in Vec : OwnsItsObjects(v)

\* A throw from an assignment in the middle of Emplace, into memory that has
\* room, is the one way to lose an object.
OnlyEmplaceBetweenLoses ==
  [][\A v \in Vec :
       Lost(v) = 0 => \/ Lost(v)' = 0 \/ (\E w \in Vec : Lost(w) # 0)
                      \/ /\ T.assign_may_throw /\ outcome' = "exception"
                         /\ \E offset \in From(0, size[v]), arg \in Outside \cup Inside(v) :
                              EmplaceBetween(v, offset, arg)]_vars

\* The elements that users see.
Contents == [v \in Vec |-> IF Exists(v) THEN [i \in 1 .. size[v] |-> data[v][i - 1]] ELSE None]

\* What vector/README.md promises, and the code does not keep: a call that
\* throws leaves every vector as it was.
StrongExceptionSafety == [][outcome' = "exception" => Contents' = Contents]_vars

\* What the code does keep: vectors behave as sequences, and a call that throws
\* leaves its vector with as many elements as it had, and changes them only if
\* it is one of those that VectorContents lists.
Promised == INSTANCE VectorContents WITH content <- Contents
ImplementsContents == Promised!Spec
=============================================================================
