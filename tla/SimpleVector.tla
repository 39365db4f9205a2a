---------------------------- MODULE SimpleVector ----------------------------
(***************************************************************************)
(* SimpleVector (helpers/simple_vector/simple_vector.h) in an ArrayPtr     *)
(* (helpers/array_ptr.h).  One step is one call on a vector of a program.  *)
(* What is behind the last element of an array is no part of the model:    *)
(* only == may read it, and then says no.  Elements are copied or moved, as *)
(* their type and the call have it; any assignment of them may throw.      *)
(*                                                                         *)
(* A definition marked "Slip" is not the code: it is the definition after  *)
(* it with a mistake that the checks are shown to notice.                  *)
(***************************************************************************)
EXTENDS Integers, Sequences, SequencesExt

CONSTANTS
  Vector,   \* the names of the vectors of a program
  Value,    \* the values of Type
  Default,  \* Type()
  Given,    \* the values that vectors are constructed from
  Unspecified, \* an element that was moved from, or whose assignment has thrown
  MaxSize   \* operator new gives no more than this

\* Assumed of the constants.
SimpleVectorAssumption ==
  /\ MaxSize \in Nat \ {0} /\ Default \in Value /\ Given \subseteq Seq(Value)
  /\ Unspecified \notin Value

VARIABLES
  vectors,  \* of each: the first size_ of its items_, how many items_ has, and
            \* capacity_
  outcome   \* of the last call: "ok", "own element" if it was given one,
            \* "exception", or "behind" and "overrun" if it reads and writes
            \* behind the array

simple_vars == <<vectors, outcome>>

Array(items, room) == [items |-> items, room |-> room, capacity |-> room]

\* From a size and a value, from a list, and from Reserve(n).
Constructed ==
  {Array(s, Len(s)) : s \in Given} \cup {Array(<<>>, n) : n \in 0 .. MaxSize}

Init == vectors \in [Vector -> Constructed] /\ outcome = "ok"

Becomes(v, r) == vectors' = [vectors EXCEPT ![v] = r] /\ outcome' = "ok"
Throw(v, r) == vectors' = [vectors EXCEPT ![v] = r] /\ outcome' = "exception"
Undefined(how) == outcome' = how /\ UNCHANGED vectors

With(r, s) == [r EXCEPT !.items = s]

Reserved(r, n) == IF n <= r.capacity THEN r ELSE Array(r.items, n)

\* The elements are moved to an array that is too small for them.
OverrunsNew(r, n) == n > r.capacity /\ Len(r.items) > n

\* The first k elements have been moved to another array.
MovedFrom(r, k) == With(r, [j \in DOMAIN r.items |-> IF j <= k THEN Unspecified ELSE r.items[j]])

\* At the allocation, when nothing has been moved, or from a move.
ReserveThrows(v, n) ==
  LET r == vectors[v]
  IN  n > r.capacity /\ \E k \in 0 .. Len(r.items) : (k > 0 => k <= n /\ n <= MaxSize) /\ Throw(v, MovedFrom(r, k))

Reserve(v, n) ==
  LET r == vectors[v]
  IN  \/ ~OverrunsNew(r, n) /\ n <= MaxSize /\ Becomes(v, Reserved(r, n))
      \/ OverrunsNew(r, n) /\ Undefined("overrun")
      \/ ReserveThrows(v, n)

\* Slip
DoubledZero(r) == r.capacity * 2

GetDoubledCapacity(r) == IF r.capacity = 0 THEN 1 ELSE r.capacity * 2

Grown(r) == IF Len(r.items) = r.capacity THEN Reserved(r, GetDoubledCapacity(r)) ELSE r

HasRoom(r) == Len(r.items) < r.room /\ r.room <= MaxSize
GrowthThrows(v) ==
  Grown(vectors[v]) # vectors[v] /\ ReserveThrows(v, GetDoubledCapacity(vectors[v]))

\* The element is assigned before it is counted.
PushBack(v, x) ==
  LET r == Grown(vectors[v])
  IN  \/ HasRoom(r) /\ Becomes(v, With(r, Append(r.items, x)))
      \/ HasRoom(r) /\ Throw(v, r)
      \/ Len(r.items) >= r.room /\ Undefined("overrun")
      \/ GrowthThrows(v)

\* Room for the i-th element is made from the end on, and the assignment of the
\* k-th to its neighbour throws.
HalfOpened(s, i, k, moved) ==
  [j \in DOMAIN s |->
     IF j = k + 1 \/ (j = k /\ moved) THEN Unspecified ELSE IF j > k THEN s[j - 1] ELSE s[j]]

\* The element is counted before it is assigned.
Insert(v, i, x) ==
  LET r == Grown(vectors[v])
  IN  \/ HasRoom(r) /\ Becomes(v, With(r, InsertAt(r.items, i, x)))
      \/ HasRoom(r) /\ \E k \in i .. Len(r.items), moved \in BOOLEAN :
                         Throw(v, With(r, HalfOpened(r.items, i, k, moved)))
      \/ HasRoom(r) /\ Throw(v, With(r, InsertAt(r.items, i, Unspecified)))
      \/ Len(r.items) >= r.room /\ Undefined("overrun")
      \/ GrowthThrows(v)

\* Either of them, with a reference to the j-th element: of an array that is
\* gone, or that now has its neighbour.  What is thrown is thrown as above.
InsertOwn(v, i, j) ==
  LET r == Grown(vectors[v])
  IN  /\ HasRoom(r)
      /\ \/ /\ r # vectors[v]
            /\ \/ Undefined("behind")
               \/ \E x \in Value \cup {Unspecified} :
                    /\ vectors' = [vectors EXCEPT ![v] = With(r, InsertAt(r.items, i, x))]
                    /\ outcome' = "own element"
         \/ /\ r = vectors[v]
            /\ vectors' = [vectors EXCEPT ![v] =
                 With(r, InsertAt(r.items, i, r.items[IF j > i THEN j - 1 ELSE j]))]
            /\ outcome' = "own element"

PopBack(v) ==
  LET r == vectors[v] IN r.items # <<>> /\ Becomes(v, With(r, Front(r.items)))

\* The assignment of the k-th element from its neighbour throws.
HalfClosed(s, i, k, moved) ==
  [j \in DOMAIN s |->
     IF j = k \/ (j = k + 1 /\ moved) THEN Unspecified
     ELSE IF j >= i /\ j < k THEN s[j + 1] ELSE s[j]]

\* Slip: two elements more are moved than there are.
EraseReadsTwo(v, i) ==
  LET r == vectors[v]
  IN  \/ Becomes(v, With(r, RemoveAt(r.items, i)))
      \/ Len(r.items) + 1 >= r.room /\ Undefined("behind")

\* One element more is moved than there are.
Erase(v, i) ==
  LET r == vectors[v]
      n == Len(r.items)
  IN  \/ Becomes(v, With(r, RemoveAt(r.items, i)))
      \/ n = r.room /\ Undefined("behind")
      \/ \E k \in i .. n, moved \in BOOLEAN : Throw(v, With(r, HalfClosed(r.items, i, k, moved)))

Clear(v) == Becomes(v, With(vectors[v], <<>>))

ResizedTo(s, n) == [j \in 1 .. n |-> IF j <= Len(s) THEN s[j] ELSE Default]

Resize(v, n) ==
  LET r == vectors[v]
      asked == IF n > r.capacity * 2 THEN n ELSE r.capacity * 2
      larger == IF n > r.capacity THEN Reserved(r, asked) ELSE r
  IN  \/ n > r.capacity /\ OverrunsNew(r, asked) /\ Undefined("overrun")
      \/ /\ ~(n > r.capacity /\ OverrunsNew(r, asked)) /\ larger.room <= MaxSize
         /\ \/ Becomes(v, With(larger, ResizedTo(r.items, n)))
            \/ n > Len(r.items) /\ Throw(v, larger)
      \/ ReserveThrows(v, asked) /\ n > r.capacity

Swap(v, w) ==
  vectors' = [vectors EXCEPT ![v] = vectors[w], ![w] = vectors[v]] /\ outcome' = "ok"

\* An unspecified element may compare as anything.
MayEqual(x, y) == x = y \/ Unspecified \in {x, y}
AreEqual(lhs, rhs) ==
  Len(lhs.items) = Len(rhs.items) /\ \A j \in DOMAIN lhs.items : MayEqual(lhs.items[j], rhs.items[j])
AreDifferent(lhs, rhs) == lhs.items # rhs.items \/ Unspecified \in ToSet(lhs.items)

\* The comparison runs over the elements of lhs, and when those of rhs are a
\* beginning of them, further than rhs has any.
ComparesBehind(lhs, rhs) ==
  Len(lhs.items) > rhs.room /\ \A j \in DOMAIN rhs.items : MayEqual(lhs.items[j], rhs.items[j])

\* Slip: the old elements go before the new ones are there.
CopyAssignInPlace(v, w) ==
  LET lhs == vectors[v]
      rhs == vectors[w]
  IN  /\ ~ComparesBehind(lhs, rhs) /\ lhs.items # rhs.items
      /\ \/ rhs.room <= lhs.room /\ Becomes(v, With(lhs, rhs.items))
         \/ Throw(v, With(lhs, <<>>))

\* Also construction by copy, of a vector that is empty.
CopyAssign(v, w) ==
  LET lhs == vectors[v]
      rhs == vectors[w]
  IN  \/ ComparesBehind(lhs, rhs) /\ Undefined("behind")
      \/ /\ ~(ComparesBehind(lhs, rhs) /\ rhs.room = 0)
         /\ \/ AreEqual(lhs, rhs) /\ Becomes(v, lhs)
            \/ AreDifferent(lhs, rhs) /\ rhs.items = <<>> /\ Becomes(v, With(lhs, <<>>))
            \/ /\ AreDifferent(lhs, rhs) /\ rhs.items # <<>>
               /\ \/ Len(rhs.items) <= rhs.capacity /\ Becomes(v, Array(rhs.items, rhs.capacity))
                  \/ Len(rhs.items) > rhs.capacity /\ Undefined("overrun")
                  \/ Len(rhs.items) <= rhs.capacity /\ Throw(v, lhs)

\* capacity_ is given away before the allocation, and a vector that is moved to
\* itself is empty.  Also construction by move, of a vector that is empty.
MoveAssign(v, w) ==
  LET rhs == vectors[w]
  IN  \/ /\ rhs.items = <<>>
         /\ Becomes(v, With(vectors[v], <<>>))
      \/ rhs.items # <<>> /\ Len(rhs.items) > rhs.capacity /\ Undefined("overrun")
      \/ /\ rhs.items # <<>> /\ Len(rhs.items) <= rhs.capacity
         /\ \/ /\ outcome' = "ok"
               /\ vectors' = [vectors EXCEPT
                    ![v] = Array(IF v = w THEN <<>> ELSE rhs.items, rhs.capacity),
                    ![w] = IF v = w THEN Array(<<>>, rhs.capacity)
                           ELSE [items |-> <<>>, room |-> rhs.room, capacity |-> 0]]
            \/ \E k \in 0 .. Len(rhs.items) : Throw(w, [MovedFrom(rhs, k) EXCEPT !.capacity = 0])

Next ==
  /\ outcome \notin {"behind", "overrun"}
  /\ \E v \in Vector :
       \/ \E n \in 0 .. MaxSize : Reserve(v, n) \/ Resize(v, n)
       \/ \E i \in 1 .. Len(vectors[v].items) + 1 :
            \/ \E x \in Value : Insert(v, i, x)
            \/ \E j \in DOMAIN vectors[v].items : InsertOwn(v, i, j)
       \/ \E i \in DOMAIN vectors[v].items : Erase(v, i)
       \/ \E x \in Value : PushBack(v, x)
       \/ PopBack(v) \/ Clear(v)
       \/ \E w \in Vector : Swap(v, w) \/ CopyAssign(v, w) \/ MoveAssign(v, w)

Spec == Init /\ [][Next]_simple_vars

(***************************************************************************)
(* Properties.                                                             *)
(***************************************************************************)
\* A call writes behind an array only if a vector counts more elements than
\* its capacity_: an assignment by move, that could not allocate, left it so.
OnlyFailedMovesOverrun ==
  [][outcome' = "overrun" =>
       \E v \in Vector : Len(vectors[v].items) > vectors[v].capacity]_simple_vars

\* A call reads behind an array only if an array is full, or has less room than
\* a vector has elements: Erase and == go one element, or as many as the other
\* vector has, too far, and an element of its own is read from an array that is
\* gone when the full vector has grown.
OnlyFullArraysAreReadBehind ==
  [][outcome' = "behind" =>
       \E v \in Vector : LET n == Len(vectors[v].items) IN
         n > 0 /\ (n = vectors[v].room \/ \E w \in Vector : n > vectors[w].room)]_simple_vars

\* Vectors behave as sequences, but for the exceptions of ContainerContents.
Promised == INSTANCE ContainerContents WITH
  content <- [v \in Vector |-> vectors[v].items], Container <- Vector,
  Length <- 0 .. MaxSize, Spoilt <- {Unspecified}
ImplementsContents == Promised!Spec
=============================================================================
