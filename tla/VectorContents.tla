--------------------------- MODULE VectorContents ---------------------------
(***************************************************************************)
(* What the users of Vector (vector/vector.h) may rely on.  It is less than *)
(* the strong exception safety that vector/README.md promises: a vector is a *)
(* sequence, and a call that throws leaves it as it was only if it does not *)
(* move or assign elements in place.  If it does, the vector has as many    *)
(* elements as before and no more is known of them.                         *)
(***************************************************************************)
EXTENDS Integers, Sequences, SequencesExt

CONSTANTS
  Vec,         \* the names of the vectors of a program
  Size,        \* the numbers of elements asked for
  Value,       \* the values of T
  Default,     \* T()
  Unspecified, \* what is left of an object that was moved from, or whose
               \* assignment has thrown
  None         \* a vector that does not exist

VARIABLES
  T,        \* what the elements may do: see Vector
  content,  \* of each vector
  outcome   \* "ok", or "exception"

vars == <<T, content, outcome>>

Element == Value \cup {Unspecified}
Exists(v) == content[v] # None

Init == content = [v \in Vec |-> None] /\ outcome = "ok"

Becomes(v, s) == content' = [content EXCEPT ![v] = s] /\ outcome' = "ok" /\ UNCHANGED T

Throws == outcome' = "exception" /\ UNCHANGED <<T, content>>

\* The elements of v are others, but as many.
Disturbs(v) ==
  /\ outcome' = "exception" /\ UNCHANGED T
  /\ content'[v] \in Seq(Element) /\ Len(content'[v]) = Len(content[v])
  /\ content' = [content EXCEPT ![v] = content'[v]]

Construct(v, s) == ~Exists(v) /\ (Becomes(v, s) \/ (s # <<>> /\ Throws))

Destroy(v) == Exists(v) /\ Becomes(v, None)

\* Construction and assignment by move.
Move(v, w) ==
  /\ Exists(w)
  /\ content' = [content EXCEPT ![v] = content[w],
                                ![w] = IF Exists(v) THEN content[v] ELSE <<>>]
  /\ outcome' = "ok" /\ UNCHANGED T

Assign(v, w) ==
  /\ Exists(v) /\ Exists(w)
  /\ Becomes(v, content[w]) \/ Throws \/ Disturbs(v)

Resize(v, n) ==
  /\ Exists(v)
  /\ Becomes(v, [i \in 1 .. n |-> IF i <= Len(content[v]) THEN content[v][i] ELSE Default])
     \/ Throws \/ (~T.copyable /\ Disturbs(v))

Reserve(v) ==
  Exists(v) /\ (Becomes(v, content[v]) \/ Throws \/ (~T.copyable /\ Disturbs(v)))

PopBack(v) == Exists(v) /\ content[v] # <<>> /\ Becomes(v, Front(content[v]))

\* Only elements that may throw when they are moved, and only behind pos or
\* if they cannot be copied, are disturbed.
Emplace(v, pos, x) ==
  /\ Exists(v) /\ pos \in 1 .. Len(content[v]) + 1
  /\ x \in Value \cup ToSet(content[v])
  /\ \/ Becomes(v, InsertAt(content[v], pos, x)) \/ Throws
     \/ /\ T.move_may_throw \/ T.assign_may_throw
        /\ pos <= Len(content[v]) \/ ~T.copyable
        /\ Disturbs(v)

Erase(v, pos) ==
  /\ Exists(v) /\ pos \in DOMAIN content[v]
  /\ Becomes(v, RemoveAt(content[v], pos)) \/ (T.assign_may_throw /\ Disturbs(v))

Next ==
  \E v \in Vec :
    \/ \E n \in Size : Construct(v, [i \in 1 .. n |-> Default])
    \/ Destroy(v)
    \/ \E w \in Vec \ {v} :
         (Exists(w) /\ Construct(v, content[w])) \/ Move(v, w) \/ Assign(v, w)
    \/ (\E n \in Size : Resize(v, n)) \/ Reserve(v) \/ PopBack(v)
    \/ \E pos \in Size : Erase(v, pos) \/ \E x \in Element : Emplace(v, pos, x)

Spec == Init /\ [][Next]_vars
=============================================================================
