-------------------------- MODULE SinglyLinkedList --------------------------
(***************************************************************************)
(* SinglyLinkedList (singly_linked_list/singly_linked_list.h): nodes on    *)
(* the heap, each with a pointer to the next one.  One step is one call on *)
(* a list of a program.  An iterator is what iter_ is: the address of a    *)
(* node, of the node in front of a list's first, or null.                  *)
(*                                                                         *)
(* A definition marked "Slip" is not the code: it is the definition after  *)
(* it with a mistake that the checks are shown to notice.                  *)
(***************************************************************************)
EXTENDS Integers, Sequences, FiniteSets, SequencesExt

CONSTANTS
  List,     \* the names of the lists of a program
  Value,    \* the values of Type
  Address,  \* where a node can be: operator new gives no more
  null,     \* nullptr
  Free      \* the memory of no node

\* Assumed of the constants.
ListAssumption ==
  /\ IsFiniteSet(Address) /\ List \cap Address = {} /\ null \notin List \cup Address
  /\ Free \notin Value

VARIABLES
  next_node,  \* of each list's head_ and of each node
  value,      \* of each node
  size,       \* size_ of each list
  stray,      \* bound to no code: the nodes inserted behind no element of the list
  outcome     \* of the last call

list_vars == <<next_node, value, size, stray, outcome>>

Init ==
  /\ next_node = [p \in List \cup Address |-> null]
  /\ value = [a \in Address |-> Free]
  /\ size = [l \in List |-> 0]
  /\ stray = {} /\ outcome = "ok"

Allocated == {a \in Address : value[a] # Free}
Unused == Address \ Allocated

\* The addresses that operator new may give for n nodes.
NewNodes(n) == {nodes \in [1 .. n -> Unused] : Cardinality(ToSet(nodes)) = n}

\* The nodes that a walk from the head meets: one too many if it goes round.
Nodes(l) ==
  LET walk[n \in 0 .. Cardinality(Address) + 1] ==
        [p \in Address \cup {null} |->
           IF p = null \/ n = 0 THEN <<>> ELSE <<p>> \o walk[n - 1][next_node[p]]]
  IN  walk[Cardinality(Address) + 1][next_node[l]]
Contents(l) == LET nodes == Nodes(l) IN [i \in DOMAIN nodes |-> value[nodes[i]]]

\* before_begin() and what ++ makes of it.  A search for pos goes through them.
Reachable(l) == {l} \cup ToSet(Nodes(l))

Done == outcome' = "ok"

\* new Node throws, at the allocation or at the copy of the value, before the
\* list is touched.
BadAlloc == outcome' = "exception" /\ UNCHANGED <<next_node, value, size, stray>>

PushFront(l, x) ==
  \/ \E a \in Unused :
       /\ next_node' = [next_node EXCEPT ![a] = next_node[l], ![l] = a]
       /\ value' = [value EXCEPT ![a] = x]
       /\ size' = [size EXCEPT ![l] = @ + 1]
       /\ Done /\ UNCHANGED stray
  \/ BadAlloc

\* Slip: the rest of the list is dropped.
InsertAfterTruncates(l, pos, x) ==
  \/ \E a \in Unused :
       /\ pos \in Reachable(l)
       /\ next_node' = [next_node EXCEPT ![a] = null, ![pos] = a]
       /\ value' = [value EXCEPT ![a] = x]
       /\ size' = [size EXCEPT ![l] = @ + 1]
       /\ Done /\ UNCHANGED stray
  \/ BadAlloc

\* The node is made before pos is looked for, and belongs to no list when it
\* is not found.
InsertAfter(l, pos, x) ==
  \/ \E a \in Unused :
       /\ value' = [value EXCEPT ![a] = x]
       /\ \/ /\ pos \in Reachable(l)
             /\ next_node' = [next_node EXCEPT ![a] = next_node[pos], ![pos] = a]
             /\ size' = [size EXCEPT ![l] = @ + 1]
             /\ UNCHANGED stray
          \/ /\ pos \notin Reachable(l)
             /\ next_node' = [next_node EXCEPT ![a] = null]
             /\ stray' = stray \cup {a} /\ UNCHANGED size
       /\ Done
  \/ BadAlloc

\* delete
Deleted(m, nodes) == [a \in Address |-> IF a \in nodes THEN Free ELSE m[a]]

\* The node behind p goes: its next_node is read first.
Unlink(l, p) ==
  LET a == next_node[p]
  IN  /\ next_node' = [next_node EXCEPT ![p] = next_node[a], ![a] = null]
      /\ value' = Deleted(value, {a})
      /\ size' = [size EXCEPT ![l] = @ - 1]
      /\ Done /\ UNCHANGED stray

Unchanged == Done /\ UNCHANGED <<next_node, value, size, stray>>

\* At the last node, whose next_node is dereferenced, it crashes.
EraseAfter(l, pos) ==
  \/ pos \in Reachable(l) /\ next_node[pos] # null /\ Unlink(l, pos)
  \/ /\ pos \in Reachable(l) /\ next_node[pos] = null
     /\ outcome' = "crash" /\ UNCHANGED <<next_node, value, size, stray>>
  \/ pos \notin Reachable(l) /\ Unchanged

PopFront(l) == IF next_node[l] # null THEN Unlink(l, l) ELSE Unchanged

Nulled(links, nodes) == [p \in DOMAIN links |-> IF p \in nodes THEN null ELSE links[p]]

\* Clear, and the destructor.
Clear(l) ==
  /\ next_node' = Nulled(next_node, Reachable(l))
  /\ value' = Deleted(value, ToSet(Nodes(l)))
  /\ size' = [size EXCEPT ![l] = @ - Len(Nodes(l))]
  /\ Done /\ UNCHANGED stray

Swap(l, m) ==
  /\ next_node' = [next_node EXCEPT ![l] = next_node[m], ![m] = next_node[l]]
  /\ size' = [size EXCEPT ![l] = size[m], ![m] = size[l]]
  /\ Done /\ UNCHANGED <<value, stray>>

\* The nodes that fill_temp_list makes for these values, in this order.
Chained(nodes, links) ==
  [p \in DOMAIN links |->
     IF p \in ToSet(nodes)
     THEN LET i == CHOOSE i \in DOMAIN nodes : nodes[i] = p
          IN  IF i = Len(nodes) THEN null ELSE nodes[i + 1]
     ELSE links[p]]

\* What the values of s are in nodes, and elsewhere as in m.
Stored(nodes, s, m) ==
  [a \in Address |->
     IF a \in ToSet(nodes) THEN s[CHOOSE i \in DOMAIN nodes : nodes[i] = a] ELSE m[a]]

\* Slip: the old nodes are not destroyed.
CopyAssignKeepsOld(l, m) ==
  LET s == Contents(m)
  IN  \E nodes \in NewNodes(Len(s)) :
        /\ l # m
        /\ next_node' = [Chained(nodes, next_node) EXCEPT
                           ![l] = IF s = <<>> THEN null ELSE nodes[1]]
        /\ value' = Stored(nodes, s, value)
        /\ size' = [size EXCEPT ![l] = Len(s)]
        /\ Done /\ UNCHANGED stray

\* The copy is made in a list of its own, which is swapped in and takes the old
\* nodes with it; when it throws it takes the new ones.  Also construction, by
\* copy and from values, of a list that is empty.
CopyAssign(l, m) ==
  LET s == Contents(m)
      old == ToSet(Nodes(l))
  IN  \/ l = m /\ Unchanged
      \/ l # m /\ \E nodes \in NewNodes(Len(s)) :
           /\ next_node' = [Chained(nodes, Nulled(next_node, old)) EXCEPT
                              ![l] = IF s = <<>> THEN null ELSE nodes[1]]
           /\ value' = Stored(nodes, s, Deleted(value, old))
           /\ size' = [size EXCEPT ![l] = Len(s)]
           /\ Done /\ UNCHANGED stray
      \/ l # m /\ s # <<>> /\ BadAlloc

Position == List \cup Allocated \cup {null}

Next ==
  /\ outcome # "crash"
  /\ \E l \in List :
       \/ \E x \in Value : PushFront(l, x)
       \/ \E pos \in Position : EraseAfter(l, pos) \/ \E x \in Value : InsertAfter(l, pos, x)
       \/ PopFront(l) \/ Clear(l)
       \/ \E m \in List : Swap(l, m) \/ CopyAssign(l, m)

Spec == Init /\ [][Next]_list_vars

(***************************************************************************)
(* Properties.                                                             *)
(***************************************************************************)
\* Every list is the chain that its size tells, no two have a node in common,
\* and a node that is in none was inserted behind no element of its list.
OwnsItsNodes ==
  /\ \A l \in List : Len(Nodes(l)) = size[l] /\ Cardinality(ToSet(Nodes(l))) = size[l]
  /\ \A l, m \in List : l # m => ToSet(Nodes(l)) \cap ToSet(Nodes(m)) = {}
  /\ Allocated = (UNION {ToSet(Nodes(l)) : l \in List}) \cup stray
  /\ \A l \in List : ToSet(Nodes(l)) \cap stray = {}

\* The README: "provides strong exception safety".  Lists behave as sequences,
\* and a call that throws changes none of them.
Promised == INSTANCE ContainerContents WITH
  content <- [l \in List |-> Contents(l)], Container <- List,
  Length <- {}, Given <- {}, Default <- null, Spoilt <- {}
ImplementsContents == Promised!Spec
=============================================================================
