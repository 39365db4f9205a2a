-------------------------- MODULE ContainerContents --------------------------
(***************************************************************************)
(* What the users of SimpleVector (helpers/simple_vector/simple_vector.h)  *)
(* and of SinglyLinkedList (singly_linked_list/singly_linked_list.h) may   *)
(* rely on: a container is a sequence, and a call that throws leaves it as *)
(* it was.  Only for the vector there are exceptions: a call that was      *)
(* handed an element of the vector it changes, and one that throws when it *)
(* moves or assigns an element.  That one may leave elements on other      *)
(* places or spoilt, and one more than there were.                         *)
(***************************************************************************)
EXTENDS Integers, Sequences, SequencesExt

CONSTANTS
  Container,  \* the names of the containers of a program
  Value,      \* the values of their elements
  Default,    \* Type()
  Length,     \* the lengths they are resized to
  Given,      \* the values they are constructed from
  Spoilt      \* what a call that throws may make of elements; if there is nothing,
              \* the container has none of the exceptions

VARIABLES
  content,  \* of each container
  outcome   \* of the last call: "ok", "own element" if it was given one, or how
            \* it failed

vars == <<content, outcome>>

Init == content \in [Container -> Given \cup {<<>>}] /\ outcome = "ok"

\* What a call on one container makes of s.
Inserts(s, t) ==
  Len(t) = Len(s) + 1 /\ \E i \in DOMAIN t : t[i] \in Value /\ RemoveAt(t, i) = s
Deletes(s, t) ==
  Len(s) = Len(t) + 1 /\ \E i \in DOMAIN s : t = RemoveAt(s, i)
Resizes(s, t) ==
  /\ Len(t) \in Length
  /\ \A i \in DOMAIN t : t[i] = IF i <= Len(s) THEN s[i] ELSE Default
Assigns(t) == \E d \in Container : t = content[d]

\* One element more, of which no one knows the value.
InsertsOwn(s, t) ==
  Len(t) = Len(s) + 1 /\ \E i \in DOMAIN t : RemoveAt(t, i) = s

\* Some elements stand elsewhere or are spoilt, and there may be one more.
Disturbs(s, t) ==
  Len(t) - Len(s) \in {0, 1} /\ ToSet(t) \subseteq ToSet(s) \cup Spoilt

Call(s, t) ==
  \/ outcome' = "ok" /\ (t \in {s, <<>>} \/ Inserts(s, t) \/ Deletes(s, t) \/ Resizes(s, t) \/ Assigns(t))
  \/ Spoilt # {} /\ outcome' = "own element" /\ InsertsOwn(s, t)
  \/ Spoilt # {} /\ outcome' = "exception" /\ Disturbs(s, t)

CallOn(c) ==
  /\ \A d \in Container \ {c} : content'[d] = content[d]
  /\ Call(content[c], content'[c])

\* Also construction and assignment by move, which empty their source.
Swap(c, d) ==
  outcome' = "ok" /\ content' = [content EXCEPT ![c] = content[d], ![d] = content[c]]
Take(c, d) ==
  outcome' = "ok" /\ content' = [content EXCEPT ![c] = content[d], ![d] = <<>>]

Fail == outcome' \notin {"ok", "own element"} /\ UNCHANGED content

Next ==
  \/ Fail
  \/ \E c \in Container : CallOn(c) \/ \E d \in Container : Swap(c, d) \/ Take(c, d)

Spec == Init /\ [][Next]_vars
=============================================================================
