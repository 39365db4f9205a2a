---------------------------- MODULE MCContainers ----------------------------
(***************************************************************************)
(* The four containers of the repository.  They share nothing, so that a   *)
(* behaviour is about one of them and leaves the others as they are; two   *)
(* vectors, lists or optionals each, of every type of element.             *)
(***************************************************************************)
EXTENDS Vector, TLC

CONSTANTS
  List, Address,
  Simple, MaxSimpleSize,
  Optionals

VARIABLES
  kind,                                             \* which container it is about
  list_next, list_value, list_size, list_stray, list_outcome,  \* of SinglyLinkedList
  simple_vectors, simple_outcome,                   \* of SimpleVector
  optional_data, optional_initialized, optional_outcome        \* of Optional

list_state == <<list_next, list_value, list_size, list_stray, list_outcome>>
simple_state == <<simple_vectors, simple_outcome>>
optional_state == <<optional_data, optional_initialized, optional_outcome>>

L == INSTANCE SinglyLinkedList WITH
  null <- None, Free <- Raw, next_node <- list_next, value <- list_value, size <- list_size,
  stray <- list_stray, outcome <- list_outcome
S == INSTANCE SimpleVector WITH
  Vector <- Simple, MaxSize <- MaxSimpleSize, Given <- {<<>>, <<Default>>}, vectors <- simple_vectors,
  outcome <- simple_outcome
O == INSTANCE Optional WITH
  Name <- Optionals, data <- optional_data, is_initialized <- optional_initialized,
  outcome <- optional_outcome

ASSUME ContainersAssumption == L!ListAssumption /\ S!SimpleVectorAssumption /\ O!RawAssumption

containers_vars ==
  <<vars, kind, list_state, simple_state, optional_state>>

ContainersInit ==
  /\ kind \in {"Vector", "SinglyLinkedList", "SimpleVector", "Optional"}
  /\ Init /\ (kind # "Vector" => T = [copyable |-> TRUE, move_may_throw |-> TRUE, assign_may_throw |-> TRUE])
  /\ L!Init /\ O!Init
  /\ S!Init /\ (kind # "SimpleVector" => \A v \in Simple : simple_vectors[v].room = 0)

VectorCall ==
  /\ kind = "Vector" /\ Next
  /\ UNCHANGED <<kind, list_state, simple_state, optional_state>>
ListCall ==
  /\ kind = "SinglyLinkedList" /\ L!Next
  /\ UNCHANGED <<kind, vars, simple_state, optional_state>>
SimpleCall ==
  /\ kind = "SimpleVector" /\ S!Next
  /\ UNCHANGED <<kind, vars, list_state, optional_state>>
OptionalCall ==
  /\ kind = "Optional" /\ O!Next
  /\ UNCHANGED <<kind, vars, list_state, simple_state>>

ContainersSpec ==
  ContainersInit /\ [][VectorCall \/ ListCall \/ SimpleCall \/ OptionalCall]_containers_vars

ContainersSymmetry == Permutations(Vec) \cup Permutations(Simple)

(***************************************************************************)
(* The properties of the modules, for their instances.                     *)
(***************************************************************************)
\* SinglyLinkedList: the lists own their nodes, and no call loses one but an
\* insertion behind a position that is not of its list.
ListsOwnTheirNodes == L!OwnsItsNodes
\* SinglyLinkedList: a list is a sequence, with strong exception safety.
ListsAreSequences == L!ImplementsContents
\* SimpleVector: only what a failed move leaves makes a call write behind an array.
OnlyFailedMovesOverrun == S!OnlyFailedMovesOverrun
\* SimpleVector: only a full array, or a shorter one that is compared, is read behind.
OnlyFullArraysAreReadBehind == S!OnlyFullArraysAreReadBehind
\* SimpleVector: a vector is a sequence, with the exceptions of ContainerContents.
SimpleVectorsAreSequences == S!ImplementsContents
\* Optional: only an Emplace that throws makes is_initialized_ lie.
OnlyEmplaceLies == O!OnlyEmplaceLies
=============================================================================
