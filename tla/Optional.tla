------------------------------ MODULE Optional ------------------------------
(***************************************************************************)
(* Optional (helpers/optional/optional.h): an object of T in data_, of     *)
(* which is_initialized_ says whether it is there.  T may throw when it is *)
(* constructed and when it is assigned.                                    *)
(*                                                                         *)
(* A definition marked "Slip" is not the code: it is the definition after  *)
(* it with a mistake that the checks are shown to notice.                  *)
(***************************************************************************)
CONSTANTS
  Name,   \* the optionals of a program
  Value,  \* the values of T
  Raw     \* data_ without an object

\* Assumed of the constants.
RawAssumption == Raw \notin Value

VARIABLES
  data,            \* data_ of each: a value or Raw
  is_initialized,  \* is_initialized_
  outcome          \* of the last call: "ok", "emplace threw", "exception", or
                   \* "no object" if it used or destroyed the object in raw memory

optional_vars == <<data, is_initialized, outcome>>

Init ==
  /\ data = [o \in Name |-> Raw]
  /\ is_initialized = [o \in Name |-> FALSE] /\ outcome = "ok"

HasValue(o) == is_initialized[o]
Holds(o) == data[o] # Raw

Becomes(o, x, flag) ==
  /\ data' = [data EXCEPT ![o] = x]
  /\ is_initialized' = [is_initialized EXCEPT ![o] = flag]
  /\ outcome' = "ok"

Fails(how) == outcome' = how /\ UNCHANGED <<data, is_initialized>>

\* The old object is destroyed and the mark is set before the constructor runs.
Emplace(o, x) ==
  \/ HasValue(o) /\ ~Holds(o) /\ Fails("no object")
  \/ /\ HasValue(o) => Holds(o)
     /\ \/ Becomes(o, x, TRUE)
        \/ /\ data' = [data EXCEPT ![o] = Raw]
           /\ is_initialized' = [is_initialized EXCEPT ![o] = TRUE]
           /\ outcome' = "emplace threw"

\* Slip: the mark is set first here, too.
AssignMarksFirst(o, x) ==
  \/ HasValue(o) /\ ~Holds(o) /\ Fails("no object")
  \/ HasValue(o) /\ Holds(o) /\ (Becomes(o, x, TRUE) \/ Fails("exception"))
  \/ /\ ~HasValue(o)
     /\ \/ Becomes(o, x, TRUE)
        \/ /\ is_initialized' = [is_initialized EXCEPT ![o] = TRUE]
           /\ outcome' = "exception" /\ UNCHANGED data

\* From a T, by copy or by move; also construction.
Assign(o, x) ==
  \/ HasValue(o) /\ ~Holds(o) /\ Fails("no object")
  \/ (HasValue(o) => Holds(o)) /\ (Becomes(o, x, TRUE) \/ Fails("exception"))

\* Also the destructor.
Reset(o) ==
  \/ HasValue(o) /\ ~Holds(o) /\ Fails("no object")
  \/ HasValue(o) /\ Holds(o) /\ Becomes(o, Raw, FALSE)
  \/ ~HasValue(o) /\ Becomes(o, data[o], FALSE)

AssignOptional(o, rhs) ==
  \/ HasValue(rhs) /\ ~Holds(rhs) /\ Fails("no object")
  \/ HasValue(rhs) /\ Holds(rhs) /\ Assign(o, data[rhs])
  \/ ~HasValue(rhs) /\ Reset(o)

\* BadOptionalAccess
UseValue(o) ==
  Fails(IF ~HasValue(o) THEN "exception" ELSE IF Holds(o) THEN "ok" ELSE "no object")

Next ==
  /\ outcome # "no object"
  /\ \E o \in Name :
       \/ \E x \in Value : Emplace(o, x) \/ Assign(o, x)
       \/ Reset(o) \/ UseValue(o)
       \/ \E rhs \in Name : AssignOptional(o, rhs)

Spec == Init /\ [][Next]_optional_vars

(***************************************************************************)
(* Properties.                                                             *)
(***************************************************************************)
\* The mark tells the truth until an Emplace throws, whatever else throws, and
\* no call uses or destroys an object that is not there before that.
Truthful == \A o \in Name : HasValue(o) <=> Holds(o)
OnlyEmplaceLies ==
  [][Truthful => (Truthful' /\ outcome' # "no object") \/ outcome' = "emplace threw"]_optional_vars
=============================================================================
