-------------------------------- MODULE Maps --------------------------------
(***************************************************************************)
(* std::map, as a function whose domain is the keys that are there.        *)
(***************************************************************************)

Empty == [k \in {} |-> k]

\* The value at a key, which operator[] makes when it is not there.
At(map, key, default) == IF key \in DOMAIN map THEN map[key] ELSE default

With(map, key, value) ==
  [k \in DOMAIN map \cup {key} |-> IF k = key THEN value ELSE map[k]]

Erased(map, key) == [k \in DOMAIN map \ {key} |-> map[k]]

\* What source.merge(other) makes of the source, and what is left of the other.
Merged(map, other) ==
  [k \in DOMAIN map \cup DOMAIN other |-> IF k \in DOMAIN map THEN map[k] ELSE other[k]]
Remaining(map, other) == [k \in DOMAIN map \cap DOMAIN other |-> other[k]]
=============================================================================
