--------------------------- MODULE SearchDocuments ---------------------------
(***************************************************************************)
(* What the users of SearchServer may rely on: there are documents, each   *)
(* with its words, and queries are answered from them alone.               *)
(***************************************************************************)
EXTENDS Integers, FiniteSets, FiniteSetsExt

CONSTANTS
  AnyId, Status,
  Scale,           \* the frequencies of the words of a document add up to this
  Log(_, _),       \* log(n / m), for m > 0
  Accepts(_, _, _) \* what a predicate says of an id, a rating and a status

VARIABLES
  documents,  \* from ids to words with their frequencies, rating and status
  outcome

vars == <<documents, outcome>>

Init == documents = [id \in {} |-> id] /\ outcome = "ok"

Total(f) == FoldSet(LAMBDA w, sum : sum + f[w], 0, DOMAIN f)

\* A new document: its words are counted, and nothing else changes.
Add(id) ==
  /\ id \in Nat \ DOMAIN documents
  /\ DOMAIN documents' = DOMAIN documents \cup {id}
  /\ \A d \in DOMAIN documents : documents'[d] = documents[d]
  /\ LET words == documents'[id].words IN DOMAIN words # {} => Total(words) = Scale
  /\ documents'[id].status \in Status /\ documents'[id].rating \in Int
  /\ outcome' = "ok"

\* Documents leave; one that has no words stays.
Remove(ids) ==
  /\ documents' = [d \in DOMAIN documents \ {i \in ids : DOMAIN documents[i].words # {}} |->
                     documents[d]]
  /\ outcome' = "ok"

\* A call that fails, or that only asks.
Ask == UNCHANGED documents

Next ==
  \/ \E id \in AnyId : Add(id)
  \/ \E ids \in SUBSET DOMAIN documents : Remove(ids)
  \/ Ask

Spec == Init /\ [][Next]_vars

Has(id, w) == w \in DOMAIN documents[id].words

\* A word that few documents have says more.
Idf(w) ==
  Log(Cardinality(DOMAIN documents), Cardinality({id \in DOMAIN documents : Has(id, w)}))

\* The documents with a wanted word and no excluded one, and their relevance.
Answer(plus, minus, p) ==
  [id \in {d \in DOMAIN documents :
             /\ \E w \in plus : Has(d, w)
             /\ \A w \in minus : ~Has(d, w)
             /\ Accepts(p, d, [rating |-> documents[d].rating, status |-> documents[d].status])} |->
     FoldSet(LAMBDA w, sum : sum + documents[id].words[w] * Idf(w), 0, {w \in plus : Has(id, w)})]
==============================================================================
