---------------------------- MODULE SearchEngine ----------------------------
(***************************************************************************)
(* The program around SearchServer (search_engine/): RequestQueue, which   *)
(* remembers the requests of a day, and RemoveDuplicates.  One step is one *)
(* call, and in RemoveDuplicates one turn of a loop.                       *)
(*                                                                         *)
(* A definition marked "Slip" is not the code: it is the definition after  *)
(* it with a mistake that the checks are shown to notice.                  *)
(***************************************************************************)
EXTENDS SearchServer

CONSTANTS
  sec_in_day_,  \* the requests remembered
  Requests      \* bound: the requests made

ASSUME RequestAssumption == sec_in_day_ \in Nat \ {0} /\ Requests \in Nat

VARIABLES
  requests_,     \* the number of results of each request remembered
  empty_count_,
  asked,         \* the same of every request, for the properties
  removing,      \* RemoveDuplicates runs
  unvisited,     \* the ids that its first loop has still to visit
  document_words_to_id,
  ids_to_remove, \* those that its second loop has still to visit
  before         \* for the properties: the words of the documents it was given

queueVars == <<requests_, empty_count_, asked>>
removeVars == <<removing, unvisited, document_words_to_id, ids_to_remove, before>>
engineVars == <<serverVars, outcome, queueVars, removeVars>>

EngineInit ==
  /\ ServerInit /\ requests_ = <<>> /\ empty_count_ = 0 /\ asked = <<>>
  /\ removing = FALSE /\ unvisited = {} /\ ids_to_remove = {}
  /\ document_words_to_id = Empty /\ before = Empty

\* A test is one or zero.
One(test) == IF test THEN 1 ELSE 0

\* Slip: the front is looked at when it has left.
AddRequestLooksLate(result_count) ==
  LET rest == IF Len(requests_) = sec_in_day_ THEN Tail(requests_) ELSE requests_
  IN  /\ requests_' = Append(rest, result_count)
      /\ empty_count_' = empty_count_ + One(result_count = 0)
           - One(rest # requests_ /\ rest # <<>> /\ rest[1] = 0)

AddRequest(result_count) ==
  LET full == Len(requests_) = sec_in_day_
  IN  /\ requests_' = Append(IF full THEN Tail(requests_) ELSE requests_, result_count)
      /\ empty_count_' = empty_count_ - One(full /\ Head(requests_) = 0) + One(result_count = 0)

\* The server is asked first: a request that throws is not remembered.  With a
\* comparator that is no order std::sort may give any order, or read beyond the
\* documents.
AddFindRequest(q, p) ==
  /\ Len(asked) < Requests
  /\ \/ IsBadQuery(q) /\ Throw /\ UNCHANGED queueVars
     \/ /\ ~IsBadQuery(q)
        /\ \E found \in FindTopDocuments(FindAllDocuments(q, p)) :
             AddRequest(Len(found)) /\ asked' = Append(asked, Len(found))
        /\ outcome' = "ok" /\ UNCHANGED serverVars
     \/ /\ ~IsBadQuery(q) /\ ~IsOrder(FindAllDocuments(q, p))
        /\ outcome' = "crash" /\ UNCHANGED <<serverVars, queueVars>>

WordsOf(id) == DOMAIN At(document_to_word_freqs_, id, Empty)

\* The call: document_ids_ gives the ids in ascending order.
RemoveDuplicates ==
  /\ removing' = TRUE /\ unvisited' = document_ids_
  /\ before' = [id \in document_ids_ |-> WordsOf(id)]
  /\ UNCHANGED <<serverVars, outcome, queueVars, document_words_to_id, ids_to_remove>>

\* Of two documents with these words, what stays in document_words_to_id and
\* what is removed.
Keep(document_words, kept, removed) ==
  /\ document_words_to_id' = With(document_words_to_id, document_words, kept)
  /\ ids_to_remove' = ids_to_remove \cup {removed}

\* Slip: the older of two documents is removed.
VisitTheOtherWay ==
  /\ removing /\ unvisited # {}
  /\ LET document_id == Min(unvisited)
         document_words == WordsOf(document_id)
     IN  /\ unvisited' = unvisited \ {document_id}
         /\ IF document_words \notin DOMAIN document_words_to_id
            THEN /\ document_words_to_id' = With(document_words_to_id, document_words, document_id)
                 /\ UNCHANGED ids_to_remove
            ELSE LET checked_id == document_words_to_id[document_words]
                     should_update_id == checked_id < document_id
                 IN  IF should_update_id THEN Keep(document_words, document_id, checked_id)
                     ELSE Keep(document_words, checked_id, document_id)
  /\ UNCHANGED <<serverVars, outcome, queueVars, removing, before>>

\* A turn of the first loop.
Visit ==
  /\ removing /\ unvisited # {}
  /\ LET document_id == Min(unvisited)
         document_words == WordsOf(document_id)
     IN  /\ unvisited' = unvisited \ {document_id}
         /\ IF document_words \notin DOMAIN document_words_to_id
            THEN /\ document_words_to_id' = With(document_words_to_id, document_words, document_id)
                 /\ UNCHANGED ids_to_remove
            ELSE LET checked_id == document_words_to_id[document_words]
                     should_update_id == checked_id > document_id
                 IN  IF should_update_id THEN Keep(document_words, document_id, checked_id)
                     ELSE Keep(document_words, checked_id, document_id)
  /\ UNCHANGED <<serverVars, outcome, queueVars, removing, before>>

\* A turn of the second.
RemoveNext ==
  /\ removing /\ unvisited = {} /\ ids_to_remove # {}
  /\ RemoveDocument(Min(ids_to_remove))
  /\ ids_to_remove' = ids_to_remove \ {Min(ids_to_remove)}
  /\ UNCHANGED <<queueVars, removing, unvisited, document_words_to_id, before>>

NoneIsLeft == removing /\ unvisited = {} /\ ids_to_remove = {}

EndOfRemoving ==
  /\ NoneIsLeft
  /\ removing' = FALSE /\ document_words_to_id' = Empty /\ before' = Empty
  /\ UNCHANGED <<serverVars, outcome, queueVars, unvisited, ids_to_remove>>

Running == outcome \notin {"crash", "terminate"}

EngineCall ==
  /\ ~removing
  /\ \/ /\ \/ \E id \in AnyId : RemoveDocument(id)
           \/ \E id \in AnyId, doc \in Submission : AddDocument(id, doc)
           \/ \E q \in Query, id \in AnyId : MatchDocument(q, id)
        /\ UNCHANGED <<queueVars, removeVars>>
     \/ (\E q \in Query, p \in Predicate : AddFindRequest(q, p)) /\ UNCHANGED removeVars
     \/ RemoveDuplicates

EngineNext == Running /\ (EngineCall \/ Visit \/ RemoveNext \/ EndOfRemoving)

EngineSpec == EngineInit /\ [][EngineNext]_engineVars

(***************************************************************************)
(* Properties.                                                             *)
(***************************************************************************)
\* GetNoResultRequests counts the requests of the last day without a result.
CountsTheLastDay ==
  LET day == {i \in DOMAIN asked : i > Len(asked) - sec_in_day_}
  IN  empty_count_ = Cardinality({i \in day : asked[i] = 0})

\* When RemoveDuplicates returns, no two documents have the same words but those
\* that have none; no set of words that a document had is gone; and a document
\* that is gone has left its words to one with a lower id.
NoDuplicates ==
  NoneIsLeft =>
    /\ document_ids_ \subseteq DOMAIN before
    /\ \A d \in document_ids_ : WordsOf(d) = before[d]
    /\ \A d, e \in document_ids_ : WordsOf(d) = WordsOf(e) /\ d # e => WordsOf(d) = {}
    /\ \A e \in DOMAIN before \ document_ids_ :
         \E d \in document_ids_ : d < e /\ WordsOf(d) = before[e]

\* A document that was added is there, and one that was removed is not, but for
\* the documents without words: and nothing else changes the documents.
ImplementsDocuments == Promised!Spec

\* A query that MatchDocument can take it can take for ever: removing documents
\* never makes it read an entry that is not there.
Known(q) == {q[i].word : i \in DOMAIN q} \subseteq StopWord \cup DOMAIN word_to_document_freqs_
MatchStaysPossible == [][\A q \in Query : Known(q) => Known(q)']_engineVars
=============================================================================
