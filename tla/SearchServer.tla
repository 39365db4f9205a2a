---------------------------- MODULE SearchServer ----------------------------
(***************************************************************************)
(* SearchServer (search_engine/search_server.cpp and .h): documents, the   *)
(* index from words to documents and the one from documents to words, and  *)
(* the queries that are answered from them.                                *)
(*                                                                         *)
(* A text is a sequence of words.  A word of a query may be negated:       *)
(* [word |-> w, minus |-> TRUE].  BadWord stands for the words that are    *)
(* refused: those with control characters, and in a query a lone or a      *)
(* double minus sign.                                                      *)
(*                                                                         *)
(* A definition marked "Slip" is not the code: it is the definition after  *)
(* it with a mistake that the checks are shown to notice.                  *)
(***************************************************************************)
EXTENDS Integers, Sequences, FiniteSets, FiniteSetsExt, Maps

CONSTANTS
  Word, BadWord,
  StopWord,             \* stop_words_
  Submission,           \* the documents a caller adds: text, status, ratings
  Query,                \* the queries a caller asks
  Predicate,            \* the predicates a caller filters with
  Accepts(_, _, _),     \* what one says of an id, a rating and a status
  Status,               \* DocumentStatus
  AnyId,                \* the ids a caller gives
  Scale,                \* 1.0: a multiple of the lengths of all documents
  Log(_, _),            \* log(n / m), for m > 0
  EPS,
  MAX_RESULT_DOCUMENT_COUNT

ASSUME SearchServerAssumption ==
  /\ BadWord \notin Word /\ StopWord \subseteq Word
  /\ Submission \subseteq [text : Seq(Word \cup {BadWord}), status : Status, ratings : Seq(Int)]
  /\ Query \subseteq Seq([word : Word \cup {BadWord}, minus : BOOLEAN])
  /\ AnyId \subseteq Int
  /\ {Scale, EPS, MAX_RESULT_DOCUMENT_COUNT} \subseteq Nat \ {0}

VARIABLES
  word_to_document_freqs_,   \* from words to ids to frequencies
  document_to_word_freqs_,   \* from ids to words to frequencies
  document_ratings_status_,  \* from ids to ratings and statuses
  document_ids_,
  outcome                    \* how the last call ended

serverVars ==
  <<word_to_document_freqs_, document_to_word_freqs_, document_ratings_status_, document_ids_>>

ServerInit ==
  /\ word_to_document_freqs_ = Empty /\ document_to_word_freqs_ = Empty
  /\ document_ratings_status_ = Empty /\ document_ids_ = {}
  /\ outcome = "ok"

Throw == outcome' = "exception" /\ UNCHANGED serverVars

Elements(s) == {s[i] : i \in DOMAIN s}
IsStopWord(w) == w \in StopWord

\* The words that count: SplitIntoWordsNoStopAndValid.
SplitIntoWordsNoStop(text) ==
  LET words[i \in 0 .. Len(text)] ==
        IF i = 0 THEN <<>>
        ELSE IF IsStopWord(text[i]) THEN words[i - 1] ELSE Append(words[i - 1], text[i])
  IN  words[Len(text)]

\* What Scale is for: the words of a document have whole parts of it.
ASSUME ScaleAssumption ==
  \A doc \in Submission :
    LET n == Len(SplitIntoWordsNoStop(doc.text)) IN n > 0 => Scale % n = 0

\* inv_word_count, as often as the word is there.
Freq(words, w) == Cardinality({i \in DOMAIN words : words[i] = w}) * (Scale \div Len(words))

\* A division of ints, which truncates.
ComputeAverageRating(ratings) ==
  IF ratings = <<>> THEN 0
  ELSE LET sum == FoldSet(LAMBDA i, s : s + ratings[i], 0, DOMAIN ratings)
       IN  IF sum < 0 THEN -((-sum) \div Len(ratings)) ELSE sum \div Len(ratings)

(***************************************************************************)
(* Adding and removing.                                                    *)
(***************************************************************************)
\* The loop over the words, and the two lines after it.
Enter(id, words, doc) ==
  /\ word_to_document_freqs_' =
       [w \in DOMAIN word_to_document_freqs_ \cup Elements(words) |->
          LET old == At(word_to_document_freqs_, w, Empty)
          IN  IF w \in Elements(words) THEN With(old, id, At(old, id, 0) + Freq(words, w)) ELSE old]
  /\ document_to_word_freqs_' =
       IF words = <<>> THEN document_to_word_freqs_
       ELSE LET old == At(document_to_word_freqs_, id, Empty)
            IN  With(document_to_word_freqs_, id,
                     [w \in DOMAIN old \cup Elements(words) |-> At(old, w, 0) + Freq(words, w)])
  /\ document_ratings_status_' =
       With(document_ratings_status_, id,
            [rating |-> ComputeAverageRating(doc.ratings), status |-> doc.status])
  /\ document_ids_' = document_ids_ \cup {id}
  /\ outcome' = "ok"

\* Slip: an id that is taken is not refused.
AddDocumentAgain(id, doc) ==
  IF id < 0 \/ BadWord \in Elements(doc.text) THEN Throw
  ELSE Enter(id, SplitIntoWordsNoStop(doc.text), doc)

AddDocument(id, doc) ==
  IF id < 0 \/ id \in DOMAIN document_ratings_status_ \/ BadWord \in Elements(doc.text) THEN Throw
  ELSE Enter(id, SplitIntoWordsNoStop(doc.text), doc)

\* Slip: a word is forgotten with its last document.
WordsWithoutEmpty(w2d, id, words) ==
  [w \in {v \in DOMAIN w2d : v \notin words \/ DOMAIN w2d[v] # {id}} |->
     IF w \in words THEN Erased(w2d[w], id) ELSE w2d[w]]

\* The index from words without a document.  A word stays known when it loses
\* its last document.
WordsWithout(w2d, id, words) ==
  [w \in DOMAIN w2d |-> IF w \in words THEN Erased(w2d[w], id) ELSE w2d[w]]

\* Slip: the index from words keeps the document.
RemoveFromOneIndex(id) ==
  /\ document_to_word_freqs_' = Erased(document_to_word_freqs_, id)
  /\ document_ratings_status_' = Erased(document_ratings_status_, id)
  /\ document_ids_' = document_ids_ \ {id}
  /\ UNCHANGED word_to_document_freqs_

\* A document that has no words is not in document_to_word_freqs_: the call
\* returns before it removes anything.
Remove(id) ==
  IF id \notin DOMAIN document_to_word_freqs_ THEN UNCHANGED serverVars
  ELSE /\ word_to_document_freqs_' =
            WordsWithout(word_to_document_freqs_, id, DOMAIN document_to_word_freqs_[id])
       /\ document_to_word_freqs_' = Erased(document_to_word_freqs_, id)
       /\ document_ratings_status_' = Erased(document_ratings_status_, id)
       /\ document_ids_' = document_ids_ \ {id}

RemoveDocument(id) == Remove(id) /\ outcome' = "ok"

(***************************************************************************)
(* Queries.                                                                *)
(***************************************************************************)
IsBadQuery(q) == \E i \in DOMAIN q : q[i].word = BadWord
PlusWords(q) == {q[i].word : i \in {j \in DOMAIN q : ~q[j].minus}} \ StopWord
MinusWords(q) == {q[i].word : i \in {j \in DOMAIN q : q[j].minus}} \ StopWord

\* The documents of those of the words that are known.
DocumentsOf(words) ==
  UNION {DOMAIN word_to_document_freqs_[w] : w \in words \cap DOMAIN word_to_document_freqs_}

\* Slip: the documents are counted that have a word at all.
InverseDocumentFreqOfIndexed(w) ==
  Log(Cardinality(DOMAIN document_to_word_freqs_), Cardinality(DOMAIN word_to_document_freqs_[w]))

ComputeWordInverseDocumentFreq(w) ==
  Log(Cardinality(DOMAIN document_ratings_status_), Cardinality(DOMAIN word_to_document_freqs_[w]))

\* The relevance of every document that is found.
FindAllDocuments(q, p) ==
  [id \in {d \in DocumentsOf(PlusWords(q)) \ DocumentsOf(MinusWords(q)) :
             Accepts(p, d, document_ratings_status_[d])} |->
     FoldSet(LAMBDA w, sum : sum + word_to_document_freqs_[w][id] * ComputeWordInverseDocumentFreq(w), 0,
             {w \in PlusWords(q) \cap DOMAIN word_to_document_freqs_ :
                id \in DOMAIN word_to_document_freqs_[w]})]

\* The order of FindTopDocuments: by relevance, or if there is no difference by
\* rating.
Precedes(relevance, d, e) ==
  IF relevance[d] - relevance[e] \in 1 - EPS .. EPS - 1
  THEN document_ratings_status_[d].rating > document_ratings_status_[e].rating
  ELSE relevance[d] > relevance[e]

\* Precedes orders these documents: where it does not, "no difference" goes from
\* one document to the next, but not from the first to the last of them.
\* (Precedes(d, e) and Precedes(e, d) are never both true.)
IsOrder(relevance) ==
  \A d, e, f \in DOMAIN relevance :
    Precedes(relevance, d, f) => Precedes(relevance, d, e) \/ Precedes(relevance, e, f)

\* The documents in every order.
Arranged(relevance) ==
  {s \in [1 .. Cardinality(DOMAIN relevance) -> DOMAIN relevance] : Elements(s) = DOMAIN relevance}

\* What it may return: std::sort leaves the order of equals open, and with a
\* comparator that is no order that of all of them.
FindTopDocuments(relevance) ==
  LET n == Cardinality(DOMAIN relevance)
      sorted == {s \in Arranged(relevance) :
                   IsOrder(relevance) =>
                     \A i, j \in 1 .. n : i < j => ~Precedes(relevance, s[j], s[i])}
  IN  {SubSeq(s, 1, Min({n, MAX_RESULT_DOCUMENT_COUNT})) : s \in sorted}

\* MatchDocument reads the entry of each wanted word without asking whether it
\* is known ("crash" stands for whatever this does), and at() throws at an
\* excluded word that is not known, unless a word before it has decided; out
\* of an algorithm with a policy, and each has one, an exception ends the
\* program.
MatchDocument(q, id) ==
  LET unknown == MinusWords(q) \ DOMAIN word_to_document_freqs_
  IN  \/ IsBadQuery(q) /\ Throw
      \/ /\ ~IsBadQuery(q)
         /\ ~(PlusWords(q) \subseteq DOMAIN word_to_document_freqs_)
         /\ outcome' = "crash" /\ UNCHANGED serverVars
      \/ /\ ~IsBadQuery(q)
         /\ PlusWords(q) \subseteq DOMAIN word_to_document_freqs_
         /\ \/ unknown # {} /\ outcome' = "terminate" /\ UNCHANGED serverVars
            \/ /\ unknown = {} \/ id \in DocumentsOf(MinusWords(q))
               /\ outcome' = IF id \in DOMAIN document_ratings_status_ THEN "ok" ELSE "exception"
               /\ UNCHANGED serverVars

(***************************************************************************)
(* Properties of the server.                                               *)
(***************************************************************************)

\* The two indexes say the same, and of no document that is not there: every
\* at() of RemoveDocument and of the queries finds its key, and no frequency
\* of a removed document is added to those of a later one with its id.
IndexesAgree ==
  /\ \A w \in DOMAIN word_to_document_freqs_ : \A id \in DOMAIN word_to_document_freqs_[w] :
       /\ id \in DOMAIN document_to_word_freqs_
       /\ w \in DOMAIN document_to_word_freqs_[id]
       /\ word_to_document_freqs_[w][id] = document_to_word_freqs_[id][w]
  /\ \A id \in DOMAIN document_to_word_freqs_ : \A w \in DOMAIN document_to_word_freqs_[id] :
       w \in DOMAIN word_to_document_freqs_ /\ id \in DOMAIN word_to_document_freqs_[w]
  /\ DOMAIN document_to_word_freqs_ \subseteq document_ids_
  /\ DOMAIN document_ratings_status_ = document_ids_

\* What a caller knows: for each document its words, its rating and status.
Documents ==
  [id \in DOMAIN document_ratings_status_ |->
     [words  |-> At(document_to_word_freqs_, id, Empty),
      rating |-> document_ratings_status_[id].rating,
      status |-> document_ratings_status_[id].status]]
Promised == INSTANCE SearchDocuments WITH documents <- Documents

\* Queries are answered from the documents that are there: whatever was added
\* and removed before, the index from words gives each the relevance that the
\* documents themselves give it.
AnswersFromDocuments ==
  \A q \in Query, p \in Predicate :
    ~IsBadQuery(q) => FindAllDocuments(q, p) = Promised!Answer(PlusWords(q), MinusWords(q), p)

\* A query is answered, with as many documents as there are places for, and no
\* document that is left out has a better claim than one that is returned, if
\* the comparator orders those that were found (relevances that differ by less
\* than EPS and by more may be found together: then it does not).
TopIsBest ==
  \A q \in Query, p \in Predicate : ~IsBadQuery(q) =>
    LET found == FindAllDocuments(q, p)
    IN  \A s \in FindTopDocuments(found) :
          /\ Len(s) = Min({Cardinality(DOMAIN found), MAX_RESULT_DOCUMENT_COUNT})
          /\ IsOrder(found) =>
               \A d \in DOMAIN found \ Elements(s) : \A i \in DOMAIN s : ~Precedes(found, d, s[i])

\* Both: a query gets the best answers that the documents give.
AnswersAreTheBest == AnswersFromDocuments /\ TopIsBest
=============================================================================
