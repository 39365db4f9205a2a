--------------------------- MODULE MCSearchEngine ---------------------------
(***************************************************************************)
(* Three documents over two words and a stop word; logarithms of the       *)
(* fractions of at most three, as integers.  A behaviour is one of         *)
(* SearchEngine, or one of ParallelFind: three threads, and two buckets    *)
(* for three documents, two of which are in one bucket.                    *)
(***************************************************************************)
EXTENDS SearchEngine

CONSTANTS Cat, City, In, Control, ACTUAL, BANNED, t1, t2, t3

CONSTANTS Thread, Free, Key, bucket_count, Amount, Main, Corpora \* of ParallelFind

Doc(text, status, ratings) == [text |-> text, status |-> status, ratings |-> ratings]

\* Without words, with one, with one that is of another status, with two in
\* equal parts and not, and one that is refused.  The average of <<-2, 1, -2>> is
\* -1, and rounded.  The relevances of three documents differ by 405 and by 810,
\* which with an EPS of 500 is nothing and something: the one of the best rating
\* is before the second, the second before the third, and the third before it.
Submissions ==
  {Doc(<<In>>, ACTUAL, <<>>),
   Doc(<<Cat, In>>, ACTUAL, <<3, 4>>),
   Doc(<<Cat, Cat, Cat, City>>, ACTUAL, <<>>),
   Doc(<<Cat, City>>, ACTUAL, <<-2, 1, -2>>),
   Doc(<<City>>, BANNED, <<3, 4>>),
   Doc(<<Control>>, ACTUAL, <<>>)}

Plus(w) == [word |-> w, minus |-> FALSE]
Minus(w) == [word |-> w, minus |-> TRUE]
\* Ids with a negative one.
Ids == {-1, 1, 2, 3}

\* 1000 log(n / k)
MCLog(n, k) == CASE n = k -> 0 [] n = 2 -> 693 [] k = 1 -> 1099 [] OTHER -> 405

\* What is added to a relevance: a frequency of one of the documents below, times
\* a logarithm.
Amounts == {f * l : f \in {2, 4}, l \in {0, 405, 693, 1099}}

Both == Doc(<<Cat, City>>, ACTUAL, <<>>)
CatOnly(status) == Doc(<<Cat>>, status, <<>>)
Documents123 ==
  {<<Both, CatOnly(ACTUAL), Both>>, <<Doc(<<Cat, Cat>>, ACTUAL, <<>>), Both, CatOnly(BANNED)>>}
AskedInParallel ==
  {<<Plus(Cat), Plus(City)>>, <<Plus(Cat), Minus(City)>>, <<Plus(City), Minus(Cat), Minus(City)>>}

Queries ==
  AskedInParallel \cup
  {<<>>, <<Plus(Cat)>>, <<Plus(City), Plus(City), Plus(Cat)>>, <<Plus(City), Minus(Cat)>>,
   <<Plus(In), Minus(City)>>, <<Plus(Cat), Minus(Cat)>>, <<Plus(Control)>>}

Predicates == {"actual", "odd"}
MCAccepts(p, id, doc) == IF p = "actual" THEN doc.status = ACTUAL ELSE id % 2 = 1

(***************************************************************************)
(* The server of ParallelFind, which has its documents from the beginning, *)
(* is another than that of SearchEngine.                                   *)
(***************************************************************************)
VARIABLES
  find_words, find_documents, find_statuses, find_ids, find_outcome,
  map_v_, mutex_v_, pc, access, register, i, m, added, taken,
  query, comparator, phase, todo, doing, document_to_relevance

find_vars ==
  <<find_words, find_documents, find_statuses, find_ids, find_outcome,
    map_v_, mutex_v_, pc, access, register, i, m, added, taken,
    query, comparator, phase, todo, doing, document_to_relevance>>

Find == INSTANCE ParallelFind WITH
  word_to_document_freqs_ <- find_words, document_to_word_freqs_ <- find_documents,
  document_ratings_status_ <- find_statuses, document_ids_ <- find_ids, outcome <- find_outcome

ASSUME FindAssumptions == Find!MapAssumption /\ Find!FindAssumption

NoFind ==
  /\ find_words = Empty /\ find_documents = Empty /\ find_statuses = Empty
  /\ find_ids = {} /\ find_outcome = "ok" /\ Find!MapInit
  /\ query = <<>> /\ comparator = "actual" /\ phase = "none" /\ todo = {}
  /\ doing = [t \in Thread |-> Find!None] /\ document_to_relevance = Empty

EngineOrFindInit ==
  \/ EngineInit /\ NoFind
  \/ EngineInit /\ Find!Init /\ query \in AskedInParallel /\ comparator = "actual"
EngineOrFindNext ==
  \/ phase = "none" /\ EngineNext /\ UNCHANGED find_vars
  \/ phase # "none" /\ Find!Next /\ UNCHANGED engineVars
EngineOrFindSpec ==
  EngineOrFindInit /\ [][EngineOrFindNext]_<<engineVars, find_vars>> /\ Find!Fairness

\* ConcurrentMap: no addition is lost.
NoLostUpdate == Find!NoLostUpdate
\* ParallelFind: the threads find what one thread finds.
SameAsSequential == Find!SameAsSequential
\* ParallelFind: they come to an end.
Terminates == Find!Terminates
=============================================================================
