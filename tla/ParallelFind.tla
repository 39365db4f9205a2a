---------------------------- MODULE ParallelFind ----------------------------
(***************************************************************************)
(* SearchServer::FindAllDocuments with the policy std::execution::par      *)
(* (search_engine/search_server.h): a pool of threads works through the    *)
(* words of the query and the documents of each word, and adds up the      *)
(* relevance of a document in a ConcurrentMap.  The server is const        *)
(* meanwhile.  The additions of doubles are taken to commute.              *)
(*                                                                         *)
(* A definition marked "Slip" is not the code: it is the definition after  *)
(* it with a mistake that the checks are shown to notice.                  *)
(***************************************************************************)
EXTENDS ConcurrentMap, SearchServer

CONSTANTS
  Main,    \* the thread that called
  Corpora  \* the documents, from ids, of a server that is asked

\* Assumed of the constants.
FindAssumption ==
  /\ Main \in Thread /\ Key = AnyId \cap Nat
  /\ \A docs \in Corpora :
       /\ IsFiniteSet(DOMAIN docs) /\ DOMAIN docs \subseteq Key
       /\ \A id \in DOMAIN docs : docs[id].text \in Seq(Word)
       /\ \A n \in 1 .. Cardinality(DOMAIN docs) : \A k \in 1 .. n : Log(n, k) \in Int

VARIABLES
  query, comparator,      \* the arguments
  phase,                  \* which algorithm runs
  todo,                   \* the calls of its function that no thread has begun
  doing,                  \* the call of each thread
  document_to_relevance

callVars == <<query, comparator>>
findVars == <<callVars, phase, todo, doing, document_to_relevance>>
vars == <<mapVars, serverVars, outcome, findVars>>

None == [word |-> BadWord, ids |-> {}]
KnownWords(words) == words \cap DOMAIN word_to_document_freqs_
IdsOf(w) == DOMAIN word_to_document_freqs_[w]

\* The server when documents have been added.
ServerOf(docs) ==
  LET words(id) == SplitIntoWordsNoStop(docs[id].text)
  IN  /\ document_to_word_freqs_ =
           [id \in {d \in DOMAIN docs : words(d) # <<>>} |->
              [w \in Elements(words(id)) |-> Freq(words(id), w)]]
      /\ word_to_document_freqs_ =
           [w \in UNION {Elements(words(id)) : id \in DOMAIN docs} |->
              [id \in {d \in DOMAIN docs : w \in Elements(words(d))} |-> Freq(words(id), w)]]
      /\ document_ratings_status_ =
           [id \in DOMAIN docs |->
              [rating |-> ComputeAverageRating(docs[id].ratings), status |-> docs[id].status]]
      /\ document_ids_ = DOMAIN docs
      /\ outcome = "ok"

\* The first algorithm, with the one in it: a call for each document of each
\* wanted word that is known.
Init ==
  /\ MapInit
  /\ \E docs \in Corpora : ServerOf(docs)
  /\ query \in {q \in Query : ~IsBadQuery(q)} /\ comparator \in Predicate
  /\ phase = "plus"
  /\ todo = UNION {{[word |-> w, ids |-> {id}] : id \in IdsOf(w)} : w \in KnownWords(PlusWords(query))}
  /\ doing = [t \in Thread |-> None]
  /\ document_to_relevance = Empty

Idle(t) == pc[t] = "idle" /\ doing[t] = None
Finish(t) == doing' = [doing EXCEPT ![t] = None]

\* A thread of the pool begins a call.
Take(t) ==
  /\ phase \in {"plus", "minus"} /\ Idle(t)
  /\ \E call \in todo : todo' = todo \ {call} /\ doing' = [doing EXCEPT ![t] = call]
  /\ UNCHANGED <<mapVars, callVars, phase, document_to_relevance>>

(***************************************************************************)
(* The calls for the wanted words.                                         *)
(***************************************************************************)
InCall(t) == phase = "plus" /\ doing[t] # None
DocumentOf(t) == CHOOSE id \in doing[t].ids : TRUE
ShouldAdd(t) == Accepts(comparator, DocumentOf(t), document_ratings_status_[DocumentOf(t)])
Relevance(t) ==
  word_to_document_freqs_[doing[t].word][DocumentOf(t)] * ComputeWordInverseDocumentFreq(doing[t].word)

PassOver(t) ==
  /\ InCall(t) /\ pc[t] = "idle" /\ ~ShouldAdd(t) /\ Finish(t)
  /\ UNCHANGED <<mapVars, callVars, phase, todo, document_to_relevance>>

\* concurr_map[document_id].ref_to_value += term_freq * inverse_document_freq
Add(t) ==
  /\ InCall(t)
  /\ \/ ShouldAdd(t) /\ Lock(t, DocumentOf(t))
     \/ Refer(t)
     \/ Load(t)
     \/ Store(t, Relevance(t))
  /\ UNCHANGED findVars

EndAdd(t) ==
  /\ InCall(t) /\ pc[t] = "stored" /\ Unlock(t) /\ Finish(t)
  /\ UNCHANGED <<callVars, phase, todo, document_to_relevance>>

(***************************************************************************)
(* Between the algorithms only the caller runs.                            *)
(***************************************************************************)
AllCalled == todo = {} /\ \A t \in Thread : Idle(t)

\* Slip: the caller does not wait for the calls that are not finished.
EndOfPlusTooEarly ==
  /\ phase = "plus" /\ todo = {} /\ Idle(Main) /\ phase' = "build" /\ Build(Main)
  /\ UNCHANGED <<callVars, todo, doing, document_to_relevance>>

EndOfPlus ==
  /\ phase = "plus" /\ AllCalled /\ phase' = "build" /\ Build(Main)
  /\ UNCHANGED <<callVars, todo, doing, document_to_relevance>>

BuildMap ==
  /\ phase = "build" /\ (BuildLock(Main) \/ Merge(Main) \/ BuildUnlock(Main))
  /\ UNCHANGED findVars

\* The map is returned, and the second algorithm has a call for each excluded
\* word.
EndOfBuild ==
  /\ phase = "build" /\ Return(Main) /\ phase' = "minus"
  /\ document_to_relevance' = m[Main]
  /\ todo' = {[word |-> w, ids |-> IdsOf(w)] : w \in KnownWords(MinusWords(query))}
  /\ UNCHANGED <<callVars, doing>>

\* Under the mutex the next document of the word is erased.
EraseDocument(t) ==
  /\ phase = "minus" /\ doing[t].ids # {}
  /\ document_to_relevance' = Erased(document_to_relevance, Min(doing[t].ids))
  /\ doing' = [doing EXCEPT ![t].ids = @ \ {Min(@)}]
  /\ UNCHANGED <<mapVars, callVars, phase, todo>>

EndErase(t) ==
  /\ phase = "minus" /\ doing[t] # None /\ doing[t].ids = {} /\ Finish(t)
  /\ UNCHANGED <<mapVars, callVars, phase, todo, document_to_relevance>>

EndOfMinus ==
  /\ phase = "minus" /\ AllCalled /\ phase' = "done"
  /\ UNCHANGED <<mapVars, callVars, todo, doing, document_to_relevance>>

Call(t) == PassOver(t) \/ Add(t) \/ EndAdd(t) \/ EraseDocument(t) \/ EndErase(t)
Caller == EndOfPlus \/ BuildMap \/ EndOfBuild \/ EndOfMinus

Next ==
  /\ Caller \/ (\E t \in Thread : Take(t) \/ Call(t))
  /\ UNCHANGED <<serverVars, outcome>>

\* The caller takes part in its algorithms, whatever the pool has for it, and
\* a thread that has begun a call goes on.
Fairness ==
  /\ WF_vars(Next /\ (Caller \/ Take(Main)))
  /\ \A t \in Thread : WF_vars(Next /\ Call(t))

Spec == Init /\ [][Next]_vars /\ Fairness

(***************************************************************************)
(* Properties.                                                             *)
(***************************************************************************)
\* With all interleavings of the threads the result is the one of a single
\* thread: no part of a relevance is lost, and no excluded document stays.
SameAsSequential ==
  phase = "done" => document_to_relevance = FindAllDocuments(query, comparator)

\* The threads never all wait for a mutex.
Terminates == (phase = "plus") ~> (phase = "done")
=============================================================================
