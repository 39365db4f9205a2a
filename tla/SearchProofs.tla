---------------------------- MODULE SearchProofs ----------------------------
(***************************************************************************)
(* Proofs about SearchEngine, for any documents, stop words, queries and   *)
(* predicates and a day of any length.  IndexesAgree is inductive: of a    *)
(* document that is added neither index has an entry, and the entries that *)
(* are erased from one index are those of the other.  MatchStaysPossible   *)
(* follows from words staying in the index when their documents leave      *)
(* it.  CountsTheLastDay needs to know what requests_ holds: the end of all*)
(* that was asked, as long as a day (QueueInv).  NoDuplicates needs to     *)
(* know what the loops of RemoveDuplicates have come to (RemovingInv), and *)
(* that ids are natural numbers, so that there is always a least one to    *)
(* visit.  AnswersAreTheBest needs the documents to be finitely many, and  *)
(* to be what AddDocument keeps (DocumentsAreKept): then the index from    *)
(* words adds up, over the words of a query, what the documents themselves *)
(* do.  The refinement of SearchDocuments needs, as well, that a document  *)
(* which the index knows has words (WordsAreKept).                         *)
(*                                                                         *)
(* Where the library has an induction with an operator as a parameter the  *)
(* proofs take a least counterexample.                                     *)
(*                                                                         *)
(* The second half is about ConcurrentMap and ParallelFind.                *)
(***************************************************************************)
EXTENDS SearchEngine, ParallelFind, FiniteSetTheorems, WellFoundedInduction, TLAPS

(***************************************************************************)
(* The operators of SearchServer: what a sum over a finite set is, that    *)
(* the words of a text are a sequence and their frequencies add up to one, *)
(* and that an average rating is an integer.                               *)
(***************************************************************************)
LEMMA LeastOfNaturals ==
  ASSUME NEW S, S \subseteq Nat, S # {}
  PROVE  \E u \in S : \A d \in S : u <= d
<1> DEFINE R == OpToRel(<, Nat)
<1>1. IsWellFoundedOn(R, Nat)
  BY NatLessThanWellFounded
<1>2. \A d, u \in Nat : d < u => <<d, u>> \in R
  BY DEF OpToRel
<1> HIDE DEF R
<1>3. PICK u \in S : \A d \in S : ~(<<d, u>> \in R)
  BY <1>1, WFMin
<1>4. \A d \in S : ~(d < u)
  BY <1>2, <1>3
<1> QED
  BY <1>4

(***************************************************************************)
(* Sums.  FoldSet adds up with a recursive function on the subsets of its  *)
(* set, each of which loses the element that CHOOSE gives.                 *)
(***************************************************************************)
Chosen(s) == CHOOSE x \in s : TRUE

\* The equation of the function that FoldSet adds up with.
AddsUp(S, a, g) ==
  g = [s \in SUBSET S |-> IF s = {} THEN 0 ELSE g[s \ {Chosen(s)}] + a[Chosen(s)]]

LEMMA SumsExist ==
  ASSUME NEW S, IsFiniteSet(S), NEW a \in [S -> Int]
  PROVE  \E g \in [SUBSET S -> Int] : AddsUp(S, a, g)
<1> DEFINE Term(g, s) == IF s = {} THEN 0 ELSE g[s \ {Chosen(s)}] + a[Chosen(s)]
           Upto(n, g) == \A s \in SUBSET S : Cardinality(s) <= n => g[s] = Term(g, s)
           Bad == {n \in Nat : ~\E g \in [SUBSET S -> Int] : Upto(n, g)}
<1>0. \A s \in SUBSET S : s # {} => /\ Chosen(s) \in s /\ s \ {Chosen(s)} \in SUBSET S
                                   /\ Cardinality(s) \in Nat
                                   /\ Cardinality(s \ {Chosen(s)}) = Cardinality(s) - 1
  <2> SUFFICES ASSUME NEW s \in SUBSET S, s # {}
               PROVE  Chosen(s) \in s /\ Cardinality(s) \in Nat
                      /\ Cardinality(s \ {Chosen(s)}) = Cardinality(s) - 1
    OBVIOUS
  <2>1. Chosen(s) \in s
    BY DEF Chosen
  <2> QED BY <2>1, FS_Subset, FS_RemoveElement, FS_CardinalityType
<1>1. 0 \notin Bad
  <2> DEFINE z == [s \in SUBSET S |-> 0]
  <2>1. \A s \in SUBSET S : Cardinality(s) <= 0 => s = {}
    BY <1>0, FS_Subset, FS_CardinalityType, FS_EmptySet
  <2>2. Upto(0, z) /\ z \in [SUBSET S -> Int]
    BY <2>1
  <2> QED BY <2>2
<1>2. ASSUME NEW n \in Nat, n \notin Bad PROVE n + 1 \notin Bad
  <2>1. PICK g \in [SUBSET S -> Int] : Upto(n, g)
    BY <1>2
  <2> DEFINE h == [s \in SUBSET S |-> Term(g, s)]
  <2>2. h \in [SUBSET S -> Int]
    <3>1. ASSUME NEW s \in SUBSET S PROVE Term(g, s) \in Int
      <4>1. CASE s # {}
        <5> DEFINE r == s \ {Chosen(s)}
        <5>1. r \in SUBSET S /\ Chosen(s) \in S
          BY <1>0, <4>1
        <5>2. g[r] \in Int /\ a[Chosen(s)] \in Int
          BY <5>1
        <5> QED BY <4>1, <5>2
      <4> QED BY <4>1
    <3> HIDE DEF Term
    <3> QED BY <3>1
  <2>3. ASSUME NEW s \in SUBSET S, Cardinality(s) <= n + 1 PROVE h[s] = Term(h, s)
    <3>1. CASE s = {}
      BY <3>1
    <3>2. CASE s # {}
      <4> DEFINE r == s \ {Chosen(s)}
      <4>1. r \in SUBSET S /\ Cardinality(r) <= n
        BY <1>0, <2>3, <3>2
      <4>2. g[r] = h[r]
        BY <2>1, <4>1
      <4> HIDE DEF r
      <4> QED BY <3>2, <4>1, <4>2 DEF r
    <3> QED BY <3>1, <3>2
  <2>4. Upto(n + 1, h)
    BY <2>3
  <2> HIDE DEF h, Upto
  <2> QED BY <2>2, <2>4
<1>3. Bad = {}
  <2> SUFFICES ASSUME Bad # {} PROVE FALSE
    OBVIOUS
  <2>0. Bad \subseteq Nat
    OBVIOUS
  <2> HIDE DEF Bad
  <2>1. PICK u \in Bad : \A d \in Bad : u <= d
    BY <2>0, LeastOfNaturals
  <2>2. u \in Nat /\ u # 0 /\ u - 1 \in Nat
    BY <1>1, <2>0
  <2>3. u - 1 \notin Bad
    BY <2>1, <2>2
  <2>4. (u - 1) + 1 \notin Bad
    BY <1>2, <2>2, <2>3
  <2> QED BY <2>2, <2>4
<1>4. Cardinality(S) \in Nat /\ \A s \in SUBSET S : Cardinality(s) <= Cardinality(S)
  BY FS_Subset, FS_CardinalityType
<1>5. PICK g \in [SUBSET S -> Int] : Upto(Cardinality(S), g)
  BY <1>3, <1>4
<1>6. g = [s \in SUBSET S |-> Term(g, s)]
  BY <1>4, <1>5
<1> QED BY <1>6 DEF AddsUp

LEMMA SumsAreUnique ==
  ASSUME NEW S, IsFiniteSet(S), NEW a, NEW g, NEW h, AddsUp(S, a, g), AddsUp(S, a, h)
  PROVE  g = h
<1> DEFINE R == StrictSubsetOrdering(S) Bad == {s \in FiniteSubsetsOf(S) : g[s] # h[s]}
<1>1. FiniteSubsetsOf(S) = SUBSET S
  BY FS_Subset DEF FiniteSubsetsOf
<1>2. Bad = {}
  <2> SUFFICES ASSUME Bad # {} PROVE FALSE
    OBVIOUS
  <2>1. PICK u \in Bad : \A d \in Bad : ~(<<d, u>> \in R)
    BY FS_StrictSubsetOrderingWellFounded, WFMin
  <2>2. u \in SUBSET S /\ g[u] # h[u]
    BY <1>1
  <2>3. u # {}
    BY <2>2 DEF AddsUp
  <2> DEFINE r == u \ {Chosen(u)}
  <2>4. r \in SUBSET S /\ r \subseteq u /\ r # u
    BY <2>2, <2>3 DEF Chosen
  <2>5. <<r, u>> \in R
    BY <2>2, <2>4, <1>1, FS_Subset DEF StrictSubsetOrdering, FiniteSubsetsOf
  <2>6. g[r] = h[r]
    BY <2>1, <2>4, <2>5, <1>1
  <2> QED BY <2>2, <2>3, <2>6 DEF AddsUp
<1>3. \A s \in SUBSET S : g[s] = h[s]
  BY <1>1, <1>2
<1>4. /\ g = [s \in SUBSET S |-> g[s]]
      /\ h = [s \in SUBSET S |-> h[s]]
  BY DEF AddsUp
<1> QED BY <1>3, <1>4

\* FoldSet finds that function.
LEMMA FoldSetAddsUp ==
  ASSUME NEW S, IsFiniteSet(S), NEW a, NEW g, AddsUp(S, a, g)
  PROVE  /\ FoldSet(LAMBDA w, sum : sum + a[w], 0, S) = g[S]
         /\ Promised!FoldSet(LAMBDA w, sum : sum + a[w], 0, S) = g[S]
<1> DEFINE Unfolds(h) == [s \in SUBSET S |-> IF s = {} THEN 0 ELSE h[s \ {CHOOSE x \in s : TRUE}] + a[CHOOSE x \in s : TRUE]]
<1>1. /\ FoldSet(LAMBDA w, sum : sum + a[w], 0, S) = (CHOOSE h : h = Unfolds(h))[S]
      /\ Promised!FoldSet(LAMBDA w, sum : sum + a[w], 0, S) = (CHOOSE h : h = Unfolds(h))[S]
  BY DEF FoldSet, MapThenFoldSet, Promised!FoldSet, Promised!MapThenFoldSet
<1>2. \A h : AddsUp(S, a, h) <=> h = Unfolds(h)
  BY DEF AddsUp, Chosen
<1> HIDE DEF Unfolds
<1> DEFINE f == CHOOSE h : h = Unfolds(h)
<1>3. f = Unfolds(f)
  BY <1>2
<1> HIDE DEF f
<1>4. f = g
  BY <1>2, <1>3, SumsAreUnique
<1> QED BY <1>1, <1>4 DEF f

\* Nothing depends on the order: any element may be taken away.
LosesAny(S, a, g) == \A T \in SUBSET S : \A x \in T : g[T] = g[T \ {x}] + a[x]

LEMMA SumsLoseAnyElement ==
  ASSUME NEW S, NEW a, NEW g, IsFiniteSet(S), AddsUp(S, a, g),
         a \in [S -> Int], g \in [SUBSET S -> Int]
  PROVE  LosesAny(S, a, g)
<1> DEFINE R == StrictSubsetOrdering(S)
           Bad == {s \in FiniteSubsetsOf(S) : \E y \in s : g[s] # g[s \ {y}] + a[y]}
<1>1. FiniteSubsetsOf(S) = SUBSET S
  BY FS_Subset DEF FiniteSubsetsOf
<1>2. \A s \in SUBSET S : s # {} => /\ g[s] = g[s \ {Chosen(s)}] + a[Chosen(s)] /\ Chosen(s) \in s
  BY DEF AddsUp, Chosen
<1>3. Bad = {}
  <2> SUFFICES ASSUME Bad # {} PROVE FALSE
    OBVIOUS
  <2>1. PICK s \in Bad : \A d \in Bad : ~(<<d, s>> \in R)
    <3>1. Bad \subseteq FiniteSubsetsOf(S) /\ IsWellFoundedOn(R, FiniteSubsetsOf(S))
      BY FS_StrictSubsetOrderingWellFounded
    <3> HIDE DEF Bad, R
    <3> QED BY <3>1, WFMin
  <2>2. PICK y \in s : g[s] # g[s \ {y}] + a[y]
    OBVIOUS
  <2>3. s \in SUBSET S /\ s # {}
    BY <1>1, <2>2
  <2>4. ASSUME NEW r \in SUBSET s, r # s, NEW z \in r PROVE g[r] = g[r \ {z}] + a[z]
    <3>1. r \in FiniteSubsetsOf(S) /\ s \in FiniteSubsetsOf(S)
      BY <1>1, <2>3, <2>4
    <3>2. <<r, s>> \in R
      BY <2>4, <3>1 DEF StrictSubsetOrdering, FiniteSubsetsOf
    <3>3. r \notin Bad
      BY <2>1, <3>2
    <3> QED BY <3>1, <3>3
  <2> DEFINE c == Chosen(s)
  <2>5. g[s] = g[s \ {c}] + a[c] /\ c \in s
    BY <1>2, <2>3
  <2>6. c # y
    BY <2>2, <2>5
  <2> HIDE DEF c, Bad
  <2> DEFINE r == (s \ {c}) \ {y}
  <2>7. g[s \ {c}] = g[r] + a[y]
    BY <2>4, <2>5, <2>6
  <2>8. g[s \ {y}] = g[r] + a[c]
    <3>1. r = (s \ {y}) \ {c}
      OBVIOUS
    <3>2. g[s \ {y}] = g[(s \ {y}) \ {c}] + a[c]
      BY <2>4, <2>5, <2>6
    <3> QED BY <3>1, <3>2
  <2>9. g[r] \in Int /\ a[c] \in Int /\ a[y] \in Int
    BY <2>3, <2>5
  <2> HIDE DEF r
  <2> QED BY <2>2, <2>5, <2>7, <2>8, <2>9
<1> QED BY <1>1, <1>3 DEF LosesAny

Grows(S, a, g) == \A T \in SUBSET S : \A x \in S \ T : g[T \cup {x}] = g[T] + a[x]

LEMMA SumsGrow ==
  ASSUME NEW S, IsFiniteSet(S), NEW a \in [S -> Int]
  PROVE  \E g \in [SUBSET S -> Int] : AddsUp(S, a, g) /\ Grows(S, a, g)
<1>1. PICK g \in [SUBSET S -> Int] : AddsUp(S, a, g)
  BY SumsExist
<1>2. ASSUME NEW T \in SUBSET S, NEW x \in S \ T PROVE g[T \cup {x}] = g[T] + a[x]
  <2> DEFINE U == T \cup {x}
  <2>1. U \in SUBSET S /\ x \in U /\ U \ {x} = T
    BY <1>2
  <2> HIDE DEF U
  <2>2. LosesAny(S, a, g)
    BY <1>1, SumsLoseAnyElement
  <2>3. g[U] = g[U \ {x}] + a[x]
    BY <2>1, <2>2 DEF LosesAny
  <2> QED BY <2>1, <2>3 DEF U
<1>3. Grows(S, a, g)
  BY <1>2 DEF Grows
<1> QED BY <1>1, <1>3

\* The terms of the relevance of a document, added up over some words.
SumByIndex(id, S) ==
  FoldSet(LAMBDA w, sum : sum + word_to_document_freqs_[w][id] * ComputeWordInverseDocumentFreq(w), 0, S)
Term(id, w) == word_to_document_freqs_[w][id] * ComputeWordInverseDocumentFreq(w)

LEMMA SumByIndexAddsUp ==
  ASSUME NEW id, NEW S, IsFiniteSet(S), NEW a, \A w \in S : Term(id, w) = a[w],
         NEW g, AddsUp(S, a, g), NEW T \in SUBSET S
  PROVE  SumByIndex(id, T) = g[T]
<1> DEFINE A(w) == word_to_document_freqs_[w][id] * ComputeWordInverseDocumentFreq(w)
           first(s) == CHOOSE x \in s : TRUE
           Unfolds(h) == [s \in SUBSET T |-> IF s = {} THEN 0 ELSE h[s \ {first(s)}] + A(first(s))]
           f == CHOOSE h : h = Unfolds(h)
           part == [s \in SUBSET T |-> g[s]]
<1>1. SumByIndex(id, T) = f[T]
  BY DEF SumByIndex, FoldSet, MapThenFoldSet
<1>2. \A w \in T : A(w) = a[w]
  BY DEF Term
<1> HIDE DEF A
<1>3. \A h : h = Unfolds(h) <=> AddsUp(T, a, h)
  <2>1. \A h : Unfolds(h) = [s \in SUBSET T |-> IF s = {} THEN 0 ELSE h[s \ {Chosen(s)}] + a[Chosen(s)]]
    BY <1>2 DEF Chosen
  <2> HIDE DEF Unfolds
  <2> QED BY <2>1 DEF AddsUp
<1>4. AddsUp(T, a, part)
  <2>1. \A s \in SUBSET T : g[s] = IF s = {} THEN 0 ELSE g[s \ {Chosen(s)}] + a[Chosen(s)]
    BY DEF AddsUp
  <2> QED BY <2>1 DEF AddsUp
<1> HIDE DEF Unfolds
<1>5. AddsUp(T, a, f)
  BY <1>3, <1>4
<1> HIDE DEF f
<1>6. IsFiniteSet(T)
  BY FS_Subset
<1>7. f = part
  <2> HIDE DEF part
  <2> QED BY <1>4, <1>5, <1>6, SumsAreUnique
<1> QED BY <1>1, <1>7

LEMMA SumByIndexGrows ==
  ASSUME NEW id, NEW S, IsFiniteSet(S), \A w \in S : Term(id, w) \in Int
  PROVE  /\ SumByIndex(id, {}) = 0
         /\ \A T \in SUBSET S : SumByIndex(id, T) \in Int
         /\ \A T \in SUBSET S : \A x \in S \ T :
               SumByIndex(id, T \cup {x}) = SumByIndex(id, T) + Term(id, x)
<1> DEFINE a == [w \in S |-> Term(id, w)]
<1>1. a \in [S -> Int] /\ \A w \in S : Term(id, w) = a[w]
  OBVIOUS
<1> HIDE DEF a
<1>2. PICK g \in [SUBSET S -> Int] :
        AddsUp(S, a, g) /\ Grows(S, a, g)
  BY <1>1, SumsGrow
<1>3. \A T \in SUBSET S : SumByIndex(id, T) = g[T]
  BY <1>1, <1>2, SumByIndexAddsUp
<1>4. g[{}] = 0
  BY <1>2 DEF AddsUp
<1>5. \A T \in SUBSET S : \A x \in S \ T : T \cup {x} \in SUBSET S
  OBVIOUS
<1> QED BY <1>1, <1>2, <1>3, <1>4, <1>5 DEF Grows

(***************************************************************************)
(* Texts and ratings.                                                      *)
(***************************************************************************)
\* The words that count of a text are a sequence: the recursion over the text is
\* defined at every length.
LEMMA WordsAreASequence ==
  ASSUME NEW S, NEW text \in Seq(S)
  PROVE  SplitIntoWordsNoStop(text) \in Seq(S)
<1> DEFINE n == Len(text)
           Next1(f, l) == IF IsStopWord(text[l]) THEN f[l - 1] ELSE Append(f[l - 1], text[l])
           Unfolds(f) == [l \in 0 .. n |-> IF l = 0 THEN <<>> ELSE Next1(f, l)]
           Upto(u, f) == \A l \in 0 .. n : l <= u => f[l] = Unfolds(f)[l]
           Bad == {u \in Nat : ~\E f \in [0 .. n -> Seq(S)] : Upto(u, f)}
<1>0. n \in Nat /\ <<>> \in Seq(S)
  OBVIOUS
<1>1. ASSUME NEW f \in [0 .. n -> Seq(S)] PROVE Unfolds(f) \in [0 .. n -> Seq(S)]
  <2>1. ASSUME NEW l \in 0 .. n, l # 0 PROVE Next1(f, l) \in Seq(S)
    <3>1. l \in 1 .. n /\ l - 1 \in 0 .. n
      BY <1>0, <2>1
    <3>2. text[l] \in S /\ f[l - 1] \in Seq(S)
      BY <3>1
    <3> QED BY <3>2
  <2> HIDE DEF n, Next1
  <2> QED BY <1>0, <2>1
<1>2. 0 \notin Bad
  <2> DEFINE z == [l \in 0 .. n |-> <<>>]
  <2>1. Upto(0, z) /\ z \in [0 .. n -> Seq(S)]
    BY <1>0
  <2> HIDE DEF z, Upto
  <2> QED BY <2>1
<1>3. ASSUME NEW u \in Nat, u \notin Bad PROVE u + 1 \notin Bad
  <2>1. PICK f \in [0 .. n -> Seq(S)] : Upto(u, f)
    BY <1>3
  <2>2. ASSUME NEW l \in 0 .. n, l <= u + 1 PROVE Unfolds(f)[l] = Unfolds(Unfolds(f))[l]
    <3>1. CASE l # 0
      <4>1. l - 1 \in 0 .. n /\ l - 1 <= u
        BY <1>0, <2>2, <3>1
      <4>2. f[l - 1] = Unfolds(f)[l - 1]
        BY <2>1, <4>1
      <4> DEFINE g == Unfolds(f)
      <4> HIDE DEF g
      <4>3. Next1(f, l) = Next1(g, l)
        BY <4>2 DEF g
      <4>4. Unfolds(f)[l] = Next1(f, l) /\ Unfolds(g)[l] = Next1(g, l)
        BY <3>1
      <4> QED BY <4>3, <4>4 DEF g
    <3> QED BY <3>1
  <2>3. Upto(u + 1, Unfolds(f)) /\ Unfolds(f) \in [0 .. n -> Seq(S)]
    BY <1>1, <2>2
  <2> HIDE DEF Unfolds, Upto
  <2> QED BY <2>3
<1>4. Bad = {}
  <2> SUFFICES ASSUME Bad # {} PROVE FALSE
    OBVIOUS
  <2>1. Bad \subseteq Nat
    OBVIOUS
  <2> HIDE DEF Bad
  <2>2. PICK u \in Bad : \A d \in Bad : u <= d
    BY <2>1, LeastOfNaturals
  <2>3. u \in Nat /\ u # 0 /\ u - 1 \in Nat
    BY <1>2, <2>1
  <2>4. u - 1 \notin Bad
    BY <2>2, <2>3
  <2>5. (u - 1) + 1 \notin Bad
    BY <1>3, <2>3, <2>4
  <2> QED BY <2>3, <2>5
<1>5. PICK f \in [0 .. n -> Seq(S)] : Upto(n, f)
  BY <1>0, <1>4
<1>6. f = Unfolds(f)
  BY <1>0, <1>5
<1> DEFINE h == CHOOSE g : g = Unfolds(g)
<1>7. SplitIntoWordsNoStop(text) = h[n]
  BY DEF SplitIntoWordsNoStop
<1>8. h = Unfolds(h)
  BY <1>6
<1> HIDE DEF h
<1> DEFINE Other == {l \in Nat : l <= n /\ h[l] # f[l]}
<1>9. Other = {}
  <2> SUFFICES ASSUME Other # {} PROVE FALSE
    OBVIOUS
  <2>1. PICK u \in Other : \A d \in Other : u <= d
    BY LeastOfNaturals
  <2>2. u \in 0 .. n /\ h[u] = Unfolds(h)[u] /\ f[u] = Unfolds(f)[u] /\ h[u] # f[u]
    <3>1. u \in 0 .. n /\ h[u] # f[u]
      BY <1>0
    <3>2. h[u] = Unfolds(h)[u] /\ f[u] = Unfolds(f)[u]
      BY <1>6, <1>8
    <3> QED BY <3>1, <3>2
  <2>3. u # 0
    BY <2>2
  <2>4. u - 1 \in Nat /\ u - 1 <= n /\ u - 1 \notin Other
    BY <1>0, <2>1, <2>2, <2>3
  <2>5. h[u - 1] = f[u - 1]
    BY <2>4
  <2>6. Next1(h, u) = Next1(f, u)
    BY <2>5
  <2> QED BY <2>2, <2>3, <2>6
<1> QED BY <1>0, <1>7, <1>9

\* The frequencies of the words of a document add up to one.
LEMMA FrequenciesAddUp ==
  ASSUME NEW T, NEW words \in Seq(T), words # <<>>, Scale % Len(words) = 0
  PROVE  Promised!Total([w \in Elements(words) |-> 0 + Freq(words, w)]) = Scale
<1> DEFINE E == Elements(words)
           n == Len(words)
           k == Scale \div n
           At2(s) == {l \in 1 .. n : words[l] \in s}
           f == [w \in E |-> 0 + Freq(words, w)]
           g == [s \in SUBSET E |-> Cardinality(At2(s)) * k]
<1>1. n \in Nat /\ n > 0 /\ DOMAIN words = 1 .. n /\ Scale \in Nat /\ k \in Int /\ n * k = Scale
  <2>1. n \in Nat /\ n > 0 /\ DOMAIN words = 1 .. n /\ Scale \in Nat
    BY SearchServerAssumption
  <2> HIDE DEF n
  <2> QED BY <2>1, SMTT(20) DEF n
<1>2. IsFiniteSet(1 .. n) /\ Cardinality(1 .. n) = n
  <2> HIDE DEF n
  <2> QED BY <1>1, FS_Interval
<1>3. ASSUME NEW s PROVE IsFiniteSet(At2(s)) /\ Cardinality(At2(s)) \in Nat
  BY <1>2, FS_Subset, FS_CardinalityType
<1>4. IsFiniteSet(E)
  <2>1. words \in Surjection(1 .. n, E)
    BY <1>1 DEF Elements, Surjection
  <2> QED BY <1>2, <2>1, FS_Surjection
<1>5. \A w \in E : f[w] = Cardinality(At2({w})) * k
  <2>1. \A w : Freq(words, w) = Cardinality(At2({w})) * k
    <3>1. \A w : {l \in DOMAIN words : words[l] = w} = At2({w})
      BY <1>1
    <3> QED BY <3>1 DEF Freq
  <2>2. \A w : Cardinality(At2({w})) \in Nat
    BY <1>3
  <2>3. \A w \in E : f[w] = 0 + Freq(words, w)
    OBVIOUS
  <2>4. \A c \in Nat : c * k \in Int
    BY <1>1
  <2>5. \A w : Freq(words, w) \in Int
    <3> HIDE DEF At2, k
    <3> QED BY <2>1, <2>2, <2>4
  <2> HIDE DEF At2, k, f
  <2>6. \A w \in E : f[w] = Freq(words, w)
    BY <2>3, <2>5
  <2> QED BY <2>1, <2>6
<1>6. ASSUME NEW s \in SUBSET E, s # {}
      PROVE  g[s] = g[s \ {Chosen(s)}] + f[Chosen(s)]
  <2> DEFINE x == Chosen(s) r == s \ {x}
  <2>1. x \in s /\ x \in E
    BY <1>6 DEF Chosen
  <2> HIDE DEF x
  <2>2. At2(s) = At2(r) \cup At2({x}) /\ At2(r) \cap At2({x}) = {}
    BY <2>1
  <2>3. /\ Cardinality(At2(s)) = Cardinality(At2(r)) + Cardinality(At2({x}))
        /\ Cardinality(At2(r)) \in Nat /\ Cardinality(At2({x})) \in Nat
    <3>1. /\ IsFiniteSet(At2(r)) /\ IsFiniteSet(At2({x}))
          /\ Cardinality(At2(r)) \in Nat /\ Cardinality(At2({x})) \in Nat
      BY <1>3
    <3> HIDE DEF At2
    <3>2. Cardinality(At2(s)) = Cardinality(At2(r)) + Cardinality(At2({x})) - Cardinality({})
      BY <2>2, <3>1, FS_Union
    <3> QED BY <3>1, <3>2, FS_EmptySet
  <2>4. g[s] = Cardinality(At2(s)) * k /\ g[r] = Cardinality(At2(r)) * k
    BY <2>1
  <2>5. f[x] = Cardinality(At2({x})) * k
    BY <1>5, <2>1
  <2> DEFINE a == Cardinality(At2(r)) b == Cardinality(At2({x}))
  <2>6. (a + b) * k = a * k + b * k
    <3> HIDE DEF a, b, k
    <3> QED BY <1>1, <2>3 DEF a, b
  <2> HIDE DEF At2, g, f, k
  <2> QED BY <2>3, <2>4, <2>5, <2>6 DEF x
<1>7. g[{}] = 0
  <2>1. At2({}) = {}
    OBVIOUS
  <2>2. g[{}] = 0 * k
    BY <2>1, FS_EmptySet
  <2> HIDE DEF g, k
  <2> QED BY <1>1, <2>2
<1>8. AddsUp(E, f, g)
  <2>1. \A s \in SUBSET E : g[s] = IF s = {} THEN 0 ELSE g[s \ {Chosen(s)}] + f[Chosen(s)]
    BY <1>6, <1>7
  <2>2. g = [s \in SUBSET E |-> g[s]]
    OBVIOUS
  <2> HIDE DEF g, f, E
  <2> QED BY <2>1, <2>2 DEF AddsUp
<1>9. Promised!Total(f) = g[E]
  <2>1. DOMAIN f = E
    OBVIOUS
  <2> HIDE DEF f, g, E
  <2> QED BY <1>4, <1>8, <2>1, FoldSetAddsUp DEF Promised!Total
<1>10. g[E] = Scale
  <2>1. At2(E) = 1 .. n
    BY <1>1 DEF Elements
  <2> QED BY <1>1, <1>2, <2>1
<1> QED BY <1>9, <1>10

LEMMA AverageIsANumber ==
  ASSUME NEW ratings \in Seq(Int)
  PROVE  ComputeAverageRating(ratings) \in Int
<1> DEFINE S == DOMAIN ratings
           total == FoldSet(LAMBDA w, sum : sum + ratings[w], 0, S)
<1>1. IsFiniteSet(S) /\ ratings \in [S -> Int]
  BY FS_Interval
<1>2. PICK g \in [SUBSET S -> Int] : AddsUp(S, ratings, g)
  BY <1>1, SumsExist
<1>3. total = g[S]
  BY <1>1, <1>2, FoldSetAddsUp
<1>4. total \in Int
  BY <1>2, <1>3
<1>5. ComputeAverageRating(ratings) =
        IF ratings = <<>> THEN 0
        ELSE IF total < 0 THEN -((-total) \div Len(ratings)) ELSE total \div Len(ratings)
  BY DEF ComputeAverageRating
<1>6. ratings # <<>> => Len(ratings) \in Nat /\ Len(ratings) > 0
  OBVIOUS
<1> HIDE DEF total
<1> QED BY <1>4, <1>5, <1>6

LEMMA InitIndexesAgree == EngineInit => IndexesAgree
BY DEF EngineInit, ServerInit, IndexesAgree, Empty

\* AddDocument: a new id is in neither index, so that += starts from zero in
\* both.
LEMMA EnterKeeps ==
  ASSUME IndexesAgree, NEW id, id \notin DOMAIN document_ratings_status_,
         NEW words, NEW doc, Enter(id, words, doc)
  PROVE  IndexesAgree'
<1> DEFINE w2d == word_to_document_freqs_ d2w == document_to_word_freqs_ E == Elements(words)
<1>1. id \notin document_ids_ /\ id \notin DOMAIN d2w /\ \A w \in DOMAIN w2d : id \notin DOMAIN w2d[w]
  BY DEF IndexesAgree
<1>2. words = <<>> => E = {}
  BY DEF Elements
<1>3. /\ DOMAIN w2d' = DOMAIN w2d \cup E
      /\ \A w \in DOMAIN w2d \ E : w2d'[w] = w2d[w]
      /\ \A w \in E : w2d'[w] = With(At(w2d, w, Empty), id, 0 + Freq(words, w))
  BY <1>1 DEF Enter, At, Empty
<1>4. \A w \in E : /\ id \notin DOMAIN At(w2d, w, Empty)
                   /\ \A e \in DOMAIN At(w2d, w, Empty) : w \in DOMAIN w2d /\ e \in DOMAIN w2d[w]
                   /\ w \in DOMAIN w2d => At(w2d, w, Empty) = w2d[w]
  BY <1>1 DEF At, Empty
<1>5. words # <<>> => /\ DOMAIN d2w' = DOMAIN d2w \cup {id}
                      /\ \A e \in DOMAIN d2w : d2w'[e] = d2w[e]
                      /\ DOMAIN d2w'[id] = E
                      /\ \A w \in E : d2w'[id][w] = 0 + Freq(words, w)
  <2> SUFFICES ASSUME words # <<>>
               PROVE  /\ DOMAIN d2w' = DOMAIN d2w \cup {id}
                      /\ \A e \in DOMAIN d2w : d2w'[e] = d2w[e]
                      /\ DOMAIN d2w'[id] = E
                      /\ \A w \in E : d2w'[id][w] = 0 + Freq(words, w)
    OBVIOUS
  <2>1. d2w' = With(d2w, id, [w \in DOMAIN Empty \cup E |-> At(Empty, w, 0) + Freq(words, w)])
    BY <1>1 DEF Enter, At
  <2>2. DOMAIN Empty = {} /\ \A w : At(Empty, w, 0) = 0
    BY DEF At, Empty
  <2> DEFINE entry == [w \in DOMAIN Empty \cup E |-> At(Empty, w, 0) + Freq(words, w)]
  <2>3. DOMAIN entry = E /\ \A w \in E : entry[w] = 0 + Freq(words, w)
    BY <2>2
  <2> HIDE DEF entry
  <2>4. d2w' = With(d2w, id, entry)
    BY <2>1 DEF entry
  <2>5. /\ DOMAIN d2w' = DOMAIN d2w \cup {id} /\ d2w'[id] = entry
        /\ \A e \in DOMAIN d2w : e # id => d2w'[e] = d2w[e]
    BY <2>4 DEF With
  <2> QED
    BY <1>1, <2>3, <2>5
<1>6. words = <<>> => d2w' = d2w
  BY DEF Enter
<1>7. document_ids_' = document_ids_ \cup {id}
      /\ DOMAIN document_ratings_status_' = DOMAIN document_ratings_status_ \cup {id}
  BY DEF Enter, With
<1> HIDE DEF w2d, d2w, E
<1>8. \A w \in E : /\ DOMAIN w2d'[w] = DOMAIN At(w2d, w, Empty) \cup {id}
                   /\ w2d'[w][id] = 0 + Freq(words, w)
                   /\ \A e \in DOMAIN At(w2d, w, Empty) : w2d'[w][e] = w2d[w][e]
  <2> SUFFICES ASSUME NEW w \in E
               PROVE  /\ DOMAIN w2d'[w] = DOMAIN At(w2d, w, Empty) \cup {id}
                      /\ w2d'[w][id] = 0 + Freq(words, w)
                      /\ \A e \in DOMAIN At(w2d, w, Empty) : w2d'[w][e] = w2d[w][e]
    OBVIOUS
  <2> DEFINE old == At(w2d, w, Empty) v == 0 + Freq(words, w)
  <2>1. w2d'[w] = With(old, id, v)
    BY <1>3
  <2>2. id \notin DOMAIN old /\ \A e \in DOMAIN old : old[e] = w2d[w][e]
    BY <1>4
  <2> HIDE DEF old, v
  <2>3. DOMAIN w2d'[w] = DOMAIN old \cup {id} /\ w2d'[w][id] = v
        /\ \A e \in DOMAIN old : e # id => w2d'[w][e] = old[e]
    BY <2>1 DEF With
  <2> QED
    BY <2>2, <2>3 DEF old, v
<1>9. \A w \in DOMAIN w2d' : \A e \in DOMAIN w2d'[w] :
        /\ e \in DOMAIN d2w' /\ w \in DOMAIN d2w'[e] /\ w2d'[w][e] = d2w'[e][w]
  <2> SUFFICES ASSUME NEW w \in DOMAIN w2d', NEW e \in DOMAIN w2d'[w]
               PROVE  e \in DOMAIN d2w' /\ w \in DOMAIN d2w'[e] /\ w2d'[w][e] = d2w'[e][w]
    OBVIOUS
  <2>1. CASE w \in E /\ e = id
    BY <2>1, <1>2, <1>5, <1>8
  <2>2. CASE w \in E /\ e # id
    <3>1. w \in DOMAIN w2d /\ e \in DOMAIN w2d[w] /\ w2d'[w][e] = w2d[w][e]
      BY <2>2, <1>4, <1>8
    <3> QED
      BY <3>1, <1>1, <1>5, <1>6 DEF IndexesAgree, w2d, d2w
  <2>3. CASE w \notin E
    <3>1. w \in DOMAIN w2d /\ w2d'[w] = w2d[w]
      BY <2>3, <1>3
    <3> QED
      BY <3>1, <1>1, <1>5, <1>6 DEF IndexesAgree, w2d, d2w
  <2> QED
    BY <2>1, <2>2, <2>3
<1>10. \A e \in DOMAIN d2w' : \A w \in DOMAIN d2w'[e] : w \in DOMAIN w2d' /\ e \in DOMAIN w2d'[w]
  <2> SUFFICES ASSUME NEW e \in DOMAIN d2w', NEW w \in DOMAIN d2w'[e]
               PROVE  w \in DOMAIN w2d' /\ e \in DOMAIN w2d'[w]
    OBVIOUS
  <2>1. CASE e = id
    BY <2>1, <1>1, <1>3, <1>5, <1>6, <1>8
  <2>2. CASE e # id
    <3>1. w \in DOMAIN w2d /\ e \in DOMAIN w2d[w]
      BY <2>2, <1>5, <1>6 DEF IndexesAgree, w2d, d2w
    <3> QED
      BY <3>1, <1>3, <1>4, <1>8
  <2> QED
    BY <2>1, <2>2
<1>11. DOMAIN d2w' \subseteq document_ids_'
  BY <1>5, <1>6, <1>7 DEF IndexesAgree, d2w
<1> QED
  BY <1>7, <1>9, <1>10, <1>11 DEF IndexesAgree, w2d, d2w

\* RemoveDocument, which RemoveDuplicates calls as well: a document leaves the
\* index from words at the words that the other index has of it.
RemovesExactly(gone) ==
  /\ gone \subseteq DOMAIN document_to_word_freqs_
  /\ DOMAIN word_to_document_freqs_' = DOMAIN word_to_document_freqs_
  /\ \A w \in DOMAIN word_to_document_freqs_ :
       /\ DOMAIN word_to_document_freqs_'[w] =
            {id \in DOMAIN word_to_document_freqs_[w] :
               id \notin gone \/ w \notin DOMAIN document_to_word_freqs_[id]}
       /\ \A id \in DOMAIN word_to_document_freqs_'[w] :
            word_to_document_freqs_'[w][id] = word_to_document_freqs_[w][id]
  /\ DOMAIN document_to_word_freqs_' = DOMAIN document_to_word_freqs_ \ gone
  /\ \A id \in DOMAIN document_to_word_freqs_' :
       document_to_word_freqs_'[id] = document_to_word_freqs_[id]
  /\ document_ids_' = document_ids_ \ gone
  /\ DOMAIN document_ratings_status_' = DOMAIN document_ratings_status_ \ gone

LEMMA RemovesExactlyKeeps ==
  ASSUME IndexesAgree, NEW gone, RemovesExactly(gone)
  PROVE  IndexesAgree'
<1>1. \A w \in DOMAIN word_to_document_freqs_' : \A id \in DOMAIN word_to_document_freqs_'[w] :
        /\ id \in DOMAIN word_to_document_freqs_[w] /\ id \notin gone
        /\ word_to_document_freqs_'[w][id] = word_to_document_freqs_[w][id]
  BY DEF RemovesExactly, IndexesAgree
<1>2. \A w \in DOMAIN word_to_document_freqs_' : \A id \in DOMAIN word_to_document_freqs_'[w] :
        /\ id \in DOMAIN document_to_word_freqs_' /\ w \in DOMAIN document_to_word_freqs_'[id]
        /\ word_to_document_freqs_'[w][id] = document_to_word_freqs_'[id][w]
  BY <1>1 DEF RemovesExactly, IndexesAgree
<1>3. \A id \in DOMAIN document_to_word_freqs_' : \A w \in DOMAIN document_to_word_freqs_'[id] :
        w \in DOMAIN word_to_document_freqs_' /\ id \in DOMAIN word_to_document_freqs_'[w]
  BY DEF RemovesExactly, IndexesAgree
<1> QED
  BY <1>2, <1>3 DEF RemovesExactly, IndexesAgree

LEMMA RemoveKeeps ==
  ASSUME IndexesAgree, NEW id, Remove(id)
  PROVE  IndexesAgree'
<1>1. CASE id \notin DOMAIN document_to_word_freqs_
  BY <1>1 DEF Remove, serverVars, IndexesAgree
<1>2. CASE id \in DOMAIN document_to_word_freqs_
  <2> DEFINE w2d == word_to_document_freqs_ words == DOMAIN document_to_word_freqs_[id]
  <2>1. /\ w2d' = [w \in DOMAIN w2d |-> IF w \in words THEN Erased(w2d[w], id) ELSE w2d[w]]
        /\ document_to_word_freqs_' = Erased(document_to_word_freqs_, id)
        /\ document_ratings_status_' = Erased(document_ratings_status_, id)
        /\ document_ids_' = document_ids_ \ {id}
    BY <1>2 DEF Remove, WordsWithout
  <2>2. \A w \in DOMAIN w2d :
          /\ DOMAIN w2d'[w] = {e \in DOMAIN w2d[w] : e # id \/ w \notin words}
          /\ \A e \in DOMAIN w2d'[w] : w2d'[w][e] = w2d[w][e]
    BY <2>1 DEF Erased
  <2>3. RemovesExactly({id})
    BY <1>2, <2>1, <2>2 DEF RemovesExactly, Erased
  <2> QED
    BY <2>3, RemovesExactlyKeeps
<1> QED
  BY <1>1, <1>2

\* What a step of the program does to the server.
LEMMA ServerSteps ==
  ASSUME [EngineNext]_engineVars
  PROVE  \/ UNCHANGED serverVars
         \/ \E id \in AnyId, doc \in Submission : AddDocument(id, doc)
         \/ \E id : RemoveDocument(id)
<1>1. CASE UNCHANGED engineVars
  BY <1>1 DEF engineVars
<1>2. ASSUME NEW q \in Query, NEW id \in AnyId, MatchDocument(q, id) PROVE UNCHANGED serverVars
  BY <1>2 DEF MatchDocument, Throw
<1>3. ASSUME NEW q \in Query, NEW p \in Predicate, AddFindRequest(q, p) PROVE UNCHANGED serverVars
  BY <1>3 DEF AddFindRequest, Throw
<1>4. CASE RemoveDuplicates \/ Visit \/ EndOfRemoving
  BY <1>4 DEF RemoveDuplicates, Visit, EndOfRemoving
<1>5. CASE RemoveNext
  BY <1>5 DEF RemoveNext
<1>6. CASE EngineCall
  BY <1>2, <1>3, <1>4, <1>6 DEF EngineCall
<1> QED
  BY <1>1, <1>4, <1>5, <1>6 DEF EngineNext

LEMMA NextKeepsIndexesAgree == IndexesAgree /\ [EngineNext]_engineVars => IndexesAgree'
<1> SUFFICES ASSUME IndexesAgree, [EngineNext]_engineVars PROVE IndexesAgree'
  OBVIOUS
<1>1. CASE UNCHANGED serverVars
  BY <1>1 DEF serverVars, IndexesAgree
<1>2. ASSUME NEW id \in AnyId, NEW doc \in Submission, AddDocument(id, doc) PROVE IndexesAgree'
  BY <1>1, <1>2, EnterKeeps DEF AddDocument, Throw
<1>3. ASSUME NEW id, RemoveDocument(id) PROVE IndexesAgree'
  BY <1>3, RemoveKeeps DEF RemoveDocument
<1> QED
  BY <1>1, <1>2, <1>3, ServerSteps

\* SearchServer::AddDocument, RemoveDocument and RemoveDuplicates: whatever is
\* added and removed, the two indexes have the same entries, and of no document
\* that is not there.
THEOREM SearchIndexesAgree == EngineSpec => []IndexesAgree
BY InitIndexesAgree, NextKeepsIndexesAgree, PTL DEF EngineSpec

(***************************************************************************)
(* MatchDocument: no call makes a word unknown.                            *)
(***************************************************************************)
LEMMA WordsStayKnown ==
  ASSUME [EngineNext]_engineVars
  PROVE  DOMAIN word_to_document_freqs_ \subseteq DOMAIN word_to_document_freqs_'
<1>1. CASE UNCHANGED serverVars
  BY <1>1 DEF serverVars
<1>2. ASSUME NEW id \in AnyId, NEW doc \in Submission, AddDocument(id, doc)
      PROVE  DOMAIN word_to_document_freqs_ \subseteq DOMAIN word_to_document_freqs_'
  BY <1>1, <1>2 DEF AddDocument, Enter, Throw
<1>3. ASSUME NEW id, RemoveDocument(id)
      PROVE  DOMAIN word_to_document_freqs_ \subseteq DOMAIN word_to_document_freqs_'
  BY <1>1, <1>3 DEF RemoveDocument, Remove, WordsWithout
<1> QED
  BY <1>1, <1>2, <1>3, ServerSteps

\* SearchServer::RemoveDocument: a query that MatchDocument can take stays one,
\* also when the last document with one of its words is gone.
THEOREM QueriesStayPossible == EngineSpec => MatchStaysPossible
<1>1. [EngineNext]_engineVars => [\A q \in Query : Known(q) => Known(q)']_engineVars
  BY WordsStayKnown DEF Known
<1> QED
  BY <1>1, PTL DEF EngineSpec, MatchStaysPossible

(***************************************************************************)
(* RequestQueue: requests_ is the end of what was ever asked, as long as a *)
(* day, so that what leaves it at its front is what leaves the day.        *)
(***************************************************************************)
EmptyInDay(a) == {l \in {j \in DOMAIN a : j > Len(a) - sec_in_day_} : a[l] = 0}

QueueInv ==
  /\ \E S : asked \in Seq(S) /\ requests_ \in Seq(S)
  /\ Len(requests_) = IF Len(asked) <= sec_in_day_ THEN Len(asked) ELSE sec_in_day_
  /\ \A l \in 1 .. Len(requests_), j \in 1 .. Len(asked) :
       j - l = Len(asked) - Len(requests_) => requests_[l] = asked[j]
  /\ empty_count_ = Cardinality(EmptyInDay(asked))

LEMMA DaysAreFinite ==
  ASSUME NEW S, NEW a \in Seq(S)
  PROVE  IsFiniteSet(EmptyInDay(a))
<1>1. EmptyInDay(a) \subseteq 1 .. Len(a)
  BY DEF EmptyInDay
<1> QED
  BY <1>1, FS_Interval, FS_Subset

LEMMA RequestKeepsQueue ==
  ASSUME QueueInv, NEW c, AddRequest(c), asked' = Append(asked, c)
  PROVE  QueueInv'
<1>1. PICK S : asked \in Seq(S) /\ requests_ \in Seq(S)
  BY DEF QueueInv
<1> DEFINE n == Len(asked)
           full == Len(requests_) = sec_in_day_
           rest == IF full THEN Tail(requests_) ELSE requests_
<1>2. sec_in_day_ \in Nat /\ sec_in_day_ > 0 /\ n \in Nat /\ Len(requests_) \in Nat
  BY <1>1, RequestAssumption
<1>3. /\ asked' \in Seq(S \cup {c}) /\ Len(asked') = n + 1 /\ DOMAIN asked' = 1 .. n + 1
      /\ asked'[n + 1] = c /\ \A l \in 1 .. n : asked'[l] = asked[l]
  BY <1>1
<1>4. full <=> n >= sec_in_day_
  BY <1>2 DEF QueueInv
<1>5. /\ rest \in Seq(S) /\ Len(rest) = IF full THEN sec_in_day_ - 1 ELSE n
      /\ \A l \in 1 .. Len(rest), j \in 1 .. n : j - l = n - Len(rest) => rest[l] = asked[j]
  <2>1. CASE full
    <3>1. requests_ # <<>>
      BY <1>1, <1>2, <2>1
    <3>2. /\ Tail(requests_) \in Seq(S) /\ Len(Tail(requests_)) = sec_in_day_ - 1
          /\ \A l \in 1 .. sec_in_day_ - 1 : Tail(requests_)[l] = requests_[l + 1]
      BY <1>1, <1>2, <2>1, <3>1
    <3>3. ASSUME NEW l \in 1 .. sec_in_day_ - 1, NEW j \in 1 .. n, j - l = n - (sec_in_day_ - 1)
          PROVE  Tail(requests_)[l] = asked[j]
      <4> DEFINE k == l + 1
      <4>1. k \in 1 .. Len(requests_) /\ j - k = n - Len(requests_)
        BY <1>2, <2>1, <3>3
      <4>2. Tail(requests_)[l] = requests_[k]
        BY <3>2
      <4> HIDE DEF k
      <4> QED BY <4>1, <4>2 DEF QueueInv
    <3>4. rest = Tail(requests_)
      BY <2>1
    <3> DEFINE tail == Tail(requests_)
               days == sec_in_day_ - 1
    <3> HIDE DEF n, rest, full, tail, days
    <3>5. /\ tail \in Seq(S) /\ Len(tail) = days
          /\ \A l \in 1 .. days, j \in 1 .. n : j - l = n - days => tail[l] = asked[j]
      BY <3>2, <3>3 DEF tail, days
    <3>6. rest = tail
      BY <3>4 DEF tail
    <3>7. /\ rest \in Seq(S) /\ Len(rest) = days
          /\ \A l \in 1 .. Len(rest), j \in 1 .. n : j - l = n - Len(rest) => rest[l] = asked[j]
      BY <3>5, <3>6
    <3> QED BY <2>1, <3>7 DEF days
  <2>2. CASE ~full
    BY <1>1, <1>2, <1>4, <2>2 DEF QueueInv
  <2> QED BY <2>1, <2>2
<1> HIDE DEF rest
<1>6. requests_' = Append(rest, c)
  BY DEF AddRequest, rest
<1>7. /\ requests_' \in Seq(S \cup {c}) /\ Len(requests_') = Len(rest) + 1
      /\ requests_'[Len(rest) + 1] = c /\ \A l \in 1 .. Len(rest) : requests_'[l] = rest[l]
  BY <1>5, <1>6
<1>8. Len(requests_') = IF Len(asked') <= sec_in_day_ THEN Len(asked') ELSE sec_in_day_
  BY <1>2, <1>3, <1>4, <1>5, <1>7
<1>9. ASSUME NEW l \in 1 .. Len(requests_'), NEW j \in 1 .. Len(asked'),
             j - l = Len(asked') - Len(requests_')
      PROVE  requests_'[l] = asked'[j]
  <2>1. Len(rest) \in Nat
    BY <1>5
  <2>2. CASE l = Len(rest) + 1
    <3>1. j = n + 1
      BY <1>2, <1>3, <1>7, <1>9, <2>1, <2>2
    <3> QED BY <1>3, <1>7, <2>2, <3>1
  <2>3. CASE l # Len(rest) + 1
    <3> DEFINE r == Len(rest)
    <3>1. l \in 1 .. Len(rest) /\ j \in 1 .. n /\ j - l = n - Len(rest)
      <4>1. l \in 1 .. r + 1 /\ l # r + 1 /\ j \in 1 .. n + 1 /\ j - l = (n + 1) - (r + 1)
        BY <1>3, <1>7, <1>9, <2>3
      <4>2. n \in Nat /\ r \in Nat
        BY <1>2, <2>1
      <4> HIDE DEF n, r
      <4>3. l \in 1 .. r /\ j \in 1 .. n /\ j - l = n - r
        BY <4>1, <4>2
      <4> QED BY <4>3 DEF r
    <3>2. requests_'[l] = rest[l] /\ asked'[j] = asked[j]
      BY <1>3, <1>7, <3>1
    <3> QED BY <1>5, <3>1, <3>2
  <2> QED BY <2>2, <2>3
<1>10. empty_count_' = Cardinality(EmptyInDay(asked'))
  <2> DEFINE Z == EmptyInDay(asked)
             leaves == full /\ Head(requests_) = 0
             first == n + 1 - sec_in_day_
             Y == IF leaves THEN Z \ {first} ELSE Z
  <2>1. /\ IsFiniteSet(Z) /\ Z \subseteq 1 .. n /\ Cardinality(Z) \in Nat
    BY <1>1, DaysAreFinite, FS_CardinalityType DEF EmptyInDay
  <2>2. full => Head(requests_) = asked[first] /\ first \in 1 .. n
    <3> SUFFICES ASSUME full PROVE Head(requests_) = asked[first] /\ first \in 1 .. n
      OBVIOUS
    <3>1. Head(requests_) = requests_[1]
      BY <1>1, <1>2
    <3>2. first \in 1 .. n /\ 1 \in 1 .. Len(requests_) /\ first - 1 = n - Len(requests_)
      BY <1>2, <1>4
    <3> HIDE DEF first
    <3> QED BY <3>1, <3>2 DEF QueueInv
  <2>3. leaves <=> first \in Z
    BY <1>1, <1>2, <1>4, <2>2 DEF EmptyInDay
  <2>4. Y = {l \in 1 .. n : l > n + 1 - sec_in_day_ /\ asked[l] = 0}
    BY <1>1, <1>2, <2>2, <2>3 DEF EmptyInDay
  <2>5. IsFiniteSet(Y) /\ Cardinality(Y) = Cardinality(Z) - One(leaves)
    BY <2>1, <2>3, FS_RemoveElement DEF One
  <2>6. EmptyInDay(asked') = IF c = 0 THEN Y \cup {n + 1} ELSE Y
    <3> HIDE DEF Y
    <3> QED BY <1>2, <1>3, <2>4 DEF EmptyInDay
  <2>7. n + 1 \notin Y
    BY <1>2, <2>4
  <2>8. Cardinality(EmptyInDay(asked')) = Cardinality(Y) + One(c = 0)
    <3> HIDE DEF Y
    <3>1. Cardinality(Y) \in Nat
      BY <2>5, FS_CardinalityType
    <3>2. Cardinality(Y \cup {n + 1}) = Cardinality(Y) + 1
      BY <2>5, <2>7, FS_AddElement
    <3> QED BY <2>6, <3>1, <3>2 DEF One
  <2>9. empty_count_' = Cardinality(Z) - One(leaves) + One(c = 0)
    BY DEF AddRequest, QueueInv
  <2> QED BY <2>5, <2>8, <2>9
<1> QED
  BY <1>3, <1>7, <1>8, <1>9, <1>10 DEF QueueInv

LEMMA InitQueue == EngineInit => QueueInv
<1> SUFFICES ASSUME EngineInit PROVE QueueInv
  OBVIOUS
<1>1. asked = <<>> /\ requests_ = <<>> /\ empty_count_ = 0
  BY DEF EngineInit
<1>2. asked \in Seq({}) /\ requests_ \in Seq({}) /\ Len(asked) = 0 /\ Len(requests_) = 0
  BY <1>1
<1>3. EmptyInDay(asked) = {}
  BY <1>1 DEF EmptyInDay
<1> QED
  BY <1>1, <1>2, <1>3, FS_EmptySet, RequestAssumption DEF QueueInv

LEMMA NextKeepsQueue == QueueInv /\ [EngineNext]_engineVars => QueueInv'
<1> SUFFICES ASSUME QueueInv, [EngineNext]_engineVars PROVE QueueInv'
  OBVIOUS
<1>1. CASE UNCHANGED queueVars
  BY <1>1 DEF queueVars, QueueInv
<1>2. ASSUME NEW q \in Query, NEW p \in Predicate, AddFindRequest(q, p) PROVE QueueInv'
  BY <1>1, <1>2, RequestKeepsQueue DEF AddFindRequest
<1>3. CASE RemoveDuplicates \/ Visit \/ RemoveNext \/ EndOfRemoving
  BY <1>1, <1>3 DEF RemoveDuplicates, Visit, RemoveNext, EndOfRemoving
<1>4. CASE EngineCall
  BY <1>1, <1>2, <1>3, <1>4 DEF EngineCall
<1> QED
  BY <1>1, <1>3, <1>4 DEF EngineNext, engineVars

\* RequestQueue: whatever is asked, also before a day is over and with requests
\* that are refused, GetNoResultRequests counts the requests of the last day
\* that had no result.
THEOREM TheLastDayIsCounted == EngineSpec => []CountsTheLastDay
<1>1. QueueInv => CountsTheLastDay
  BY DEF QueueInv, CountsTheLastDay, EmptyInDay
<1> QED
  BY <1>1, InitQueue, NextKeepsQueue, PTL DEF EngineSpec

(***************************************************************************)
(* RemoveDuplicates: of the documents with the same words the one with the *)
(* least id stays.                                                         *)
(***************************************************************************)
IdsAreNatural == document_ids_ \subseteq Nat /\ IndexesAgree

LEMMA IdsStayNatural == IdsAreNatural /\ [EngineNext]_engineVars => IdsAreNatural'
<1> SUFFICES ASSUME IdsAreNatural, [EngineNext]_engineVars PROVE document_ids_' \subseteq Nat
  BY NextKeepsIndexesAgree DEF IdsAreNatural
<1>1. CASE UNCHANGED serverVars
  BY <1>1 DEF serverVars, IdsAreNatural
<1>2. ASSUME NEW id \in AnyId, NEW doc \in Submission, AddDocument(id, doc)
      PROVE  document_ids_' \subseteq Nat
  BY <1>2, SearchServerAssumption DEF AddDocument, Enter, Throw, serverVars, IdsAreNatural
<1>3. ASSUME NEW id, RemoveDocument(id) PROVE document_ids_' \subseteq Nat
  BY <1>3 DEF RemoveDocument, Remove, serverVars, IdsAreNatural
<1> QED
  BY <1>1, <1>2, <1>3, ServerSteps

LEMMA LeastIsIn ==
  ASSUME NEW S, S \subseteq Nat, S # {}
  PROVE  Min(S) \in S /\ \A d \in S : Min(S) <= d
<1>1. \E u \in S : \A d \in S : u <= d
  BY LeastOfNaturals
<1> QED BY <1>1 DEF Min

Visited == DOMAIN before \ unvisited
KeptFor(d) == document_words_to_id[before[d]]

\* Nothing happened to the documents but that some were removed, and none until
\* all were visited, in their order.
DocumentsAsBefore ==
  /\ DOMAIN before \subseteq Nat /\ document_ids_ \subseteq DOMAIN before
  /\ unvisited \subseteq document_ids_
  /\ unvisited # {} => document_ids_ = DOMAIN before
  /\ \A d \in document_ids_ : WordsOf(d) = before[d]
  /\ \A d \in Visited, e \in unvisited : d < e

\* Each document that was visited has one that is kept for it, the first with its
\* words, and unless it is that one itself it is removed, or will be; but one
\* that has no words stays.
FirstIsKept ==
  /\ DOMAIN document_words_to_id = {before[d] : d \in Visited}
  /\ ids_to_remove \subseteq Visited
  /\ \A d \in Visited :
       /\ KeptFor(d) \in Visited \cap document_ids_ /\ KeptFor(d) \notin ids_to_remove
       /\ before[KeptFor(d)] = before[d] /\ KeptFor(d) <= d
       /\ KeptFor(d) # d => d \in ids_to_remove \/ d \notin document_ids_ \/ before[d] = {}

RemovingInv ==
  /\ removing \in BOOLEAN
  /\ removing => DocumentsAsBefore /\ FirstIsKept
  /\ ~removing => unvisited = {} /\ ids_to_remove = {} /\ document_words_to_id = Empty

LEMMA RemoveDuplicatesStarts ==
  ASSUME IdsAreNatural, RemovingInv, ~removing, RemoveDuplicates
  PROVE  RemovingInv'
<1>1. /\ unvisited' = document_ids_ /\ DOMAIN before' = document_ids_ /\ document_ids_' = document_ids_
      /\ ids_to_remove' = {} /\ document_words_to_id' = Empty /\ removing' = TRUE
      /\ \A d \in document_ids_ : before'[d] = WordsOf(d)
  BY DEF RemoveDuplicates, RemovingInv, serverVars
<1>2. \A d : WordsOf(d)' = WordsOf(d)
  BY DEF RemoveDuplicates, WordsOf, serverVars
<1>3. DocumentsAsBefore'
  BY <1>1, <1>2 DEF DocumentsAsBefore, Visited, IdsAreNatural
<1>4. FirstIsKept'
  BY <1>1 DEF FirstIsKept, Visited, Empty
<1> QED BY <1>1, <1>3, <1>4 DEF RemovingInv

LEMMA VisitKeeps ==
  ASSUME IdsAreNatural, RemovingInv, Visit
  PROVE  RemovingInv'
<1>0. PICK v, words : v = Min(unvisited) /\ words = WordsOf(v)
  OBVIOUS
<1>1. /\ removing /\ unvisited # {} /\ DocumentsAsBefore /\ FirstIsKept
      /\ document_ids_' = document_ids_ /\ before' = before /\ removing' = TRUE
      /\ unvisited' = unvisited \ {v}
  BY <1>0 DEF Visit, RemovingInv, serverVars
<1>2. v \in unvisited /\ \A d \in unvisited : v <= d
  <2>1. unvisited \subseteq Nat
    BY <1>1 DEF DocumentsAsBefore
  <2> QED BY <1>0, <1>1, <2>1, LeastIsIn
<1>3. \A d : WordsOf(d)' = WordsOf(d)
  BY DEF Visit, WordsOf, serverVars
<1>4. words = before[v]
  BY <1>0, <1>1, <1>2 DEF DocumentsAsBefore
<1>5. IF words \notin DOMAIN document_words_to_id
      THEN document_words_to_id' = With(document_words_to_id, words, v) /\ ids_to_remove' = ids_to_remove
      ELSE IF document_words_to_id[words] > v THEN Keep(words, v, document_words_to_id[words]) ELSE Keep(words, document_words_to_id[words], v)
  BY <1>0 DEF Visit
<1>6. Visited' = Visited \cup {v} /\ v \notin Visited
  BY <1>1, <1>2 DEF Visited, DocumentsAsBefore
<1>7. \A d \in Visited : d < v /\ d \in Nat /\ v \in Nat
  BY <1>1, <1>2 DEF DocumentsAsBefore, Visited
<1>8. DocumentsAsBefore'
  BY <1>1, <1>2, <1>3, <1>6 DEF DocumentsAsBefore
<1>9. CASE words \notin DOMAIN document_words_to_id
  <2>1. /\ DOMAIN document_words_to_id' = DOMAIN document_words_to_id \cup {words} /\ document_words_to_id'[words] = v
        /\ \A u \in DOMAIN document_words_to_id : document_words_to_id'[u] = document_words_to_id[u]
    BY <1>5, <1>9 DEF With
  <2>2. \A d \in Visited : KeptFor(d)' = KeptFor(d)
    BY <1>1, <2>1 DEF FirstIsKept, KeptFor
  <2>3. KeptFor(v)' = v
    BY <1>1, <1>4, <2>1 DEF KeptFor
  <2>4. ids_to_remove' = ids_to_remove
    BY <1>5, <1>9
  <2>5. v \in document_ids_ /\ v \in Nat
    BY <1>1, <1>2 DEF DocumentsAsBefore
  <2>6. DOMAIN document_words_to_id' = {before[d] : d \in Visited \cup {v}}
    BY <1>1, <1>4, <2>1 DEF FirstIsKept
  <2>7. FirstIsKept'
    BY <1>1, <1>6, <2>2, <2>3, <2>4, <2>5, <2>6 DEF FirstIsKept
  <2> QED BY <1>1, <1>8, <2>7 DEF RemovingInv
<1>10. CASE words \in DOMAIN document_words_to_id
  <2>1. PICK c \in Visited : before[c] = words
    BY <1>1, <1>10 DEF FirstIsKept
  <2>2. document_words_to_id[words] = KeptFor(c) /\ KeptFor(c) \in Visited \cap document_ids_
    BY <1>1, <2>1 DEF FirstIsKept, KeptFor
  <2>3. ~(document_words_to_id[words] > v) /\ document_words_to_id[words] < v
    BY <1>7, <2>2
  <2>4. document_words_to_id' = With(document_words_to_id, words, document_words_to_id[words]) /\ ids_to_remove' = ids_to_remove \cup {v}
    BY <1>5, <1>10, <2>3 DEF Keep
  <2>5. DOMAIN document_words_to_id' = DOMAIN document_words_to_id /\ \A u \in DOMAIN document_words_to_id : document_words_to_id'[u] = document_words_to_id[u]
    BY <1>10, <2>4 DEF With
  <2>6. \A d \in Visited : KeptFor(d)' = KeptFor(d)
    BY <1>1, <2>5 DEF FirstIsKept, KeptFor
  <2>7. KeptFor(v)' = KeptFor(c)
    BY <1>1, <1>4, <1>10, <2>2, <2>5 DEF KeptFor
  <2>8. DOMAIN document_words_to_id' = {before[d] : d \in Visited \cup {v}}
    BY <1>1, <1>4, <2>1, <2>5 DEF FirstIsKept
  <2>9. /\ KeptFor(c) \notin ids_to_remove \cup {v} /\ before[KeptFor(c)] = before[v]
        /\ KeptFor(c) <= v
    BY <1>1, <1>4, <1>6, <1>7, <2>1, <2>2 DEF FirstIsKept
  <2>10. FirstIsKept'
    BY <1>1, <1>6, <2>2, <2>4, <2>6, <2>7, <2>8, <2>9 DEF FirstIsKept
  <2> QED BY <1>1, <1>8, <2>10 DEF RemovingInv
<1> QED BY <1>9, <1>10

LEMMA RemoveNextKeeps ==
  ASSUME IdsAreNatural, RemovingInv, RemoveNext
  PROVE  RemovingInv'
<1> DEFINE r == Min(ids_to_remove)
<1>1. /\ removing /\ unvisited = {} /\ ids_to_remove # {} /\ DocumentsAsBefore /\ FirstIsKept
      /\ before' = before /\ removing' = TRUE /\ unvisited' = {}
      /\ document_words_to_id' = document_words_to_id
      /\ ids_to_remove' = ids_to_remove \ {r} /\ Remove(r)
  BY DEF RemoveNext, RemoveDocument, RemovingInv
<1>2. r \in ids_to_remove
  <2>1. ids_to_remove \subseteq Nat
    BY <1>1 DEF DocumentsAsBefore, FirstIsKept, Visited
  <2> QED BY <1>1, <2>1, LeastIsIn
<1> HIDE DEF r
<1>3. /\ document_ids_' \subseteq document_ids_ /\ document_ids_ \ {r} \subseteq document_ids_'
      /\ \A d \in document_ids_' : WordsOf(d)' = WordsOf(d)
  BY <1>1 DEF Remove, serverVars, WordsOf, At, Erased
<1>4. r \in document_ids_' => before[r] = {}
  <2> SUFFICES ASSUME r \in document_ids_' PROVE before[r] = {}
    OBVIOUS
  <2>1. r \notin DOMAIN document_to_word_freqs_
    BY <1>1 DEF Remove
  <2>2. WordsOf(r) = {}
    BY <2>1 DEF WordsOf, At, Empty
  <2> QED BY <1>1, <1>3, <2>2 DEF DocumentsAsBefore
<1>5. DocumentsAsBefore'
  BY <1>1, <1>3 DEF DocumentsAsBefore
<1>6. Visited' = Visited /\ \A d \in Visited : KeptFor(d)' = KeptFor(d)
  BY <1>1 DEF Visited, KeptFor
<1>7. \A d \in Visited : KeptFor(d) \in document_ids_'
  BY <1>1, <1>2, <1>3 DEF FirstIsKept
<1>8. FirstIsKept'
  BY <1>1, <1>2, <1>3, <1>4, <1>6, <1>7 DEF FirstIsKept
<1> QED BY <1>1, <1>5, <1>8 DEF RemovingInv

LEMMA RemovingInvKept == IdsAreNatural /\ RemovingInv /\ [EngineNext]_engineVars => RemovingInv'
<1> SUFFICES ASSUME IdsAreNatural, RemovingInv, [EngineNext]_engineVars PROVE RemovingInv'
  OBVIOUS
<1>1. CASE ~removing /\ UNCHANGED removeVars
  BY <1>1 DEF RemovingInv, removeVars
<1>2. CASE EngineCall
  BY <1>1, <1>2, RemoveDuplicatesStarts DEF EngineCall
<1>3. CASE EndOfRemoving
  BY <1>3 DEF EndOfRemoving, NoneIsLeft, RemovingInv
<1>4. CASE UNCHANGED engineVars
  BY <1>4 DEF engineVars, serverVars, removeVars, RemovingInv, DocumentsAsBefore, FirstIsKept,
              KeptFor, Visited, WordsOf
<1> QED
  BY <1>2, <1>3, <1>4, VisitKeeps, RemoveNextKeeps DEF EngineNext

LEMMA RemovingInvSuffices == RemovingInv => NoDuplicates
<1> SUFFICES ASSUME RemovingInv, NoneIsLeft PROVE NoDuplicates
  BY DEF NoDuplicates
<1>1. DocumentsAsBefore /\ FirstIsKept /\ Visited = DOMAIN before /\ ids_to_remove = {}
  BY DEF NoneIsLeft, RemovingInv, Visited
<1>2. ASSUME NEW d \in document_ids_, NEW e \in document_ids_, WordsOf(d) = WordsOf(e), d # e
      PROVE  WordsOf(d) = {}
  <2>1. /\ d \in Visited /\ e \in Visited /\ before[d] = before[e] /\ before[d] = WordsOf(d)
    BY <1>1, <1>2 DEF DocumentsAsBefore
  <2>2. KeptFor(d) = KeptFor(e)
    BY <2>1 DEF KeptFor
  <2> QED BY <1>1, <1>2, <2>1, <2>2 DEF FirstIsKept
<1>3. ASSUME NEW e \in DOMAIN before \ document_ids_
      PROVE  \E d \in document_ids_ : d < e /\ WordsOf(d) = before[e]
  <2>1. KeptFor(e) \in document_ids_ /\ before[KeptFor(e)] = before[e] /\ KeptFor(e) <= e
    BY <1>1, <1>3 DEF FirstIsKept
  <2>2. KeptFor(e) # e /\ WordsOf(KeptFor(e)) = before[e] /\ KeptFor(e) \in Nat /\ e \in Nat
    BY <1>1, <1>3, <2>1 DEF DocumentsAsBefore
  <2>3. KeptFor(e) < e
    BY <2>1, <2>2
  <2> QED BY <2>1, <2>2, <2>3
<1> QED
  BY <1>1, <1>2, <1>3 DEF NoDuplicates, DocumentsAsBefore

\* RemoveDuplicates, loop by loop: whatever was added and removed before, when it
\* returns no two documents with the same words are left, no set of words is
\* lost, and of the documents that had the same words the first stays.
THEOREM DuplicatesAreRemoved == EngineSpec => []NoDuplicates
<1>1. EngineInit => IdsAreNatural /\ RemovingInv
  BY InitIndexesAgree DEF EngineInit, ServerInit, IdsAreNatural, RemovingInv
<1>2. IdsAreNatural /\ RemovingInv /\ [EngineNext]_engineVars => (IdsAreNatural /\ RemovingInv)'
  BY IdsStayNatural, RemovingInvKept
<1> QED
  BY <1>1, <1>2, RemovingInvSuffices, PTL DEF EngineSpec

(***************************************************************************)
(* Queries: the index from words and the documents themselves give the     *)
(* same sums over the same documents.                                      *)
(***************************************************************************)
\* The documents are finitely many, and of each there is what AddDocument keeps.
DocumentsAreKept ==
  /\ IdsAreNatural /\ IsFiniteSet(document_ids_)
  /\ \A id \in DOMAIN document_ratings_status_ :
       document_ratings_status_[id] =
         [rating |-> document_ratings_status_[id].rating, status |-> document_ratings_status_[id].status]

LEMMA DocumentsStayKept == DocumentsAreKept /\ [EngineNext]_engineVars => DocumentsAreKept'
<1> SUFFICES ASSUME DocumentsAreKept, [EngineNext]_engineVars PROVE DocumentsAreKept'
  OBVIOUS
<1> DEFINE Kept(rs) ==
      \A id \in DOMAIN rs : rs[id] = [rating |-> rs[id].rating, status |-> rs[id].status]
           Rest == IsFiniteSet(document_ids_') /\ Kept(document_ratings_status_')
<1>1. CASE UNCHANGED serverVars
  BY <1>1, IdsStayNatural DEF serverVars, DocumentsAreKept
<1>2. ASSUME NEW id \in AnyId, NEW doc \in Submission, AddDocument(id, doc) PROVE Rest
  <2>1. CASE UNCHANGED serverVars
    BY <1>1, <2>1 DEF DocumentsAreKept
  <2>2. CASE Enter(id, SplitIntoWordsNoStop(doc.text), doc)
    <3> DEFINE new == [rating |-> ComputeAverageRating(doc.ratings), status |-> doc.status]
    <3>1. document_ratings_status_' = With(document_ratings_status_, id, new)
          /\ document_ids_' = document_ids_ \cup {id}
      BY <2>2 DEF Enter
    <3>2. new = [rating |-> new.rating, status |-> new.status]
      OBVIOUS
    <3> HIDE DEF new
    <3>3. Kept(document_ratings_status_')
      BY <3>1, <3>2 DEF With, DocumentsAreKept
    <3> QED BY <3>1, <3>3, FS_AddElement DEF DocumentsAreKept
  <2> QED BY <1>2, <2>1, <2>2 DEF AddDocument, Throw
<1>3. ASSUME NEW gone, document_ids_' = document_ids_ \ gone,
             document_ratings_status_' =
               [id \in DOMAIN document_ratings_status_ \ gone |-> document_ratings_status_[id]]
      PROVE  Rest
  <2>1. IsFiniteSet(document_ids_')
    BY <1>3, FS_Subset DEF DocumentsAreKept
  <2> QED BY <1>3, <2>1 DEF DocumentsAreKept
<1>4. ASSUME NEW id, RemoveDocument(id) PROVE Rest
  BY <1>1, <1>3, <1>4 DEF RemoveDocument, Remove, Erased, DocumentsAreKept
<1> QED
  BY <1>1, <1>2, <1>4, ServerSteps, IdsStayNatural DEF DocumentsAreKept

LEMMA InitKeepsDocuments == EngineInit => DocumentsAreKept
BY InitIndexesAgree, FS_EmptySet DEF EngineInit, ServerInit, Empty, IdsAreNatural, DocumentsAreKept

\* What the index from words says of a document is what the document says.
LEMMA IndexIsOfDocuments ==
  ASSUME DocumentsAreKept
  PROVE  /\ DOMAIN Documents = DOMAIN document_ratings_status_
         /\ \A w \in DOMAIN word_to_document_freqs_ :
              /\ DOMAIN word_to_document_freqs_[w] = {d \in DOMAIN Documents : Promised!Has(d, w)}
              /\ \A d \in DOMAIN word_to_document_freqs_[w] :
                   word_to_document_freqs_[w][d] = Documents[d].words[w]
         /\ \A d \in DOMAIN Documents : \A w :
              Promised!Has(d, w) => w \in DOMAIN word_to_document_freqs_ /\ d \in DOMAIN word_to_document_freqs_[w]
         /\ \A d \in DOMAIN Documents :
              document_ratings_status_[d] = [rating |-> Documents[d].rating, status |-> Documents[d].status]
<1>1. DOMAIN Documents = DOMAIN document_ratings_status_
  BY DEF Documents
<1>2. \A d \in DOMAIN Documents :
        /\ Documents[d].words = At(document_to_word_freqs_, d, Empty)
        /\ Documents[d].rating = document_ratings_status_[d].rating
        /\ Documents[d].status = document_ratings_status_[d].status
  BY DEF Documents
<1>3. \A d \in DOMAIN Documents : \A w :
        Promised!Has(d, w) <=> d \in DOMAIN document_to_word_freqs_ /\ w \in DOMAIN document_to_word_freqs_[d]
  BY <1>2 DEF Promised!Has, At, Empty
<1> HIDE DEF Documents
<1>4. \A d \in DOMAIN document_to_word_freqs_ : d \in DOMAIN Documents /\ Documents[d].words = document_to_word_freqs_[d]
  BY <1>1, <1>2 DEF At, DocumentsAreKept, IdsAreNatural, IndexesAgree
<1>5. ASSUME NEW w \in DOMAIN word_to_document_freqs_
      PROVE  /\ DOMAIN word_to_document_freqs_[w] = {d \in DOMAIN Documents : Promised!Has(d, w)}
             /\ \A d \in DOMAIN word_to_document_freqs_[w] :
                   word_to_document_freqs_[w][d] = Documents[d].words[w]
  BY <1>3, <1>4 DEF DocumentsAreKept, IdsAreNatural, IndexesAgree
<1>6. \A d \in DOMAIN Documents : \A w :
        Promised!Has(d, w) => w \in DOMAIN word_to_document_freqs_ /\ d \in DOMAIN word_to_document_freqs_[w]
  BY <1>3 DEF DocumentsAreKept, IdsAreNatural, IndexesAgree
<1>7. \A d \in DOMAIN Documents :
        document_ratings_status_[d] = [rating |-> Documents[d].rating, status |-> Documents[d].status]
  BY <1>1, <1>2 DEF DocumentsAreKept
<1> QED BY <1>1, <1>5, <1>6, <1>7

\* The sums of FindAllDocuments and of the promise are over the same terms.  A
\* fold over a set takes its elements in an order that CHOOSE gives, the same
\* for both.
SumByDocuments(id, S) ==
  Promised!FoldSet(LAMBDA w, sum : sum + Documents[id].words[w] * Promised!Idf(w), 0, S)

LEMMA SumsOfEqualTerms ==
  ASSUME NEW id, NEW S,
         \A w \in S : word_to_document_freqs_[w][id] * ComputeWordInverseDocumentFreq(w)
                        = Documents[id].words[w] * Promised!Idf(w)
  PROVE  SumByIndex(id, S) = SumByDocuments(id, S)
<1> DEFINE A(w) == word_to_document_freqs_[w][id] * ComputeWordInverseDocumentFreq(w)
           B(w) == Documents[id].words[w] * Promised!Idf(w)
           first(s) == CHOOSE x \in s : TRUE
           StepA(g) == [s \in SUBSET S |-> IF s = {} THEN 0 ELSE g[s \ {first(s)}] + A(first(s))]
           StepB(g) == [s \in SUBSET S |-> IF s = {} THEN 0 ELSE g[s \ {first(s)}] + B(first(s))]
<1>1. SumByIndex(id, S) = (CHOOSE g : g = StepA(g))[S]
  BY DEF SumByIndex, FoldSet, MapThenFoldSet
<1>2. SumByDocuments(id, S) = (CHOOSE g : g = StepB(g))[S]
  BY DEF SumByDocuments, Promised!FoldSet, Promised!MapThenFoldSet
<1>3. \A w \in S : A(w) = B(w)
  OBVIOUS
<1> HIDE DEF A, B
<1>4. \A g : StepA(g) = StepB(g)
   BY <1>3
<1> HIDE DEF StepA, StepB
<1>5. (CHOOSE g : g = StepA(g)) = (CHOOSE g : g = StepB(g))
  BY <1>4
<1> QED BY <1>1, <1>2, <1>5

LEMMA AnswersComeFromDocuments == DocumentsAreKept => AnswersFromDocuments
<1> SUFFICES ASSUME DocumentsAreKept, NEW q \in Query, NEW p \in Predicate
             PROVE  FindAllDocuments(q, p) = Promised!Answer(PlusWords(q), MinusWords(q), p)
  BY DEF AnswersFromDocuments
<1> DEFINE plus == PlusWords(q) minus == MinusWords(q)
           found == {d \in DocumentsOf(plus) \ DocumentsOf(minus) :
                       Accepts(p, d, document_ratings_status_[d])}
           wanted == {d \in DOMAIN Documents :
                        /\ \E w \in plus : Promised!Has(d, w)
                        /\ \A w \in minus : ~Promised!Has(d, w)
                        /\ Accepts(p, d, [rating |-> Documents[d].rating, status |-> Documents[d].status])}
           here(id) == {w \in plus \cap DOMAIN word_to_document_freqs_ : id \in DOMAIN word_to_document_freqs_[w]}
           has(id) == {w \in plus : Promised!Has(id, w)}
<1> HIDE DEF plus, minus
<1>1. ASSUME NEW W
      PROVE  DocumentsOf(W) = {d \in DOMAIN Documents : \E w \in W : Promised!Has(d, w)}
  <2>1. \A d : d \in DocumentsOf(W)
                <=> \E w \in W \cap DOMAIN word_to_document_freqs_ : d \in DOMAIN word_to_document_freqs_[w]
    BY DEF DocumentsOf
  <2>2. ASSUME NEW d, NEW w \in W
        PROVE  w \in DOMAIN word_to_document_freqs_ /\ d \in DOMAIN word_to_document_freqs_[w]
                 <=> d \in DOMAIN Documents /\ Promised!Has(d, w)
    BY IndexIsOfDocuments
  <2>3. \A d : d \in DocumentsOf(W) <=> d \in DOMAIN Documents /\ \E w \in W : Promised!Has(d, w)
    BY <2>1, <2>2
  <2> QED BY <2>3
<1>2. found = wanted
  BY <1>1, IndexIsOfDocuments
<1>3. ASSUME NEW id \in found PROVE here(id) = has(id)
  BY <1>2, IndexIsOfDocuments
<1>4. ASSUME NEW w \in DOMAIN word_to_document_freqs_
      PROVE  ComputeWordInverseDocumentFreq(w) = Promised!Idf(w)
  <2>1. DOMAIN word_to_document_freqs_[w] = {d \in DOMAIN Documents : Promised!Has(d, w)}
        /\ DOMAIN Documents = DOMAIN document_ratings_status_
    BY IndexIsOfDocuments
  <2>2. \A S : Cardinality(S) = Promised!Cardinality(S)
    BY DEF Cardinality, Promised!Cardinality
  <2> QED BY <2>1, <2>2 DEF ComputeWordInverseDocumentFreq, Promised!Idf
<1>5. ASSUME NEW id \in found
      PROVE  SumByIndex(id, here(id)) = SumByDocuments(id, has(id))
  <2>1. \A w \in here(id) : word_to_document_freqs_[w][id] * ComputeWordInverseDocumentFreq(w)
                               = Documents[id].words[w] * Promised!Idf(w)
    BY <1>4, IndexIsOfDocuments
  <2>2. here(id) = has(id)
    BY <1>3
  <2> HIDE DEF here, has, found
  <2> QED BY <2>1, <2>2, SumsOfEqualTerms
<1>6. FindAllDocuments(q, p) = [id \in found |-> SumByIndex(id, here(id))]
  BY DEF FindAllDocuments, SumByIndex, plus, minus
<1>7. Promised!Answer(plus, minus, p) = [id \in wanted |-> SumByDocuments(id, has(id))]
  BY DEF Promised!Answer, SumByDocuments
<1> HIDE DEF found, wanted, here, has
<1> QED BY <1>2, <1>5, <1>6, <1>7 DEF plus, minus

LEMMA LeastOfTwo ==
  ASSUME NEW u \in Nat, NEW n \in Nat
  PROVE  Min({u, n}) = IF u <= n THEN u ELSE n
BY DEF Min

LEMMA AllFoundAreDocuments ==
  ASSUME DocumentsAreKept, NEW q, NEW p
  PROVE  IsFiniteSet(DOMAIN FindAllDocuments(q, p))
<1>1. DOMAIN FindAllDocuments(q, p) \subseteq DocumentsOf(PlusWords(q))
  BY DEF FindAllDocuments
<1>2. DocumentsOf(PlusWords(q)) \subseteq document_ids_
  BY DEF DocumentsOf, DocumentsAreKept, IdsAreNatural, IndexesAgree
<1> QED BY <1>1, <1>2, FS_Subset DEF DocumentsAreKept

\* FindTopDocuments cuts off the end of what it has sorted.
LEMMA TopIsCutFromSorted ==
  ASSUME NEW found, IsFiniteSet(DOMAIN found), NEW s \in FindTopDocuments(found)
  PROVE  /\ Len(s) = Min({Cardinality(DOMAIN found), MAX_RESULT_DOCUMENT_COUNT})
         /\ IsOrder(found) =>
              \A d \in DOMAIN found \ Elements(s) : \A l \in DOMAIN s : ~Precedes(found, d, s[l])
<1> DEFINE D == DOMAIN found n == Cardinality(D) k == Min({n, MAX_RESULT_DOCUMENT_COUNT})
<1>1. n \in Nat /\ k \in Nat /\ k <= n
  <2>1. n \in Nat
    BY FS_CardinalityType
  <2> HIDE DEF n
  <2> QED BY <2>1, SearchServerAssumption, LeastOfTwo
<1>2. PICK t \in [1 .. n -> D] :
        /\ s = SubSeq(t, 1, k) /\ Elements(t) = D
        /\ IsOrder(found) => \A l, j \in 1 .. n : l < j => ~Precedes(found, t[j], t[l])
  BY DEF FindTopDocuments, Arranged
<1> HIDE DEF k, n
<1>3. Len(s) = k /\ DOMAIN s = 1 .. k /\ \A l \in 1 .. k : s[l] = t[l]
  <2>1. t \in Seq(D) /\ Len(t) = n
    BY <1>1
  <2> QED BY <1>1, <1>2, <2>1
<1>4. ASSUME IsOrder(found), NEW d \in D \ Elements(s), NEW l \in DOMAIN s
      PROVE  ~Precedes(found, d, s[l])
  <2>1. PICK j \in 1 .. n : d = t[j]
    BY <1>2 DEF Elements
  <2>2. l \in 1 .. n /\ l < j
    BY <1>1, <1>3, <2>1 DEF Elements
  <2> QED BY <1>2, <1>3, <1>4, <2>1, <2>2
<1> QED BY <1>3, <1>4 DEF k, n

LEMMA TheTopIsBest == DocumentsAreKept => TopIsBest
BY AllFoundAreDocuments, TopIsCutFromSorted DEF TopIsBest

\* SearchServer::FindTopDocuments: whatever was added and removed before, a
\* query is answered with the relevance that the documents that are there give
\* by themselves, and if the comparator orders those that are found, none that is
\* left out has a better claim than one that is returned.
THEOREM AnswersAreBest == EngineSpec => []AnswersAreTheBest
<1>1. DocumentsAreKept => AnswersAreTheBest
  BY AnswersComeFromDocuments, TheTopIsBest DEF AnswersAreTheBest
<1> QED
  BY <1>1, InitKeepsDocuments, DocumentsStayKept, PTL DEF EngineSpec

(***************************************************************************)
(* The refinement of SearchDocuments.                                      *)
(***************************************************************************)
\* A document that the index knows has words.
WordsAreKept == \A id \in DOMAIN document_to_word_freqs_ : DOMAIN document_to_word_freqs_[id] # {}

LEMMA WordsStayKept == IndexesAgree /\ WordsAreKept /\ [EngineNext]_engineVars => WordsAreKept'
<1> SUFFICES ASSUME IndexesAgree, WordsAreKept, [EngineNext]_engineVars PROVE WordsAreKept'
  OBVIOUS
<1>1. CASE UNCHANGED serverVars
  BY <1>1 DEF serverVars, WordsAreKept
<1>2. ASSUME NEW gone, document_to_word_freqs_' =
               [id \in DOMAIN document_to_word_freqs_ \ gone |-> document_to_word_freqs_[id]]
      PROVE  WordsAreKept'
  BY <1>2 DEF WordsAreKept
<1>3. ASSUME NEW id \in AnyId, NEW doc \in Submission, AddDocument(id, doc) PROVE WordsAreKept'
  <2> DEFINE words == SplitIntoWordsNoStop(doc.text) old == At(document_to_word_freqs_, id, Empty)
             new == [w \in DOMAIN old \cup Elements(words) |-> At(old, w, 0) + Freq(words, w)]
  <2>1. CASE Enter(id, words, doc) /\ words # <<>>
    <3>1. document_to_word_freqs_' = With(document_to_word_freqs_, id, new)
      BY <2>1 DEF Enter
    <3>2. Elements(words) # {}
      <4>1. words \in Seq(Word \cup {BadWord})
        BY SearchServerAssumption, WordsAreASequence
      <4> HIDE DEF words
      <4>2. 1 \in DOMAIN words
        BY <2>1, <4>1
      <4> QED BY <4>2 DEF Elements
    <3>3. DOMAIN new # {}
      BY <3>2
    <3> HIDE DEF new
    <3> QED BY <3>1, <3>3 DEF With, WordsAreKept
  <2>2. CASE Enter(id, words, doc) /\ words = <<>>
    BY <2>2 DEF Enter, WordsAreKept
  <2> QED BY <1>1, <1>3, <2>1, <2>2 DEF AddDocument, Throw
<1>4. ASSUME NEW id, RemoveDocument(id) PROVE WordsAreKept'
  BY <1>1, <1>2, <1>4 DEF RemoveDocument, Remove, Erased
<1> QED
  BY <1>1, <1>3, <1>4, ServerSteps

DocumentsInv == DocumentsAreKept /\ WordsAreKept

LEMMA UnchangedDocuments ==
  ASSUME UNCHANGED serverVars
  PROVE  Documents' = Documents
BY DEF serverVars, Documents

LEMMA DocumentsOfServer ==
  /\ DOMAIN Documents = DOMAIN document_ratings_status_
  /\ \A d \in DOMAIN Documents :
        Documents[d] = [words  |-> At(document_to_word_freqs_, d, Empty),
                        rating |-> document_ratings_status_[d].rating,
                        status |-> document_ratings_status_[d].status]
  /\ Documents = [d \in DOMAIN Documents |-> Documents[d]]
BY DEF Documents

LEMMA AddIsAdd ==
  ASSUME DocumentsInv, NEW id \in AnyId, NEW doc \in Submission,
         id >= 0, id \notin DOMAIN document_ratings_status_,
         Enter(id, SplitIntoWordsNoStop(doc.text), doc)
  PROVE  Promised!Add(id)
<1> DEFINE words == SplitIntoWordsNoStop(doc.text)
           counted == [w \in Elements(words) |-> 0 + Freq(words, w)]
<1>1. doc \in [text : Seq(Word \cup {BadWord}), status : Status, ratings : Seq(Int)] /\ id \in Int
  BY SearchServerAssumption
<1>2. words \in Seq(Word \cup {BadWord}) /\ (words # <<>> => Scale % Len(words) = 0)
  <2>1. words \in Seq(Word \cup {BadWord})
    BY <1>1, WordsAreASequence
  <2>2. LET n == Len(words) IN n > 0 => Scale % n = 0
    BY ScaleAssumption
  <2> HIDE DEF words
  <2> QED BY <2>1, <2>2
<1>3. id \notin DOMAIN document_to_word_freqs_
  BY DEF DocumentsInv, DocumentsAreKept, IdsAreNatural, IndexesAgree
<1> DEFINE new == [rating |-> ComputeAverageRating(doc.ratings), status |-> doc.status]
           d2w == document_to_word_freqs_
           rs == document_ratings_status_
<1>4. rs' = With(rs, id, new) /\ outcome' = "ok"
  BY DEF Enter
<1>5. words # <<>> => d2w' = With(d2w, id, counted)
  <2> SUFFICES ASSUME words # <<>> PROVE d2w' = With(d2w, id, counted)
    OBVIOUS
  <2>1. d2w' = With(d2w, id, [w \in DOMAIN Empty \cup Elements(words) |-> At(Empty, w, 0) + Freq(words, w)])
    BY <1>3 DEF Enter, At
  <2>2. DOMAIN Empty \cup Elements(words) = Elements(words) /\ \A w : At(Empty, w, 0) = 0
    BY DEF At, Empty
  <2>3. [w \in DOMAIN Empty \cup Elements(words) |-> At(Empty, w, 0) + Freq(words, w)] = counted
    BY <2>2
  <2> QED BY <2>1, <2>3
<1>6. words = <<>> => d2w' = d2w
  BY DEF Enter
<1>7. new.rating \in Int /\ new.status \in Status
  BY <1>1, AverageIsANumber
<1>8. words # <<>> => Promised!Total(counted) = Scale
  <2> HIDE DEF words
  <2> QED BY <1>2, FrequenciesAddUp
<1> HIDE DEF counted, new, words
<1>9. /\ DOMAIN rs' = DOMAIN rs \cup {id} /\ rs'[id] = new
      /\ \A d \in DOMAIN rs : rs'[d] = rs[d]
  BY <1>4 DEF With
<1>10. \A d \in DOMAIN rs : At(d2w', d, Empty) = At(d2w, d, Empty)
  BY <1>5, <1>6 DEF With, At
<1>11. /\ words # <<>> => At(d2w', id, Empty) = counted
       /\ words = <<>> => At(d2w', id, Empty) = Empty
  BY <1>3, <1>5, <1>6 DEF With, At
<1> HIDE DEF d2w, rs
<1>12. /\ DOMAIN Documents' = DOMAIN rs'
       /\ \A d \in DOMAIN rs' :
             Documents'[d] = [words |-> At(d2w', d, Empty), rating |-> rs'[d].rating, status |-> rs'[d].status]
  BY DEF Documents, d2w, rs
<1>13. DOMAIN Documents = DOMAIN rs
       /\ \A d \in DOMAIN rs :
             Documents[d] = [words |-> At(d2w, d, Empty), rating |-> rs[d].rating, status |-> rs[d].status]
  BY DEF Documents, d2w, rs
<1>14. id \in Nat \ DOMAIN Documents
  BY <1>1, <1>13 DEF rs
<1>15. DOMAIN Documents' = DOMAIN Documents \cup {id}
  BY <1>9, <1>12, <1>13
<1>16. \A d \in DOMAIN Documents : Documents'[d] = Documents[d]
  BY <1>9, <1>10, <1>12, <1>13
<1>17. /\ Documents'[id].words = At(d2w', id, Empty)
       /\ Documents'[id].rating = new.rating /\ Documents'[id].status = new.status
  <2>1. id \in DOMAIN rs' /\ rs'[id] = new
    BY <1>9
  <2>2. Documents'[id] = [words |-> At(d2w', id, Empty), rating |-> new.rating, status |-> new.status]
    BY <1>12, <2>1
  <2> QED BY <2>2
<1>18. DOMAIN Documents'[id].words # {} => Promised!Total(Documents'[id].words) = Scale
  <2>1. DOMAIN Empty = {}
    BY DEF Empty
  <2> QED BY <1>8, <1>11, <1>17, <2>1
<1> QED BY <1>4, <1>7, <1>14, <1>15, <1>16, <1>17, <1>18 DEF Promised!Add

LEMMA RemoveIsRemove ==
  ASSUME DocumentsInv, NEW ids, NEW gone,
         gone = ids \cap DOMAIN document_to_word_freqs_,
         document_to_word_freqs_' =
           [id \in DOMAIN document_to_word_freqs_ \ gone |-> document_to_word_freqs_[id]],
         document_ratings_status_' =
           [id \in DOMAIN document_ratings_status_ \ gone |-> document_ratings_status_[id]],
         outcome' = "ok"
  PROVE  Promised!Remove(ids)
<1> DEFINE d2w == document_to_word_freqs_ rs == document_ratings_status_
<1>1. DOMAIN d2w \subseteq DOMAIN rs
  BY DEF DocumentsInv, DocumentsAreKept, IdsAreNatural, IndexesAgree
<1>2. {l \in ids \cap DOMAIN rs : DOMAIN At(d2w, l, Empty) # {}} = gone
  BY <1>1 DEF DocumentsInv, WordsAreKept, At, Empty
<1>3. /\ DOMAIN rs' = DOMAIN rs \ gone /\ \A d \in DOMAIN rs' : rs'[d] = rs[d]
      /\ \A d \in DOMAIN rs' : At(d2w', d, Empty) = At(d2w, d, Empty)
  BY DEF At
<1> HIDE DEF d2w, rs
<1>4. /\ DOMAIN Documents' = DOMAIN rs'
      /\ \A d \in DOMAIN rs' :
            Documents'[d] = [words |-> At(d2w', d, Empty), rating |-> rs'[d].rating, status |-> rs'[d].status]
      /\ Documents' = [d \in DOMAIN Documents' |-> Documents'[d]]
  BY DEF Documents, d2w, rs
<1>5. /\ DOMAIN Documents = DOMAIN rs
      /\ \A d \in DOMAIN rs :
            Documents[d] = [words |-> At(d2w, d, Empty), rating |-> rs[d].rating, status |-> rs[d].status]
  BY DEF Documents, d2w, rs
<1>6. DOMAIN Documents \ {l \in ids : DOMAIN Documents[l].words # {}} = DOMAIN Documents'
  BY <1>2, <1>3, <1>4, <1>5
<1>7. \A d \in DOMAIN Documents' : Documents'[d] = Documents[d]
  BY <1>3, <1>4, <1>5
<1>8. Documents' = [d \in DOMAIN Documents \ {l \in ids : DOMAIN Documents[l].words # {}} |-> Documents[d]]
  BY <1>4, <1>6, <1>7
<1> QED BY <1>8 DEF Promised!Remove

LEMMA StepIsPromised == DocumentsInv /\ [EngineNext]_engineVars => [Promised!Next]_(Promised!vars)
<1> SUFFICES ASSUME DocumentsInv, [EngineNext]_engineVars PROVE [Promised!Next]_(Promised!vars)
  OBVIOUS
<1>1. CASE UNCHANGED serverVars
  BY <1>1, UnchangedDocuments DEF Promised!Next, Promised!Ask
<1>2. ASSUME NEW id \in AnyId, NEW doc \in Submission, AddDocument(id, doc) PROVE Promised!Next
  <2>1. CASE UNCHANGED serverVars
    BY <2>1, UnchangedDocuments DEF Promised!Next, Promised!Ask
  <2>2. CASE ~(UNCHANGED serverVars)
    <3>1. Promised!Add(id)
      <4>1. id \in Int
        BY SearchServerAssumption
      <4> QED BY <1>2, <2>2, <4>1, AddIsAdd DEF AddDocument, Throw
    <3> QED BY <3>1 DEF Promised!Next
  <2> QED BY <2>1, <2>2
<1>3. ASSUME NEW id, RemoveDocument(id) PROVE Promised!Next
  <2>1. CASE id \notin DOMAIN document_to_word_freqs_
    BY <1>3, <2>1, UnchangedDocuments DEF RemoveDocument, Remove, Promised!Next, Promised!Ask
  <2>2. CASE id \in DOMAIN document_to_word_freqs_
    <3>1. Promised!Remove({id})
      <4>1. {id} = {id} \cap DOMAIN document_to_word_freqs_
        BY <2>2
      <4> QED BY <1>3, <2>2, <4>1, RemoveIsRemove DEF RemoveDocument, Remove, Erased
    <3>2. {id} \in SUBSET DOMAIN Documents
      BY <2>2, DocumentsOfServer DEF DocumentsInv, DocumentsAreKept, IdsAreNatural, IndexesAgree
    <3> QED BY <3>1, <3>2 DEF Promised!Next
  <2> QED BY <2>1, <2>2
<1> QED
  BY <1>1, <1>2, <1>3, ServerSteps

\* SearchServer, RequestQueue and RemoveDuplicates: whatever calls are made, a
\* document comes with the frequencies of its words, which add up to one, and
\* leaves when it is removed, but for those without words; no call changes any
\* other document.
THEOREM SearchImplementsDocuments == EngineSpec => ImplementsDocuments
<1>1. EngineInit => DocumentsInv
  BY InitKeepsDocuments DEF EngineInit, ServerInit, Empty, DocumentsInv, WordsAreKept
<1>2. DocumentsInv /\ [EngineNext]_engineVars => DocumentsInv'
  BY DocumentsStayKept, WordsStayKept DEF DocumentsInv, DocumentsAreKept, IdsAreNatural
<1>3. EngineInit => Promised!Init
  BY DEF EngineInit, ServerInit, Documents, Empty, Promised!Init
<1> QED
  BY <1>1, <1>2, <1>3, StepIsPromised, PTL DEF EngineSpec, ImplementsDocuments, Promised!Spec

(***************************************************************************)
(* Proofs about ConcurrentMap, for any threads, keys, amounts and number   *)
(* of buckets, and about ParallelFind, for any documents and any query.    *)
(* The strengthening for the map is that a thread that works on a bucket   *)
(* holds its mutex, and that what a thread has read is still there; for    *)
(* the search that what is added at a document is the sum over the words   *)
(* whose calls have stored, each of which is in one place.                 *)
(***************************************************************************)

\* A mutex is held by the thread that works on its bucket, and by no other.
HeldWhenWorking == \A t \in Thread, b \in Bucket : Works(t, b) <=> mutex_v_[b] = t

\* A reference refers to a value, and what was read of it is what it is.
ReadIsCurrent ==
  \A t \in Thread :
    /\ pc[t] \in {"referring", "loaded", "stored"} => access[t] \in DOMAIN map_v_[Idx(access[t])]
    /\ pc[t] = "loaded" => register[t] = map_v_[Idx(access[t])][access[t]]

\* BuildOrdinaryMap locks and merges only buckets that there are.
BuildsWithin == \A t \in Thread : pc[t] \in {"merging", "merged"} => i[t] \in Bucket

\* A key is in its own bucket only.
KeysInTheirBuckets == \A b \in Bucket : \A k \in DOMAIN map_v_[b] : Idx(k) = b

MapInv ==
  MapTypeOK /\ HeldWhenWorking /\ ReadIsCurrent /\ BuildsWithin /\ KeysInTheirBuckets /\ NoLostUpdate

\* Each key has a bucket: operator[] indexes inside its vectors.
LEMMA IdxInBucket ==
  ASSUME MapAssumption PROVE \A key \in Key : Idx(key) \in Bucket
<1> SUFFICES ASSUME NEW key \in Key PROVE Idx(key) \in Bucket
  OBVIOUS
<1>1. key \in Int /\ bucket_count \in Nat \ {0}
  BY DEF MapAssumption
<1>2. abs(key) \in Nat
  BY <1>1 DEF abs
<1> QED
  BY <1>1, <1>2 DEF Idx, Bucket

\* What operator[] and an assignment make of a map.
LEMMA WithIsMap ==
  ASSUME NEW f, IsMap(f), NEW k \in Key, NEW v \in Int
  PROVE  /\ IsMap(With(f, k, v)) /\ DOMAIN With(f, k, v) = DOMAIN f \cup {k}
         /\ With(f, k, v)[k] = v
         /\ \A l \in DOMAIN f : l # k => With(f, k, v)[l] = f[l]
BY DEF IsMap, With

LEMMA AtWith ==
  ASSUME NEW f, NEW k, NEW v, NEW l
  PROVE  At(With(f, k, v), l, 0) = IF l = k THEN v ELSE At(f, l, 0)
BY DEF With, At

LEMMA AtIsInt ==
  ASSUME NEW f, IsMap(f), NEW l
  PROVE  At(f, l, 0) \in Int
BY DEF IsMap, At

\* What a merge leaves, and what it takes.
LEMMA RemainingIsMap ==
  ASSUME NEW f, IsMap(f), NEW g
  PROVE  /\ IsMap(Remaining(g, f))
         /\ \A k \in Key : At(Remaining(g, f), k, 0) =
                             IF k \in DOMAIN f \ DOMAIN g THEN 0 ELSE At(f, k, 0)
BY DEF IsMap, Remaining, At

LEMMA InitMapInv ==
  ASSUME MapAssumption PROVE MapInit => MapInv
<1> SUFFICES ASSUME MapInit PROVE MapInv
  OBVIOUS
<1> USE DEF MapAssumption
<1>1. IsMap(Empty) /\ DOMAIN Empty = {}
  BY DEF IsMap, Empty
<1>2. MapTypeOK
  BY <1>1 DEF MapTypeOK, MapInit, Bucket
<1>3. HeldWhenWorking
  BY DEF HeldWhenWorking, MapInit, Works
<1>4. ReadIsCurrent /\ BuildsWithin
  BY DEF ReadIsCurrent, BuildsWithin, MapInit
<1>5. KeysInTheirBuckets /\ NoLostUpdate
  BY <1>1, IdxInBucket DEF KeysInTheirBuckets, NoLostUpdate, MapInit, At
<1> QED
  BY <1>2, <1>3, <1>4, <1>5 DEF MapInv

\* Each step is shown to keep each conjunct; the ones that write a bucket do so
\* while no other thread works on it.
LEMMA LockKeeps ==
  ASSUME MapAssumption, MapInv, NEW t \in Thread, NEW key \in Key, Lock(t, key)
  PROVE  MapInv'
<1> USE DEF MapInv
<1>0. Idx(key) \in Bucket /\ Idx(access[t]) \in Bucket
  BY IdxInBucket DEF MapTypeOK
<1>1. MapTypeOK'
  BY <1>0 DEF MapTypeOK, Lock, Goto, Acquire, IsMap
<1>2. HeldWhenWorking'
  <2>1. pc'[t] = "locked" /\ access'[t] = key /\ mutex_v_'[Idx(key)] = t
    BY <1>0 DEF MapTypeOK, Lock, Goto, Acquire
  <2>2. \A u \in Thread : u # t => pc'[u] = pc[u] /\ access'[u] = access[u] /\ i'[u] = i[u]
    BY DEF MapTypeOK, Lock, Goto
  <2>3. \A b \in Bucket : b # Idx(key) => mutex_v_'[b] = mutex_v_[b]
    BY DEF MapTypeOK, Lock, Acquire
  <2>4. mutex_v_[Idx(key)] = Free /\ ~\E b \in Bucket : mutex_v_[b] = t
    BY DEF Lock, Acquire, Goto, HeldWhenWorking, Works
  <2> QED
    BY <1>0, <2>1, <2>2, <2>3, <2>4 DEF MapAssumption, HeldWhenWorking, Works
<1>3. ReadIsCurrent' /\ BuildsWithin'
  BY DEF MapTypeOK, Lock, Goto, ReadIsCurrent, BuildsWithin
<1>4. KeysInTheirBuckets' /\ NoLostUpdate'
  BY DEF KeysInTheirBuckets, Lock, NoLostUpdate
<1> QED
  BY <1>1, <1>2, <1>3, <1>4

\* Two threads never work on one bucket.
LEMMA Alone ==
  ASSUME MapInv, NEW t \in Thread, NEW u \in Thread, t # u, NEW b \in Bucket, Works(t, b)
  PROVE  ~Works(u, b)
BY DEF MapInv, HeldWhenWorking

\* A step that locks and unlocks nothing leaves each thread its bucket.
LEMMA SameWorkKeepsHeld ==
  ASSUME MapInv, NEW t \in Thread, mutex_v_' = mutex_v_,
         \A b \in Bucket : Works(t, b)' <=> Works(t, b),
         \A u \in Thread : u # t => pc'[u] = pc[u] /\ access'[u] = access[u] /\ i'[u] = i[u]
  PROVE  HeldWhenWorking'
<1>1. \A u \in Thread, b \in Bucket : Works(u, b)' <=> Works(u, b)
  BY DEF Works
<1> QED
  BY <1>1 DEF MapInv, HeldWhenWorking

\* A step that writes the value of the key of its thread's Access: the bucket
\* is its own, so that other threads see their values unchanged.
Write(t, v, target) ==
  /\ pc[t] \in {"locked", "loaded"} /\ target \in {"referring", "stored"}
  /\ pc' = [pc EXCEPT ![t] = target]
  /\ map_v_' = [map_v_ EXCEPT ![Idx(access[t])] = With(map_v_[Idx(access[t])], access[t], v)]
  /\ UNCHANGED <<mutex_v_, access, register, i, m>>
  /\ added' \in [Key -> Int] /\ taken' \in [Key -> Int]

LEMMA WriteKeeps ==
  ASSUME MapAssumption, MapInv, NEW t \in Thread, NEW v \in Int, NEW target, Write(t, v, target)
  PROVE  MapTypeOK' /\ HeldWhenWorking' /\ ReadIsCurrent' /\ BuildsWithin' /\ KeysInTheirBuckets'
<1> USE DEF MapInv, Write
<1> DEFINE key == access[t] bucket == map_v_[Idx(key)]
<1> HIDE DEF key, bucket
<1>1. key \in Key /\ Idx(key) \in Bucket /\ IsMap(bucket)
  BY IdxInBucket DEF MapTypeOK, key, bucket
<1>2. /\ IsMap(With(bucket, key, v)) /\ DOMAIN With(bucket, key, v) = DOMAIN bucket \cup {key}
  BY <1>1, WithIsMap
<1>3. map_v_'[Idx(key)] = With(bucket, key, v) /\ \A b \in Bucket : b # Idx(key) => map_v_'[b] = map_v_[b]
  BY <1>1 DEF MapTypeOK, key, bucket
<1>4. MapTypeOK'
  <2>1. DOMAIN map_v_' = Bucket /\ map_v_' = [b \in Bucket |-> map_v_'[b]]
    BY DEF MapTypeOK
  <2>2. \A b \in Bucket : IsMap(map_v_'[b])
    BY <1>2, <1>3 DEF MapTypeOK
  <2>4. pc' \in [Thread -> {"idle", "locked", "referring", "loaded", "stored",
                           "building", "merging", "merged"}]
    BY DEF MapTypeOK
  <2> QED
    BY <2>1, <2>2, <2>4 DEF MapTypeOK, IsMap
<1>5. HeldWhenWorking'
  <2>1. \A b \in Bucket : Works(t, b)' <=> Works(t, b)
    BY DEF Works, MapTypeOK
  <2>2. \A u \in Thread : u # t => pc'[u] = pc[u] /\ access'[u] = access[u] /\ i'[u] = i[u]
    BY DEF MapTypeOK
  <2> QED
    BY <2>1, <2>2, SameWorkKeepsHeld
<1>6. ReadIsCurrent'
  <2> SUFFICES ASSUME NEW u \in Thread
               PROVE  /\ pc'[u] \in {"referring", "loaded", "stored"} =>
                           access[u] \in DOMAIN map_v_'[Idx(access[u])]
                      /\ pc'[u] = "loaded" => register[u] = map_v_'[Idx(access[u])][access[u]]
    BY DEF ReadIsCurrent
  <2>1. CASE u = t
    BY <2>1, <1>1, <1>2, <1>3 DEF MapTypeOK, key
  <2>2. CASE u # t /\ pc[u] \in {"referring", "loaded", "stored"}
    <3>1. Idx(access[u]) \in Bucket
      BY IdxInBucket DEF MapTypeOK
    <3>2. Works(t, Idx(key)) /\ Works(u, Idx(access[u]))
      BY <2>2 DEF Works, key
    <3>3. Idx(access[u]) # Idx(key)
      BY <1>1, <3>1, <3>2, <2>2, Alone
    <3> QED
      BY <3>1, <3>3, <2>2, <1>3 DEF MapTypeOK, ReadIsCurrent
  <2> QED
    BY <2>1, <2>2 DEF MapTypeOK
<1>7. BuildsWithin'
  BY DEF BuildsWithin, MapTypeOK
<1>8. KeysInTheirBuckets'
  BY <1>1, <1>2, <1>3 DEF KeysInTheirBuckets, bucket
<1> QED
  BY <1>4, <1>5, <1>6, <1>7, <1>8

LEMMA ReferKeeps ==
  ASSUME MapAssumption, MapInv, NEW t \in Thread, Refer(t)
  PROVE  MapInv'
<1> USE DEF MapInv
<1> DEFINE key == access[t] bucket == map_v_[Idx(key)] v == At(bucket, key, 0)
<1> HIDE DEF key, bucket, v
<1>1. key \in Key /\ Idx(key) \in Bucket /\ IsMap(bucket)
  BY IdxInBucket DEF MapTypeOK, key, bucket
<1>2. v \in Int
  BY <1>1, AtIsInt DEF v
<1>3. MapTypeOK' /\ HeldWhenWorking' /\ ReadIsCurrent' /\ BuildsWithin' /\ KeysInTheirBuckets'
  <2>1. pc[t] = "locked" /\ pc' = [pc EXCEPT ![t] = "referring"]
    BY DEF Refer, Goto
  <2>2. map_v_' = [map_v_ EXCEPT ![Idx(access[t])] = With(@, access[t], v)]
    BY DEF Refer, key, bucket, v
  <2>3. UNCHANGED <<mutex_v_, access, register, i, m, added, taken>>
    BY DEF Refer
  <2>4. Write(t, v, "referring")
    BY <1>1, <2>1, <2>2, <2>3 DEF Write, MapTypeOK, key, bucket
  <2> QED
    BY <1>2, <2>4, WriteKeeps
<1>4. NoLostUpdate'
  <2>1. \A k \in Key : At(map_v_'[Idx(k)], k, 0) = At(map_v_[Idx(k)], k, 0)
    <3> SUFFICES ASSUME NEW k \in Key PROVE At(map_v_'[Idx(k)], k, 0) = At(map_v_[Idx(k)], k, 0)
      OBVIOUS
    <3>1. At(With(bucket, key, v), k, 0) = IF k = key THEN v ELSE At(bucket, k, 0)
      BY AtWith
    <3>2. Idx(k) \in Bucket
      BY IdxInBucket
    <3> QED
      BY <1>1, <3>1, <3>2 DEF Refer, MapTypeOK, key, bucket, v
  <2> QED
    BY <2>1 DEF Refer, NoLostUpdate
<1> QED
  BY <1>3, <1>4

LEMMA StoreKeeps ==
  ASSUME MapAssumption, MapInv, NEW t \in Thread, NEW amount \in Int, Store(t, amount)
  PROVE  MapInv'
<1> USE DEF MapInv
<1> DEFINE key == access[t] bucket == map_v_[Idx(key)] v == register[t] + amount
<1> HIDE DEF key, bucket, v
<1>1. key \in Key /\ Idx(key) \in Bucket /\ IsMap(bucket)
  BY IdxInBucket DEF MapTypeOK, key, bucket
<1>2. v \in Int /\ amount \in Int
  BY DEF MapAssumption, MapTypeOK, v
<1>3. MapTypeOK' /\ HeldWhenWorking' /\ ReadIsCurrent' /\ BuildsWithin' /\ KeysInTheirBuckets'
  <2>1. pc[t] = "loaded" /\ pc' = [pc EXCEPT ![t] = "stored"]
    BY DEF Store, Goto
  <2>2. map_v_' = [map_v_ EXCEPT ![Idx(access[t])] = With(@, access[t], v)]
    BY DEF Store, key, bucket, v
  <2>3. UNCHANGED <<mutex_v_, access, register, i, m, taken>>
    BY DEF Store
  <2>4. added' \in [Key -> Int] /\ taken' \in [Key -> Int]
    BY <1>1, <1>2 DEF Store, MapTypeOK, key
  <2>5. Write(t, v, "stored")
    BY <1>1, <2>1, <2>2, <2>3, <2>4 DEF Write, MapTypeOK, key, bucket
  <2> QED
    BY <1>2, <2>5, WriteKeeps
<1>4. NoLostUpdate'
  <2>1. v = At(bucket, key, 0) + amount
    BY DEF Store, Goto, ReadIsCurrent, At, key, bucket, v
  <2> SUFFICES ASSUME NEW k \in Key PROVE At(map_v_'[Idx(k)], k, 0) + taken[k] = added'[k]
    BY DEF Store, NoLostUpdate
  <2>2. At(With(bucket, key, v), k, 0) = IF k = key THEN v ELSE At(bucket, k, 0)
    BY AtWith
  <2>3. Idx(k) \in Bucket /\ At(map_v_[Idx(k)], k, 0) + taken[k] = added[k]
    BY IdxInBucket DEF NoLostUpdate
  <2>4. At(map_v_'[Idx(k)], k, 0) = IF k = key THEN v ELSE At(map_v_[Idx(k)], k, 0)
    BY <1>1, <2>2, <2>3 DEF Store, MapTypeOK, key, bucket, v
  <2>5. added'[k] = IF k = key THEN added[k] + amount ELSE added[k]
    BY <1>1 DEF Store, MapTypeOK, key
  <2>6. At(bucket, key, 0) \in Int /\ taken[k] \in Int /\ added[k] \in Int
    BY <1>1, AtIsInt DEF MapTypeOK, key, bucket
  <2> QED
    BY <1>2, <2>1, <2>3, <2>4, <2>5, <2>6 DEF bucket
<1> QED
  BY <1>3, <1>4

LEMMA LoadKeeps ==
  ASSUME MapAssumption, MapInv, NEW t \in Thread, Load(t)
  PROVE  MapInv'
<1> USE DEF MapInv
<1>1. access[t] \in Key /\ Idx(access[t]) \in Bucket /\ access[t] \in DOMAIN map_v_[Idx(access[t])]
  BY IdxInBucket DEF MapTypeOK, Load, Goto, ReadIsCurrent
<1>2. MapTypeOK'
  BY <1>1 DEF MapTypeOK, Load, Goto, IsMap
<1>3. HeldWhenWorking'
  <2>1. \A b \in Bucket : Works(t, b)' <=> Works(t, b)
    BY DEF Works, MapTypeOK, Load, Goto
  <2>2. \A u \in Thread : u # t => pc'[u] = pc[u] /\ access'[u] = access[u] /\ i'[u] = i[u]
    BY DEF MapTypeOK, Load, Goto
  <2> QED
    BY <2>1, <2>2, SameWorkKeepsHeld DEF Load
<1>4. ReadIsCurrent' /\ BuildsWithin'
  BY <1>1 DEF ReadIsCurrent, BuildsWithin, MapTypeOK, Load, Goto
<1>5. KeysInTheirBuckets' /\ NoLostUpdate'
  BY DEF KeysInTheirBuckets, NoLostUpdate, Load
<1> QED
  BY <1>2, <1>3, <1>4, <1>5

\* A step after which the thread works on no bucket, and its mutex is free.
LEMMA ReleaseKeepsHeld ==
  ASSUME MapAssumption, MapInv, NEW t \in Thread, NEW b \in Bucket, Works(t, b), Release(b),
         \A c \in Bucket : ~Works(t, c)',
         \A u \in Thread : u # t => pc'[u] = pc[u] /\ access'[u] = access[u] /\ i'[u] = i[u]
  PROVE  HeldWhenWorking'
<1> SUFFICES ASSUME NEW u \in Thread, NEW c \in Bucket
             PROVE  Works(u, c)' <=> mutex_v_'[c] = u
  BY DEF HeldWhenWorking
<1>1. mutex_v_[b] = t /\ (Works(u, c) <=> mutex_v_[c] = u) /\ (Works(t, c) <=> mutex_v_[c] = t)
  BY DEF MapInv, HeldWhenWorking
<1>2. mutex_v_'[c] = IF c = b THEN Free ELSE mutex_v_[c]
  BY DEF MapInv, MapTypeOK, Release
<1>3. CASE u = t
  <2>1. c # b => ~Works(t, c)
    BY DEF Works
  <2> QED
    BY <1>1, <1>2, <1>3, <2>1 DEF MapAssumption
<1>4. CASE u # t
  <2>1. Works(u, c)' <=> Works(u, c)
    BY <1>4 DEF Works
  <2> QED
    BY <1>1, <1>2, <1>4, <2>1 DEF MapAssumption
<1> QED
  BY <1>3, <1>4

LEMMA UnlockKeeps ==
  ASSUME MapAssumption, MapInv, NEW t \in Thread, Unlock(t)
  PROVE  MapInv'
<1> USE DEF MapInv
<1>1. Idx(access[t]) \in Bucket
  BY IdxInBucket DEF MapTypeOK
<1>2. MapTypeOK'
  BY <1>1 DEF MapTypeOK, Unlock, Release, IsMap
<1>3. HeldWhenWorking'
  <2>1. Works(t, Idx(access[t])) /\ \A c \in Bucket : ~Works(t, c)'
    BY DEF Works, MapTypeOK, Unlock
  <2>2. \A u \in Thread : u # t => pc'[u] = pc[u] /\ access'[u] = access[u] /\ i'[u] = i[u]
    BY DEF MapTypeOK, Unlock
  <2> QED
    BY <1>1, <2>1, <2>2, ReleaseKeepsHeld DEF Unlock
<1>4. ReadIsCurrent' /\ BuildsWithin'
  BY DEF ReadIsCurrent, BuildsWithin, MapTypeOK, Unlock
<1>5. KeysInTheirBuckets' /\ NoLostUpdate'
  BY DEF KeysInTheirBuckets, NoLostUpdate, Unlock
<1> QED
  BY <1>2, <1>3, <1>4, <1>5

\* BuildOrdinaryMap: beginning, going on and returning lock nothing.
LEMMA BuildKeeps ==
  ASSUME MapAssumption, MapInv, NEW t \in Thread, Build(t) \/ Return(t)
  PROVE  MapInv'
<1> USE DEF MapInv
<1>1. MapTypeOK'
  <2>1. /\ UNCHANGED <<map_v_, mutex_v_, access, register, added, taken>>
        /\ i' \in [Thread -> 0 .. bucket_count] /\ DOMAIN m' = Thread
    BY DEF MapAssumption, MapTypeOK, Build, Return
  <2>2. pc' \in [Thread -> {"idle", "locked", "referring", "loaded", "stored",
                           "building", "merging", "merged"}]
    BY DEF MapTypeOK, Build, Return, Goto
  <2> QED
    BY <2>1, <2>2 DEF MapTypeOK, IsMap
<1>2. HeldWhenWorking'
  <2>1. \A b \in Bucket : Works(t, b)' <=> Works(t, b)
    BY DEF Works, MapTypeOK, Build, Return, Goto
  <2>2. \A u \in Thread : u # t => pc'[u] = pc[u] /\ access'[u] = access[u] /\ i'[u] = i[u]
    BY DEF MapTypeOK, Build, Return, Goto
  <2> QED
    BY <2>1, <2>2, SameWorkKeepsHeld DEF Build, Return
<1>3. ReadIsCurrent' /\ BuildsWithin'
  BY DEF ReadIsCurrent, BuildsWithin, MapTypeOK, Build, Return, Goto
<1>4. KeysInTheirBuckets' /\ NoLostUpdate'
  BY DEF KeysInTheirBuckets, NoLostUpdate, Build, Return
<1> QED
  BY <1>1, <1>2, <1>3, <1>4

LEMMA BuildLockKeeps ==
  ASSUME MapAssumption, MapInv, NEW t \in Thread, BuildLock(t)
  PROVE  MapInv'
<1> USE DEF MapInv
<1>0. i[t] \in Bucket
  BY DEF MapAssumption, MapTypeOK, BuildLock, Bucket
<1>1. MapTypeOK'
  BY <1>0 DEF MapTypeOK, BuildLock, Goto, Acquire, IsMap
<1>2. HeldWhenWorking'
  <2>1. pc'[t] = "merging" /\ mutex_v_'[i[t]] = t
    BY <1>0 DEF MapTypeOK, BuildLock, Goto, Acquire
  <2>2. \A u \in Thread : u # t => pc'[u] = pc[u]
    BY DEF MapTypeOK, BuildLock, Goto
  <2>3. \A b \in Bucket : b # i[t] => mutex_v_'[b] = mutex_v_[b]
    BY DEF MapTypeOK, BuildLock, Acquire
  <2>4. mutex_v_[i[t]] = Free /\ ~\E b \in Bucket : mutex_v_[b] = t
    BY DEF BuildLock, Acquire, Goto, HeldWhenWorking, Works
  <2>5. UNCHANGED <<access, i>>
    BY DEF BuildLock
  <2> QED
    BY <1>0, <2>1, <2>2, <2>3, <2>4, <2>5 DEF MapAssumption, HeldWhenWorking, Works
<1>3. ReadIsCurrent' /\ BuildsWithin'
  BY <1>0 DEF MapTypeOK, BuildLock, Goto, ReadIsCurrent, BuildsWithin
<1>4. KeysInTheirBuckets' /\ NoLostUpdate'
  BY DEF KeysInTheirBuckets, BuildLock, NoLostUpdate
<1> QED
  BY <1>1, <1>2, <1>3, <1>4

\* The bucket is emptied while no other thread refers to a value in it.
LEMMA MergeKeeps ==
  ASSUME MapAssumption, MapInv, NEW t \in Thread, Merge(t)
  PROVE  MapInv'
<1> USE DEF MapInv
<1> DEFINE bucket == map_v_[i[t]]
<1>1. i[t] \in Bucket /\ IsMap(bucket)
  BY DEF MapTypeOK, Merge, Goto, BuildsWithin
<1>2. map_v_'[i[t]] = Remaining(m[t], bucket) /\ \A b \in Bucket : b # i[t] => map_v_'[b] = map_v_[b]
  BY <1>1 DEF MapTypeOK, Merge
<1>3. /\ \A k \in Key : taken'[k] = IF k \in DOMAIN bucket \ DOMAIN m[t]
                                    THEN taken[k] + bucket[k] ELSE taken[k]
      /\ taken' = [k \in Key |-> taken'[k]]
  BY DEF Merge
<1> HIDE DEF bucket
<1>4. MapTypeOK'
  <2>1. DOMAIN map_v_' = Bucket /\ map_v_' = [b \in Bucket |-> map_v_'[b]]
    BY DEF MapTypeOK, Merge
  <2>2. \A b \in Bucket : IsMap(map_v_'[b])
    <3>1. IsMap(Remaining(m[t], bucket))
      BY <1>1, RemainingIsMap
    <3> QED
      BY <1>2, <3>1 DEF MapTypeOK
  <2>3. taken' \in [Key -> Int]
    BY <1>1, <1>3 DEF MapTypeOK, IsMap
  <2>4. pc' \in [Thread -> {"idle", "locked", "referring", "loaded", "stored",
                           "building", "merging", "merged"}]
    BY DEF MapTypeOK, Merge, Goto
  <2> QED
    BY <2>1, <2>2, <2>3, <2>4 DEF MapTypeOK, IsMap, Merge
<1>5. HeldWhenWorking'
  <2>1. \A b \in Bucket : Works(t, b)' <=> Works(t, b)
    BY DEF Works, MapTypeOK, Merge, Goto
  <2>2. \A u \in Thread : u # t => pc'[u] = pc[u] /\ access'[u] = access[u] /\ i'[u] = i[u]
    BY DEF MapTypeOK, Merge, Goto
  <2> QED
    BY <2>1, <2>2, SameWorkKeepsHeld DEF Merge
<1>6. ReadIsCurrent'
  <2> SUFFICES ASSUME NEW u \in Thread, pc'[u] \in {"referring", "loaded", "stored"}
               PROVE  map_v_'[Idx(access[u])] = map_v_[Idx(access[u])]
    BY DEF ReadIsCurrent, Merge, Goto, MapTypeOK
  <2>1. u # t /\ pc[u] \in {"referring", "loaded", "stored"}
    BY DEF Merge, Goto, MapTypeOK
  <2>2. Idx(access[u]) \in Bucket
    BY IdxInBucket DEF MapTypeOK
  <2>3. Works(t, i[t]) /\ Works(u, Idx(access[u]))
    BY <2>1 DEF Works, Merge, Goto
  <2>4. Idx(access[u]) # i[t]
    BY <1>1, <2>1, <2>2, <2>3, Alone
  <2> QED
    BY <1>2, <2>2, <2>4
<1>7. BuildsWithin'
  BY DEF BuildsWithin, MapTypeOK, Merge, Goto
<1>8. NoLostUpdate'
  <2> SUFFICES ASSUME NEW k \in Key PROVE At(map_v_'[Idx(k)], k, 0) + taken'[k] = added[k]
    BY DEF Merge, NoLostUpdate
  <2>1. At(map_v_[Idx(k)], k, 0) + taken[k] = added[k] /\ taken[k] \in Int /\ Idx(k) \in Bucket
    BY IdxInBucket DEF NoLostUpdate, MapTypeOK
  <2>2. CASE Idx(k) = i[t]
    <3>1. At(Remaining(m[t], bucket), k, 0) =
            IF k \in DOMAIN bucket \ DOMAIN m[t] THEN 0 ELSE At(bucket, k, 0)
      BY <1>1, RemainingIsMap
    <3>2. k \in DOMAIN bucket => At(bucket, k, 0) = bucket[k] /\ bucket[k] \in Int
      BY <1>1 DEF At, IsMap
    <3> QED
      BY <1>2, <1>3, <2>1, <2>2, <3>1, <3>2 DEF bucket
  <2>3. CASE Idx(k) # i[t]
    <3>1. k \notin DOMAIN bucket
      BY <1>1, <2>3 DEF KeysInTheirBuckets, bucket
    <3> QED
      BY <1>2, <1>3, <2>1, <2>3, <3>1
  <2> QED
    BY <2>2, <2>3
<1>9. KeysInTheirBuckets'
  BY <1>1, <1>2 DEF KeysInTheirBuckets, Remaining, bucket
<1> QED
  BY <1>4, <1>5, <1>6, <1>7, <1>8, <1>9

LEMMA BuildUnlockKeeps ==
  ASSUME MapAssumption, MapInv, NEW t \in Thread, BuildUnlock(t)
  PROVE  MapInv'
<1> USE DEF MapInv
<1>1. i[t] \in Bucket /\ i[t] + 1 \in 0 .. bucket_count
  BY DEF MapAssumption, MapTypeOK, BuildUnlock, Goto, BuildsWithin, Bucket
<1>2. MapTypeOK'
  BY <1>1 DEF MapTypeOK, BuildUnlock, Goto, Release, IsMap
<1>3. HeldWhenWorking'
  <2>1. Works(t, i[t]) /\ \A c \in Bucket : ~Works(t, c)'
    BY DEF Works, MapTypeOK, BuildUnlock, Goto
  <2>2. \A u \in Thread : u # t => pc'[u] = pc[u] /\ access'[u] = access[u] /\ i'[u] = i[u]
    BY DEF MapTypeOK, BuildUnlock, Goto
  <2> QED
    BY <1>1, <2>1, <2>2, ReleaseKeepsHeld DEF BuildUnlock
<1>4. ReadIsCurrent' /\ BuildsWithin'
  BY DEF ReadIsCurrent, BuildsWithin, MapTypeOK, BuildUnlock, Goto
<1>5. KeysInTheirBuckets' /\ NoLostUpdate'
  BY DEF KeysInTheirBuckets, NoLostUpdate, BuildUnlock
<1> QED
  BY <1>2, <1>3, <1>4, <1>5

LEMMA NothingKeeps == MapInv /\ UNCHANGED mapVars => MapInv'
<1> SUFFICES ASSUME MapInv, UNCHANGED mapVars PROVE MapInv'
  OBVIOUS
<1>1. MapTypeOK'
  BY DEF mapVars, MapInv, MapTypeOK, IsMap
<1>2. HeldWhenWorking'
  BY DEF mapVars, MapInv, HeldWhenWorking, Works
<1>3. ReadIsCurrent' /\ BuildsWithin' /\ KeysInTheirBuckets' /\ NoLostUpdate'
  BY DEF mapVars, MapInv, ReadIsCurrent, BuildsWithin, KeysInTheirBuckets, NoLostUpdate
<1> QED
  BY <1>1, <1>2, <1>3 DEF MapInv

LEMMA MapInvInductive ==
  ASSUME MapAssumption PROVE MapInv /\ [MapNext]_mapVars => MapInv'
<1> SUFFICES ASSUME MapInv, [MapNext]_mapVars PROVE MapInv'
  OBVIOUS
<1>1. CASE UNCHANGED mapVars
  BY <1>1, NothingKeeps
<1>2. ASSUME NEW t \in Thread, Step(t) PROVE MapInv'
  <2>1. CASE Refer(t) \/ Load(t) \/ Unlock(t)
    BY <2>1, ReferKeeps, LoadKeeps, UnlockKeeps
  <2>2. ASSUME NEW amount \in Amount, Store(t, amount) PROVE MapInv'
    BY <2>2, StoreKeeps DEF MapAssumption
  <2>3. CASE BuildLock(t) \/ Merge(t)
    BY <2>3, BuildLockKeeps, MergeKeeps
  <2>4. CASE BuildUnlock(t)
    BY <2>4, BuildUnlockKeeps
  <2>5. CASE Return(t)
    BY <2>5, BuildKeeps
  <2> QED
    BY <1>2, <2>1, <2>2, <2>3, <2>4, <2>5 DEF Step
<1>3. ASSUME NEW t \in Thread, Build(t) PROVE MapInv'
  BY <1>3, BuildKeeps
<1>4. ASSUME NEW t \in Thread, NEW key \in Key, Lock(t, key) PROVE MapInv'
  BY <1>4, LockKeeps
<1> QED
  BY <1>1, <1>2, <1>3, <1>4 DEF MapNext

LEMMA MapInvAlways ==
  ASSUME MapAssumption PROVE MapSpec => []MapInv
BY InitMapInv, MapInvInductive, PTL DEF MapSpec

LEMMA MapInvSuffices == MapInv => MutualExclusion /\ NoLostUpdate
<1> SUFFICES ASSUME MapInv PROVE MutualExclusion
  BY DEF MapInv
<1> SUFFICES ASSUME NEW b \in Bucket
             PROVE  /\ \A t, u \in Thread : Works(t, b) /\ Works(u, b) => t = u
                    /\ mutex_v_[b] # Free => Works(mutex_v_[b], b)
  BY DEF MutualExclusion
<1>1. \A t \in Thread : Works(t, b) <=> mutex_v_[b] = t
  BY DEF MapInv, HeldWhenWorking
<1>2. mutex_v_[b] \in Thread \cup {Free}
  BY DEF MapInv, MapTypeOK
<1> QED
  BY <1>1, <1>2

\* ConcurrentMap::operator[], Access and BuildOrdinaryMap: however many threads
\* use the map, at most one works on a bucket.
THEOREM MapExcludes ==
  ASSUME MapAssumption PROVE MapSpec => []MutualExclusion
BY MapInvAlways, MapInvSuffices, PTL

\* ... and no addition made through an Access is lost or moved out twice, also
\* when BuildOrdinaryMap runs meanwhile.
THEOREM MapLosesNothing ==
  ASSUME MapAssumption PROVE MapSpec => []NoLostUpdate
BY MapInvAlways, MapInvSuffices, PTL

(***************************************************************************)
(* FindAllDocuments: what does not change while the threads run.           *)
(***************************************************************************)
\* The terms of the relevance of a document, added up over some words.
SumOver(index, n, id, S) ==
  FoldSet(LAMBDA w, sum : sum + index[w][id] * Log(n, Cardinality(DOMAIN index[w])), 0, S)
Part(k, S) == SumOver(word_to_document_freqs_, Cardinality(DOMAIN document_ratings_status_), k, S)

Wanted(k) == {w \in KnownWords(PlusWords(query)) : k \in IdsOf(w)}
Accepted(k) == Accepts(comparator, k, document_ratings_status_[k])
Found(k) == Accepted(k) /\ Wanted(k) # {}
Excluded(k) == k \in DocumentsOf(MinusWords(query))

AskedInv ==
  /\ query \in Query /\ ~IsBadQuery(query)
  /\ \A w \in DOMAIN word_to_document_freqs_ :
       IdsOf(w) \subseteq Key /\ \A k \in IdsOf(w) : Term(k, w) \in Int

\* The calls for the wanted words: each is in one place, and what a thread has
\* locked is the bucket of its document, which is to be added.
CallFor(w, k) == [word |-> w, ids |-> {k}]
WantedCalls == UNION {{CallFor(w, k) : k \in IdsOf(w)} : w \in KnownWords(PlusWords(query))}

CallsAreApart ==
  /\ todo \subseteq WantedCalls
  /\ doing = [t \in Thread |-> doing[t]]
  /\ \A t \in Thread :
       \/ doing[t] = None /\ pc[t] = "idle"
       \/ /\ doing[t] \in WantedCalls /\ doing[t] \notin todo
          /\ pc[t] \in {"idle", "locked", "referring", "loaded", "stored"}
          /\ pc[t] # "idle" => ShouldAdd(t) /\ access[t] = DocumentOf(t)
  /\ \A t, u \in Thread : doing[t] = doing[u] /\ doing[t] # None => t = u

\* The words whose part of the relevance of a document is added.
Pending(w, k) ==
  \/ CallFor(w, k) \in todo
  \/ \E t \in Thread : doing[t] = CallFor(w, k) /\ pc[t] # "stored"
Added(k) == {w \in Wanted(k) : ~Pending(w, k)}

AddedSoFar ==
  \A k \in Key :
    /\ Accepted(k) => added[k] = Part(k, Added(k))
    /\ taken[k] = 0
    /\ k \in DOMAIN map_v_[Idx(k)] => Found(k)
    /\ Accepted(k) /\ Added(k) # {} => k \in DOMAIN map_v_[Idx(k)]

PlusInv == CallsAreApart /\ AddedSoFar

\* BuildOrdinaryMap: what is in the buckets before i is in m, and the rest where
\* it was.
Moved(k) == Idx(k) < i[Main] \/ (Idx(k) = i[Main] /\ pc[Main] = "merged")
IsRelevance(f, k) ==
  (k \in DOMAIN f <=> Found(k)) /\ (Found(k) => f[k] = Part(k, Wanted(k)))

BuildInv ==
  /\ todo = {} /\ doing = [t \in Thread |-> None]
  /\ \A t \in Thread \ {Main} : pc[t] = "idle"
  /\ pc[Main] \in {"building", "merging", "merged"}
  /\ m[Main] = [k \in DOMAIN m[Main] |-> m[Main][k]] /\ DOMAIN m[Main] \subseteq Key
  /\ \A k \in Key :
       IF Moved(k) THEN IsRelevance(m[Main], k)
       ELSE k \notin DOMAIN m[Main] /\ IsRelevance(map_v_[Idx(k)], k)

\* The calls for the excluded words: of each document that is still there one is
\* to come.
ExcludedCalls ==
  UNION {{[word |-> w, ids |-> ids] : ids \in SUBSET IdsOf(w)} : w \in KnownWords(MinusWords(query))}
Erasing(k) == (\E c \in todo : k \in c.ids) \/ (\E t \in Thread : k \in doing[t].ids)

MinusInv ==
  /\ \A t \in Thread : pc[t] = "idle"
  /\ todo \subseteq ExcludedCalls
  /\ doing = [t \in Thread |-> doing[t]]
  /\ \A t \in Thread : doing[t] = None \/ doing[t] \in ExcludedCalls
  /\ document_to_relevance = [k \in DOMAIN document_to_relevance |-> Part(k, Wanted(k))]
  /\ \A k \in DOMAIN document_to_relevance : k \in Key /\ Found(k)
  /\ \A k \in Key : Found(k) => IF k \in DOMAIN document_to_relevance THEN Excluded(k) => Erasing(k)
                                ELSE Excluded(k)

Sequential == [k \in {l \in Key : Found(l) /\ ~Excluded(l)} |-> Part(k, Wanted(k))]

FindInv ==
  /\ AskedInv
  /\ phase \in {"plus", "build", "minus", "done"}
  /\ phase = "plus" => PlusInv
  /\ phase = "build" => BuildInv
  /\ phase = "minus" => MinusInv
  /\ phase = "done" => document_to_relevance = Sequential

LEMMA PartIsSum == \A k, S : Part(k, S) = SumByIndex(k, S)
BY DEF Part, SumOver, SumByIndex, ComputeWordInverseDocumentFreq

LEMMA WantedIsFinite == AskedInv => \A k : IsFiniteSet(Wanted(k)) /\ \A w \in Wanted(k) : Term(k, w) \in Int
<1> SUFFICES ASSUME AskedInv, NEW k
             PROVE  IsFiniteSet(Wanted(k)) /\ \A w \in Wanted(k) : Term(k, w) \in Int
  OBVIOUS
<1>1. query \in Seq([word : Word \cup {BadWord}, minus : BOOLEAN])
  BY SearchServerAssumption DEF AskedInv
<1> DEFINE n == Len(query) word(j) == query[j].word
<1>2. n \in Nat /\ DOMAIN query = 1 .. n
  BY <1>1
<1>3. IsFiniteSet({word(j) : j \in 1 .. n})
  <2>1. IsFiniteSet(1 .. n)
    BY <1>2, FS_Interval
  <2> DEFINE S == 1 .. n
  <2> HIDE DEF S, word
  <2>2. IsFiniteSet({word(j) : j \in S})
    <3> DEFINE T == {word(j) : j \in S} f == [j \in S |-> word(j)]
    <3>1. f \in Surjection(S, T)
      BY DEF Surjection
    <3> HIDE DEF f, T
    <3> QED BY <2>1, <3>1, FS_Surjection DEF T, S
  <2> QED BY <2>2 DEF S
<1>4. Wanted(k) \subseteq {word(j) : j \in 1 .. n}
  BY <1>2 DEF Wanted, KnownWords, PlusWords
<1>5. IsFiniteSet(Wanted(k))
  <2> DEFINE T == {word(j) : j \in 1 .. n}
  <2> HIDE DEF T
  <2> QED BY <1>3, <1>4, FS_Subset DEF T
<1>6. \A w \in Wanted(k) : Term(k, w) \in Int
  BY DEF Wanted, KnownWords, AskedInv
<1> QED BY <1>5, <1>6

\* The parts of a relevance.
LEMMA PartGrows ==
  ASSUME AskedInv, NEW k
  PROVE  /\ Part(k, {}) = 0
         /\ \A S \in SUBSET Wanted(k) : \A w \in Wanted(k) \ S :
              Part(k, S \cup {w}) = Part(k, S) + Term(k, w)
<1>1. IsFiniteSet(Wanted(k)) /\ \A w \in Wanted(k) : Term(k, w) \in Int
  BY WantedIsFinite
<1> DEFINE W == Wanted(k)
<1> HIDE DEF W
<1>2. IsFiniteSet(W) /\ \A w \in W : Term(k, w) \in Int
  BY <1>1 DEF W
<1>3. /\ SumByIndex(k, {}) = 0
      /\ \A S \in SUBSET W : \A w \in W \ S :
            SumByIndex(k, S \cup {w}) = SumByIndex(k, S) + Term(k, w)
  BY <1>2, SumByIndexGrows
<1> QED BY <1>3, PartIsSum DEF W

\* The server and the query stay, and what is derived from them.
LEMMA SameAsked ==
  ASSUME UNCHANGED <<serverVars, callVars>>
  PROVE  /\ AskedInv => AskedInv'
         /\ \A k : /\ Wanted(k)' = Wanted(k) /\ Accepted(k)' = Accepted(k)
                   /\ Found(k)' = Found(k) /\ Excluded(k)' = Excluded(k)
                   /\ \A S : Part(k, S)' = Part(k, S)
         /\ WantedCalls' = WantedCalls /\ ExcludedCalls' = ExcludedCalls
         /\ Sequential' = Sequential
<1> USE DEF serverVars, callVars
<1>1. AskedInv => AskedInv'
  BY DEF AskedInv, Term, IdsOf, ComputeWordInverseDocumentFreq
<1>2. \A k : Wanted(k)' = Wanted(k) /\ Accepted(k)' = Accepted(k)
  BY DEF Wanted, Accepted, KnownWords, IdsOf
<1>3. \A k : Found(k)' = Found(k) /\ Excluded(k)' = Excluded(k)
  BY DEF Found, Wanted, Accepted, Excluded, KnownWords, IdsOf, DocumentsOf
<1>4. \A k, S : Part(k, S)' = Part(k, S)
  BY DEF Part
<1>5. WantedCalls' = WantedCalls /\ ExcludedCalls' = ExcludedCalls
  BY DEF WantedCalls, ExcludedCalls, KnownWords, IdsOf
<1>6. Sequential' = Sequential
  BY DEF Sequential, Found, Wanted, Accepted, Excluded, KnownWords, IdsOf, DocumentsOf, Part
<1> QED BY <1>1, <1>2, <1>3, <1>4, <1>5, <1>6

\* A call is for one word and one document.
LEMMA CallIsFor ==
  /\ \A w, k, v, l : CallFor(w, k) = CallFor(v, l) => w = v /\ k = l
  /\ \A w, k : CallFor(w, k) # None /\ (CHOOSE id \in CallFor(w, k).ids : TRUE) = k
BY DEF CallFor, None

\* The call of a thread.
LEMMA CallOfThread ==
  ASSUME AskedInv, CallsAreApart, NEW t \in Thread, doing[t] # None
  PROVE  \E w \in Wanted(DocumentOf(t)) :
           /\ doing[t] = CallFor(w, DocumentOf(t)) /\ DocumentOf(t) \in Key
           /\ Relevance(t) = Term(DocumentOf(t), w) /\ Relevance(t) \in Int
<1>1. PICK w \in KnownWords(PlusWords(query)) : \E k \in IdsOf(w) : doing[t] = CallFor(w, k)
  BY DEF CallsAreApart, WantedCalls
<1>2. PICK k \in IdsOf(w) : doing[t] = CallFor(w, k)
  BY <1>1
<1>3. DocumentOf(t) = k
  BY <1>2, CallIsFor DEF DocumentOf
<1>4. w \in Wanted(k) /\ k \in Key /\ Term(k, w) \in Int
  BY <1>2 DEF Wanted, KnownWords, AskedInv
<1>5. Relevance(t) = Term(k, w)
  BY <1>2, <1>3 DEF Relevance, Term, CallFor
<1> QED BY <1>2, <1>3, <1>4, <1>5

LEMMA AddedIsWanted == \A k : Added(k) \subseteq Wanted(k)
BY DEF Added

\* A step that leaves added and the keys of the map alone, and what is pending
\* for the documents that are accepted.
LEMMA SamePendingKeeps ==
  ASSUME AddedSoFar, UNCHANGED <<serverVars, callVars, added, taken>>,
         \A k \in Key : k \in DOMAIN map_v_'[Idx(k)] <=> k \in DOMAIN map_v_[Idx(k)],
         \A k \in Key : Accepted(k) => \A w \in Wanted(k) : Pending(w, k)' <=> Pending(w, k)
  PROVE  AddedSoFar'
<1> SUFFICES ASSUME NEW k \in Key
             PROVE  /\ Accepted(k)' => added[k]' = Part(k, Added(k))'
                    /\ taken[k]' = 0
                    /\ k \in DOMAIN map_v_'[Idx(k)] => Found(k)'
                    /\ (Accepted(k) /\ Added(k) # {})' => k \in DOMAIN map_v_'[Idx(k)]
  BY DEF AddedSoFar
<1>1. Accepted(k)' = Accepted(k) /\ Found(k)' = Found(k) /\ Wanted(k)' = Wanted(k)
  BY SameAsked
<1>2. Accepted(k) => Added(k)' = Added(k)
  BY <1>1 DEF Added
<1>3. Accepted(k) => Part(k, Added(k))' = Part(k, Added(k))
  BY <1>2 DEF Part, serverVars
<1> QED BY <1>1, <1>2, <1>3 DEF AddedSoFar

LEMMA InitFindInv ==
  ASSUME MapAssumption, FindAssumption PROVE Init => MapInv /\ FindInv
<1> SUFFICES ASSUME Init PROVE MapInv /\ FindInv
  OBVIOUS
<1>1. PICK docs \in Corpora : ServerOf(docs)
  BY DEF Init
<1> DEFINE words(id) == SplitIntoWordsNoStop(docs[id].text)
<1> HIDE DEF words
<1>2. \A id \in DOMAIN docs : words(id) \in Seq(Word)
  BY WordsAreASequence DEF FindAssumption, words
<1>3. /\ DOMAIN document_ratings_status_ = DOMAIN docs
      /\ DOMAIN word_to_document_freqs_ = UNION {Elements(words(id)) : id \in DOMAIN docs}
      /\ \A w \in DOMAIN word_to_document_freqs_ :
           word_to_document_freqs_[w] = [id \in {d \in DOMAIN docs : w \in Elements(words(d))} |-> Freq(words(id), w)]
  BY <1>1 DEF ServerOf, words
<1>4. ASSUME NEW w \in DOMAIN word_to_document_freqs_
      PROVE  IdsOf(w) \subseteq Key /\ \A k \in IdsOf(w) : Term(k, w) \in Int
  <2>1. IdsOf(w) = {d \in DOMAIN docs : w \in Elements(words(d))} /\ IdsOf(w) \subseteq DOMAIN docs
    BY <1>3 DEF IdsOf
  <2>2. IdsOf(w) \subseteq Key
    BY <2>1 DEF FindAssumption
  <2>3. ASSUME NEW k \in IdsOf(w) PROVE Term(k, w) \in Int
    <3>1. word_to_document_freqs_[w][k] = Freq(words(k), w) /\ k \in DOMAIN docs
      BY <1>3, <2>1
    <3>2. Freq(words(k), w) \in Int
      <4>1. words(k) \in Seq(Word) /\ w \in Elements(words(k))
        BY <1>2, <2>1, <3>1
      <4>2. Len(words(k)) \in Nat \ {0} /\ DOMAIN words(k) = 1 .. Len(words(k))
        BY <4>1 DEF Elements
      <4>3. IsFiniteSet(DOMAIN words(k))
        BY <4>2, FS_Interval
      <4>4. Cardinality({j \in DOMAIN words(k) : words(k)[j] = w}) \in Nat
        <5> DEFINE D == DOMAIN words(k) S == {j \in DOMAIN words(k) : words(k)[j] = w}
        <5>1. S \subseteq D /\ IsFiniteSet(D)
          BY <4>3
        <5> HIDE DEF S, D
        <5>2. Cardinality(S) \in Nat
          BY <5>1, FS_Subset, FS_CardinalityType
        <5> QED BY <5>2 DEF S
      <4>5. Scale \div Len(words(k)) \in Int
        BY <4>2, SearchServerAssumption
      <4> QED BY <4>4, <4>5 DEF Freq
    <3>3. ComputeWordInverseDocumentFreq(w) \in Int
      <4> DEFINE D == DOMAIN docs S == IdsOf(w)
      <4>1. IsFiniteSet(D) /\ S \subseteq D /\ k \in S
        BY <2>1 DEF FindAssumption
      <4>2. \A n \in 1 .. Cardinality(D) : \A l \in 1 .. n : Log(n, l) \in Int
        BY DEF FindAssumption
      <4>3. ComputeWordInverseDocumentFreq(w) = Log(Cardinality(D), Cardinality(S))
        BY <1>3 DEF ComputeWordInverseDocumentFreq, IdsOf
      <4> HIDE DEF D, S
      <4>4. Cardinality(S) \in Nat /\ Cardinality(D) \in Nat /\ Cardinality(S) <= Cardinality(D)
        BY <4>1, FS_Subset, FS_CardinalityType
      <4>5. Cardinality(S) # 0
        BY <4>1, FS_Subset, FS_EmptySet
      <4> QED BY <4>2, <4>3, <4>4, <4>5
    <3> DEFINE f == word_to_document_freqs_[w][k] idf == ComputeWordInverseDocumentFreq(w)
    <3>4. f \in Int /\ idf \in Int
      BY <3>1, <3>2, <3>3
    <3>5. Term(k, w) = f * idf
      BY DEF Term
    <3> HIDE DEF f, idf
    <3> QED BY <3>4, <3>5
  <2> QED BY <2>2, <2>3
<1>5. AskedInv
  BY <1>4 DEF Init, AskedInv
<1>6. CallsAreApart
  <2>1. todo \subseteq WantedCalls
    BY DEF Init, WantedCalls, CallFor
  <2> QED BY <2>1 DEF CallsAreApart, Init, MapInit
<1>7. AddedSoFar
  <2> SUFFICES ASSUME NEW k \in Key
               PROVE  /\ added[k] = Part(k, Added(k)) /\ taken[k] = 0
                      /\ k \notin DOMAIN map_v_[Idx(k)] /\ Added(k) = {}
    BY DEF AddedSoFar
  <2>1. Added(k) = {}
    <3> SUFFICES ASSUME NEW w \in Wanted(k) PROVE CallFor(w, k) \in todo
      BY DEF Added, Pending
    <3> DEFINE calls(v) == {[word |-> v, ids |-> {id}] : id \in IdsOf(v)}
    <3>1. todo = UNION {calls(v) : v \in KnownWords(PlusWords(query))}
      BY DEF Init
    <3>2. w \in KnownWords(PlusWords(query)) /\ CallFor(w, k) \in calls(w)
      BY DEF Wanted, CallFor
    <3> HIDE DEF calls
    <3> QED BY <3>1, <3>2
  <2>2. Part(k, {}) = 0
    BY <1>5, PartGrows
  <2>3. k \notin DOMAIN map_v_[Idx(k)]
    BY IdxInBucket DEF Init, MapInit, Empty
  <2> QED BY <2>1, <2>2, <2>3 DEF Init, MapInit
<1>8. FindInv
  BY <1>5, <1>6, <1>7 DEF FindInv, PlusInv, Init
<1>9. MapInv
  BY InitMapInv DEF Init
<1> QED BY <1>8, <1>9

(***************************************************************************)
(* The calls for the wanted words.                                         *)
(***************************************************************************)
LEMMA TakeKeepsPlus ==
  ASSUME AskedInv, PlusInv, NEW t \in Thread, phase = "plus", Take(t), UNCHANGED serverVars
  PROVE  PlusInv'
<1> USE DEF PlusInv
<1>1. PICK call \in todo : todo' = todo \ {call} /\ doing' = [doing EXCEPT ![t] = call]
  BY DEF Take
<1>2. /\ UNCHANGED <<serverVars, callVars, mapVars>> /\ doing[t] = None /\ pc[t] = "idle"
      /\ DOMAIN doing = Thread /\ doing'[t] = call
      /\ \A u \in Thread : u # t => doing'[u] = doing[u]
  BY <1>1 DEF Take, Idle, CallsAreApart
<1>3. WantedCalls' = WantedCalls
  BY <1>2, SameAsked
<1>4. call \in WantedCalls /\ call # None /\ \A u \in Thread : doing[u] # call
  <2>1. call \in WantedCalls
    BY <1>1 DEF CallsAreApart
  <2>2. call # None
    BY <2>1, CallIsFor DEF WantedCalls
  <2> QED BY <2>1, <2>2 DEF CallsAreApart
<1>5. CallsAreApart'
  <2>1. \A u \in Thread : u # t => ShouldAdd(u)' = ShouldAdd(u) /\ DocumentOf(u)' = DocumentOf(u)
    BY <1>2 DEF ShouldAdd, DocumentOf, serverVars, callVars
  <2>2. doing' = [u \in Thread |-> doing'[u]]
    BY <1>1, <1>2
  <2>3. ASSUME NEW u \in Thread
        PROVE  \/ doing'[u] = None /\ pc'[u] = "idle"
               \/ /\ doing'[u] \in WantedCalls' /\ doing'[u] \notin todo'
                  /\ pc'[u] \in {"idle", "locked", "referring", "loaded", "stored"}
                  /\ pc'[u] # "idle" => ShouldAdd(u)' /\ access'[u] = DocumentOf(u)'
    <3>1. CASE u = t
      BY <1>1, <1>2, <1>3, <1>4, <3>1 DEF mapVars
    <3>2. CASE u # t
      BY <1>1, <1>2, <1>3, <2>1, <3>2 DEF mapVars, CallsAreApart
    <3> QED BY <3>1, <3>2
  <2>4. todo' \subseteq WantedCalls'
    BY <1>1, <1>3 DEF CallsAreApart
  <2>5. \A u, v \in Thread : doing'[u] = doing'[v] /\ doing'[u] # None => u = v
    BY <1>2, <1>4 DEF CallsAreApart
  <2> QED BY <2>2, <2>3, <2>4, <2>5 DEF CallsAreApart
<1>6. \A w, k : Pending(w, k)' <=> Pending(w, k)
  <2> SUFFICES ASSUME NEW w, NEW k PROVE Pending(w, k)' <=> Pending(w, k)
    OBVIOUS
  <2>1. CASE CallFor(w, k) = call
    BY <1>1, <1>2, <2>1 DEF Pending, mapVars
  <2>2. CASE CallFor(w, k) # call
    <3>1. CallFor(w, k) # None
      BY CallIsFor
    <3> QED BY <1>1, <1>2, <2>2, <3>1 DEF Pending, mapVars
  <2> QED BY <2>1, <2>2
<1>7. AddedSoFar'
  BY <1>2, <1>6, SamePendingKeeps DEF mapVars
<1> QED BY <1>5, <1>7

\* What a thread does inside its call leaves the calls where they are.
LEMMA InCallKeepsApart ==
  ASSUME CallsAreApart, NEW t \in Thread, doing[t] # None,
         UNCHANGED <<serverVars, callVars, todo, doing>>,
         \A u \in Thread : u # t => pc'[u] = pc[u] /\ access'[u] = access[u],
         pc'[t] \in {"locked", "referring", "loaded", "stored"},
         ShouldAdd(t) /\ access'[t] = DocumentOf(t)
  PROVE  CallsAreApart'
<1>1. WantedCalls' = WantedCalls
  BY SameAsked
<1>2. \A u \in Thread : ShouldAdd(u)' = ShouldAdd(u) /\ DocumentOf(u)' = DocumentOf(u)
  BY DEF ShouldAdd, DocumentOf, serverVars, callVars
<1>3. ASSUME NEW u \in Thread
      PROVE  \/ doing'[u] = None /\ pc'[u] = "idle"
             \/ /\ doing'[u] \in WantedCalls' /\ doing'[u] \notin todo'
                /\ pc'[u] \in {"idle", "locked", "referring", "loaded", "stored"}
                /\ pc'[u] # "idle" => ShouldAdd(u)' /\ access'[u] = DocumentOf(u)'
  <2>1. CASE u = t
    BY <1>1, <1>2, <2>1 DEF CallsAreApart
  <2>2. CASE u # t
    BY <1>1, <1>2, <2>2 DEF CallsAreApart
  <2> QED BY <2>1, <2>2
<1> QED BY <1>1, <1>3 DEF CallsAreApart

\* A thread that has done with its call.
LEMMA FinishKeepsApart ==
  ASSUME CallsAreApart, NEW t \in Thread, Finish(t), pc'[t] = "idle",
         UNCHANGED <<serverVars, callVars, todo>>,
         \A u \in Thread : u # t => pc'[u] = pc[u] /\ access'[u] = access[u]
  PROVE  CallsAreApart'
<1>1. WantedCalls' = WantedCalls
  BY SameAsked
<1>2. doing' = [u \in Thread |-> doing'[u]] /\ doing'[t] = None /\ \A u \in Thread : u # t => doing'[u] = doing[u]
  BY DEF Finish, CallsAreApart
<1>3. \A u \in Thread : u # t => ShouldAdd(u)' = ShouldAdd(u) /\ DocumentOf(u)' = DocumentOf(u)
  BY <1>2 DEF ShouldAdd, DocumentOf, serverVars, callVars
<1>4. ASSUME NEW u \in Thread
      PROVE  \/ doing'[u] = None /\ pc'[u] = "idle"
             \/ /\ doing'[u] \in WantedCalls' /\ doing'[u] \notin todo'
                /\ pc'[u] \in {"idle", "locked", "referring", "loaded", "stored"}
                /\ pc'[u] # "idle" => ShouldAdd(u)' /\ access'[u] = DocumentOf(u)'
  <2>1. CASE u = t
    BY <1>2, <2>1
  <2>2. CASE u # t
    BY <1>1, <1>2, <1>3, <2>2 DEF CallsAreApart
  <2> QED BY <2>1, <2>2
<1>5. \A u, v \in Thread : doing'[u] = doing'[v] /\ doing'[u] # None => u = v
  BY <1>2 DEF CallsAreApart
<1> QED BY <1>1, <1>2, <1>4, <1>5 DEF CallsAreApart

LEMMA PassOverKeepsPlus ==
  ASSUME AskedInv, PlusInv, NEW t \in Thread, PassOver(t), UNCHANGED serverVars
  PROVE  PlusInv'
<1> USE DEF PlusInv
<1>1. /\ UNCHANGED <<serverVars, callVars, mapVars, todo>> /\ doing[t] # None /\ pc[t] = "idle"
      /\ Finish(t) /\ ~ShouldAdd(t)
  BY DEF PassOver, InCall
<1>2. CallsAreApart'
  BY <1>1, FinishKeepsApart DEF mapVars
<1>3. doing'[t] = None /\ \A u \in Thread : u # t => doing'[u] = doing[u]
  BY <1>1 DEF Finish, CallsAreApart
<1>4. PICK w \in Wanted(DocumentOf(t)) : doing[t] = CallFor(w, DocumentOf(t))
  BY <1>1, CallOfThread
<1>5. ASSUME NEW k \in Key, Accepted(k), NEW v \in Wanted(k)
      PROVE  Pending(v, k)' <=> Pending(v, k)
  <2>1. CallFor(v, k) # doing[t] /\ CallFor(v, k) # None
    BY <1>1, <1>4, <1>5, CallIsFor DEF Accepted, ShouldAdd
  <2> QED BY <1>1, <1>3, <2>1 DEF Pending, mapVars
<1>6. AddedSoFar'
  BY <1>1, <1>5, SamePendingKeeps DEF mapVars
<1> QED BY <1>2, <1>6

\* The bucket of the key of an Access.
LEMMA AccessIsInBucket ==
  ASSUME MapAssumption, MapInv, NEW t \in Thread
  PROVE  access[t] \in Key /\ Idx(access[t]) \in Bucket
BY IdxInBucket DEF MapInv, MapTypeOK

\* What is pending does not change with a step of a thread that is not its last
\* write.
LEMMA SamePending ==
  ASSUME UNCHANGED <<todo, doing>>, \A u \in Thread : pc'[u] = "stored" <=> pc[u] = "stored"
  PROVE  \A w, k : Pending(w, k)' <=> Pending(w, k)
BY DEF Pending

LEMMA LockKeepsPlus ==
  ASSUME MapInv, PlusInv, NEW t \in Thread, doing[t] # None, ShouldAdd(t), Lock(t, DocumentOf(t)),
         UNCHANGED <<serverVars, findVars>>
  PROVE  PlusInv'
<1> USE DEF PlusInv
<1>1. /\ UNCHANGED <<serverVars, callVars, todo, doing, map_v_, added, taken>>
      /\ pc[t] = "idle" /\ pc'[t] = "locked" /\ access'[t] = DocumentOf(t)
      /\ \A u \in Thread : u # t => pc'[u] = pc[u] /\ access'[u] = access[u]
  BY DEF Lock, Goto, findVars, callVars, MapInv, MapTypeOK
<1>2. CallsAreApart'
  BY <1>1, InCallKeepsApart
<1>3. \A w, k : Pending(w, k)' <=> Pending(w, k)
  BY <1>1, SamePending
<1>4. AddedSoFar'
  BY <1>1, <1>3, SamePendingKeeps
<1> QED BY <1>2, <1>4

LEMMA LoadKeepsPlus ==
  ASSUME MapInv, PlusInv, NEW t \in Thread, doing[t] # None, Load(t),
         UNCHANGED <<serverVars, findVars>>
  PROVE  PlusInv'
<1> USE DEF PlusInv
<1>1. /\ UNCHANGED <<serverVars, callVars, todo, doing, map_v_, added, taken>>
      /\ pc[t] = "referring" /\ pc'[t] = "loaded" /\ access' = access
      /\ \A u \in Thread : u # t => pc'[u] = pc[u]
  BY DEF Load, Goto, findVars, callVars, MapInv, MapTypeOK
<1>2. ShouldAdd(t) /\ access[t] = DocumentOf(t)
  BY <1>1 DEF CallsAreApart
<1>3. CallsAreApart'
  BY <1>1, <1>2, InCallKeepsApart
<1>4. \A w, k : Pending(w, k)' <=> Pending(w, k)
  BY <1>1, SamePending
<1>5. AddedSoFar'
  BY <1>1, <1>4, SamePendingKeeps
<1> QED BY <1>3, <1>5

LEMMA ReferKeepsPlus ==
  ASSUME MapAssumption, AskedInv, MapInv, PlusInv, NEW t \in Thread, doing[t] # None, Refer(t),
         UNCHANGED <<serverVars, findVars>>
  PROVE  PlusInv'
<1> USE DEF PlusInv
<1> DEFINE key == access[t]
<1>1. /\ UNCHANGED <<serverVars, callVars, todo, doing, added, taken, access>>
      /\ pc[t] = "locked" /\ pc'[t] = "referring"
      /\ \A u \in Thread : u # t => pc'[u] = pc[u]
  BY DEF Refer, Goto, findVars, callVars, MapInv, MapTypeOK
<1>2. ShouldAdd(t) /\ key = DocumentOf(t)
  BY <1>1 DEF CallsAreApart
<1>3. CallsAreApart'
  BY <1>1, <1>2, InCallKeepsApart
<1>4. \A k \in Key : DOMAIN map_v_'[Idx(k)] =
        IF Idx(k) = Idx(key) THEN DOMAIN map_v_[Idx(key)] \cup {key} ELSE DOMAIN map_v_[Idx(k)]
  <2>1. map_v_' = [map_v_ EXCEPT ![Idx(key)] = With(@, key, At(@, key, 0))]
    BY DEF Refer
  <2>2. DOMAIN map_v_ = Bucket /\ Idx(key) \in Bucket /\ \A k \in Key : Idx(k) \in Bucket
    BY AccessIsInBucket, IdxInBucket DEF MapInv, MapTypeOK
  <2>3. DOMAIN With(map_v_[Idx(key)], key, At(map_v_[Idx(key)], key, 0)) = DOMAIN map_v_[Idx(key)] \cup {key}
    BY DEF With
  <2> QED BY <2>1, <2>2, <2>3
<1>5. Found(key) /\ key \in Key
  <2>1. \E w \in Wanted(DocumentOf(t)) : doing[t] = CallFor(w, DocumentOf(t))
    BY CallOfThread
  <2> QED BY <1>2, <2>1, AccessIsInBucket DEF Found, Accepted, ShouldAdd
<1>6. AddedSoFar'
  <2> SUFFICES ASSUME NEW k \in Key
               PROVE  /\ Accepted(k)' => added[k] = Part(k, Added(k))'
                      /\ taken[k] = 0
                      /\ k \in DOMAIN map_v_'[Idx(k)] => Found(k)'
                      /\ (Accepted(k) /\ Added(k) # {})' => k \in DOMAIN map_v_'[Idx(k)]
    BY <1>1 DEF AddedSoFar
  <2>1. Accepted(k)' = Accepted(k) /\ Found(k)' = Found(k) /\ Wanted(k)' = Wanted(k)
    BY <1>1, SameAsked
  <2>2. Added(k)' = Added(k)
    <3>1. \A w : Pending(w, k)' <=> Pending(w, k)
      BY <1>1, SamePending
    <3> QED BY <2>1, <3>1 DEF Added
  <2>3. Part(k, Added(k))' = Part(k, Added(k))
    BY <1>1, <2>2 DEF Part, serverVars
  <2> QED BY <1>4, <1>5, <2>1, <2>2, <2>3 DEF AddedSoFar
<1> QED BY <1>3, <1>6

LEMMA StoreKeepsPlus ==
  ASSUME MapAssumption, AskedInv, MapInv, PlusInv, NEW t \in Thread, doing[t] # None, Store(t, Relevance(t)),
         UNCHANGED <<serverVars, findVars>>
  PROVE  PlusInv'
<1> USE DEF PlusInv
<1> DEFINE key == DocumentOf(t)
<1>1. /\ UNCHANGED <<serverVars, callVars, todo, doing, taken, access>>
      /\ pc[t] = "loaded" /\ pc'[t] = "stored"
      /\ \A u \in Thread : u # t => pc'[u] = pc[u]
  BY DEF Store, Goto, findVars, callVars, MapInv, MapTypeOK
<1>2. ShouldAdd(t) /\ access[t] = key
  BY <1>1 DEF CallsAreApart
<1>3. CallsAreApart'
  BY <1>1, <1>2, InCallKeepsApart
<1>4. PICK w \in Wanted(key) : /\ doing[t] = CallFor(w, key) /\ key \in Key
                               /\ Relevance(t) = Term(key, w) /\ Relevance(t) \in Int
  BY CallOfThread
<1> HIDE DEF key
<1>5. \A k \in Key : added'[k] = IF k = key THEN added[key] + Term(key, w) ELSE added[k]
  BY <1>2, <1>4 DEF Store, MapInv, MapTypeOK
<1>6. \A k \in Key : DOMAIN map_v_'[Idx(k)] =
        IF Idx(k) = Idx(key) THEN DOMAIN map_v_[Idx(key)] \cup {key} ELSE DOMAIN map_v_[Idx(k)]
  <2> DEFINE v == register[t] + Relevance(t)
  <2> HIDE DEF v
  <2>1. map_v_' = [map_v_ EXCEPT ![Idx(key)] = With(@, key, v)]
    BY <1>2 DEF Store, v
  <2>2. DOMAIN map_v_ = Bucket /\ Idx(key) \in Bucket /\ \A k \in Key : Idx(k) \in Bucket
    BY <1>4, IdxInBucket DEF MapInv, MapTypeOK
  <2>3. DOMAIN With(map_v_[Idx(key)], key, v) = DOMAIN map_v_[Idx(key)] \cup {key}
    BY DEF With
  <2> QED BY <2>1, <2>2, <2>3
\* The word is added now, and no other.
<1>7. ASSUME NEW k \in Key
      PROVE  \A x \in Wanted(k) : Pending(x, k)' <=> Pending(x, k) /\ ~(x = w /\ k = key)
  <2> SUFFICES ASSUME NEW x \in Wanted(k)
               PROVE  Pending(x, k)' <=> Pending(x, k) /\ ~(x = w /\ k = key)
    OBVIOUS
  <2>1. CASE x = w /\ k = key
    <3>1. CallFor(x, k) = doing[t]
      BY <1>4, <2>1
    <3>2. CallFor(x, k) \notin todo /\ \A u \in Thread : doing[u] = CallFor(x, k) => u = t
      BY <3>1 DEF CallsAreApart
    <3> QED BY <1>1, <2>1, <3>2 DEF Pending
  <2>2. CASE ~(x = w /\ k = key)
    <3>1. CallFor(x, k) # doing[t]
      BY <1>4, <2>2, CallIsFor
    <3> QED BY <1>1, <2>2, <3>1 DEF Pending
  <2> QED BY <2>1, <2>2
<1>8. ASSUME NEW k \in Key
      PROVE  /\ Accepted(k)' = Accepted(k) /\ Found(k)' = Found(k) /\ Wanted(k)' = Wanted(k)
             /\ Added(k)' = IF k = key THEN Added(k) \cup {w} ELSE Added(k)
             /\ \A S : Part(k, S)' = Part(k, S)
  <2>1. /\ Accepted(k)' = Accepted(k) /\ Found(k)' = Found(k) /\ Wanted(k)' = Wanted(k)
        /\ \A S : Part(k, S)' = Part(k, S)
    BY <1>1, SameAsked
  <2> QED BY <1>4, <1>7, <2>1 DEF Added
<1>9. AddedSoFar'
  <2> SUFFICES ASSUME NEW k \in Key
               PROVE  /\ Accepted(k)' => added'[k] = Part(k, Added(k))'
                      /\ taken[k] = 0
                      /\ k \in DOMAIN map_v_'[Idx(k)] => Found(k)'
                      /\ (Accepted(k) /\ Added(k) # {})' => k \in DOMAIN map_v_'[Idx(k)]
    BY <1>1 DEF AddedSoFar
  <2>1. Found(key) /\ Accepted(key)
    BY <1>2, <1>4 DEF Found, Accepted, ShouldAdd, key
  <2>2. Accepted(k) => added'[k] = Part(k, Added(k))'
    <3>1. CASE k = key
      <4>1. w \in Wanted(key) \ Added(key)
        <5>1. Pending(w, key)
          BY <1>1, <1>4 DEF Pending
        <5> QED BY <1>4, <5>1 DEF Added
      <4>2. Part(key, Added(key) \cup {w}) = Part(key, Added(key)) + Term(key, w)
        BY <4>1, AddedIsWanted, PartGrows
      <4>3. Part(k, Added(k))' = Part(key, Added(key) \cup {w})
        BY <1>1, <1>8, <3>1 DEF Part, serverVars
      <4> QED BY <1>5, <2>1, <3>1, <4>2, <4>3 DEF AddedSoFar
    <3>2. CASE k # key
      <4>1. Part(k, Added(k))' = Part(k, Added(k))
        BY <1>1, <1>8, <3>2 DEF Part, serverVars
      <4> QED BY <1>5, <3>2, <4>1 DEF AddedSoFar
    <3> QED BY <3>1, <3>2
  <2>3. k \in DOMAIN map_v_'[Idx(k)] => Found(k)
    BY <1>6, <2>1 DEF AddedSoFar
  <2>4. Accepted(k) /\ (Added(k) # {})' => k \in DOMAIN map_v_'[Idx(k)]
    BY <1>6, <1>8 DEF AddedSoFar
  <2> QED BY <1>8, <2>2, <2>3, <2>4 DEF AddedSoFar
<1> QED BY <1>3, <1>9

LEMMA EndAddKeepsPlus ==
  ASSUME MapInv, PlusInv, NEW t \in Thread, EndAdd(t), UNCHANGED serverVars
  PROVE  PlusInv'
<1> USE DEF PlusInv
<1>1. /\ UNCHANGED <<serverVars, callVars, todo, map_v_, added, taken, access>>
      /\ pc[t] = "stored" /\ pc'[t] = "idle" /\ Finish(t) /\ doing[t] # None
      /\ \A u \in Thread : u # t => pc'[u] = pc[u]
  BY DEF EndAdd, InCall, Unlock, callVars, MapInv, MapTypeOK
<1>2. CallsAreApart'
  BY <1>1, FinishKeepsApart
<1>3. doing'[t] = None /\ \A u \in Thread : u # t => doing'[u] = doing[u]
  BY <1>1 DEF Finish, CallsAreApart
<1>4. ASSUME NEW k, NEW w PROVE Pending(w, k)' <=> Pending(w, k)
  <2>1. CallFor(w, k) # None
    BY CallIsFor
  <2> QED BY <1>1, <1>3, <2>1 DEF Pending
<1>5. AddedSoFar'
  BY <1>1, <1>4, SamePendingKeeps
<1> QED BY <1>2, <1>5

(***************************************************************************)
(* BuildOrdinaryMap.                                                       *)
(***************************************************************************)
LEMMA EndOfPlusKeeps ==
  ASSUME MapAssumption, FindAssumption, AskedInv, MapInv, PlusInv, EndOfPlus, UNCHANGED serverVars
  PROVE  BuildInv'
<1> USE DEF PlusInv
<1>1. Main \in Thread
  BY DEF FindAssumption
<1>2. /\ UNCHANGED <<serverVars, callVars, todo, doing, map_v_>> /\ todo = {}
      /\ \A t \in Thread : doing[t] = None /\ pc[t] = "idle"
      /\ pc'[Main] = "building" /\ i'[Main] = 0 /\ m'[Main] = Empty
      /\ \A t \in Thread \ {Main} : pc'[t] = "idle"
  BY <1>1 DEF EndOfPlus, AllCalled, Idle, Build, Goto, callVars, MapInv, MapTypeOK
<1>3. doing = [t \in Thread |-> None]
  BY <1>2 DEF CallsAreApart
<1>4. Empty = [k \in DOMAIN Empty |-> Empty[k]] /\ DOMAIN Empty = {}
  BY DEF Empty
<1>5. ASSUME NEW k \in Key
      PROVE  /\ ~Moved(k)' /\ k \notin DOMAIN m'[Main]
             /\ k \in DOMAIN map_v_[Idx(k)] <=> Found(k)
             /\ Found(k) => map_v_[Idx(k)][k] = Part(k, Wanted(k))
  <2>1. ~Moved(k)'
    <3>1. Idx(k) \in Bucket
      BY IdxInBucket
    <3> QED BY <1>2, <3>1 DEF Moved, Bucket
  <2>2. Added(k) = Wanted(k)
    BY <1>2 DEF Added, Pending, CallFor, None
  <2>3. k \in DOMAIN map_v_[Idx(k)] <=> Found(k)
    BY <2>2 DEF AddedSoFar, Found
  <2>4. ASSUME Found(k) PROVE map_v_[Idx(k)][k] = Part(k, Wanted(k))
    <3>1. added[k] = Part(k, Wanted(k)) /\ taken[k] = 0
      BY <2>2, <2>4 DEF AddedSoFar, Found
    <3>2. At(map_v_[Idx(k)], k, 0) + taken[k] = added[k]
      BY DEF MapInv, NoLostUpdate
    <3>3. At(map_v_[Idx(k)], k, 0) = map_v_[Idx(k)][k] /\ map_v_[Idx(k)][k] \in Int
      BY <2>3, <2>4, IdxInBucket DEF At, MapInv, MapTypeOK, IsMap
    <3> QED BY <3>1, <3>2, <3>3
  <2> QED BY <1>2, <1>4, <2>1, <2>3, <2>4
<1>6. ASSUME NEW k \in Key PROVE IsRelevance(map_v_[Idx(k)], k)'
  <2>1. Found(k)' = Found(k) /\ Part(k, Wanted(k))' = Part(k, Wanted(k))
    BY <1>2, SameAsked DEF Part, serverVars
  <2> QED BY <1>2, <1>5, <2>1 DEF IsRelevance
<1> QED BY <1>2, <1>3, <1>4, <1>5, <1>6 DEF BuildInv

\* The relevances are the same before and after.
LEMMA SameRelevance ==
  ASSUME UNCHANGED <<serverVars, callVars>>
  PROVE  \A f, k : /\ (k \in DOMAIN f <=> Found(k)') <=> (k \in DOMAIN f <=> Found(k))
                   /\ Found(k)' = Found(k) /\ Part(k, Wanted(k))' = Part(k, Wanted(k))
BY SameAsked DEF Part, serverVars

LEMMA BuildMapKeeps ==
  ASSUME MapAssumption, FindAssumption, MapInv, BuildInv, BuildMap, UNCHANGED serverVars
  PROVE  BuildInv'
<1>1. Main \in Thread /\ i[Main] \in 0 .. bucket_count
  BY DEF FindAssumption, MapInv, MapTypeOK
<1>2. /\ UNCHANGED <<serverVars, callVars, todo, doing>>
      /\ \A t \in Thread \ {Main} : pc'[t] = pc[t]
  BY DEF BuildMap, BuildLock, Merge, BuildUnlock, Goto, findVars, callVars, MapInv, MapTypeOK
<1>3. /\ todo' = {} /\ doing' = [t \in Thread |-> None]
      /\ \A t \in Thread \ {Main} : pc'[t] = "idle"
  BY <1>2 DEF BuildInv
<1>4. \A k \in Key : Found(k)' = Found(k) /\ Part(k, Wanted(k))' = Part(k, Wanted(k))
  BY <1>2, SameRelevance
<1>5. \A k \in Key : Idx(k) \in Bucket /\ Idx(k) \in Int
  BY IdxInBucket DEF Bucket
<1>6. CASE BuildLock(Main) \/ BuildUnlock(Main)
  <2>1. UNCHANGED <<map_v_, m>> /\ pc'[Main] \in {"merging", "building"}
    BY <1>1, <1>6 DEF BuildLock, BuildUnlock, Goto, MapInv, MapTypeOK
  <2>2. ASSUME NEW k \in Key PROVE Moved(k)' <=> Moved(k)
    <3>1. CASE BuildLock(Main)
      BY <1>1, <3>1 DEF BuildLock, Goto, Moved, MapInv, MapTypeOK
    <3>2. CASE BuildUnlock(Main)
      <4>1. pc[Main] = "merged" /\ pc'[Main] = "building" /\ i'[Main] = i[Main] + 1
        BY <1>1, <3>2 DEF BuildUnlock, Goto, MapInv, MapTypeOK
      <4> QED BY <1>1, <1>5, <4>1 DEF Moved
    <3> QED BY <1>6, <3>1, <3>2
  <2>3. \A k \in Key : /\ IsRelevance(m[Main], k)' <=> IsRelevance(m[Main], k)
                       /\ IsRelevance(map_v_[Idx(k)], k)' <=> IsRelevance(map_v_[Idx(k)], k)
    BY <1>4, <2>1 DEF IsRelevance
  <2> QED BY <1>3, <2>1, <2>2, <2>3 DEF BuildInv
<1>7. CASE Merge(Main)
  <2> DEFINE b == i[Main] bucket == map_v_[b] old == m[Main]
  <2>1. /\ pc[Main] = "merging" /\ pc'[Main] = "merged" /\ i' = i
        /\ b \in Bucket /\ IsMap(bucket) /\ \A k \in DOMAIN bucket : Idx(k) = b
        /\ m'[Main] = Merged(old, bucket)
        /\ \A c \in Bucket : c # b => map_v_'[c] = map_v_[c]
    BY <1>1, <1>7 DEF Merge, Goto, MapInv, MapTypeOK, BuildsWithin, KeysInTheirBuckets
  <2> HIDE DEF b, bucket, old
  <2>2. /\ m'[Main] = [k \in DOMAIN m'[Main] |-> m'[Main][k]]
        /\ DOMAIN m'[Main] = DOMAIN old \cup DOMAIN bucket
        /\ \A k \in DOMAIN m'[Main] : m'[Main][k] = IF k \in DOMAIN old THEN old[k] ELSE bucket[k]
    BY <2>1 DEF Merged
  <2>3. DOMAIN m'[Main] \subseteq Key
    BY <2>1, <2>2 DEF BuildInv, IsMap, old
  <2>4. ASSUME NEW k \in Key
        PROVE  IF Moved(k)' THEN IsRelevance(m[Main], k)'
               ELSE k \notin DOMAIN m'[Main] /\ IsRelevance(map_v_[Idx(k)], k)'
    <3>0. IF Moved(k) THEN IsRelevance(old, k)
          ELSE k \notin DOMAIN old /\ IsRelevance(map_v_[Idx(k)], k)
      BY DEF BuildInv, old
    <3>1. CASE Idx(k) = b
      <4>1. Moved(k)' /\ ~Moved(k)
        BY <1>1, <2>1, <3>1 DEF Moved, b
      <4> QED BY <1>4, <2>2, <3>0, <3>1, <4>1 DEF IsRelevance, bucket
    <3>2. CASE Idx(k) # b
      <4>1. Moved(k)' <=> Moved(k)
        BY <2>1, <3>2 DEF Moved, b
      <4>2. k \notin DOMAIN bucket
        BY <2>1, <3>2
      <4>3. map_v_'[Idx(k)] = map_v_[Idx(k)]
        BY <1>5, <2>1, <3>2
      <4> QED BY <1>4, <2>2, <3>0, <4>1, <4>2, <4>3 DEF IsRelevance
    <3> QED BY <3>1, <3>2
  <2> QED BY <1>3, <2>1, <2>2, <2>3, <2>4 DEF BuildInv
<1> QED BY <1>6, <1>7 DEF BuildMap

LEMMA EndOfBuildKeeps ==
  ASSUME MapAssumption, FindAssumption, AskedInv, MapInv, BuildInv, EndOfBuild, UNCHANGED serverVars
  PROVE  MinusInv'
<1>1. Main \in Thread
  BY DEF FindAssumption
<1>2. /\ UNCHANGED <<serverVars, callVars, doing>> /\ i[Main] = bucket_count /\ pc[Main] = "building"
      /\ \A t \in Thread : pc'[t] = "idle"
      /\ document_to_relevance' = m[Main]
      /\ todo' = {[word |-> w, ids |-> IdsOf(w)] : w \in KnownWords(MinusWords(query))}
  BY <1>1 DEF EndOfBuild, Return, Goto, callVars, BuildInv, MapInv, MapTypeOK
<1>3. doing = [t \in Thread |-> None]
  BY DEF BuildInv
<1>4. \A k \in Key : Moved(k)
  BY <1>2, IdxInBucket DEF MapAssumption, Moved, Bucket
<1>5. \A k \in Key : Found(k)' = Found(k) /\ Part(k, Wanted(k))' = Part(k, Wanted(k))
  BY <1>2, SameRelevance
<1>6. /\ m[Main] = [k \in DOMAIN m[Main] |-> m[Main][k]] /\ DOMAIN m[Main] \subseteq Key
      /\ \A k \in Key : (k \in DOMAIN m[Main] <=> Found(k)) /\ (Found(k) => m[Main][k] = Part(k, Wanted(k)))
  BY <1>4 DEF BuildInv, IsRelevance
<1>7. document_to_relevance' = [k \in DOMAIN document_to_relevance' |-> Part(k, Wanted(k))']
  <2>1. \A k \in DOMAIN m[Main] : m[Main][k] = Part(k, Wanted(k))'
    BY <1>5, <1>6
  <2> QED BY <1>2, <1>6, <2>1
<1>8. /\ ExcludedCalls' = ExcludedCalls
      /\ \A k : Excluded(k)' = Excluded(k)
  BY <1>2, SameAsked
<1>9. todo' \subseteq ExcludedCalls
  BY <1>2 DEF ExcludedCalls
<1>10. ASSUME NEW k \in Key, Excluded(k) PROVE Erasing(k)'
  <2>1. \E w \in KnownWords(MinusWords(query)) : k \in IdsOf(w)
    BY <1>10 DEF Excluded, DocumentsOf, KnownWords, IdsOf
  <2>2. PICK w \in KnownWords(MinusWords(query)) : k \in IdsOf(w)
    BY <2>1
  <2> DEFINE c == [word |-> w, ids |-> IdsOf(w)]
  <2>3. c \in todo' /\ k \in c.ids
    BY <1>2, <2>2
  <2> QED BY <2>3 DEF Erasing
<1> QED BY <1>2, <1>3, <1>5, <1>6, <1>7, <1>8, <1>9, <1>10 DEF MinusInv

(***************************************************************************)
(* The calls for the excluded words.                                       *)
(***************************************************************************)
LEMMA ExcludedCallIs ==
  ASSUME AskedInv, NEW c \in ExcludedCalls
  PROVE  /\ c.ids \subseteq Key /\ \A k \in c.ids : Excluded(k)
         /\ \A s \in SUBSET c.ids : [c EXCEPT !.ids = s] \in ExcludedCalls
<1>1. PICK w \in KnownWords(MinusWords(query)) :
         c \in {[word |-> w, ids |-> ids] : ids \in SUBSET IdsOf(w)}
  BY DEF ExcludedCalls
<1>2. c.ids \in SUBSET IdsOf(w) /\ c = [word |-> w, ids |-> c.ids]
  BY <1>1
<1>3. c.ids \subseteq Key
  BY <1>2 DEF AskedInv, KnownWords
<1>4. \A k \in c.ids : Excluded(k)
  BY <1>2 DEF Excluded, DocumentsOf, KnownWords, IdsOf
<1>5. ASSUME NEW s \in SUBSET c.ids PROVE [c EXCEPT !.ids = s] \in ExcludedCalls
  <2>1. [c EXCEPT !.ids = s] = [word |-> w, ids |-> s] /\ s \in SUBSET IdsOf(w)
    BY <1>2
  <2> QED BY <2>1 DEF ExcludedCalls
<1> QED BY <1>3, <1>4, <1>5

\* The erasing of a document of a set takes one that is in it.
LEMMA MinIsIn == ASSUME FindAssumption, NEW s \in SUBSET Key, s # {} PROVE Min(s) \in s
<1>1. Key \subseteq Nat
  BY DEF FindAssumption
<1>2. \E x \in s : \A y \in s : x <= y
  BY <1>1, LeastOfNaturals
<1> QED BY <1>2 DEF Min

LEMMA EraseDocumentKeeps ==
  ASSUME FindAssumption, AskedInv, MinusInv, NEW t \in Thread, EraseDocument(t), UNCHANGED serverVars
  PROVE  MinusInv'
<1> DEFINE s == doing[t].ids k0 == Min(s) call == [doing[t] EXCEPT !.ids = s \ {k0}]
<1>1. /\ UNCHANGED <<serverVars, callVars, todo, pc>> /\ s # {}
      /\ document_to_relevance' = Erased(document_to_relevance, k0)
      /\ doing' = [doing EXCEPT ![t] = call]
  BY DEF EraseDocument, mapVars, callVars
<1>2. doing[t] \in ExcludedCalls
  BY <1>1 DEF MinusInv, None
<1>3. s \subseteq Key /\ (\A k \in s : Excluded(k)) /\ k0 \in s
  BY <1>1, <1>2, ExcludedCallIs, MinIsIn
<1>4. call \in ExcludedCalls /\ call.ids = s \ {k0}
  <2>1. s \ {k0} \in SUBSET s
    OBVIOUS
  <2>2. call.ids = s \ {k0}
    <3>1. PICK w \in KnownWords(MinusWords(query)) :
             doing[t] \in {[word |-> w, ids |-> ids] : ids \in SUBSET IdsOf(w)}
      BY <1>2 DEF ExcludedCalls
    <3> QED BY <3>1
  <2> QED BY <1>2, <2>1, <2>2, ExcludedCallIs
<1> HIDE DEF s, k0, call
<1>5. /\ doing' = [u \in Thread |-> doing'[u]] /\ doing'[t] = call
      /\ \A u \in Thread : u # t => doing'[u] = doing[u]
  BY <1>1 DEF MinusInv
<1>6. /\ ExcludedCalls' = ExcludedCalls
      /\ \A k : /\ Excluded(k)' = Excluded(k) /\ Found(k)' = Found(k)
                /\ Part(k, Wanted(k))' = Part(k, Wanted(k))
  BY <1>1, SameAsked, SameRelevance
<1>7. /\ DOMAIN document_to_relevance' = DOMAIN document_to_relevance \ {k0}
      /\ document_to_relevance' =
           [k \in DOMAIN document_to_relevance' |-> Part(k, Wanted(k))']
  <2>1. document_to_relevance' =
          [k \in DOMAIN document_to_relevance \ {k0} |-> document_to_relevance[k]]
    BY <1>1 DEF Erased
  <2>2. \A k \in DOMAIN document_to_relevance : document_to_relevance[k] = Part(k, Wanted(k))'
    BY <1>6 DEF MinusInv
  <2> QED BY <2>1, <2>2
<1>8. ASSUME NEW k, k # k0, Erasing(k) PROVE Erasing(k)'
  <2>1. CASE \E c \in todo : k \in c.ids
    BY <1>1, <2>1 DEF Erasing
  <2>2. CASE \E u \in Thread : k \in doing[u].ids
    <3>1. PICK u \in Thread : k \in doing[u].ids
      BY <2>2
    <3>2. k \in doing'[u].ids
      BY <1>4, <1>5, <1>8, <3>1 DEF s
    <3> QED BY <3>2 DEF Erasing
  <2> QED BY <1>8, <2>1, <2>2 DEF Erasing
<1>9. \A u \in Thread : doing'[u] = None \/ doing'[u] \in ExcludedCalls
  BY <1>4, <1>5 DEF MinusInv
<1>10. ASSUME NEW k \in Key, Found(k)
       PROVE  IF k \in DOMAIN document_to_relevance' THEN Excluded(k) => Erasing(k)' ELSE Excluded(k)
  <2>1. CASE k = k0
    BY <1>3, <1>7, <2>1
  <2>2. CASE k # k0
    BY <1>7, <1>8, <1>10, <2>2 DEF MinusInv
  <2> QED BY <2>1, <2>2
<1> QED BY <1>1, <1>5, <1>6, <1>7, <1>9, <1>10 DEF MinusInv

\* Of the threads that take calls and end them the documents to erase are not
\* lost.
LEMMA MovingCallsKeeps ==
  ASSUME AskedInv, MinusInv, UNCHANGED <<serverVars, callVars, pc, document_to_relevance>>,
         todo' \subseteq ExcludedCalls, doing' = [u \in Thread |-> doing'[u]],
         \A u \in Thread : doing'[u] = None \/ doing'[u] \in ExcludedCalls,
         \A k \in Key : Erasing(k) => Erasing(k)'
  PROVE  MinusInv'
<1>1. /\ ExcludedCalls' = ExcludedCalls
      /\ \A k : /\ Excluded(k)' = Excluded(k) /\ Found(k)' = Found(k)
                /\ Part(k, Wanted(k))' = Part(k, Wanted(k))
  BY SameAsked, SameRelevance
<1>2. document_to_relevance' = [k \in DOMAIN document_to_relevance' |-> Part(k, Wanted(k))']
  BY <1>1 DEF MinusInv
<1> QED BY <1>1, <1>2 DEF MinusInv

LEMMA TakeKeepsMinus ==
  ASSUME AskedInv, MinusInv, NEW t \in Thread, Take(t), UNCHANGED serverVars
  PROVE  MinusInv'
<1>1. PICK call \in todo : todo' = todo \ {call} /\ doing' = [doing EXCEPT ![t] = call]
  BY DEF Take
<1>2. /\ UNCHANGED <<serverVars, callVars, pc, document_to_relevance>> /\ doing[t] = None
      /\ doing' = [u \in Thread |-> doing'[u]] /\ doing'[t] = call
      /\ \A u \in Thread : u # t => doing'[u] = doing[u]
  BY <1>1 DEF Take, Idle, mapVars, MinusInv
<1>3. \A k \in Key : Erasing(k) => Erasing(k)'
  BY <1>1, <1>2 DEF Erasing, None
<1> QED BY <1>1, <1>2, <1>3, MovingCallsKeeps DEF MinusInv

LEMMA EndEraseKeeps ==
  ASSUME AskedInv, MinusInv, NEW t \in Thread, EndErase(t), UNCHANGED serverVars
  PROVE  MinusInv'
<1>1. /\ UNCHANGED <<serverVars, callVars, pc, todo, document_to_relevance>> /\ doing[t].ids = {}
      /\ doing' = [u \in Thread |-> doing'[u]] /\ doing'[t] = None
      /\ \A u \in Thread : u # t => doing'[u] = doing[u]
  BY DEF EndErase, Finish, mapVars, MinusInv
<1>2. \A k \in Key : Erasing(k) => Erasing(k)'
  BY <1>1 DEF Erasing
<1> QED BY <1>1, <1>2, MovingCallsKeeps DEF MinusInv

LEMMA EndOfMinusKeeps ==
  ASSUME AskedInv, MinusInv, EndOfMinus, UNCHANGED serverVars
  PROVE  (document_to_relevance = Sequential)'
<1>1. /\ UNCHANGED <<serverVars, callVars, document_to_relevance>> /\ todo = {}
      /\ \A t \in Thread : doing[t] = None
  BY DEF EndOfMinus, AllCalled, Idle, callVars
<1>2. \A k : ~Erasing(k)
  BY <1>1 DEF Erasing, None
<1>3. DOMAIN document_to_relevance = {k \in Key : Found(k) /\ ~Excluded(k)}
  BY <1>2 DEF MinusInv
<1>4. document_to_relevance = Sequential
  BY <1>3 DEF MinusInv, Sequential
<1> QED BY <1>1, <1>4, SameAsked

\* What a single thread finds.
LEMMA SequentialIsAnswer == AskedInv => Sequential = FindAllDocuments(query, comparator)
<1> SUFFICES ASSUME AskedInv PROVE Sequential = FindAllDocuments(query, comparator)
  OBVIOUS
<1> DEFINE here(id) == {w \in PlusWords(query) \cap DOMAIN word_to_document_freqs_ :
                          id \in DOMAIN word_to_document_freqs_[w]}
           found == {d \in DocumentsOf(PlusWords(query)) \ DocumentsOf(MinusWords(query)) :
                       Accepts(comparator, d, document_ratings_status_[d])}
<1>1. FindAllDocuments(query, comparator) = [id \in found |-> SumByIndex(id, here(id))]
  BY DEF FindAllDocuments, SumByIndex
<1>2. \A k : here(k) = Wanted(k)
  BY DEF Wanted, KnownWords, IdsOf
<1>3. \A k : k \in DocumentsOf(PlusWords(query)) <=> Wanted(k) # {}
  BY DEF DocumentsOf, Wanted, KnownWords, IdsOf
<1>4. \A k : Wanted(k) # {} => k \in Key
  BY DEF Wanted, KnownWords, AskedInv
<1>5. found = {k \in Key : Found(k) /\ ~Excluded(k)}
  BY <1>3, <1>4 DEF Found, Accepted, Excluded
<1> HIDE DEF found, here
<1> QED BY <1>1, <1>2, <1>5, PartIsSum DEF Sequential

LEMMA FindInvInductive ==
  ASSUME MapAssumption, FindAssumption
  PROVE  MapInv /\ FindInv /\ [Next]_vars => (MapInv /\ FindInv)'
<1> SUFFICES ASSUME MapInv, FindInv, [Next]_vars PROVE MapInv' /\ FindInv'
  OBVIOUS
<1>0. AskedInv
  BY DEF FindInv
<1>1. CASE UNCHANGED vars
  <2>1. UNCHANGED <<serverVars, callVars, mapVars, phase, todo, doing, document_to_relevance>>
    BY <1>1 DEF vars, findVars
  <2>2. AskedInv' /\ Sequential' = Sequential
    BY <1>0, <2>1, SameAsked
  <2>3. PlusInv => PlusInv'
    BY <2>1 DEF PlusInv, CallsAreApart, AddedSoFar, WantedCalls, Added, Pending, Accepted, Found, Part,
                Wanted, KnownWords, IdsOf, ShouldAdd, DocumentOf, serverVars, callVars, mapVars
  <2>4. BuildInv => BuildInv'
    BY <2>1 DEF BuildInv, Moved, IsRelevance, Accepted, Found, Part,
                Wanted, KnownWords, IdsOf, serverVars, callVars, mapVars
  <2>5. MinusInv => MinusInv'
    BY <2>1 DEF MinusInv, ExcludedCalls, Erasing, Accepted, Found, Excluded, DocumentsOf, Part,
                Wanted, KnownWords, IdsOf, serverVars, callVars, mapVars
  <2> QED BY <2>1, <2>2, <2>3, <2>4, <2>5, NothingKeeps DEF FindInv
<1>2. CASE Next
  <2>1. UNCHANGED <<serverVars, callVars>>
    BY <1>2 DEF Next, Caller, EndOfPlus, BuildMap, EndOfBuild, EndOfMinus, Take, Call, PassOver, Add,
                EndAdd, EraseDocument, EndErase, findVars
  <2>2. AskedInv'
    BY <1>0, <2>1, SameAsked
  <2>3. Main \in Thread
    BY DEF FindAssumption
  <2>4. CASE EndOfPlus
    <3>1. phase = "plus" /\ phase' = "build" /\ Build(Main)
      BY <2>4 DEF EndOfPlus
    <3> QED BY <1>0, <2>1, <2>2, <2>3, <2>4, <3>1, EndOfPlusKeeps, BuildKeeps DEF FindInv
  <2>5. CASE BuildMap
    <3>1. phase = "build" /\ phase' = "build" /\ (BuildLock(Main) \/ Merge(Main) \/ BuildUnlock(Main))
      BY <2>5 DEF BuildMap, findVars
    <3>2. MapInv'
      BY <2>3, <3>1, BuildLockKeeps, MergeKeeps, BuildUnlockKeeps
    <3> QED BY <2>1, <2>2, <2>5, <3>1, <3>2, BuildMapKeeps DEF FindInv
  <2>6. CASE EndOfBuild
    <3>1. phase = "build" /\ phase' = "minus" /\ Return(Main)
      BY <2>6 DEF EndOfBuild
    <3> QED BY <1>0, <2>1, <2>2, <2>3, <2>6, <3>1, EndOfBuildKeeps, BuildKeeps DEF FindInv
  <2>7. CASE EndOfMinus
    <3>1. phase = "minus" /\ phase' = "done" /\ UNCHANGED mapVars
      BY <2>7 DEF EndOfMinus
    <3> QED BY <1>0, <2>1, <2>2, <2>7, <3>1, EndOfMinusKeeps, NothingKeeps DEF FindInv
  <2>8. ASSUME NEW t \in Thread, Take(t) PROVE MapInv' /\ FindInv'
    <3>1. phase \in {"plus", "minus"} /\ phase' = phase /\ UNCHANGED mapVars
      BY <2>8 DEF Take
    <3> QED BY <1>0, <2>1, <2>2, <2>8, <3>1, TakeKeepsPlus, TakeKeepsMinus, NothingKeeps DEF FindInv
  <2>9. ASSUME NEW t \in Thread, PassOver(t) PROVE MapInv' /\ FindInv'
    <3>1. phase = "plus" /\ phase' = "plus" /\ UNCHANGED mapVars
      BY <2>9 DEF PassOver, InCall
    <3> QED BY <1>0, <2>1, <2>2, <2>9, <3>1, PassOverKeepsPlus, NothingKeeps DEF FindInv
  <2>10. ASSUME NEW t \in Thread, Add(t) PROVE MapInv' /\ FindInv'
    <3>1. phase = "plus" /\ phase' = "plus" /\ doing[t] # None /\ UNCHANGED findVars /\ PlusInv
      BY <2>10 DEF Add, InCall, findVars, FindInv
    <3>2. DocumentOf(t) \in Key /\ Relevance(t) \in Int
      BY <1>0, <3>1, CallOfThread DEF PlusInv
    <3>3. CASE ShouldAdd(t) /\ Lock(t, DocumentOf(t))
      BY <2>1, <2>2, <3>1, <3>2, <3>3, LockKeepsPlus, LockKeeps DEF FindInv
    <3>4. CASE Refer(t)
      BY <1>0, <2>1, <2>2, <3>1, <3>4, ReferKeepsPlus, ReferKeeps DEF FindInv
    <3>5. CASE Load(t)
      BY <2>1, <2>2, <3>1, <3>5, LoadKeepsPlus, LoadKeeps DEF FindInv
    <3>6. CASE Store(t, Relevance(t))
      BY <1>0, <2>1, <2>2, <3>1, <3>2, <3>6, StoreKeepsPlus, StoreKeeps DEF FindInv
    <3> QED BY <2>10, <3>3, <3>4, <3>5, <3>6 DEF Add
  <2>11. ASSUME NEW t \in Thread, EndAdd(t) PROVE MapInv' /\ FindInv'
    <3>1. phase = "plus" /\ phase' = "plus" /\ Unlock(t)
      BY <2>11 DEF EndAdd, InCall
    <3> QED BY <2>1, <2>2, <2>11, <3>1, EndAddKeepsPlus, UnlockKeeps DEF FindInv
  <2>12. ASSUME NEW t \in Thread, EraseDocument(t) \/ EndErase(t) PROVE MapInv' /\ FindInv'
    <3>1. phase = "minus" /\ phase' = "minus" /\ UNCHANGED mapVars
      BY <2>12 DEF EraseDocument, EndErase
    <3> QED BY <1>0, <2>1, <2>2, <2>12, <3>1, EraseDocumentKeeps, EndEraseKeeps, NothingKeeps DEF FindInv
  <2> QED
    BY <1>2, <2>4, <2>5, <2>6, <2>7, <2>8, <2>9, <2>10, <2>11, <2>12 DEF Next, Caller, Call
<1> QED BY <1>1, <1>2

LEMMA FindInvAlways ==
  ASSUME MapAssumption, FindAssumption PROVE Spec => [](MapInv /\ FindInv)
<1>1. Init => MapInv /\ FindInv
  BY InitFindInv
<1>2. MapInv /\ FindInv /\ [Next]_vars => (MapInv /\ FindInv)'
  BY FindInvInductive
<1> QED BY <1>1, <1>2, PTL DEF Spec

\* FindAllDocuments(execution::par): whatever threads there are and however they
\* interleave, the result is the one of a single thread, for any documents and
\* any query.
THEOREM FindsTheSame ==
  ASSUME MapAssumption, FindAssumption PROVE Spec => []SameAsSequential
<1>1. MapInv /\ FindInv => SameAsSequential
  BY SequentialIsAnswer DEF FindInv, SameAsSequential
<1> QED BY <1>1, FindInvAlways, PTL

\* ... and the map it uses never loses an addition.
THEOREM FindLosesNothing ==
  ASSUME MapAssumption, FindAssumption PROVE Spec => []NoLostUpdate
<1>1. MapInv /\ FindInv => NoLostUpdate
  BY DEF MapInv
<1> QED BY <1>1, FindInvAlways, PTL
=============================================================================
