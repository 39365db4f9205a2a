---------------------------- MODULE LexerProofs -----------------------------
(***************************************************************************)
(* Theorems about the Lexer, for any text: at what depth its tokens stand. *)
(* A text is a sequence of lines, and a line a sequence of whatever.       *)
(***************************************************************************)
EXTENDS Lexer, TLAPS, FiniteSetTheorems, NaturalsInduction, WellFoundedInduction

Move == {<<"Indent">>, <<"Dedent">>}
Eof == <<"Eof">>
IsText(s) == \E S : s \in Seq(S)

\* How far the tokens have moved in.
Count(s, x) == Cardinality({j \in DOMAIN s : s[j] = x})
DepthOf(s) == Count(s, <<"Indent">>) - Count(s, <<"Dedent">>)

HasThrown(s) == s # <<>> /\ IsThrow(Last(s))

\* The first n tokens that wait are moves in one direction, which lead to where the
\* last line begins; behind them no move follows.
Waiting(n, move) ==
  /\ n = Len(parsed_tokens) => n = 0
  /\ \A j \in 1 .. n : parsed_tokens[j] = move
  /\ \A j \in n + 1 .. Len(parsed_tokens) : parsed_tokens[j] \notin Move
  /\ DepthOf(tokens) = IF move = <<"Indent">> THEN indent_count - n ELSE indent_count + n

\* A move is not the last token, and not taken back by the next.
MovesLead(n, move) ==
  tokens # <<>> /\ Last(tokens) \in Move =>
    parsed_tokens # <<>> /\ (n > 0 => Last(tokens) = move)

NoMoveIsTakenBack ==
  \A i \in 1 .. Len(tokens) - 1 : {tokens[i], tokens[i + 1]} # Move

EofComesLast ==
  /\ \A j \in DOMAIN parsed_tokens : parsed_tokens[j] = Eof => j = Len(parsed_tokens) /\ indent_count = 0
  /\ tokens # <<>> /\ Last(tokens) = Eof => parsed_tokens = <<>> /\ indent_count = 0

AreLines(lines) == IsText(lines) /\ \A k \in DOMAIN lines : IsText(lines[k])

LexerInv ==
  /\ AreLines(input) /\ IsText(parsed_tokens) /\ IsText(tokens) /\ indent_count \in Nat
  /\ DepthOf(tokens) \in Nat /\ NoMoveIsTakenBack
  /\ \/ HasThrown(parsed_tokens) /\ Len(parsed_tokens) = 1
        /\ (tokens # <<>> => Last(tokens) \notin Move \cup {Eof})
     \/ HasThrown(tokens)
     \/ EofComesLast /\ \E n \in 0 .. Len(parsed_tokens), move \in Move : Waiting(n, move) /\ MovesLead(n, move)

(***************************************************************************)
(* Depths.                                                                 *)
(***************************************************************************)
LEMMA TextGrows ==
  ASSUME NEW s, IsText(s), NEW x
  PROVE  /\ Len(s) \in Nat /\ DOMAIN s = 1 .. Len(s)
         /\ IsText(Append(s, x)) /\ Append(s, x) # <<>> /\ Last(Append(s, x)) = x
         /\ Len(Append(s, x)) = Len(s) + 1 /\ DOMAIN Append(s, x) = 1 .. Len(s) + 1
         /\ Append(s, x)[Len(s) + 1] = x /\ \A j \in 1 .. Len(s) : Append(s, x)[j] = s[j]
<1>1. PICK S : s \in Seq(S)
  BY DEF IsText
<1>2. s \in Seq(S \cup {x}) /\ Append(s, x) \in Seq(S \cup {x})
  BY <1>1
<1> QED BY <1>1, <1>2 DEF IsText, Last

LEMMA CountGrows ==
  ASSUME NEW s, IsText(s), NEW x, NEW y
  PROVE  Count(s, y) \in Nat /\ Count(Append(s, x), y) = Count(s, y) + (IF x = y THEN 1 ELSE 0)
<1> DEFINE A == {j \in DOMAIN s : s[j] = y}
           B == {j \in DOMAIN Append(s, x) : Append(s, x)[j] = y}
<1>1. Len(s) \in Nat /\ DOMAIN s = 1 .. Len(s) /\ DOMAIN Append(s, x) = 1 .. Len(s) + 1
      /\ Append(s, x)[Len(s) + 1] = x /\ \A j \in 1 .. Len(s) : Append(s, x)[j] = s[j]
  BY TextGrows
<1>2. A \subseteq 1 .. Len(s)
  BY <1>1
<1>3. IsFiniteSet(A) /\ Cardinality(A) \in Nat
  <2>1. IsFiniteSet(1 .. Len(s))
    BY <1>1, FS_Interval
  <2> QED BY <2>1, <1>2, FS_Subset, FS_CardinalityType
<1>4. x = y => Cardinality(B) = Cardinality(A) + 1
  <2> SUFFICES ASSUME x = y PROVE Cardinality(B) = Cardinality(A) + 1
    OBVIOUS
  <2>1. B = A \cup {Len(s) + 1} /\ Len(s) + 1 \notin A
    BY <1>1
  <2> HIDE DEF A, B
  <2> QED BY <2>1, <1>3, FS_AddElement
<1>5. x # y => Cardinality(B) = Cardinality(A)
  <2> SUFFICES ASSUME x # y PROVE Cardinality(B) = Cardinality(A)
    OBVIOUS
  <2>1. B = A
    BY <1>1
  <2> HIDE DEF A, B
  <2> QED BY <2>1, <1>3
<1>6. Cardinality(A) \in Nat /\ Cardinality(B) = Cardinality(A) + (IF x = y THEN 1 ELSE 0)
  <2> HIDE DEF A, B
  <2> QED BY <1>3, <1>4, <1>5
<1> QED BY <1>6 DEF Count

LEMMA DepthGrows ==
  ASSUME NEW s, IsText(s), NEW x
  PROVE  /\ DepthOf(s) \in Int
         /\ x = <<"Indent">> => DepthOf(Append(s, x)) = DepthOf(s) + 1
         /\ x = <<"Dedent">> => DepthOf(Append(s, x)) = DepthOf(s) - 1
         /\ x \notin Move => DepthOf(Append(s, x)) = DepthOf(s)
<1>1. \A y : Count(s, y) \in Nat /\ Count(Append(s, x), y) = Count(s, y) + (IF x = y THEN 1 ELSE 0)
  BY CountGrows
<1> QED BY <1>1 DEF DepthOf, Move

LEMMA EmptyIsDeepAsNothing == IsText(<<>>) /\ DepthOf(<<>>) = 0
<1>1. <<>> \in Seq({}) /\ DOMAIN <<>> = {}
  OBVIOUS
<1>2. \A y : {j \in DOMAIN <<>> : <<>>[j] = y} = {}
  BY <1>1
<1>3. Cardinality({}) = 0
  BY FS_EmptySet
<1> QED BY <1>1, <1>2, <1>3 DEF DepthOf, Count, IsText

(***************************************************************************)
(* Recursion from the end of a line: a position that is no leaf needs what *)
(* is at a position behind it, Jump[i], and makes G[i] of it.              *)
(***************************************************************************)
LEMMA LeastIndex ==
  ASSUME NEW Q, Q \subseteq Nat, Q # {}
  PROVE  \E n \in Q : \A d \in Q : n <= d
<1> DEFINE R == OpToRel(<, Nat)
<1>1. IsWellFoundedOn(R, Nat)
  BY NatLessThanWellFounded
<1>2. \A d, n \in Nat : d < n => <<d, n>> \in R
  BY DEF OpToRel
<1> HIDE DEF R
<1>3. PICK n \in Q : \A d \in Q : ~(<<d, n>> \in R)
  BY <1>1, WFMin
<1>4. \A d \in Q : ~(d < n)
  BY <1>2, <1>3
<1> QED BY <1>4

LEMMA GreatestIndex ==
  ASSUME NEW m \in Nat, NEW Q, Q \subseteq 0 .. m, Q # {}
  PROVE  \E n \in Q : \A d \in Q : d <= n
<1> DEFINE P == {m - n : n \in Q}
<1>1. P \subseteq Nat /\ P # {}
  <2>1. \A n \in Q : n \in 0 .. m /\ m - n \in Nat
    OBVIOUS
  <2>2. PICK n \in Q : TRUE
    OBVIOUS
  <2>3. m - n \in P
    BY <2>2
  <2> QED BY <2>1, <2>3
<1>2. PICK k \in P : \A d \in P : k <= d
  BY <1>1, LeastIndex
<1>3. PICK n \in Q : k = m - n
  BY <1>2
<1>4. ASSUME NEW d \in Q PROVE d <= n
  <2>1. m - d \in P
    OBVIOUS
  <2>2. d \in 0 .. m /\ n \in 0 .. m /\ m - n <= m - d
    BY <1>2, <1>3, <2>1
  <2> QED BY <2>2
<1> QED BY <1>4

LeadsBack(m, Leaf, Jump) == \A i \in 1 .. m + 1 : i \notin Leaf => Jump[i] \in i + 1 .. m + 1

LEMMA FromTheEnd ==
  ASSUME NEW m \in Nat, NEW Leaf, NEW Jump, LeadsBack(m, Leaf, Jump), NEW X, NEW f,
         \A i \in 1 .. m + 1 : i \in Leaf \/ f[Jump[i]] \in X => f[i] \in X
  PROVE  \A i \in 1 .. m + 1 : f[i] \in X
<1> DEFINE Bad == {i \in 1 .. m + 1 : f[i] \notin X}
<1> SUFFICES ASSUME Bad # {} PROVE FALSE
  OBVIOUS
<1>1. Bad \subseteq 0 .. m + 1 /\ m + 1 \in Nat
  OBVIOUS
<1>2. PICK i \in Bad : \A d \in Bad : d <= i
  <2> HIDE DEF Bad
  <2> QED BY <1>1, GreatestIndex
<1>3. i \notin Leaf /\ f[Jump[i]] \notin X /\ i \in 1 .. m + 1
  BY <1>2
<1>4. Jump[i] \in i + 1 .. m + 1
  BY <1>3 DEF LeadsBack
<1>5. Jump[i] \in Bad /\ Jump[i] > i
  BY <1>3, <1>4
<1> QED BY <1>2, <1>3, <1>4, <1>5

RunsBack(f, m, Leaf, Jump, L, G) ==
  \A i \in 1 .. m + 1 : f[i] = IF i \in Leaf THEN L[i] ELSE G[i][f[Jump[i]]]

LEMMA BackToFront ==
  ASSUME NEW m \in Nat, NEW Leaf, NEW Jump, LeadsBack(m, Leaf, Jump),
         NEW X, NEW L \in [1 .. m + 1 -> X], NEW G \in [1 .. m + 1 -> [X -> X]]
  PROVE  \E f \in [1 .. m + 1 -> X] : RunsBack(f, m, Leaf, Jump, L, G)
<1> DEFINE Done(a, f) ==
             /\ f \in [1 .. m + 1 -> X]
             /\ \A i \in m + 2 - a .. m + 1 : f[i] = IF i \in Leaf THEN L[i] ELSE G[i][f[Jump[i]]]
           Bad == {a \in Nat : a <= m + 1 /\ ~\E f : Done(a, f)}
<1>1. 0 \notin Bad
  <2>1. Done(0, L)
    OBVIOUS
  <2> HIDE DEF Done
  <2> QED BY <2>1
<1>2. ASSUME NEW a \in Nat, a + 1 <= m + 1, NEW f, Done(a, f) PROVE \E g : Done(a + 1, g)
  <2> DEFINE k == m + 1 - a
             x == IF k \in Leaf THEN L[k] ELSE G[k][f[Jump[k]]]
             g == [f EXCEPT ![k] = x]
  <2>1. k \in 1 .. m + 1 /\ m + 2 - (a + 1) = k /\ m + 2 - a = k + 1
    BY <1>2
  <2>2. k \notin Leaf => Jump[k] \in k + 1 .. m + 1
    BY <2>1 DEF LeadsBack
  <2>3. f \in [1 .. m + 1 -> X] /\ \A i \in k + 1 .. m + 1 : f[i] = IF i \in Leaf THEN L[i] ELSE G[i][f[Jump[i]]]
    BY <1>2, <2>1
  <2> HIDE DEF k
  <2>4. x \in X
    BY <2>1, <2>2, <2>3
  <2>5. g \in [1 .. m + 1 -> X] /\ g[k] = x /\ \A i \in 1 .. m + 1 : i # k => g[i] = f[i]
    BY <2>1, <2>3, <2>4
  <2> HIDE DEF g
  <2>6. ASSUME NEW i \in k .. m + 1 PROVE g[i] = IF i \in Leaf THEN L[i] ELSE G[i][g[Jump[i]]]
    <3>1. i \in 1 .. m + 1 /\ (i \notin Leaf => Jump[i] \in i + 1 .. m + 1)
      BY <2>1 DEF LeadsBack
    <3>2. i \notin Leaf => g[Jump[i]] = f[Jump[i]]
      BY <2>1, <2>5, <3>1
    <3>3. CASE i = k
      BY <2>5, <3>2, <3>3
    <3>4. CASE i # k
      <4>1. i \in k + 1 .. m + 1
        BY <2>1, <3>4
      <4> QED BY <2>3, <2>5, <3>1, <3>2, <3>4, <4>1
    <3> QED BY <3>3, <3>4
  <2>7. Done(a + 1, g)
    BY <2>1, <2>5, <2>6
  <2> HIDE DEF Done
  <2> QED BY <2>7
<1>3. Bad = {}
  <2> SUFFICES ASSUME Bad # {} PROVE FALSE
    OBVIOUS
  <2> HIDE DEF Done
  <2>1. Bad \subseteq Nat
    OBVIOUS
  <2> HIDE DEF Bad
  <2>2. PICK a \in Bad : \A d \in Bad : a <= d
    BY <2>1, LeastIndex
  <2>3. a \in Nat /\ a # 0 /\ a - 1 \in Nat /\ a - 1 \notin Bad
    BY <1>1, <2>1, <2>2
  <2> USE DEF Bad
  <2>4. a <= m + 1 /\ ~\E f : Done(a, f)
    BY <2>2
  <2>5. PICK f : Done(a - 1, f)
    BY <2>3, <2>4
  <2>6. (a - 1) + 1 = a
    BY <2>3
  <2>7. \E g : Done((a - 1) + 1, g)
    BY <1>2, <2>3, <2>4, <2>5, <2>6
  <2> QED BY <2>4, <2>6, <2>7
<1>4. PICK f : Done(m + 1, f)
  <2> HIDE DEF Done
  <2>1. m + 1 \in Nat /\ m + 1 <= m + 1
    OBVIOUS
  <2>2. m + 1 \notin Bad
    <3> HIDE DEF Bad
    <3> QED BY <1>3
  <2> QED BY <2>1, <2>2
<1>5. m + 2 - (m + 1) = 1
  OBVIOUS
<1> QED BY <1>4, <1>5 DEF RunsBack

(***************************************************************************)
(* What a line is without its comment.                                     *)
(***************************************************************************)
LEMMA LeastIsMin ==
  ASSUME NEW Q, Q \subseteq Nat, Q # {}
  PROVE  Min(Q) \in Q /\ \A d \in Q : Min(Q) <= d
<1>1. \E n \in Q : \A d \in Q : n <= d
  BY LeastIndex
<1> QED BY <1>1 DEF Min

LEMMA GreatestIsMax ==
  ASSUME NEW m \in Nat, NEW Q, Q \subseteq 0 .. m, Q # {}
  PROVE  Max(Q) \in Q /\ \A d \in Q : d <= Max(Q)
<1>1. \E n \in Q : \A d \in Q : n >= d
  <2>1. PICK n \in Q : \A d \in Q : d <= n
    BY GreatestIndex
  <2>2. \A d \in Q : n >= d
    BY <2>1
  <2> QED BY <2>2
<1> QED BY <1>1 DEF Max

LEMMA CommentBegins ==
  ASSUME NEW line, IsText(line)
  PROVE  NonCommentEnd(line) \in 0 .. Len(line)
<1> DEFINE closing(i) == {j \in i + 1 .. Len(line) : line[j] = line[i]}
           hashes(i) == {j \in i .. Len(line) : line[j] = Hash}
           IsEnd(f) == f = [i \in 1 .. Len(line) + 1 |->
             IF i > Len(line) THEN Len(line)
             ELSE IF IsQuote(line[i]) /\ closing(i) # {} THEN f[Min(closing(i)) + 1]
             ELSE IF IsQuote(line[i]) \/ line[i] = Hash
               THEN IF hashes(i) = {} THEN Len(line) ELSE Min(hashes(i)) - 1
             ELSE f[i + 1]]
           end == CHOOSE f : IsEnd(f)
           X == 0 .. Len(line)
           Passed(i) == IsQuote(line[i]) /\ closing(i) # {}
           Stops(i) == ~Passed(i) /\ (IsQuote(line[i]) \/ line[i] = Hash)
           Leaf == {i \in 1 .. Len(line) + 1 : i > Len(line) \/ Stops(i)}
           Jump == [i \in 1 .. Len(line) + 1 |-> IF Passed(i) THEN Min(closing(i)) + 1 ELSE i + 1]
           L == [i \in 1 .. Len(line) + 1 |->
                   IF i <= Len(line) /\ Stops(i) /\ hashes(i) # {} THEN Min(hashes(i)) - 1 ELSE Len(line)]
           G == [i \in 1 .. Len(line) + 1 |-> [x \in X |-> x]]
<1>1. Len(line) \in Nat
  BY DEF IsText
<1>2. \A i \in 1 .. Len(line) : closing(i) # {} => Min(closing(i)) \in i + 1 .. Len(line)
  <2> SUFFICES ASSUME NEW i \in 1 .. Len(line), closing(i) # {} PROVE Min(closing(i)) \in i + 1 .. Len(line)
    OBVIOUS
  <2>1. closing(i) \subseteq Nat /\ closing(i) \subseteq i + 1 .. Len(line)
    BY <1>1
  <2> QED BY <2>1, LeastIsMin
<1>3. \A i \in 1 .. Len(line) : hashes(i) # {} => Min(hashes(i)) \in i .. Len(line)
  <2> SUFFICES ASSUME NEW i \in 1 .. Len(line), hashes(i) # {} PROVE Min(hashes(i)) \in i .. Len(line)
    OBVIOUS
  <2>1. hashes(i) \subseteq Nat /\ hashes(i) \subseteq i .. Len(line)
    BY <1>1
  <2> QED BY <2>1, LeastIsMin
<1> HIDE DEF closing, hashes
<1>4. LeadsBack(Len(line), Leaf, Jump)
  <2> SUFFICES ASSUME NEW i \in 1 .. Len(line) + 1, i \notin Leaf
               PROVE  Jump[i] \in i + 1 .. Len(line) + 1
    BY DEF LeadsBack
  <2>1. i \in 1 .. Len(line)
    BY <1>1
  <2> QED BY <1>1, <1>2, <2>1
<1>5. L \in [1 .. Len(line) + 1 -> X] /\ G \in [1 .. Len(line) + 1 -> [X -> X]]
  <2>1. \A i \in 1 .. Len(line) + 1 : L[i] \in X
    BY <1>1, <1>3
  <2> QED BY <2>1
<1>6. PICK f \in [1 .. Len(line) + 1 -> X] : RunsBack(f, Len(line), Leaf, Jump, L, G)
  <2> HIDE DEF X, L, G, Leaf, Jump
  <2> QED BY <1>1, <1>4, <1>5, BackToFront
<1> DEFINE Body(g, i) ==
             IF i > Len(line) THEN Len(line)
             ELSE IF Passed(i) THEN g[Min(closing(i)) + 1]
             ELSE IF IsQuote(line[i]) \/ line[i] = Hash
               THEN IF hashes(i) = {} THEN Len(line) ELSE Min(hashes(i)) - 1
             ELSE g[i + 1]
<1>7. \A i \in 1 .. Len(line) + 1 : f[i] = Body(f, i)
  <2> SUFFICES ASSUME NEW i \in 1 .. Len(line) + 1 PROVE f[i] = Body(f, i)
    OBVIOUS
  <2>1. f[i] = IF i \in Leaf THEN L[i] ELSE G[i][f[Jump[i]]]
    BY <1>6 DEF RunsBack
  <2>2. CASE i > Len(line)
    BY <1>1, <2>1, <2>2
  <2>3. CASE i \in 1 .. Len(line) /\ Stops(i)
    BY <1>1, <2>1, <2>3
  <2>4. CASE i \in 1 .. Len(line) /\ ~Stops(i)
    <3>1. i \notin Leaf /\ Jump[i] \in 1 .. Len(line) + 1
      BY <1>1, <1>2, <2>4
    <3>2. f[Jump[i]] \in X
      BY <1>6, <3>1
    <3>3. f[i] = f[Jump[i]]
      BY <2>1, <3>1, <3>2
    <3> QED BY <1>1, <2>4, <3>3
  <2> QED BY <1>1, <2>2, <2>3, <2>4
<1>8. IsEnd(f)
  <2> HIDE DEF Passed
  <2>1. f = [i \in 1 .. Len(line) + 1 |-> Body(f, i)]
    <3> HIDE DEF Body
    <3> QED BY <1>6, <1>7
  <2> USE DEF Passed
  <2> QED BY <2>1
<1>9. IsEnd(end)
  <2> HIDE DEF IsEnd
  <2> QED BY <1>8
<1>10. \A i \in 1 .. Len(line) + 1 : end[i] = Body(end, i)
  <2> HIDE DEF end
  <2> QED BY <1>9
<1> HIDE DEF end
<1>11. \A i \in 1 .. Len(line) + 1 : i \in Leaf \/ end[Jump[i]] \in X => end[i] \in X
  <2> SUFFICES ASSUME NEW i \in 1 .. Len(line) + 1, i \in Leaf \/ end[Jump[i]] \in X PROVE end[i] \in X
    OBVIOUS
  <2>1. end[i] = Body(end, i)
    BY <1>10
  <2>2. CASE i > Len(line)
    BY <1>1, <2>1, <2>2
  <2>3. CASE i \in 1 .. Len(line) /\ Stops(i)
    BY <1>1, <1>3, <2>1, <2>3
  <2>4. CASE i \in 1 .. Len(line) /\ ~Stops(i)
    BY <1>1, <2>1, <2>4
  <2> QED BY <1>1, <2>2, <2>3, <2>4
<1>12. \A i \in 1 .. Len(line) + 1 : end[i] \in X
  <2> HIDE DEF X, Leaf, Jump, Body
  <2> QED BY <1>1, <1>4, <1>11, FromTheEnd
<1>13. NonCommentEnd(line) = end[1]
  BY DEF NonCommentEnd, end, closing, hashes
<1> QED BY <1>1, <1>12, <1>13

\* What is left of a line begins somewhere, because it does not end with a blank.
LEMMA RestBegins ==
  ASSUME NEW line, IsText(line)
  PROVE  LET rest == EraseCommentAndSpacesBefore(line)
         IN  IsText(rest) /\ (rest # <<>> => IndentOf(rest) \in Nat)
<1> DEFINE kept == SubSeq(line, 1, NonCommentEnd(line))
           solid == {i \in DOMAIN kept : kept[i] # Blank}
           rest == SubSeq(kept, 1, Max({0} \cup solid))
<1>1. PICK S : line \in Seq(S)
  BY DEF IsText
<1>2. kept \in Seq(S) /\ Len(kept) \in Nat /\ DOMAIN kept = 1 .. Len(kept)
  <2>1. NonCommentEnd(line) \in 0 .. Len(line)
    BY CommentBegins
  <2> QED BY <1>1, <2>1
<1> HIDE DEF kept
<1> DEFINE n == Max({0} \cup solid)
<1>3. n \in {0} \cup solid /\ n \in 0 .. Len(kept)
  <2>1. {0} \cup solid \subseteq 0 .. Len(kept) /\ {0} \cup solid # {}
    BY <1>2
  <2> HIDE DEF solid
  <2> QED BY <1>2, <2>1, GreatestIsMax
<1> HIDE DEF n
<1>4. /\ rest \in Seq(S) /\ Len(rest) = n /\ DOMAIN rest = 1 .. n
      /\ \A i \in 1 .. n : rest[i] = kept[i]
  <2>1. rest = SubSeq(kept, 1, n)
    BY DEF n
  <2> HIDE DEF rest
  <2> QED BY <1>2, <1>3, <2>1
<1>5. EraseCommentAndSpacesBefore(line) = rest
  BY DEF EraseCommentAndSpacesBefore, kept
<1>6. ASSUME rest # <<>> PROVE IndentOf(rest) \in Nat
  <2> HIDE DEF rest
  <2>1. n > 0
    BY <1>3, <1>4, <1>6
  <2>2. n \in solid
    BY <1>3, <2>1
  <2> DEFINE Q == {i \in DOMAIN rest : rest[i] # Blank}
  <2>3. n \in Q /\ Q \subseteq 1 .. n
    BY <1>4, <2>2, <2>1, <1>3
  <2>4. Min(Q) \in Q
    <3>1. Q \subseteq Nat /\ Q # {}
      BY <2>3, <1>3
    <3> HIDE DEF Q
    <3> QED BY <3>1, LeastIsMin
  <2>5. Min(Q) \in Nat /\ Min(Q) >= 1
    BY <1>3, <2>3, <2>4
  <2>6. Leading(rest) = Min(Q) - 1
    BY DEF Leading
  <2> HIDE DEF Q
  <2> QED BY <2>5, <2>6 DEF IndentOf
<1> HIDE DEF rest
<1> QED BY <1>4, <1>5, <1>6 DEF IsText

(***************************************************************************)
(* The tokens of a line: no moves, and no Eof.                             *)
(***************************************************************************)
IsLineToken(token) == token \notin Move /\ token # Eof

\* A token is taken from the line, or an exception thrown.
LEMMA TokenGoesOn ==
  ASSUME NEW line, IsText(line), NEW i \in 1 .. Len(line)
  PROVE  /\ IsLineToken(TokenAt(line, i)[1])
         /\ IsThrow(TokenAt(line, i)[1]) \/ TokenAt(line, i)[2] \in i + 1 .. Len(line) + 1
<1> DEFINE c == line[i]
           pair == {t \in TwoCharacters : /\ i < Len(line)
                                          /\ c = <<"char", t[1]>> /\ line[i + 1] = <<"char", "=">>}
           string == EraseEscapeSequences(SubSeq(line, i + 1, ClosingQuote(line, i) - 1))
<1>1. Len(line) \in Nat
  BY DEF IsText
<1>2. ClosingQuote(line, i) > 0 => ClosingQuote(line, i) \in i + 1 .. Len(line)
  <2> DEFINE behind == {j \in i + 2 .. Len(line) : line[j] = line[i] /\ line[j - 1] # Backslash}
  <2>1. behind # {} => Min(behind) \in behind
    <3>1. behind \subseteq Nat
      BY <1>1
    <3> HIDE DEF behind
    <3> QED BY <3>1, LeastIsMin
  <2>2. ClosingQuote(line, i) = IF behind # {} THEN Min(behind)
                                ELSE IF i < Len(line) /\ line[i + 1] = line[i] THEN i + 1 ELSE 0
    BY DEF ClosingQuote
  <2>3. behind \subseteq i + 1 .. Len(line)
    BY <1>1
  <2> HIDE DEF behind, pair, string, c
  <2>4. behind # {} => Min(behind) \in i + 1 .. Len(line)
    BY <2>1, <2>3
  <2>5. CASE behind # {}
    BY <2>2, <2>4, <2>5
  <2>6. CASE behind = {} /\ i < Len(line) /\ line[i + 1] = line[i]
    BY <1>1, <2>2, <2>6
  <2>7. CASE behind = {} /\ ~(i < Len(line) /\ line[i + 1] = line[i])
    BY <2>2, <2>7
  <2> QED BY <2>5, <2>6, <2>7
<1>3. ASSUME pair # {} PROVE i < Len(line) /\ (CHOOSE t \in pair : TRUE) \in TwoCharacters
  BY <1>3
<1>4. \A t \in TwoCharacters : IsLineToken(<<t[2]>>)
  BY DEF TwoCharacters, IsLineToken, Move, Eof
<1>5. \A k \in DOMAIN Keywords : IsLineToken(<<Keywords[k]>>)
  BY DEF Keywords, IsLineToken, Move, Eof
<1>6. \A x, y : IsLineToken(<<x, y>>)
  BY DEF IsLineToken, Move, Eof
<1> DEFINE word == <<IF c[2] \in DOMAIN Keywords THEN <<Keywords[c[2]]>> ELSE <<"Id", c[2]>>, i + 1>>
           number == <<IF c[2] > MaxInt THEN Throw("out_of_range") ELSE <<"Number", c[2]>>, i + 1>>
           two == <<<<(CHOOSE t \in pair : TRUE)[2]>>, i + 2>>
           one == <<Char(c[2]), i + 1>>
           quoted == <<<<"String", string>>, ClosingQuote(line, i) + 1>>
           other == <<Throw("logic_error"), i>>
           Fine(t) == IsLineToken(t[1]) /\ (IsThrow(t[1]) \/ t[2] \in i + 1 .. Len(line) + 1)
<1>7. TokenAt(line, i) =
        CASE c[1] = "word" -> word
          [] c[1] = "number" -> number
          [] pair # {} -> two
          [] pair = {} /\ c[1] = "char" /\ c[2] \in Characters -> one
          [] IsQuote(c) /\ ClosingQuote(line, i) > 0 -> quoted
          [] OTHER -> other
  BY DEF TokenAt
<1>8. Fine(word)
  BY <1>1, <1>5, <1>6
<1>9. Fine(number)
  BY <1>1, <1>6 DEF Throw
<1>10. pair # {} => Fine(two)
  <2> HIDE DEF pair
  <2> QED BY <1>1, <1>3, <1>4
<1>11. Fine(one)
  BY <1>1, <1>6 DEF Char
<1>12. ClosingQuote(line, i) > 0 => Fine(quoted)
  <2> HIDE DEF string
  <2> QED BY <1>1, <1>2, <1>6
<1>13. Fine(other)
  BY <1>6 DEF Throw, IsThrow
<1> HIDE DEF c, pair, word, number, two, one, quoted, other, Fine
<1>14. Fine(TokenAt(line, i))
  BY <1>7, <1>8, <1>9, <1>10, <1>11, <1>12, <1>13
<1> QED BY <1>14 DEF Fine

LEMMA LineHasTokens ==
  ASSUME NEW line, IsText(line)
  PROVE  LET ts == ParseTokens(line)
         IN  /\ IsText(ts) /\ ts # <<>>
             /\ \A j \in 1 .. Len(ts) : IsLineToken(ts[j])
<1> DEFINE m == Len(line)
           IsParse(f) == f = [i \in 1 .. Len(line) + 1 |->
             LET next == TokenAt(line, i)
             IN  IF i > Len(line) THEN <<<<"Newline">>>>
                 ELSE IF line[i] = Blank THEN f[i + 1]
                 ELSE IF IsThrow(next[1]) THEN <<next[1]>>
                 ELSE <<next[1]>> \o f[next[2]]]
           parse == CHOOSE f : IsParse(f)
           token(i) == TokenAt(line, i)[1]
           T == {token(i) : i \in 1 .. m} \cup {<<"Newline">>}
           X == {s \in Seq(T) : s # <<>>}
           Throws(i) == line[i] # Blank /\ IsThrow(token(i))
           Leaf == {i \in 1 .. m + 1 : i > m \/ Throws(i)}
           Jump == [i \in 1 .. m + 1 |-> IF line[i] = Blank THEN i + 1 ELSE TokenAt(line, i)[2]]
           L == [i \in 1 .. m + 1 |-> IF i > m THEN <<<<"Newline">>>> ELSE <<token(i)>>]
           G == [i \in 1 .. m + 1 |-> [s \in X |-> IF line[i] = Blank \/ i > m THEN s ELSE <<token(i)>> \o s]]
           Body(f, i) == IF i > m THEN <<<<"Newline">>>>
                         ELSE IF line[i] = Blank THEN f[i + 1]
                         ELSE IF IsThrow(token(i)) THEN <<token(i)>>
                         ELSE <<token(i)>> \o f[TokenAt(line, i)[2]]
<1>1. m \in Nat
  BY DEF IsText
<1>2. \A i \in 1 .. m : /\ IsLineToken(token(i)) /\ token(i) \in T
                        /\ IsThrow(token(i)) \/ TokenAt(line, i)[2] \in i + 1 .. m + 1
  BY TokenGoesOn
<1>3. \A t \in T : IsLineToken(t)
  <2>1. IsLineToken(<<"Newline">>)
    BY DEF IsLineToken, Move, Eof
  <2> QED BY <1>2, <2>1
<1>4. <<"Newline">> \in T
  OBVIOUS
<1>5. \A f : IsParse(f) <=> f = [i \in 1 .. m + 1 |-> Body(f, i)]
  OBVIOUS
<1> HIDE DEF IsParse
<1> HIDE DEF m, T, token
<1>6. LeadsBack(m, Leaf, Jump)
  <2> SUFFICES ASSUME NEW i \in 1 .. m + 1, i \notin Leaf PROVE Jump[i] \in i + 1 .. m + 1
    BY DEF LeadsBack
  <2>1. i \in 1 .. m
    BY <1>1
  <2> QED BY <1>1, <1>2, <2>1
<1>7. \A t \in T : <<t>> \in X /\ \A s \in X : <<t>> \o s \in X
  OBVIOUS
<1> HIDE DEF X
<1>8. L \in [1 .. m + 1 -> X] /\ G \in [1 .. m + 1 -> [X -> X]]
  <2>1. \A i \in 1 .. m + 1 : L[i] \in X
    BY <1>1, <1>2, <1>4, <1>7
  <2>2. ASSUME NEW i \in 1 .. m + 1 PROVE G[i] \in [X -> X]
    BY <1>1, <1>2, <1>7
  <2> QED BY <2>1, <2>2
<1>9. PICK f \in [1 .. m + 1 -> X] : RunsBack(f, m, Leaf, Jump, L, G)
  <2> HIDE DEF L, G, Leaf, Jump
  <2> QED BY <1>1, <1>6, <1>8, BackToFront
<1>10. \A i \in 1 .. m + 1 : f[i] = Body(f, i)
  <2> SUFFICES ASSUME NEW i \in 1 .. m + 1 PROVE f[i] = Body(f, i)
    OBVIOUS
  <2>1. f[i] = IF i \in Leaf THEN L[i] ELSE G[i][f[Jump[i]]]
    BY <1>9 DEF RunsBack
  <2>2. CASE i > m
    BY <1>1, <2>1, <2>2
  <2>3. CASE i \in 1 .. m /\ Throws(i)
    BY <1>1, <2>1, <2>3
  <2>4. CASE i \in 1 .. m /\ ~Throws(i)
    <3>1. i \notin Leaf /\ Jump[i] \in 1 .. m + 1
      BY <1>1, <1>2, <2>4
    <3>2. f[Jump[i]] \in X
      BY <1>9, <3>1
    <3>3. f[i] = IF line[i] = Blank THEN f[Jump[i]] ELSE <<token(i)>> \o f[Jump[i]]
      BY <1>1, <2>1, <2>4, <3>1, <3>2
    <3> QED BY <1>1, <2>4, <3>3
  <2> QED BY <1>1, <2>2, <2>3, <2>4
<1>11. IsParse(f)
  <2>1. f = [i \in 1 .. m + 1 |-> Body(f, i)]
    <3> HIDE DEF Body
    <3> QED BY <1>9, <1>10
  <2> QED BY <2>1, <1>5
<1>12. IsParse(parse)
  BY <1>11
<1> HIDE DEF parse
<1>13. \A i \in 1 .. m + 1 : parse[i] = Body(parse, i)
  <2> HIDE DEF Body
  <2> QED BY <1>5, <1>12
<1>14. \A i \in 1 .. m + 1 : i \in Leaf \/ parse[Jump[i]] \in X => parse[i] \in X
  <2> SUFFICES ASSUME NEW i \in 1 .. m + 1, i \in Leaf \/ parse[Jump[i]] \in X PROVE parse[i] \in X
    OBVIOUS
  <2>1. parse[i] = Body(parse, i)
    BY <1>13
  <2>2. CASE i > m
    BY <1>1, <1>4, <1>7, <2>1, <2>2
  <2>3. CASE i \in 1 .. m /\ Throws(i)
    BY <1>1, <1>2, <1>7, <2>1, <2>3
  <2>4. CASE i \in 1 .. m /\ ~Throws(i)
    BY <1>1, <1>2, <1>7, <2>1, <2>4
  <2> QED BY <1>1, <2>2, <2>3, <2>4
<1>15. parse[1] \in X
  <2>1. \A i \in 1 .. m + 1 : parse[i] \in X
    <3> HIDE DEF Leaf, Jump, Body
    <3> QED BY <1>1, <1>6, <1>14, FromTheEnd
  <2> QED BY <1>1, <2>1
<1>16. ParseTokens(line) = parse[1]
  BY DEF ParseTokens, parse, IsParse
<1> QED BY <1>3, <1>15, <1>16 DEF X, IsText

(***************************************************************************)
(* One lemma for each action.                                              *)
(***************************************************************************)
LEMMA JoinedText ==
  ASSUME NEW s, IsText(s), NEW t, IsText(t)
  PROVE  /\ IsText(s \o t) /\ Len(s \o t) = Len(s) + Len(t)
         /\ Len(s) \in Nat /\ Len(t) \in Nat /\ DOMAIN (s \o t) = 1 .. Len(s) + Len(t)
         /\ \A j \in 1 .. Len(s) : (s \o t)[j] = s[j]
         /\ \A j \in Len(s) + 1 .. Len(s) + Len(t) : (s \o t)[j] = t[j - Len(s)]
         /\ t # <<>> => Len(t) > 0 /\ s \o t # <<>> /\ Last(s \o t) = Last(t)
<1>1. PICK S : s \in Seq(S)
  BY DEF IsText
<1>2. PICK T : t \in Seq(T)
  BY DEF IsText
<1>3. s \in Seq(S \cup T) /\ t \in Seq(S \cup T)
  BY <1>1, <1>2
<1>4. s \o t \in Seq(S \cup T) /\ Len(s \o t) = Len(s) + Len(t) /\ Len(s) \in Nat /\ Len(t) \in Nat
  BY <1>3
<1>5. /\ \A j \in 1 .. Len(s) : (s \o t)[j] = s[j]
      /\ \A j \in Len(s) + 1 .. Len(s) + Len(t) : (s \o t)[j] = t[j - Len(s)]
  BY <1>3
<1>6. ASSUME t # <<>> PROVE Len(t) > 0 /\ s \o t # <<>> /\ Last(s \o t) = Last(t)
  <2>1. Len(t) > 0
    BY <1>3, <1>6
  <2>2. Len(s) + Len(t) \in Len(s) + 1 .. Len(s) + Len(t) /\ (Len(s) + Len(t)) - Len(s) = Len(t)
    BY <1>4, <2>1
  <2>3. (s \o t)[Len(s) + Len(t)] = t[Len(t)]
    BY <1>5, <2>2
  <2>4. s \o t # <<>>
    BY <1>4, <2>1
  <2> QED BY <1>4, <2>1, <2>3, <2>4 DEF Last
<1> QED BY <1>4, <1>5, <1>6 DEF IsText

LEMMA TextShrinks ==
  ASSUME NEW s, IsText(s), s # <<>>
  PROVE  /\ Len(s) \in Nat /\ Len(s) > 0 /\ DOMAIN s = 1 .. Len(s) /\ Head(s) = s[1]
         /\ IsText(Tail(s)) /\ Len(Tail(s)) = Len(s) - 1 /\ DOMAIN Tail(s) = 1 .. Len(s) - 1
         /\ \A j \in 1 .. Len(s) - 1 : Tail(s)[j] = s[j + 1]
         /\ Len(s) = 1 <=> Tail(s) = <<>>
<1>1. PICK S : s \in Seq(S)
  BY DEF IsText
<1>2. Tail(s) \in Seq(S) /\ Len(s) \in Nat /\ Len(s) > 0 /\ Len(Tail(s)) = Len(s) - 1
  BY <1>1
<1> QED BY <1>1, <1>2 DEF IsText

LEMMA InputShrinks ==
  ASSUME AreLines(input), input # <<>>
  PROVE  IsText(Head(input)) /\ AreLines(Tail(input))
<1>1. /\ Len(input) \in Nat /\ Len(input) > 0 /\ DOMAIN input = 1 .. Len(input) /\ Head(input) = input[1]
      /\ IsText(Tail(input)) /\ DOMAIN Tail(input) = 1 .. Len(input) - 1
      /\ \A j \in 1 .. Len(input) - 1 : Tail(input)[j] = input[j + 1]
  BY TextShrinks DEF AreLines
<1>2. ASSUME NEW k \in DOMAIN Tail(input) PROVE IsText(Tail(input)[k])
  <2>1. k + 1 \in DOMAIN input
    BY <1>1
  <2> QED BY <1>1, <2>1 DEF AreLines
<1>3. 1 \in DOMAIN input
  BY <1>1
<1> QED BY <1>1, <1>2, <1>3 DEF AreLines

LEMMA MovesToIndent ==
  ASSUME NEW indent \in Nat, indent_count \in Nat
  PROVE  LET moves == ParseIndentDedent(indent)
         IN  /\ IsText(moves)
             /\ \E move \in Move :
                  /\ \A j \in 1 .. Len(moves) : moves[j] = move
                  /\ indent_count = IF move = <<"Indent">> THEN indent - Len(moves) ELSE indent + Len(moves)
<1>1. CASE indent_count < indent
  <2> DEFINE n == indent - indent_count
             moves == [k \in 1 .. n |-> <<"Indent">>]
  <2>1. ParseIndentDedent(indent) = moves
    BY <1>1 DEF ParseIndentDedent
  <2>2. n \in Nat /\ indent_count = indent - n
    BY <1>1
  <2> HIDE DEF n
  <2>3. moves \in Seq(Move) /\ Len(moves) = n /\ \A j \in 1 .. n : moves[j] = <<"Indent">>
    BY <2>2 DEF Move
  <2>4. <<"Indent">> \in Move
    BY DEF Move
  <2> HIDE DEF moves
  <2>5. /\ \A j \in 1 .. Len(moves) : moves[j] = <<"Indent">>
        /\ indent_count = IF <<"Indent">> = <<"Indent">> THEN indent - Len(moves) ELSE indent + Len(moves)
    BY <2>2, <2>3
  <2> QED BY <2>1, <2>3, <2>4, <2>5 DEF IsText
<1>2. CASE ~(indent_count < indent)
  <2> DEFINE n == indent_count - indent
             moves == [k \in 1 .. n |-> <<"Dedent">>]
  <2>1. ParseIndentDedent(indent) = moves
    BY <1>2 DEF ParseIndentDedent
  <2>2. n \in Nat /\ indent_count = indent + n
    BY <1>2
  <2> HIDE DEF n
  <2>3. moves \in Seq(Move) /\ Len(moves) = n /\ \A j \in 1 .. n : moves[j] = <<"Dedent">>
    BY <2>2 DEF Move
  <2>4. <<"Dedent">> \in Move /\ <<"Dedent">> # <<"Indent">>
    BY DEF Move
  <2> HIDE DEF moves
  <2>5. /\ \A j \in 1 .. Len(moves) : moves[j] = <<"Dedent">>
        /\ indent_count = IF <<"Dedent">> = <<"Indent">> THEN indent - Len(moves) ELSE indent + Len(moves)
    BY <2>2, <2>3, <2>4
  <2> QED BY <2>1, <2>3, <2>4, <2>5 DEF IsText
<1> QED BY <1>1, <1>2

\* When a line is read the last token was no move, and stands at indent_count.
LEMMA NothingWaits ==
  ASSUME LexerInv, ~AtEnd, parsed_tokens = <<>>
  PROVE  DepthOf(tokens) = indent_count /\ (tokens # <<>> => Last(tokens) \notin Move /\ Last(tokens) # Eof)
<1>1. ~HasThrown(parsed_tokens) /\ ~HasThrown(tokens) /\ Len(parsed_tokens) = 0
  BY DEF HasThrown, AtEnd
<1>2. PICK n \in 0 .. 0, move \in Move : Waiting(n, move) /\ MovesLead(n, move)
  BY <1>1 DEF LexerInv
<1>3. n = 0
  BY <1>2
<1> QED BY <1>2, <1>3 DEF Waiting, MovesLead, LexerInv, AtEnd, Eof

LEMMA ReadLineKeepsInv ==
  ASSUME LexerInv, ReadLine
  PROVE  LexerInv'
<1> DEFINE line == Head(input)
           rest == EraseCommentAndSpacesBefore(line)
           indent == IndentOf(rest)
           line_tokens == ParseTokens(rest)
           moves == ParseIndentDedent(indent)
<1>1. ~AtEnd /\ parsed_tokens = <<>> /\ input # <<>> /\ input' = Tail(input) /\ tokens' = tokens
  BY DEF ReadLine
<1>2. DepthOf(tokens) = indent_count /\ (tokens # <<>> => Last(tokens) \notin Move /\ Last(tokens) # Eof)
  BY <1>1, NothingWaits
<1>3. IsText(line) /\ AreLines(input)'
  BY <1>1, InputShrinks DEF LexerInv
<1>4. IsText(rest) /\ (rest # <<>> => indent \in Nat)
  BY <1>3, RestBegins
<1>5. IsText(tokens)' /\ (DepthOf(tokens) \in Nat)' /\ NoMoveIsTakenBack'
  BY <1>1 DEF LexerInv, NoMoveIsTakenBack
<1>6. ParseLine(line)
  BY DEF ReadLine
<1>7. CASE rest = <<>>
  <2>1. parsed_tokens' = <<>> /\ indent_count' = indent_count
    BY <1>1, <1>6, <1>7 DEF ParseLine
  <2> QED BY <1>1, <1>3, <1>5, <2>1 DEF LexerInv, HasThrown, EofComesLast, Waiting, MovesLead
<1>8. CASE rest # <<>> /\ IsThrow(Last(line_tokens))
  <2>1. indent_count' = indent /\ parsed_tokens' = <<Last(line_tokens)>>
    BY <1>6, <1>8 DEF ParseLine
  <2>2. Len(parsed_tokens') = 1 /\ parsed_tokens' # <<>> /\ Last(parsed_tokens') = Last(line_tokens)
        /\ parsed_tokens' \in Seq({Last(line_tokens)})
    BY <2>1 DEF Last
  <2>3. IsText(parsed_tokens') /\ HasThrown(parsed_tokens')
    BY <1>8, <2>2 DEF IsText, HasThrown
  <2> QED BY <1>1, <1>2, <1>3, <1>4, <1>5, <1>8, <2>1, <2>2, <2>3 DEF LexerInv
<1>9. CASE rest # <<>> /\ ~IsThrow(Last(line_tokens))
  <2>1. indent_count' = indent /\ parsed_tokens' = moves \o line_tokens
    BY <1>6, <1>9 DEF ParseLine
  <2>2. IsText(line_tokens) /\ line_tokens # <<>> /\ \A j \in 1 .. Len(line_tokens) : IsLineToken(line_tokens[j])
    BY <1>4, LineHasTokens
  <2>3. IsText(moves)
    BY <1>4, <1>9, MovesToIndent DEF LexerInv
  <2>4. PICK move \in Move :
          /\ \A j \in 1 .. Len(moves) : moves[j] = move
          /\ indent_count = IF move = <<"Indent">> THEN indent - Len(moves) ELSE indent + Len(moves)
    BY <1>4, <1>9, MovesToIndent DEF LexerInv
  <2> HIDE DEF moves, line_tokens, indent, rest, line
  <2> DEFINE n == Len(moves)
             all == moves \o line_tokens
  <2>5. /\ IsText(all) /\ Len(all) = n + Len(line_tokens) /\ DOMAIN all = 1 .. Len(all)
        /\ n \in Nat /\ Len(line_tokens) \in Nat /\ Len(line_tokens) > 0
        /\ \A j \in 1 .. n : all[j] = moves[j]
        /\ \A j \in n + 1 .. Len(all) : all[j] = line_tokens[j - n]
    BY <2>2, <2>3, JoinedText
  <2>6. ASSUME NEW j \in n + 1 .. Len(all) PROVE IsLineToken(all[j])
    <3>1. j - n \in 1 .. Len(line_tokens)
      BY <2>5
    <3> QED BY <2>2, <2>5, <3>1
  <2> HIDE DEF n, all
  <2>7. \A j \in 1 .. n : all[j] = move
    BY <2>4, <2>5 DEF n
  <2>8. PICK k \in Nat : k = n
    BY <2>5
  <2>9. /\ Len(parsed_tokens') = Len(all) /\ DOMAIN parsed_tokens' = 1 .. Len(all) /\ IsText(parsed_tokens')
        /\ k # Len(all) /\ k \in 0 .. Len(all) /\ Len(all) \in Nat
        /\ \A j \in 1 .. k : parsed_tokens'[j] = move
        /\ \A j \in k + 1 .. Len(all) : IsLineToken(parsed_tokens'[j])
    BY <2>1, <2>5, <2>6, <2>7, <2>8 DEF all
  <2>10. DepthOf(tokens)' = IF move = <<"Indent">> THEN indent_count' - k ELSE indent_count' + k
    BY <1>1, <1>2, <2>1, <2>4, <2>8 DEF n
  <2> HIDE DEF n, all
  <2>11. Waiting(k, move)'
    BY <2>9, <2>10 DEF Waiting, IsLineToken
  <2>12. MovesLead(k, move)'
    BY <1>1, <1>2 DEF MovesLead
  <2>13. EofComesLast'
    <3>1. ASSUME NEW j \in 1 .. Len(all) PROVE parsed_tokens'[j] # Eof
      <4>1. CASE j \in 1 .. k
        <5>1. move # Eof
          BY <2>4 DEF Move, Eof
        <5> QED BY <2>9, <4>1, <5>1
      <4>2. CASE j \in k + 1 .. Len(all)
        BY <2>9, <4>2 DEF IsLineToken
      <4>3. Len(all) \in Nat /\ k \in 0 .. Len(all)
        BY <2>9
      <4>4. j \in 1 .. k \/ j \in k + 1 .. Len(all)
        BY <4>3
      <4> QED BY <4>1, <4>2, <4>4
    <3> QED BY <1>1, <1>2, <2>9, <3>1 DEF EofComesLast
  <2>14. k \in 0 .. Len(parsed_tokens') /\ (indent_count' \in Nat)
    BY <1>4, <1>9, <2>1, <2>9
  <2> QED BY <1>3, <1>5, <2>9, <2>11, <2>12, <2>13, <2>14 DEF LexerInv
<1> QED BY <1>7, <1>8, <1>9

LEMMA AddEOFKeepsInv ==
  ASSUME LexerInv, AddEOFAndPrecedingDedents
  PROVE  LexerInv'
<1>1. /\ ~AtEnd /\ parsed_tokens = <<>> /\ indent_count' = 0 /\ input' = input /\ tokens' = tokens
      /\ parsed_tokens' = Append([k \in 1 .. indent_count |-> <<"Dedent">>], <<"Eof">>)
  BY DEF AddEOFAndPrecedingDedents
<1>2. DepthOf(tokens) = indent_count /\ (tokens # <<>> => Last(tokens) \notin Move /\ Last(tokens) # Eof)
  BY <1>1, NothingWaits
<1>3. PICK n \in Nat : n = indent_count
  BY DEF LexerInv
<1> DEFINE dedents == [k \in 1 .. n |-> <<"Dedent">>]
<1>4. dedents \in Seq(Move) /\ Len(dedents) = n /\ \A j \in 1 .. n : dedents[j] = <<"Dedent">>
  BY DEF Move
<1>5. parsed_tokens' = Append(dedents, <<"Eof">>) /\ IsText(dedents)
  BY <1>1, <1>3, <1>4 DEF IsText
<1> HIDE DEF dedents
<1>6. /\ IsText(parsed_tokens') /\ Len(parsed_tokens') = n + 1 /\ DOMAIN parsed_tokens' = 1 .. n + 1
      /\ parsed_tokens'[n + 1] = Eof /\ \A j \in 1 .. n : parsed_tokens'[j] = <<"Dedent">>
  BY <1>4, <1>5, TextGrows DEF Eof
<1>7. Eof \notin Move /\ <<"Dedent">> \in Move /\ <<"Dedent">> # <<"Indent">> /\ <<"Dedent">> # Eof
  BY DEF Eof, Move
<1>8. Waiting(n, <<"Dedent">>)'
  <2>1. \A j \in n + 1 .. n + 1 : parsed_tokens'[j] \notin Move
    BY <1>6, <1>7
  <2>2. DepthOf(tokens)' = 0 + n
    BY <1>1, <1>2, <1>3
  <2>3. n # Len(parsed_tokens') /\ Len(parsed_tokens') = n + 1
    <3>1. n # n + 1
      OBVIOUS
    <3> QED BY <1>6, <3>1
  <2> QED BY <1>1, <1>6, <1>7, <2>1, <2>2, <2>3 DEF Waiting
<1>9. MovesLead(n, <<"Dedent">>)'
  BY <1>1, <1>2 DEF MovesLead
<1>10. EofComesLast'
  <2>1. \A j \in 1 .. n + 1 : parsed_tokens'[j] = Eof => j = n + 1
    BY <1>6, <1>7
  <2> QED BY <1>1, <1>2, <1>6, <2>1 DEF EofComesLast
<1>11. n \in 0 .. Len(parsed_tokens') /\ indent_count' \in Nat
  <2>1. n \in 0 .. n + 1
    OBVIOUS
  <2> QED BY <1>1, <1>6, <2>1
<1>12. AreLines(input)' /\ IsText(tokens)' /\ (DepthOf(tokens) \in Nat)' /\ NoMoveIsTakenBack'
  BY <1>1 DEF LexerInv, NoMoveIsTakenBack
<1> QED BY <1>6, <1>7, <1>8, <1>9, <1>10, <1>11, <1>12 DEF LexerInv

\* A pair of tokens is one there was, or the last two.
LEMMA TakenInLine ==
  ASSUME LexerInv, TakeToken, tokens # <<>> /\ Last(tokens) \in Move => {Last(tokens), Head(parsed_tokens)} # Move
  PROVE  NoMoveIsTakenBack'
<1> DEFINE t == Head(parsed_tokens)
<1>1. tokens' = Append(tokens, t)
  BY DEF TakeToken
<1>2. /\ Len(tokens) \in Nat /\ Len(tokens)' = Len(tokens) + 1 /\ tokens'[Len(tokens) + 1] = t
      /\ \A j \in 1 .. Len(tokens) : tokens'[j] = tokens[j]
  BY <1>1, TextGrows DEF LexerInv
<1> HIDE DEF t
<1>3. ASSUME NEW i \in 1 .. Len(tokens)' - 1 PROVE {tokens'[i], tokens'[i + 1]} # Move
  <2>1. CASE i \in 1 .. Len(tokens) - 1
    <3>1. i \in 1 .. Len(tokens) /\ i + 1 \in 1 .. Len(tokens)
      BY <1>2, <2>1
    <3> QED BY <1>2, <2>1, <3>1 DEF LexerInv, NoMoveIsTakenBack
  <2>2. CASE i = Len(tokens) /\ i > 0
    <3>1. tokens'[i] = Last(tokens) /\ tokens'[i + 1] = t /\ tokens # <<>>
      BY <1>2, <2>2 DEF Last
    <3>2. Last(tokens) \notin Move => {Last(tokens), t} # Move
      OBVIOUS
    <3> QED BY <3>1, <3>2 DEF t
  <2> QED BY <1>2, <2>1, <2>2
<1> QED BY <1>3 DEF NoMoveIsTakenBack

LEMMA TakeTokenKeepsInv ==
  ASSUME LexerInv, TakeToken
  PROVE  LexerInv' /\ (Head(parsed_tokens) \notin Move /\ ~IsThrow(Head(parsed_tokens)) => DepthOf(tokens) = indent_count)
<1> DEFINE t == Head(parsed_tokens)
<1>1. /\ ~AtEnd /\ parsed_tokens # <<>> /\ tokens' = Append(tokens, t) /\ parsed_tokens' = Tail(parsed_tokens)
      /\ input' = input /\ indent_count' = indent_count
  BY DEF TakeToken
<1>2. /\ Len(parsed_tokens) \in Nat /\ Len(parsed_tokens) > 0 /\ DOMAIN parsed_tokens = 1 .. Len(parsed_tokens)
      /\ t = parsed_tokens[1] /\ IsText(parsed_tokens')
      /\ Len(parsed_tokens') = Len(parsed_tokens) - 1 /\ DOMAIN parsed_tokens' = 1 .. Len(parsed_tokens) - 1
      /\ \A j \in 1 .. Len(parsed_tokens) - 1 : parsed_tokens'[j] = parsed_tokens[j + 1]
      /\ Len(parsed_tokens) = 1 <=> parsed_tokens' = <<>>
  BY <1>1, TextShrinks DEF LexerInv
<1>3. IsText(tokens') /\ tokens' # <<>> /\ Last(tokens') = t
  BY <1>1, TextGrows DEF LexerInv
<1>4. /\ DepthOf(tokens) \in Nat
      /\ t = <<"Indent">> => DepthOf(tokens') = DepthOf(tokens) + 1
      /\ t = <<"Dedent">> => DepthOf(tokens') = DepthOf(tokens) - 1
      /\ t \notin Move => DepthOf(tokens') = DepthOf(tokens)
  BY <1>1, DepthGrows DEF LexerInv
<1>5. AreLines(input)' /\ (indent_count \in Nat)'
  BY <1>1 DEF LexerInv
<1>6. CASE HasThrown(parsed_tokens) /\ Len(parsed_tokens) = 1 /\ (tokens # <<>> => Last(tokens) \notin Move \cup {Eof})
  <2>1. IsThrow(t)
    BY <1>2, <1>6 DEF HasThrown, Last
  <2>2. t \notin Move
    BY <2>1 DEF IsThrow, Move
  <2>3. HasThrown(tokens')
    BY <1>3, <2>1 DEF HasThrown
  <2>4. NoMoveIsTakenBack'
    BY <1>6, TakenInLine
  <2>5. DepthOf(tokens') \in Nat
    BY <1>4, <2>2
  <2> QED BY <1>2, <1>3, <1>5, <2>1, <2>3, <2>4, <2>5 DEF LexerInv
<1>7. CASE /\ EofComesLast
           /\ \E n \in 0 .. Len(parsed_tokens), move \in Move : Waiting(n, move) /\ MovesLead(n, move)
  <2>0. PICK m \in Nat : m = Len(parsed_tokens) /\ m > 0
    BY <1>2
  <2>1. PICK n \in 0 .. m, move \in Move : Waiting(n, move) /\ MovesLead(n, move)
    BY <1>7, <2>0
  <2>2. /\ n = Len(parsed_tokens) => n = 0
        /\ \A j \in 1 .. n : parsed_tokens[j] = move
        /\ \A j \in n + 1 .. Len(parsed_tokens) : parsed_tokens[j] \notin Move
        /\ DepthOf(tokens) = IF move = <<"Indent">> THEN indent_count - n ELSE indent_count + n
    BY <2>1 DEF Waiting
  <2>3. EofComesLast'
    <3>1. ASSUME NEW j \in DOMAIN parsed_tokens', parsed_tokens'[j] = Eof
          PROVE  j = Len(parsed_tokens') /\ indent_count = 0
      <4>1. j + 1 \in DOMAIN parsed_tokens /\ parsed_tokens[j + 1] = Eof
        BY <1>2, <3>1
      <4>2. j + 1 = Len(parsed_tokens) /\ indent_count = 0
        BY <1>7, <4>1 DEF EofComesLast
      <4> QED BY <1>2, <4>2
    <3>2. ASSUME t = Eof PROVE parsed_tokens' = <<>> /\ indent_count = 0
      <4>1. 1 \in DOMAIN parsed_tokens /\ parsed_tokens[1] = Eof
        BY <1>2, <3>2
      <4>2. 1 = Len(parsed_tokens) /\ indent_count = 0
        BY <1>7, <4>1 DEF EofComesLast
      <4> QED BY <1>2, <4>2
    <3> QED BY <1>1, <1>3, <3>1, <3>2 DEF EofComesLast
  <2>4. CASE n > 0
    <3>1. /\ t = move /\ n - 1 \in Nat /\ n - 1 \in 0 .. m - 1 /\ n - 1 # m - 1
          /\ n - 1 \in 0 .. Len(parsed_tokens') /\ n - 1 # Len(parsed_tokens') /\ m - 1 > 0
      <4>1. n \in 1 .. m /\ n # m
        BY <2>0, <2>2, <2>4
      <4>2. n - 1 \in Nat /\ n - 1 \in 0 .. m - 1 /\ n - 1 # m - 1 /\ 1 \in 1 .. n /\ m - 1 > 0
        BY <2>0, <4>1
      <4> QED BY <1>2, <2>0, <2>2, <4>2
    <3>2. \A j \in 1 .. n - 1 : parsed_tokens'[j] = move
      <4> SUFFICES ASSUME NEW j \in 1 .. n - 1 PROVE parsed_tokens'[j] = move
        OBVIOUS
      <4>1. j + 1 \in 1 .. n /\ j \in 1 .. m - 1
        BY <2>0, <3>1
      <4> QED BY <1>2, <2>0, <2>2, <4>1
    <3>3. \A j \in (n - 1) + 1 .. Len(parsed_tokens') : parsed_tokens'[j] \notin Move
      <4> SUFFICES ASSUME NEW j \in n .. Len(parsed_tokens) - 1 PROVE parsed_tokens'[j] \notin Move
        BY <1>2
      <4>1. j + 1 \in n + 1 .. Len(parsed_tokens) /\ j \in 1 .. Len(parsed_tokens) - 1
        BY <1>2, <2>4
      <4> QED BY <1>2, <2>2, <4>1
    <3>4. DepthOf(tokens') = (IF move = <<"Indent">> THEN indent_count - (n - 1) ELSE indent_count + (n - 1))
          /\ DepthOf(tokens') \in Nat
      <4>1. CASE move = <<"Indent">>
        BY <1>4, <1>5, <1>1, <2>2, <2>4, <3>1, <4>1
      <4>2. CASE move = <<"Dedent">>
        BY <1>4, <1>5, <1>1, <2>2, <2>4, <3>1, <4>2
      <4> QED BY <2>1, <4>1, <4>2 DEF Move
    <3>5. Waiting(n - 1, move)'
      BY <1>1, <3>1, <3>2, <3>3, <3>4 DEF Waiting
    <3>6. MovesLead(n - 1, move)'
      <4>1. parsed_tokens' # <<>>
        <5>1. m # 1
          BY <2>0, <3>1
        <5> QED BY <1>2, <2>0, <5>1
      <4> QED BY <1>3, <3>1, <4>1 DEF MovesLead
    <3>7. NoMoveIsTakenBack'
      <4>1. {move, move} # Move
        <5>1. <<"Indent">> # <<"Dedent">> /\ <<"Indent">> \in Move /\ <<"Dedent">> \in Move
          BY DEF Move
        <5> HIDE DEF Move
        <5> QED BY <5>1
      <4>2. tokens # <<>> /\ Last(tokens) \in Move => Last(tokens) = move
        BY <2>1, <2>4 DEF MovesLead
      <4> QED BY <3>1, <4>1, <4>2, TakenInLine
    <3> QED BY <1>2, <1>3, <1>5, <2>1, <2>3, <3>1, <3>4, <3>5, <3>6, <3>7 DEF LexerInv
  <2>5. CASE n = 0
    <3>1. t \notin Move
      BY <1>2, <2>2, <2>5
    <3>2. DepthOf(tokens) = indent_count /\ DepthOf(tokens') = indent_count
      BY <1>1, <1>4, <1>5, <2>2, <2>5, <3>1
    <3>3. \A j \in 1 .. Len(parsed_tokens') : parsed_tokens'[j] \notin Move
      <4> SUFFICES ASSUME NEW j \in 1 .. Len(parsed_tokens) - 1 PROVE parsed_tokens'[j] \notin Move
        BY <1>2
      <4>1. j + 1 \in n + 1 .. Len(parsed_tokens)
        BY <1>2, <2>5
      <4> QED BY <1>2, <2>2, <4>1
    <3>4. Waiting(0, move)'
      BY <1>1, <1>5, <3>2, <3>3 DEF Waiting
    <3>5. MovesLead(0, move)'
      BY <1>3, <3>1 DEF MovesLead
    <3>6. NoMoveIsTakenBack'
      <4>1. \A x : {x, t} # Move
        BY <3>1
      <4> QED BY <4>1, TakenInLine
    <3>7. 0 \in 0 .. Len(parsed_tokens')
      BY <1>2
    <3> QED BY <1>1, <1>2, <1>3, <1>5, <2>1, <2>3, <3>2, <3>4, <3>5, <3>6, <3>7 DEF LexerInv
  <2> QED BY <2>1, <2>4, <2>5
<1> QED BY <1>1, <1>6, <1>7 DEF LexerInv, AtEnd, HasThrown

(***************************************************************************)
(* The theorems, of any text.                                              *)
(***************************************************************************)
LexerSpec == AreLines(input) /\ LexerInit(input) /\ [][NextToken]_lexerVars

LEMMA LexerBegins ==
  ASSUME AreLines(input), LexerInit(input)
  PROVE  LexerInv
<1>1. indent_count = 0 /\ parsed_tokens = <<>> /\ tokens = <<>>
  BY DEF LexerInit
<1>2. DepthOf(tokens) = 0 /\ IsText(tokens) /\ IsText(parsed_tokens) /\ Len(tokens) = 0 /\ Len(parsed_tokens) = 0
  BY <1>1, EmptyIsDeepAsNothing
<1>3. <<"Indent">> \in Move
  BY DEF Move
<1>4. Waiting(0, <<"Indent">>) /\ MovesLead(0, <<"Indent">>) /\ EofComesLast /\ NoMoveIsTakenBack
  BY <1>1, <1>2 DEF Waiting, MovesLead, EofComesLast, NoMoveIsTakenBack
<1> QED BY <1>1, <1>2, <1>3, <1>4 DEF LexerInv

LEMMA LexerKeepsInv == LexerSpec => []LexerInv
<1>1. AreLines(input) /\ LexerInit(input) => LexerInv
  BY LexerBegins
<1>2. LexerInv /\ [NextToken]_lexerVars => LexerInv'
  <2>1. CASE NextToken
    BY <2>1, ReadLineKeepsInv, AddEOFKeepsInv, TakeTokenKeepsInv DEF NextToken
  <2>2. CASE UNCHANGED lexerVars
    BY <2>2 DEF lexerVars, LexerInv, NoMoveIsTakenBack, EofComesLast, Waiting, MovesLead
  <2> QED BY <2>1, <2>2
<1> QED BY <1>1, <1>2, PTL DEF LexerSpec

\* The moves out never outnumber the moves in, and at Eof there are as many; no move
\* is followed by its opposite.
MovesMatch ==
  /\ DepthOf(tokens) \in Nat
  /\ tokens # <<>> /\ Last(tokens) = Eof => DepthOf(tokens) = 0
  /\ NoMoveIsTakenBack

THEOREM IndentsMatchDedents == LexerSpec => []MovesMatch
<1>1. LexerInv => MovesMatch
  <2> SUFFICES ASSUME LexerInv, tokens # <<>>, Last(tokens) = Eof PROVE DepthOf(tokens) = 0
    BY DEF LexerInv, MovesMatch
  <2>1. ~HasThrown(tokens)
    BY DEF HasThrown, IsThrow, Eof
  <2>2. EofComesLast /\ \E n \in 0 .. Len(parsed_tokens), move \in Move : Waiting(n, move)
    BY <2>1 DEF LexerInv
  <2>3. parsed_tokens = <<>> /\ indent_count = 0 /\ Len(parsed_tokens) = 0
    BY <2>2 DEF EofComesLast
  <2>4. Waiting(0, <<"Indent">>) \/ Waiting(0, <<"Dedent">>)
    BY <2>2, <2>3 DEF Move
  <2> QED BY <2>3, <2>4 DEF Waiting
<1> QED BY <1>1, LexerKeepsInv, PTL

\* A token that is no move is given when as many moves were as its line is deep.
TokensStandAtTheirDepth ==
  [][TakeToken /\ Head(parsed_tokens) \notin Move /\ ~IsThrow(Head(parsed_tokens)) =>
       DepthOf(tokens) = indent_count]_lexerVars

THEOREM TokensHaveTheDepthOfTheirLine == LexerSpec => TokensStandAtTheirDepth
<1>1. LexerInv => [TakeToken /\ Head(parsed_tokens) \notin Move /\ ~IsThrow(Head(parsed_tokens)) =>
                     DepthOf(tokens) = indent_count]_lexerVars
  BY TakeTokenKeepsInv
<1> QED BY <1>1, LexerKeepsInv, PTL DEF LexerSpec, TokensStandAtTheirDepth
=============================================================================
