----------------------------- MODULE JsonProofs -----------------------------
(***************************************************************************)
(* Theorems about the library of transport_catalogue/json: Load, for all   *)
(* texts, and the Builder, for all keys and values.                        *)
(***************************************************************************)
EXTENDS Json, JsonBuilder, TLAPS, NaturalsInduction, WellFoundedInduction

(***************************************************************************)
(* Load, of any text.  The frames on the stack are nested as the calls are *)
(* that they stand for, and each step either reads a character or goes on  *)
(* with less to do until one has to be read.                               *)
(***************************************************************************)
\* A dict whose next key is being read, or was.
AwaitsKey(frame) == frame.fn = "LoadDict" /\ frame.key = Unset

\* No array has read the bracket that ends it.
IsFrame(frame) ==
  /\ frame.fn \in {"LoadArray", "LoadDict", "LoadString"}
  /\ frame.fn = "LoadArray" => frame = ArrayFrame(frame.result, frame.c) /\ frame.c # "]"

\* A call that waits has called LoadNode, or LoadString if it is a dict that waits
\* for a key.
AreFrames(frames) ==
  /\ \E S : frames \in Seq(S)
  /\ \A k \in DOMAIN frames : IsFrame(frames[k])
  /\ \A k \in DOMAIN frames : k < Len(frames) =>
       /\ frames[k].fn # "LoadString"
       /\ AwaitsKey(frames[k]) => frames[k + 1].fn = "LoadString"

\* The function that runs is that of the call on top, or was called by it.
TopFits ==
  /\ pc \in {"LoadNode", "LoadArray", "LoadDict", "LoadString", "return", "done", "error"}
  /\ pc \in {"LoadArray", "LoadDict", "LoadString"} => stack # <<>> /\ Top.fn = pc
  /\ pc = "LoadDict" => Top.key = Unset
  /\ pc = "LoadString" => \E S : Top.line \in Seq(S)
  /\ pc = "LoadNode" /\ stack # <<>> => Top.fn # "LoadString" /\ ~AwaitsKey(Top)
  /\ pc = "return" => stack # <<>> /\ Top.fn # "LoadString" /\ (AwaitsKey(Top) => node[2] # Unset)

\* An array that was loaded ended at its bracket, or at a char that was never read.
ArraysEndAtBrackets ==
  pc \in {"return", "done"} /\ Is("array", node) => undefined \/ (at > 1 /\ text[at - 1] = "]")

LoadInv ==
  /\ \E S : text \in Seq(S)
  /\ at \in 1 .. End
  /\ AreFrames(stack) /\ TopFits /\ ArraysEndAtBrackets

\* What a function may do until a character is read, at the most.
StepsWithoutReading ==
  CASE pc = "LoadNode" -> IF Skipped(at) < End THEN -1 ELSE 3
    [] pc = "LoadString" -> IF Len(stack) > 1 /\ AwaitsKey(stack[Len(stack) - 1]) THEN 3 ELSE 0
    [] pc = "return" -> IF AwaitsKey(Top) THEN 4 ELSE 1
    [] OTHER -> 0
WorkLeft == IF Loaded THEN 0 ELSE 6 * (End - at) + 2 * Len(stack) + StepsWithoutReading

\* An object without a value is not a string.
UnsetIsNoText == \A S : Unset \notin Seq(S)


LEMMA LeastIndex ==
  ASSUME NEW Q, Q \subseteq Nat, Q # {}
  PROVE  \E n \in Q : \A d \in Q : n <= d
<1> DEFINE R == OpToRel(<, Nat)
<1>1. IsWellFoundedOn(R, Nat)
  BY NatLessThanWellFounded
<1>2. \A d, n \in Nat : d < n => <<d, n>> \in R
  BY DEF OpToRel
<1> HIDE DEF R
<1>3. PICK n \in Q : \A d \in Q : ~(<<d, n>> \in R)
  BY <1>1, WFMin
<1>4. \A d \in Q : ~(d < n)
  BY <1>2, <1>3
<1> QED BY <1>4

\* A read that skips spaces finds the next character that is none, if there is one.
LEMMA SkippedFinds ==
  ASSUME \E S : text \in Seq(S), NEW i \in 1 .. End
  PROVE  /\ End \in Nat /\ Skipped(i) \in i .. End
         /\ Skipped(i) = End \/ text[Skipped(i)] \notin Space
         /\ i = End \/ text[i] \notin Space => Skipped(i) = i
<1>1. End \in Nat /\ End >= 1
  BY DEF End
<1> DEFINE Q == {k \in i .. End : k = End \/ text[k] \notin Space}
<1>2. Q \subseteq Nat /\ End \in Q
  BY <1>1
<1>3. PICK n \in Q : \A d \in Q : n <= d
  BY <1>2, LeastIndex
<1> DEFINE IsFirst(k) == /\ k = End \/ text[k] \notin Space
                         /\ \A j \in i .. k - 1 : text[j] \in Space
<1>4. n \in i .. End /\ IsFirst(n)
  BY <1>1, <1>3
<1>5. Skipped(i) = CHOOSE k \in i .. End : IsFirst(k)
  BY DEF Skipped
<1>6. Skipped(i) \in i .. End /\ IsFirst(Skipped(i))
  <2> HIDE DEF IsFirst
  <2> QED BY <1>4, <1>5
<1>7. ASSUME i = End \/ text[i] \notin Space PROVE Skipped(i) = i
  BY <1>1, <1>6, <1>7
<1> QED BY <1>1, <1>6, <1>7

(***************************************************************************)
(* The stack.                                                              *)
(***************************************************************************)
LEMMA PushedFits ==
  ASSUME NEW s, AreFrames(s), NEW f, IsFrame(f),
         s # <<>> => Last(s).fn # "LoadString" /\ (AwaitsKey(Last(s)) => f.fn = "LoadString")
  PROVE  /\ AreFrames(Append(s, f)) /\ Append(s, f) # <<>> /\ Last(Append(s, f)) = f
         /\ Len(s) \in Nat /\ Len(Append(s, f)) = Len(s) + 1
         /\ Len(s) > 0 => s # <<>> /\ Append(s, f)[Len(s)] = Last(s)
<1>1. PICK S : s \in Seq(S)
  BY DEF AreFrames
<1> DEFINE t == Append(s, f)
<1>2. t \in Seq(S \cup {f})
  BY <1>1
<1>3. /\ Len(s) \in Nat /\ Len(t) = Len(s) + 1 /\ DOMAIN t = 1 .. Len(s) + 1 /\ DOMAIN s = 1 .. Len(s)
      /\ t[Len(s) + 1] = f /\ \A k \in 1 .. Len(s) : t[k] = s[k]
  BY <1>1
<1>4. t # <<>> /\ Last(t) = f /\ (Len(s) > 0 => s # <<>> /\ t[Len(s)] = Last(s))
  <2>1. Len(s) > 0 => Len(s) \in 1 .. Len(s) /\ s # <<>>
    BY <1>3
  <2>2. Last(t) = f
    BY <1>3 DEF Last
  <2>3. t # <<>>
    BY <1>3, <1>1
  <2> HIDE DEF t
  <2> QED BY <1>3, <2>1, <2>2, <2>3 DEF Last
<1> HIDE DEF t
<1>5. \A k \in DOMAIN t : IsFrame(t[k])
  BY <1>3 DEF AreFrames
<1>6. ASSUME NEW k \in DOMAIN t, k < Len(t)
      PROVE  t[k].fn # "LoadString" /\ (AwaitsKey(t[k]) => t[k + 1].fn = "LoadString")
  <2>1. k \in 1 .. Len(s) /\ t[k] = s[k] /\ k \in Nat
    BY <1>3, <1>6
  <2>2. CASE k = Len(s)
    <3>1. s # <<>> /\ t[k] = Last(s) /\ t[k + 1] = f
      BY <1>3, <1>4, <2>1, <2>2
    <3> QED BY <3>1
  <2>3. CASE k < Len(s)
    <3>1. k + 1 \in 1 .. Len(s) /\ t[k + 1] = s[k + 1]
      BY <1>3, <2>1, <2>3
    <3> QED BY <1>3, <2>1, <2>3, <3>1 DEF AreFrames
  <2> QED BY <1>3, <2>1, <2>2, <2>3
<1>7. AreFrames(t)
  BY <1>2, <1>5, <1>6 DEF AreFrames
<1> QED BY <1>3, <1>4, <1>7 DEF t

LEMMA PoppedFits ==
  ASSUME NEW s, AreFrames(s), s # <<>>
  PROVE  /\ AreFrames(Front(s)) /\ Len(s) \in Nat \ {0} /\ Len(Front(s)) = Len(s) - 1
         /\ Len(s) = 1 <=> Front(s) = <<>>
         /\ Front(s) # <<>> => /\ Last(Front(s)) = s[Len(s) - 1] /\ Last(Front(s)).fn # "LoadString"
                               /\ AwaitsKey(Last(Front(s))) => Last(s).fn = "LoadString"
<1>1. PICK S : s \in Seq(S)
  BY DEF AreFrames
<1> DEFINE t == Front(s)
<1>2. Len(s) \in Nat \ {0} /\ DOMAIN s = 1 .. Len(s)
  BY <1>1
<1>3. t = SubSeq(s, 1, Len(s) - 1)
  BY DEF Front
<1>4. t \in Seq(S) /\ Len(t) = Len(s) - 1 /\ DOMAIN t = 1 .. Len(s) - 1
      /\ \A k \in 1 .. Len(s) - 1 : t[k] = s[k]
  BY <1>1, <1>2, <1>3
<1> HIDE DEF t
<1>5. Len(s) = 1 <=> t = <<>>
  BY <1>2, <1>4
<1>6. t # <<>> => /\ Last(t) = s[Len(s) - 1] /\ Len(s) - 1 \in DOMAIN s /\ Len(s) - 1 < Len(s)
                  /\ s[(Len(s) - 1) + 1] = Last(s)
  BY <1>2, <1>4, <1>5 DEF Last
<1>7. t # <<>> => Last(t).fn # "LoadString" /\ (AwaitsKey(Last(t)) => Last(s).fn = "LoadString")
  BY <1>6 DEF AreFrames
<1>8. \A k \in DOMAIN t : k \in DOMAIN s /\ t[k] = s[k] /\ k < Len(s)
                          /\ (k < Len(t) => t[k + 1] = s[k + 1])
  BY <1>2, <1>4
<1>9. AreFrames(t)
  BY <1>4, <1>8 DEF AreFrames
<1> QED BY <1>2, <1>4, <1>5, <1>6, <1>7, <1>9 DEF t

LEMMA ReplacedFits ==
  ASSUME NEW s, AreFrames(s), s # <<>>, NEW f, IsFrame(f), f.fn = Last(s).fn
  PROVE  LET t == Append(Front(s), f)
         IN  /\ AreFrames(t) /\ t # <<>> /\ Last(t) = f /\ Len(t) = Len(s) /\ Len(s) \in Nat
             /\ Len(s) > 1 => t[Len(s) - 1] = s[Len(s) - 1]
<1>1. /\ AreFrames(Front(s)) /\ Len(s) \in Nat \ {0} /\ Len(Front(s)) = Len(s) - 1
      /\ Len(s) = 1 <=> Front(s) = <<>>
      /\ Front(s) # <<>> => /\ Last(Front(s)) = s[Len(s) - 1] /\ Last(Front(s)).fn # "LoadString"
                            /\ AwaitsKey(Last(Front(s))) => Last(s).fn = "LoadString"
  BY PoppedFits
<1>2. /\ AreFrames(Append(Front(s), f)) /\ Append(Front(s), f) # <<>> /\ Last(Append(Front(s), f)) = f
      /\ Len(Append(Front(s), f)) = Len(Front(s)) + 1
      /\ Len(Front(s)) > 0 => Append(Front(s), f)[Len(Front(s))] = Last(Front(s))
  <2> DEFINE r == Front(s)
  <2>1. AreFrames(r) /\ (r # <<>> => Last(r).fn # "LoadString" /\ (AwaitsKey(Last(r)) => f.fn = "LoadString"))
    BY <1>1
  <2> HIDE DEF r
  <2>2. /\ AreFrames(Append(r, f)) /\ Append(r, f) # <<>> /\ Last(Append(r, f)) = f
        /\ Len(Append(r, f)) = Len(r) + 1
        /\ Len(r) > 0 => Append(r, f)[Len(r)] = Last(r)
    BY <2>1, PushedFits
  <2> QED BY <2>2 DEF r
<1> QED BY <1>1, <1>2

(***************************************************************************)
(* The steps.                                                              *)
(***************************************************************************)
LEMMA ReadsAhead ==
  ASSUME LoadInv
  PROVE  /\ End \in Nat /\ at \in 1 .. End /\ Len(stack) \in Nat /\ (stack # <<>> => Len(stack) > 0)
         /\ Skipped(at) \in at .. End
         /\ Skipped(at) = End \/ text[Skipped(at)] \notin Space
         /\ \A i \in 1 .. End : Behind(i) \in i .. End /\ (i < End => Behind(i) = i + 1)
<1>1. /\ End \in Nat /\ at \in 1 .. End /\ Skipped(at) \in at .. End
      /\ Skipped(at) = End \/ text[Skipped(at)] \notin Space
  BY SkippedFinds DEF LoadInv
<1>2. PICK S : stack \in Seq(S)
  BY DEF LoadInv, AreFrames
<1>3. Len(stack) \in Nat /\ (stack # <<>> => Len(stack) > 0)
  BY <1>2
<1>4. \A i \in 1 .. End : Behind(i) \in i .. End /\ (i < End => Behind(i) = i + 1)
  BY <1>1 DEF Behind
<1> QED BY <1>1, <1>3, <1>4

\* What a function that runs has left to do.
LEMMA SomeWorkIsLeft ==
  ASSUME LoadInv, ~Loaded
  PROVE  /\ WorkLeft = 6 * (End - at) + 2 * Len(stack) + StepsWithoutReading
         /\ WorkLeft \in Nat \ {0}
<1>1. /\ End \in Nat /\ at \in 1 .. End /\ Len(stack) \in Nat /\ (stack # <<>> => Len(stack) > 0)
      /\ Skipped(at) \in at .. End
  BY ReadsAhead
<1>2. WorkLeft = 6 * (End - at) + 2 * Len(stack) + StepsWithoutReading
  BY DEF WorkLeft
<1>3. pc \in {"LoadNode", "LoadArray", "LoadDict", "LoadString", "return"}
      /\ (pc # "LoadNode" => stack # <<>>)
  BY DEF LoadInv, TopFits, Loaded
<1>4. CASE pc = "LoadNode"
  <2>1. StepsWithoutReading = IF Skipped(at) < End THEN -1 ELSE 3
    BY <1>4 DEF StepsWithoutReading
  <2>2. CASE Skipped(at) < End
    <3>1. StepsWithoutReading = -1 /\ at < End
      BY <1>1, <2>1, <2>2
    <3> QED BY <1>1, <1>2, <3>1
  <2>3. CASE ~(Skipped(at) < End)
    <3>1. StepsWithoutReading = 3
      BY <2>1, <2>3
    <3> QED BY <1>1, <1>2, <3>1
  <2> QED BY <2>2, <2>3
<1>5. CASE pc # "LoadNode"
  <2>1. StepsWithoutReading \in {0, 1, 3, 4}
    BY <1>3, <1>5 DEF StepsWithoutReading
  <2>2. Len(stack) \in Nat \ {0}
    BY <1>1, <1>3, <1>5
  <2> QED BY <1>1, <1>2, <2>1, <2>2
<1> QED BY <1>4, <1>5

LEMMA GoesOn ==
  ASSUME LoadInv, NEW f \in {"LoadNode", "LoadArray", "LoadDict", "LoadString"}, NEW i \in 1 .. End,
         NEW s, AreFrames(s), Goes(f, i, s),
         f # "LoadNode" => s # <<>> /\ Last(s).fn = f,
         f = "LoadDict" => Last(s).key = Unset,
         f = "LoadString" => \E S : Last(s).line \in Seq(S),
         f = "LoadNode" /\ s # <<>> => Last(s).fn # "LoadString" /\ ~AwaitsKey(Last(s))
  PROVE  /\ LoadInv'
         /\ WorkLeft' = 6 * (End - i) + 2 * Len(s) +
              (CASE f = "LoadNode" -> IF Skipped(i) < End THEN -1 ELSE 3
                 [] f = "LoadString" -> IF Len(s) > 1 /\ AwaitsKey(s[Len(s) - 1]) THEN 3 ELSE 0
                 [] OTHER -> 0)
<1>1. pc' = f /\ at' = i /\ stack' = s /\ text' = text /\ node' = node
  BY DEF Goes
<1>2. End' = End /\ Skipped(at)' = Skipped(i) /\ Top' = Last(s)
  BY <1>1 DEF End, Skipped, Top
<1>3. TopFits'
  BY <1>1, <1>2 DEF TopFits
<1>4. ArraysEndAtBrackets'
  BY <1>1 DEF ArraysEndAtBrackets
<1>5. LoadInv'
  BY <1>1, <1>2, <1>3, <1>4 DEF LoadInv
<1>6. Loaded' = FALSE
  BY <1>1 DEF Loaded
<1>7. StepsWithoutReading' =
        CASE f = "LoadNode" -> IF Skipped(i) < End THEN -1 ELSE 3
          [] f = "LoadString" -> IF Len(s) > 1 /\ AwaitsKey(s[Len(s) - 1]) THEN 3 ELSE 0
          [] OTHER -> 0
  <2>1. AwaitsKey(stack[Len(stack) - 1])' <=> AwaitsKey(s[Len(s) - 1])
    BY <1>1 DEF AwaitsKey
  <2> QED BY <1>1, <1>2, <2>1 DEF StepsWithoutReading
<1> HIDE DEF LoadInv
<1> QED BY <1>1, <1>2, <1>5, <1>6, <1>7 DEF WorkLeft

LEMMA ReturnsTo ==
  ASSUME LoadInv, NEW n, NEW i \in 1 .. End, NEW s, AreFrames(s), Return(n, i, s),
         s # <<>> => Last(s).fn # "LoadString" /\ (AwaitsKey(Last(s)) => n[2] # Unset),
         Is("array", n) => undefined' \/ (i > 1 /\ text[i - 1] = "]")
  PROVE  /\ LoadInv'
         /\ s = <<>> => WorkLeft' = 0
         /\ s # <<>> => WorkLeft' = 6 * (End - i) + 2 * Len(s) + (IF AwaitsKey(Last(s)) THEN 4 ELSE 1)
<1>1. /\ pc' = (IF s = <<>> THEN "done" ELSE "return")
      /\ at' = i /\ stack' = s /\ text' = text /\ node' = n
  BY DEF Return
<1>2. End' = End /\ Top' = Last(s)
  BY <1>1 DEF End, Top
<1>3. TopFits'
  BY <1>1, <1>2 DEF TopFits, AwaitsKey
<1>4. ArraysEndAtBrackets'
  BY <1>1 DEF ArraysEndAtBrackets, Is
<1>5. LoadInv'
  BY <1>1, <1>2, <1>3, <1>4 DEF LoadInv
<1>6. s = <<>> => WorkLeft' = 0
  BY <1>1 DEF WorkLeft, Loaded
<1>7. s # <<>> => StepsWithoutReading' = IF AwaitsKey(Last(s)) THEN 4 ELSE 1
  <2>1. AwaitsKey(Top)' <=> AwaitsKey(Last(s))
    BY <1>2 DEF AwaitsKey
  <2> QED BY <1>1, <2>1 DEF StepsWithoutReading
<1>8. s # <<>> => WorkLeft' = 6 * (End - i) + 2 * Len(s) + (IF AwaitsKey(Last(s)) THEN 4 ELSE 1)
  BY <1>1, <1>2, <1>7 DEF WorkLeft, Loaded
<1> QED BY <1>5, <1>6, <1>8

LEMMA ErrorEnds ==
  ASSUME LoadInv, ~Loaded, ParsingError
  PROVE  LoadInv' /\ WorkLeft' < WorkLeft
<1>1. pc' = "error" /\ stack' = <<>> /\ text' = text /\ at' = at /\ node' = node
  BY DEF ParsingError
<1>2. AreFrames(<<>>)
  <2>1. <<>> \in Seq({}) /\ DOMAIN <<>> = {}
    OBVIOUS
  <2> QED BY <2>1 DEF AreFrames
<1>3. End' = End /\ TopFits' /\ ArraysEndAtBrackets'
  BY <1>1 DEF End, TopFits, ArraysEndAtBrackets
<1>4. LoadInv'
  BY <1>1, <1>2, <1>3 DEF LoadInv
<1>5. WorkLeft' = 0 /\ WorkLeft \in Nat \ {0}
  BY <1>1, SomeWorkIsLeft DEF WorkLeft, Loaded
<1> HIDE DEF LoadInv
<1> QED BY <1>4, <1>5

\* The top of a stack in which a call has changed its variables.
LEMMA TopIsReplaced ==
  ASSUME LoadInv, stack # <<>>, NEW f, IsFrame(f), f.fn = Top.fn
  PROVE  /\ AreFrames(WithTop(f)) /\ WithTop(f) # <<>> /\ Last(WithTop(f)) = f
         /\ Len(WithTop(f)) = Len(stack) /\ Len(stack) \in Nat \ {0}
         /\ Len(stack) > 1 => WithTop(f)[Len(stack) - 1] = stack[Len(stack) - 1]
<1>1. AreFrames(stack) /\ f.fn = Last(stack).fn
  BY DEF LoadInv, Top
<1>2. Len(stack) \in Nat \ {0}
  BY ReadsAhead
<1> HIDE DEF LoadInv
<1> QED BY <1>1, <1>2, ReplacedFits DEF WithTop

\* A call that returns finds one that waits for a value, or a dict for its key.
LEMMA CallerWaits ==
  ASSUME LoadInv, stack # <<>>
  PROVE  /\ IsFrame(Top) /\ AreFrames(Front(stack)) /\ Len(stack) \in Nat \ {0}
         /\ Len(Front(stack)) = Len(stack) - 1 /\ (Front(stack) = <<>> <=> Len(stack) = 1)
         /\ Front(stack) # <<>> =>
              /\ Last(Front(stack)) = stack[Len(stack) - 1] /\ Last(Front(stack)).fn # "LoadString"
              /\ AwaitsKey(Last(Front(stack))) => Top.fn = "LoadString"
<1>1. AreFrames(stack)
  BY DEF LoadInv
<1>2. /\ AreFrames(Front(stack)) /\ Len(stack) \in Nat \ {0} /\ Len(Front(stack)) = Len(stack) - 1
      /\ Len(stack) = 1 <=> Front(stack) = <<>>
      /\ Front(stack) # <<>> =>
           /\ Last(Front(stack)) = stack[Len(stack) - 1] /\ Last(Front(stack)).fn # "LoadString"
           /\ AwaitsKey(Last(Front(stack))) => Last(stack).fn = "LoadString"
  BY <1>1, PoppedFits
<1>3. IsFrame(Top)
  <2>1. Len(stack) \in DOMAIN stack
    BY <1>1, <1>2 DEF AreFrames
  <2> QED BY <1>1, <2>1 DEF AreFrames, Top, Last
<1> HIDE DEF LoadInv
<1> QED BY <1>2, <1>3 DEF Top

LEMMA LoadNodeGoesOn ==
  ASSUME JsonAssumption, LoadInv, LoadNode
  PROVE  LoadInv' /\ WorkLeft' < WorkLeft
<1> DEFINE i == Skipped(at)
           read == Read(i, Unset)
<1>1. /\ End \in Nat /\ at \in 1 .. End /\ Len(stack) \in Nat /\ i \in at .. End
      /\ Behind(i) \in i .. End /\ (i < End => Behind(i) = i + 1)
  BY ReadsAhead
<1>2. pc = "LoadNode" /\ ~Loaded
  BY DEF LoadNode, Loaded
<1>3. AreFrames(stack) /\ (stack # <<>> => Last(stack).fn # "LoadString" /\ ~AwaitsKey(Last(stack)))
  BY <1>2 DEF LoadInv, TopFits, Top
<1>4. WorkLeft = 6 * (End - at) + 2 * Len(stack) + (IF i < End THEN -1 ELSE 3)
  BY <1>2, SomeWorkIsLeft DEF StepsWithoutReading
<1>5. PICK c \in Found(read) :
        CASE c = "[" -> Goes("LoadArray", Behind(i), Append(stack, ArrayFrame(<<>>, Unset)))
          [] c = "{" -> Goes("LoadDict", Behind(i), Append(stack, DictFrame(Map!Empty, Unset, Unset)))
          [] c = "\"" -> Goes("LoadString", Behind(i), Append(stack, StringFrame(<<>>, Unset)))
          [] c \in DOMAIN Literal -> Return(Literal[c], Behind(i), stack)
          [] c \in DOMAIN Number -> Return(Number[c], Behind(i), stack)
          [] OTHER -> ParsingError
  BY DEF LoadNode
<1> HIDE DEF LoadInv
<1>6. 6 * (End - Behind(i)) + 2 * (Len(stack) + 1) < WorkLeft
      /\ 6 * (End - Behind(i)) + 2 * Len(stack) + 1 < WorkLeft /\ 0 < WorkLeft
  <2>1. WorkLeft \in Nat \ {0}
    BY <1>2, SomeWorkIsLeft
  <2>2. CASE i < End
    <3>1. WorkLeft = 6 * (End - at) + 2 * Len(stack) - 1
      BY <1>1, <1>4, <2>2
    <3> HIDE DEF i
    <3> QED BY <1>1, <2>1, <2>2, <3>1
  <2>3. CASE ~(i < End)
    <3>1. WorkLeft = 6 * (End - at) + 2 * Len(stack) + 3 /\ i = End /\ Behind(i) = End
      BY <1>1, <1>4, <2>3
    <3> HIDE DEF i
    <3> QED BY <1>1, <2>1, <3>1
  <2> QED BY <2>2, <2>3
<1>7. ASSUME NEW f \in {"LoadArray", "LoadDict", "LoadString"}, NEW frame, IsFrame(frame), frame.fn = f,
             f = "LoadDict" => frame.key = Unset, f = "LoadString" => frame.line = <<>>,
             Goes(f, Behind(i), Append(stack, frame))
      PROVE  LoadInv' /\ WorkLeft' < WorkLeft
  <2> DEFINE s == Append(stack, frame)
  <2>1. /\ AreFrames(s) /\ s # <<>> /\ Last(s) = frame /\ Len(s) = Len(stack) + 1
        /\ Len(stack) > 0 => stack # <<>> /\ s[Len(stack)] = Last(stack)
    BY <1>3, <1>7, PushedFits
  <2> HIDE DEF s
  <2>2. Len(s) > 1 => ~AwaitsKey(s[Len(s) - 1])
    BY <1>1, <1>3, <2>1
  <2>3. Behind(i) \in 1 .. End
    BY <1>1
  <2>4. f = "LoadString" => \E S : Last(s).line \in Seq(S)
    <3>1. <<>> \in Seq({})
      OBVIOUS
    <3> QED BY <1>7, <2>1, <3>1
  <2>5. Goes(f, Behind(i), s)
    BY <1>7 DEF s
  <2> HIDE DEF i
  <2>6. LoadInv' /\ WorkLeft' = 6 * (End - Behind(i)) + 2 * Len(s) +
              (CASE f = "LoadNode" -> IF Skipped(Behind(i)) < End THEN -1 ELSE 3
                 [] f = "LoadString" -> IF Len(s) > 1 /\ AwaitsKey(s[Len(s) - 1]) THEN 3 ELSE 0
                 [] OTHER -> 0)
    BY <1>7, <2>1, <2>3, <2>4, <2>5, GoesOn
  <2>7. WorkLeft' = 6 * (End - Behind(i)) + 2 * (Len(stack) + 1)
    BY <1>1, <1>7, <2>1, <2>2, <2>6
  <2> QED BY <1>6, <2>6, <2>7
<1>8. ASSUME NEW n, ~Is("array", n), Return(n, Behind(i), stack)
      PROVE  LoadInv' /\ WorkLeft' < WorkLeft
  <2>1. Behind(i) \in 1 .. End
    BY <1>1
  <2> HIDE DEF i
  <2>2. /\ LoadInv' /\ (stack = <<>> => WorkLeft' = 0)
        /\ stack # <<>> =>
             WorkLeft' = 6 * (End - Behind(i)) + 2 * Len(stack) + (IF AwaitsKey(Last(stack)) THEN 4 ELSE 1)
    BY <1>3, <1>8, <2>1, ReturnsTo
  <2>3. stack # <<>> => WorkLeft' = 6 * (End - Behind(i)) + 2 * Len(stack) + 1
    BY <1>3, <2>2
  <2> QED BY <1>6, <2>2, <2>3
<1>9. ParsingError => LoadInv' /\ WorkLeft' < WorkLeft
  BY <1>2, ErrorEnds
<1> DEFINE array == ArrayFrame(<<>>, Unset)
           dict == DictFrame(Map!Empty, Unset, Unset)
           string == StringFrame(<<>>, Unset)
<1>10. /\ IsFrame(array) /\ array.fn = "LoadArray"
       /\ IsFrame(dict) /\ dict.fn = "LoadDict" /\ dict.key = Unset
       /\ IsFrame(string) /\ string.fn = "LoadString" /\ string.line = <<>>
  BY DEF JsonAssumption, IsFrame, ArrayFrame, DictFrame, StringFrame
<1>11. \/ Goes("LoadArray", Behind(i), Append(stack, array)) \/ Goes("LoadDict", Behind(i), Append(stack, dict))
       \/ Goes("LoadString", Behind(i), Append(stack, string))
       \/ (\E n : ~Is("array", n) /\ Return(n, Behind(i), stack)) \/ ParsingError
  BY <1>5 DEF JsonAssumption
<1> HIDE DEF i, array, dict, string
<1>12. CASE Goes("LoadArray", Behind(i), Append(stack, array))
  BY <1>7, <1>10, <1>12
<1>13. CASE Goes("LoadDict", Behind(i), Append(stack, dict))
  BY <1>7, <1>10, <1>13
<1>14. CASE Goes("LoadString", Behind(i), Append(stack, string))
  BY <1>7, <1>10, <1>14
<1>15. CASE \E n : ~Is("array", n) /\ Return(n, Behind(i), stack)
  BY <1>8, <1>15
<1> QED BY <1>9, <1>11, <1>12, <1>13, <1>14, <1>15

LEMMA LoadArrayGoesOn ==
  ASSUME LoadInv, LoadArray
  PROVE  LoadInv' /\ WorkLeft' < WorkLeft
<1> DEFINE i == Skipped(at)
           c == Read(i, Top.c)
<1>1. /\ End \in Nat /\ at \in 1 .. End /\ Len(stack) \in Nat /\ i \in at .. End
      /\ i = End \/ text[i] \notin Space
      /\ Behind(i) \in i .. End /\ (i < End => Behind(i) = i + 1)
  BY ReadsAhead
<1>2. pc = "LoadArray" /\ ~Loaded /\ stack # <<>> /\ Top.fn = "LoadArray"
  BY DEF LoadArray, Loaded, LoadInv, TopFits
<1>3. /\ IsFrame(Top) /\ AreFrames(Front(stack)) /\ Len(stack) \in Nat \ {0}
      /\ Len(Front(stack)) = Len(stack) - 1 /\ (Front(stack) = <<>> <=> Len(stack) = 1)
      /\ Front(stack) # <<>> =>
           Last(Front(stack)).fn # "LoadString" /\ ~AwaitsKey(Last(Front(stack)))
  BY <1>2, CallerWaits
<1>4. WorkLeft = 6 * (End - at) + 2 * Len(stack) /\ WorkLeft \in Nat \ {0}
  <2>1. StepsWithoutReading = 0
    BY <1>2 DEF StepsWithoutReading
  <2> QED BY <1>1, <1>2, <2>1, SomeWorkIsLeft
<1>5. CASE i < End /\ c # "]" /\ Goes("LoadNode", IF c = "," THEN i + 1 ELSE i, WithTop(ArrayFrame(Top.result, c)))
  <2> DEFINE f == ArrayFrame(Top.result, c)
             s == WithTop(f)
             j == IF c = "," THEN i + 1 ELSE i
  <2>1. IsFrame(f) /\ f.fn = "LoadArray"
    <3> HIDE DEF c
    <3> QED BY <1>5 DEF IsFrame, ArrayFrame
  <2>2. AreFrames(s) /\ s # <<>> /\ Last(s) = f /\ Len(s) = Len(stack)
    <3> HIDE DEF f
    <3> QED BY <1>2, <2>1, TopIsReplaced
  <2>3. j \in 1 .. End /\ (j > at \/ (j = at /\ Skipped(j) < End))
    <3>1. i \in 1 .. End /\ (text[i] \in Space => i = End)
      <4> HIDE DEF i
      <4> QED BY <1>1
    <3>2. i < End /\ i \in Nat /\ at \in Nat /\ at <= i
      <4>1. i < End
        BY <1>5, Zenon
      <4> HIDE DEF i
      <4> QED BY <1>1, <4>1
    <3>3. Skipped(i) = i
      <4> HIDE DEF i
      <4> QED BY <3>1, SkippedFinds DEF LoadInv
    <3>4. CASE c = ","
      <4>1. j = i + 1
        BY <3>4
      <4> HIDE DEF i, c, j
      <4> QED BY <1>1, <3>2, <4>1
    <3>5. CASE c # ","
      <4>1. j = i
        BY <3>5
      <4> HIDE DEF i, c, j
      <4> QED BY <3>1, <3>3, <3>2, <4>1
    <3> QED BY <3>4, <3>5
  <2>4. Goes("LoadNode", j, s)
    BY <1>5
  <2>5. ~AwaitsKey(f)
    BY <2>1 DEF AwaitsKey
  <2> HIDE DEF f, s, j, i, c, LoadInv
  <2>6. /\ LoadInv'
        /\ WorkLeft' = 6 * (End - j) + 2 * Len(s) + (IF Skipped(j) < End THEN -1 ELSE 3)
    BY <2>1, <2>2, <2>3, <2>4, <2>5, GoesOn
  <2>7. CASE Skipped(j) < End
    <3>1. WorkLeft' = 6 * (End - j) + 2 * Len(stack) - 1 /\ j >= at
      BY <1>1, <1>3, <2>2, <2>3, <2>6, <2>7
    <3> QED BY <1>1, <1>4, <2>3, <2>6, <3>1
  <2>8. CASE ~(Skipped(j) < End)
    <3>1. WorkLeft' = 6 * (End - j) + 2 * Len(stack) + 3 /\ j > at
      BY <2>2, <2>3, <2>6, <2>8
    <3> QED BY <1>1, <1>4, <2>3, <2>6, <3>1
  <2> QED BY <2>7, <2>8
<1>6. CASE /\ i = End \/ c = "]"
           /\ UsesUnset(c)
           /\ \E last \in Found(c) :
                IF last = "]" THEN Return(Node("array", Top.result), Behind(i), Front(stack)) ELSE ParsingError
  <2>1. PICK last \in Found(c) :
          IF last = "]" THEN Return(Node("array", Top.result), Behind(i), Front(stack)) ELSE ParsingError
    BY <1>6
  <2>2. CASE last = "]"
    <3> DEFINE n == Node("array", Top.result)
               s == Front(stack)
    <3>1. undefined' \/ (i < End /\ text[i] = "]")
      <4>1. CASE c = Unset
        BY <1>6, <4>1 DEF UsesUnset
      <4>2. CASE c # Unset
        <5>1. c = "]"
          BY <2>2, <4>2 DEF Found
        <5>2. i < End
          <6>1. Top.c # "]"
            BY <1>2, <1>3 DEF IsFrame
          <6> QED BY <1>1, <5>1, <6>1 DEF Read
        <5> QED BY <5>1, <5>2 DEF Read
      <4> QED BY <4>1, <4>2
    <3> HIDE DEF i, c
    <3>2. Behind(i) \in 1 .. End /\ (undefined' \/ (Behind(i) > 1 /\ text[Behind(i) - 1] = "]"))
      <4>1. i < End => Behind(i) = i + 1 /\ Behind(i) - 1 = i /\ Behind(i) > 1
        BY <1>1
      <4> QED BY <1>1, <3>1, <4>1
    <3>3. Return(n, Behind(i), s)
      BY <2>1, <2>2
    <3>4. AreFrames(s) /\ Len(s) = Len(stack) - 1
          /\ (s # <<>> => Last(s).fn # "LoadString" /\ ~AwaitsKey(Last(s)))
      BY <1>3
    <3> HIDE DEF n, s, LoadInv
    <3>5. /\ LoadInv' /\ (s = <<>> => WorkLeft' = 0)
          /\ s # <<>> => WorkLeft' = 6 * (End - Behind(i)) + 2 * Len(s) + (IF AwaitsKey(Last(s)) THEN 4 ELSE 1)
      BY <3>2, <3>3, <3>4, ReturnsTo
    <3>6. s # <<>> => WorkLeft' = 6 * (End - Behind(i)) + 2 * (Len(stack) - 1) + 1
      BY <3>4, <3>5
    <3> QED BY <1>1, <1>4, <3>5, <3>6
  <2>3. CASE last # "]"
    BY <1>2, <2>1, <2>3, ErrorEnds
  <2> QED BY <2>2, <2>3
<1> QED BY <1>5, <1>6 DEF LoadArray

LEMMA ArrayTakesGoesOn ==
  ASSUME LoadInv, ArrayTakes
  PROVE  LoadInv' /\ WorkLeft' < WorkLeft
<1> DEFINE f == [Top EXCEPT !.result = Append(@, node)]
           s == WithTop(f)
<1>1. pc = "return" /\ ~Loaded /\ stack # <<>> /\ Top.fn = "LoadArray" /\ Goes("LoadArray", at, s)
  BY DEF ArrayTakes, Loaded, LoadInv, TopFits
<1>2. /\ End \in Nat /\ at \in 1 .. End
  BY ReadsAhead
<1>3. IsFrame(Top) /\ Len(stack) \in Nat \ {0}
  BY <1>1, CallerWaits
<1>4. IsFrame(f) /\ f.fn = "LoadArray"
  <2>1. Top = ArrayFrame(Top.result, Top.c) /\ Top.c # "]"
    BY <1>1, <1>3 DEF IsFrame
  <2>2. f = ArrayFrame(Append(Top.result, node), Top.c)
    BY <2>1 DEF ArrayFrame
  <2> HIDE DEF f
  <2> QED BY <2>1, <2>2 DEF IsFrame, ArrayFrame
<1>5. AreFrames(s) /\ s # <<>> /\ Last(s) = f /\ Len(s) = Len(stack)
  <2> HIDE DEF f
  <2> QED BY <1>1, <1>4, TopIsReplaced
<1>6. WorkLeft = 6 * (End - at) + 2 * Len(stack) + 1
  <2>1. StepsWithoutReading = 1
    BY <1>1 DEF StepsWithoutReading, AwaitsKey
  <2> QED BY <1>1, <2>1, SomeWorkIsLeft
<1> HIDE DEF f, s, LoadInv
<1>7. LoadInv' /\ WorkLeft' = 6 * (End - at) + 2 * Len(s) + 0
  BY <1>1, <1>2, <1>4, <1>5, GoesOn
<1> QED BY <1>2, <1>3, <1>5, <1>6, <1>7

LEMMA LoadDictGoesOn ==
  ASSUME LoadInv, LoadDict
  PROVE  LoadInv' /\ WorkLeft' < WorkLeft
<1> DEFINE i == Skipped(at)
           c == Read(i, Top.c)
           j == IF c = "," THEN Skipped(Behind(i)) ELSE i
<1>1. /\ End \in Nat /\ at \in 1 .. End /\ Len(stack) \in Nat /\ i \in at .. End
      /\ \A k \in 1 .. End : Behind(k) \in k .. End /\ (k < End => Behind(k) = k + 1)
  BY ReadsAhead
<1>2. pc = "LoadDict" /\ ~Loaded /\ stack # <<>> /\ Top.fn = "LoadDict"
  BY DEF LoadDict, Loaded, LoadInv, TopFits
<1>3. /\ AreFrames(Front(stack)) /\ Len(stack) \in Nat \ {0}
      /\ Len(Front(stack)) = Len(stack) - 1 /\ (Front(stack) = <<>> <=> Len(stack) = 1)
      /\ Front(stack) # <<>> =>
           Last(Front(stack)).fn # "LoadString" /\ ~AwaitsKey(Last(Front(stack)))
  BY <1>2, CallerWaits
<1>4. WorkLeft = 6 * (End - at) + 2 * Len(stack) /\ WorkLeft \in Nat \ {0}
  <2>1. StepsWithoutReading = 0
    BY <1>2 DEF StepsWithoutReading
  <2> QED BY <1>1, <1>2, <2>1, SomeWorkIsLeft
<1>5. CASE i < End /\ Goes("LoadString", Behind(j),
                           Append(WithTop(DictFrame(Top.result, Unset, Read(j, c))), StringFrame(<<>>, Unset)))
  <2> DEFINE f == DictFrame(Top.result, Unset, Read(j, c))
             t == WithTop(f)
             g == StringFrame(<<>>, Unset)
             s == Append(t, g)
  <2>1. /\ IsFrame(f) /\ f.fn = "LoadDict" /\ f.key = Unset
        /\ IsFrame(g) /\ g.fn = "LoadString" /\ g.line = <<>>
    BY DEF IsFrame, DictFrame, StringFrame
  <2>2. Behind(j) \in 1 .. End /\ Behind(j) > at
    <3>1. j \in i .. End /\ (j = End => Behind(j) = End)
      <4>1. Behind(i) \in 1 .. End /\ Behind(i) >= i
        <5> HIDE DEF i
        <5> QED BY <1>1
      <4>2. Skipped(Behind(i)) \in Behind(i) .. End
        <5> HIDE DEF i
        <5> QED BY <4>1, SkippedFinds DEF LoadInv
      <4>3. j = Skipped(Behind(i)) \/ j = i
        OBVIOUS
      <4> HIDE DEF c, i, j
      <4>4. j \in i .. End
        BY <1>1, <4>1, <4>2, <4>3
      <4> QED BY <1>1, <4>4
    <3> HIDE DEF c, i, j
    <3> QED BY <1>1, <1>5, <3>1
  <2>3. AreFrames(t) /\ t # <<>> /\ Last(t) = f /\ Len(t) = Len(stack)
    <3> HIDE DEF f
    <3> QED BY <1>2, <2>1, TopIsReplaced
  <2>4. Goes("LoadString", Behind(j), s)
    BY <1>5
  <2> HIDE DEF f, t, g, i, j, c
  <2>5. /\ AreFrames(s) /\ s # <<>> /\ Last(s) = g /\ Len(s) = Len(t) + 1
        /\ Len(t) > 0 => s[Len(t)] = Last(t)
    BY <2>1, <2>3, PushedFits
  <2> HIDE DEF s
  <2>6. Len(s) > 1 /\ s[Len(s) - 1] = f /\ Len(s) = Len(stack) + 1
    BY <1>3, <2>3, <2>5
  <2>7. AwaitsKey(s[Len(s) - 1])
    BY <2>1, <2>6 DEF AwaitsKey
  <2>8. \E S : Last(s).line \in Seq(S)
    <3>1. <<>> \in Seq({})
      OBVIOUS
    <3> QED BY <2>1, <2>5, <3>1
  <2> HIDE DEF LoadInv
  <2>9. LoadInv' /\ WorkLeft' = 6 * (End - Behind(j)) + 2 * Len(s) + 3
    BY <2>1, <2>2, <2>4, <2>5, <2>6, <2>7, <2>8, GoesOn
  <2> QED BY <1>1, <1>3, <1>4, <2>2, <2>6, <2>9
<1>6. CASE \E last \in Found(c) :
             IF last = "}" THEN Return(Node("dict", Top.result), Behind(i), Front(stack)) ELSE ParsingError
  <2> DEFINE n == Node("dict", Top.result)
             s == Front(stack)
  <2>1. Return(n, Behind(i), s) \/ ParsingError
    BY <1>6
  <2>2. CASE Return(n, Behind(i), s)
    <3>1. ~Is("array", n) /\ Behind(i) \in 1 .. End /\ Behind(i) >= i
      <4>1. ~Is("array", n)
        BY DEF Is, Node
      <4> HIDE DEF i
      <4> QED BY <1>1, <4>1
    <3> HIDE DEF n, i, c, LoadInv
    <3>2. /\ LoadInv' /\ (s = <<>> => WorkLeft' = 0)
          /\ s # <<>> => WorkLeft' = 6 * (End - Behind(i)) + 2 * Len(s) + (IF AwaitsKey(Last(s)) THEN 4 ELSE 1)
      BY <1>3, <2>2, <3>1, ReturnsTo
    <3>3. s # <<>> => WorkLeft' = 6 * (End - Behind(i)) + 2 * (Len(stack) - 1) + 1
      BY <1>3, <3>2
    <3> QED BY <1>1, <1>4, <3>1, <3>2, <3>3
  <2>3. CASE ParsingError
    BY <1>2, <2>3, ErrorEnds
  <2> QED BY <2>1, <2>2, <2>3
<1> QED BY <1>5, <1>6 DEF LoadDict

LEMMA DictTakesKeyGoesOn ==
  ASSUME LoadInv, DictTakesKey
  PROVE  LoadInv' /\ WorkLeft' < WorkLeft
<1> DEFINE i == Skipped(at)
           f == DictFrame(Top.result, node[2], Read(i, Top.c))
           s == WithTop(f)
<1>1. /\ pc = "return" /\ ~Loaded /\ stack # <<>> /\ Top.fn = "LoadDict" /\ AwaitsKey(Top)
      /\ node[2] # Unset /\ Goes("LoadNode", Behind(i), s)
  BY DEF DictTakesKey, Loaded, LoadInv, TopFits, AwaitsKey
<1>2. /\ End \in Nat /\ at \in 1 .. End /\ i \in at .. End /\ Len(stack) \in Nat
      /\ Behind(i) \in i .. End
  BY ReadsAhead
<1>3. IsFrame(f) /\ f.fn = "LoadDict" /\ ~AwaitsKey(f)
  BY <1>1 DEF IsFrame, DictFrame, AwaitsKey
<1>4. AreFrames(s) /\ s # <<>> /\ Last(s) = f /\ Len(s) = Len(stack)
  <2> HIDE DEF f
  <2> QED BY <1>1, <1>3, TopIsReplaced
<1>5. WorkLeft = 6 * (End - at) + 2 * Len(stack) + 4
  <2>1. StepsWithoutReading = 4
    BY <1>1 DEF StepsWithoutReading
  <2> QED BY <1>1, <2>1, SomeWorkIsLeft
<1> HIDE DEF f, s, i, LoadInv
<1>6. Behind(i) \in 1 .. End /\ Behind(i) >= at
  BY <1>2
<1>7. /\ LoadInv'
      /\ WorkLeft' = 6 * (End - Behind(i)) + 2 * Len(s) + (IF Skipped(Behind(i)) < End THEN -1 ELSE 3)
  BY <1>1, <1>3, <1>4, <1>6, GoesOn
<1>8. CASE Skipped(Behind(i)) < End
  <2>1. WorkLeft' = 6 * (End - Behind(i)) + 2 * Len(stack) - 1
    BY <1>2, <1>4, <1>6, <1>7, <1>8
  <2> QED BY <1>2, <1>5, <1>6, <1>7, <2>1
<1>9. CASE ~(Skipped(Behind(i)) < End)
  <2>1. WorkLeft' = 6 * (End - Behind(i)) + 2 * Len(stack) + 3
    BY <1>4, <1>7, <1>9
  <2> QED BY <1>2, <1>5, <1>6, <1>7, <2>1
<1> QED BY <1>8, <1>9

LEMMA DictTakesValueGoesOn ==
  ASSUME LoadInv, DictTakesValue
  PROVE  LoadInv' /\ WorkLeft' < WorkLeft
<1> DEFINE f == DictFrame(Map!With(Top.result, Top.key, Map!At(Top.result, Top.key, node)), Unset, Top.c)
           s == WithTop(f)
<1>1. /\ pc = "return" /\ ~Loaded /\ stack # <<>> /\ Top.fn = "LoadDict" /\ ~AwaitsKey(Top)
      /\ Goes("LoadDict", at, s)
  BY DEF DictTakesValue, Loaded, LoadInv, TopFits, AwaitsKey
<1>2. End \in Nat /\ at \in 1 .. End /\ Len(stack) \in Nat
  BY ReadsAhead
<1>3. IsFrame(f) /\ f.fn = "LoadDict" /\ f.key = Unset
  BY DEF IsFrame, DictFrame
<1>4. AreFrames(s) /\ s # <<>> /\ Last(s) = f /\ Len(s) = Len(stack)
  <2> HIDE DEF f
  <2> QED BY <1>1, <1>3, TopIsReplaced
<1>5. WorkLeft = 6 * (End - at) + 2 * Len(stack) + 1
  <2>1. StepsWithoutReading = 1
    BY <1>1 DEF StepsWithoutReading
  <2> QED BY <1>1, <2>1, SomeWorkIsLeft
<1> HIDE DEF f, s, LoadInv
<1>6. LoadInv' /\ WorkLeft' = 6 * (End - at) + 2 * Len(s) + 0
  BY <1>1, <1>2, <1>3, <1>4, GoesOn
<1> QED BY <1>2, <1>4, <1>5, <1>6

LEMMA UnescapedIsText ==
  ASSUME NEW x
  PROVE  \E T : Unescaped(x) \in Seq(T)
<1>1. Unescaped(x) = <<>> \/ \E y : Unescaped(x) = <<y>>
  BY DEF Unescaped
<1>2. CASE Unescaped(x) = <<>>
  <2>1. <<>> \in Seq({})
    OBVIOUS
  <2> QED BY <1>2, <2>1
<1>3. ASSUME NEW y, Unescaped(x) = <<y>> PROVE \E T : Unescaped(x) \in Seq(T)
  <2>1. <<y>> \in Seq({y})
    OBVIOUS
  <2> QED BY <1>3, <2>1
<1> QED BY <1>1, <1>2, <1>3

LEMMA LoadStringGoesOn ==
  ASSUME LoadInv, LoadString, UnsetIsNoText
  PROVE  LoadInv' /\ WorkLeft' < WorkLeft
<1> DEFINE c == Read(at, Top.c)
           escaped == IF at + 1 < End THEN text[at + 1] ELSE "EOF"
           key == Len(stack) > 1 /\ AwaitsKey(stack[Len(stack) - 1])
<1>1. /\ End \in Nat /\ at \in 1 .. End /\ Len(stack) \in Nat
      /\ \A i \in 1 .. End : Behind(i) \in i .. End /\ (i < End => Behind(i) = i + 1)
  BY ReadsAhead
<1>2. pc = "LoadString" /\ ~Loaded /\ stack # <<>> /\ Top.fn = "LoadString" /\ (\E S : Top.line \in Seq(S))
  BY DEF LoadString, Loaded, LoadInv, TopFits
<1>3. /\ AreFrames(Front(stack)) /\ Len(stack) \in Nat \ {0}
      /\ Len(Front(stack)) = Len(stack) - 1 /\ (Front(stack) = <<>> <=> Len(stack) = 1)
      /\ Front(stack) # <<>> =>
           Last(Front(stack)) = stack[Len(stack) - 1] /\ Last(Front(stack)).fn # "LoadString"
  BY <1>2, CallerWaits
<1>4. WorkLeft = 6 * (End - at) + 2 * Len(stack) + (IF key THEN 3 ELSE 0) /\ WorkLeft \in Nat \ {0}
  BY <1>2, SomeWorkIsLeft DEF StepsWithoutReading
<1>5. ASSUME NEW line, \E S : line \in Seq(S), NEW last, NEW i \in 1 .. End, i > at,
             Goes("LoadString", i, WithTop(StringFrame(line, last)))
      PROVE  LoadInv' /\ WorkLeft' < WorkLeft
  <2> DEFINE f == StringFrame(line, last)
             s == WithTop(f)
  <2>1. IsFrame(f) /\ f.fn = "LoadString" /\ f.line = line
    BY DEF IsFrame, StringFrame
  <2>2. Goes("LoadString", i, s)
    BY <1>5
  <2> HIDE DEF f
  <2>3. /\ AreFrames(s) /\ s # <<>> /\ Last(s) = f /\ Len(s) = Len(stack)
        /\ Len(stack) > 1 => s[Len(stack) - 1] = stack[Len(stack) - 1]
    BY <1>2, <2>1, TopIsReplaced
  <2> HIDE DEF s, LoadInv
  <2>4. /\ LoadInv'
        /\ WorkLeft' = 6 * (End - i) + 2 * Len(s) + (IF Len(s) > 1 /\ AwaitsKey(s[Len(s) - 1]) THEN 3 ELSE 0)
    BY <1>5, <2>1, <2>2, <2>3, GoesOn
  <2>5. WorkLeft' = 6 * (End - i) + 2 * Len(stack) + (IF key THEN 3 ELSE 0)
    BY <2>3, <2>4
  <2> HIDE DEF key
  <2> QED BY <1>1, <1>4, <1>5, <2>4, <2>5
<1>6. CASE at < End /\ Goes("LoadString", Behind(at + 1),
                            WithTop(StringFrame(Top.line \o Unescaped(escaped), escaped)))
  <2>1. PICK S : Top.line \in Seq(S)
    BY <1>2
  <2> DEFINE line == Top.line \o Unescaped(escaped)
  <2>2. PICK T : Unescaped(escaped) \in Seq(T)
    BY UnescapedIsText
  <2>3. line \in Seq(S \cup T)
    <3> DEFINE l == Top.line
               m == Unescaped(escaped)
    <3>1. l \in Seq(S) /\ m \in Seq(T)
      BY <2>1, <2>2
    <3> HIDE DEF l, m
    <3>2. l \in Seq(S \cup T) /\ m \in Seq(S \cup T)
      BY <3>1
    <3> HIDE DEF line
    <3>3. l \o m \in Seq(S \cup T)
      BY <3>2
    <3> QED BY <3>3 DEF line, l, m
  <2>4. Behind(at + 1) \in 1 .. End /\ Behind(at + 1) > at
    BY <1>1, <1>6
  <2>5. Goes("LoadString", Behind(at + 1), WithTop(StringFrame(line, escaped)))
    BY <1>6
  <2> HIDE DEF line, escaped
  <2> QED BY <1>5, <2>3, <2>4, <2>5
<1>7. CASE at < End /\ Goes("LoadString", at + 1, WithTop(StringFrame(Append(Top.line, c), c)))
  <2>1. PICK S : Top.line \in Seq(S)
    BY <1>2
  <2>2. Append(Top.line, c) \in Seq(S \cup {c})
    <3> HIDE DEF c
    <3> QED BY <2>1
  <2>3. at + 1 \in 1 .. End /\ at + 1 > at
    BY <1>1, <1>7
  <2> DEFINE line == Append(Top.line, c)
  <2>4. Goes("LoadString", at + 1, WithTop(StringFrame(line, c))) /\ \E S1 : line \in Seq(S1)
    BY <1>7, <2>2
  <2> HIDE DEF line, c
  <2> QED BY <1>5, <2>3, <2>4
<1>8. CASE \E last \in Found(c) :
             IF last = "\"" THEN Return(Node("string", Top.line), Behind(at), Front(stack)) ELSE ParsingError
  <2> DEFINE n == Node("string", Top.line)
             s == Front(stack)
  <2>1. Return(n, Behind(at), s) \/ ParsingError
    BY <1>8
  <2>2. CASE Return(n, Behind(at), s)
    <3>1. ~Is("array", n) /\ n[2] # Unset
      BY <1>2 DEF Is, Node, UnsetIsNoText
    <3>2. Behind(at) \in 1 .. End /\ Behind(at) >= at
      BY <1>1
    <3>3. s # <<>> => (AwaitsKey(Last(s)) <=> key)
      BY <1>3
    <3> HIDE DEF n, c, key, LoadInv
    <3>4. /\ LoadInv' /\ (s = <<>> => WorkLeft' = 0)
          /\ s # <<>> => WorkLeft' = 6 * (End - Behind(at)) + 2 * Len(s) + (IF AwaitsKey(Last(s)) THEN 4 ELSE 1)
      BY <1>3, <2>2, <3>1, <3>2, ReturnsTo
    <3>5. s # <<>> => WorkLeft' = 6 * (End - Behind(at)) + 2 * (Len(stack) - 1) + (IF key THEN 4 ELSE 1)
      BY <1>3, <3>3, <3>4
    <3>6. s = <<>> => WorkLeft' < WorkLeft
      BY <1>4, <3>4
    <3>7. s # <<>> => WorkLeft' < WorkLeft
      BY <1>1, <1>3, <1>4, <3>2, <3>5
    <3> QED BY <3>4, <3>6, <3>7
  <2>3. CASE ParsingError
    BY <1>2, <2>3, ErrorEnds
  <2> QED BY <2>1, <2>2, <2>3
<1> QED BY <1>6, <1>7, <1>8 DEF LoadString

LEMMA EveryStepGoesOn ==
  ASSUME JsonAssumption, LoadInv, LoadStep, UnsetIsNoText
  PROVE  LoadInv' /\ WorkLeft' < WorkLeft
BY LoadNodeGoesOn, LoadArrayGoesOn, ArrayTakesGoesOn, LoadDictGoesOn, DictTakesKeyGoesOn,
   DictTakesValueGoesOn, LoadStringGoesOn DEF LoadStep

\* A text is read from its first character, with all its work before it.
LEMMA LoadBegins ==
  ASSUME NEW t, \E S : t \in Seq(S), Loads(t)
  PROVE  LoadInv /\ WorkLeft <= 6 * Len(t) + 3
<1>1. text = t /\ at = 1 /\ pc = "LoadNode" /\ stack = <<>>
  BY DEF Loads
<1>2. PICK S : t \in Seq(S)
  OBVIOUS
<1>3. End = Len(t) + 1 /\ Len(t) \in Nat /\ at \in 1 .. End
  BY <1>1, <1>2 DEF End
<1>4. AreFrames(<<>>)
  <2>1. <<>> \in Seq({}) /\ DOMAIN <<>> = {}
    OBVIOUS
  <2> QED BY <2>1 DEF AreFrames
<1>5. TopFits /\ ArraysEndAtBrackets
  BY <1>1 DEF TopFits, ArraysEndAtBrackets
<1>6. LoadInv
  BY <1>1, <1>2, <1>3, <1>4, <1>5 DEF LoadInv
<1> HIDE DEF LoadInv
<1>7. Len(stack) = 0
  BY <1>1
<1>8. WorkLeft = 6 * (End - at) + 2 * Len(stack) + (IF Skipped(at) < End THEN -1 ELSE 3)
  BY <1>1, <1>6, SomeWorkIsLeft DEF StepsWithoutReading, Loaded
<1>9. WorkLeft \in {6 * Len(t) - 1, 6 * Len(t) + 3}
  BY <1>1, <1>3, <1>7, <1>8
<1> QED BY <1>3, <1>6, <1>9

\* A load by itself, of any text.
LoadSpec == (\E t : (\E S : t \in Seq(S)) /\ Loads(t)) /\ [][LoadStep]_load_vars

LEMMA LoadKeepsInv ==
  ASSUME JsonAssumption, UnsetIsNoText
  PROVE  LoadSpec => []LoadInv /\ WorkLeft <= 6 * Len(text) + 3
<1>1. (\E t : (\E S : t \in Seq(S)) /\ Loads(t)) => LoadInv /\ WorkLeft <= 6 * Len(text) + 3
  <2> SUFFICES ASSUME NEW t, \E S : t \in Seq(S), Loads(t) PROVE LoadInv /\ WorkLeft <= 6 * Len(text) + 3
    OBVIOUS
  <2>1. text = t
    BY DEF Loads
  <2> QED BY <2>1, LoadBegins
<1>2. LoadInv /\ [LoadStep]_load_vars => LoadInv'
  <2> SUFFICES ASSUME LoadInv, [LoadStep]_load_vars PROVE LoadInv'
    OBVIOUS
  <2>1. CASE LoadStep
    BY <2>1, EveryStepGoesOn
  <2>2. CASE UNCHANGED load_vars
    BY <2>2 DEF load_vars, LoadInv, End, AreFrames, TopFits, Top, ArraysEndAtBrackets
  <2> QED BY <2>1, <2>2
<1> QED BY <1>1, <1>2, PTL DEF LoadSpec

\* No load goes on for ever: with every turn of a loop and every return there is
\* less to do, and at first six turns for each character, and three, are enough.
THEOREM LoadsComeToAnEnd ==
  ASSUME JsonAssumption, UnsetIsNoText
  PROVE  /\ LoadSpec => WorkLeft <= 6 * Len(text) + 3
         /\ LoadSpec => [](WorkLeft \in Nat)
         /\ LoadSpec => [][WorkLeft' < WorkLeft]_load_vars
<1>1. LoadInv => WorkLeft \in Nat
  <2>1. Loaded => WorkLeft = 0
    BY DEF WorkLeft
  <2> QED BY <2>1, SomeWorkIsLeft
<1>2. LoadInv /\ [LoadStep]_load_vars => [WorkLeft' < WorkLeft]_load_vars
  BY EveryStepGoesOn
<1>3. LoadSpec => WorkLeft <= 6 * Len(text) + 3
  BY LoadKeepsInv
<1> QED BY <1>1, <1>2, <1>3, LoadKeepsInv, PTL DEF LoadSpec

\* An array whose bracket does not come is no document (json__tests.cpp:160-166),
\* unless a char that was never read is taken for the bracket.
OpenArraysAreRefused ==
  pc = "done" /\ Is("array", node) => undefined \/ (at > 1 /\ text[at - 1] = "]")

THEOREM ArraysEndWithBrackets ==
  ASSUME JsonAssumption, UnsetIsNoText
  PROVE  LoadSpec => []OpenArraysAreRefused
<1>1. LoadInv => OpenArraysAreRefused
  BY DEF LoadInv, ArraysEndAtBrackets, OpenArraysAreRefused
<1> QED BY <1>1, LoadKeepsInv, PTL

(***************************************************************************)
(* The builder.  A stack is nested when it holds containers and keys only, *)
(* each key on its dict, and nothing but a key on a dict.                  *)
(***************************************************************************)
IsStack(s) == \E S : s \in Seq(S)

Waits(n) == IsKind("array", n) \/ IsKind("dict", n) \/ IsKind("string", n)
Nested(s) ==
  /\ \A i \in DOMAIN s : Waits(s[i])
  /\ \A i \in DOMAIN s : IsKind("string", s[i]) => i > 1 /\ IsKind("dict", s[i - 1])
  /\ \A i \in DOMAIN s : i < Len(s) /\ IsKind("dict", s[i]) => IsKind("string", s[i + 1])

\* The kind of the top that a context was returned with.
ContextFits ==
  \/ context = "Builder"
  \/ context = "ArrayContext" /\ nodes_stack # <<>> /\ IsKind("array", TopOf(nodes_stack))
  \/ context = "DictContext" /\ nodes_stack # <<>> /\ IsKind("dict", TopOf(nodes_stack))
  \/ context = "ValueOfDictContext" /\ nodes_stack # <<>> /\ IsKind("string", TopOf(nodes_stack))

BuilderInv == IsStack(nodes_stack) /\ Nested(nodes_stack) /\ ContextFits

\* What may be pushed.
LEMMA PushedIsNested ==
  ASSUME NEW s, NEW n, IsStack(s), Nested(s),
         \/ (s = <<>> \/ ~IsKind("dict", TopOf(s))) /\ (IsKind("array", n) \/ IsKind("dict", n))
         \/ s # <<>> /\ IsKind("dict", TopOf(s)) /\ IsKind("string", n)
  PROVE  /\ IsStack(Pushed(s, n)) /\ Nested(Pushed(s, n))
         /\ Pushed(s, n) # <<>> /\ TopOf(Pushed(s, n)) = n
<1>1. PICK S : s \in Seq(S)
  BY DEF IsStack
<1> DEFINE t == Pushed(s, n)
<1>2. t \in Seq(S \cup {n})
  BY <1>1 DEF Pushed
<1>3. /\ Len(t) = Len(s) + 1 /\ DOMAIN t = 1 .. Len(s) + 1 /\ DOMAIN s = 1 .. Len(s)
      /\ Len(s) \in Nat /\ t[Len(s) + 1] = n /\ \A i \in 1 .. Len(s) : t[i] = s[i]
  BY <1>1 DEF Pushed
<1>4. t # <<>> /\ TopOf(t) = n
  BY <1>2, <1>3 DEF TopOf
<1>5. s = <<>> \/ Len(s) > 0
  BY <1>1
<1>6. Len(s) > 0 => Len(s) \in DOMAIN s /\ s[Len(s)] = TopOf(s)
  BY <1>3 DEF TopOf
<1>7. \A i \in DOMAIN t : Waits(t[i])
  <2> HIDE DEF t
  <2> QED BY <1>3 DEF Nested, Waits
<1>8. ASSUME NEW i \in DOMAIN t, IsKind("string", t[i])
      PROVE  i > 1 /\ IsKind("dict", t[i - 1])
  <2> HIDE DEF t
  <2>1. CASE i = Len(s) + 1
    <3>1. s # <<>> /\ IsKind("dict", TopOf(s))
      BY <1>3, <1>8, <2>1 DEF IsKind
    <3> QED BY <1>1, <1>3, <1>5, <1>6, <2>1, <3>1
  <2>2. CASE i \in 1 .. Len(s)
    BY <1>3, <1>8, <2>2 DEF Nested
  <2> QED BY <1>3, <2>1, <2>2
<1>9. ASSUME NEW i \in DOMAIN t, i < Len(t), IsKind("dict", t[i])
      PROVE  IsKind("string", t[i + 1])
  <2> HIDE DEF t
  <2>1. CASE i = Len(s)
    BY <1>3, <1>6, <1>9, <2>1
  <2>2. CASE i < Len(s)
    BY <1>3, <1>9, <2>2 DEF Nested
  <2> QED BY <1>3, <1>9, <2>1, <2>2
<1> QED BY <1>2, <1>4, <1>7, <1>8, <1>9 DEF IsStack, Nested

\* A container that is closed leaves no dict at the top.
LEMMA PoppedIsNested ==
  ASSUME NEW s, IsStack(s), Nested(s), s # <<>>, IsKind("array", TopOf(s)) \/ IsKind("dict", TopOf(s))
  PROVE  /\ IsStack(Popped(s)) /\ Nested(Popped(s))
         /\ Popped(s) # <<>> => ~IsKind("dict", TopOf(Popped(s)))
<1>1. PICK S : s \in Seq(S)
  BY DEF IsStack
<1> DEFINE t == Popped(s)
<1>2. Len(s) \in Nat /\ Len(s) > 0 /\ DOMAIN s = 1 .. Len(s)
  BY <1>1
<1>3. /\ t \in Seq(S) /\ Len(t) = Len(s) - 1 /\ DOMAIN t = 1 .. Len(s) - 1
      /\ \A i \in 1 .. Len(s) - 1 : t[i] = s[i]
  BY <1>1, <1>2 DEF Popped
<1>4. ~IsKind("string", s[Len(s)])
  BY DEF IsKind, TopOf
<1>5. Nested(t)
  <2> HIDE DEF t
  <2>1. \A i \in DOMAIN t : i \in DOMAIN s /\ t[i] = s[i]
    BY <1>2, <1>3
  <2>2. ASSUME NEW i \in DOMAIN t, IsKind("string", t[i])
        PROVE  i > 1 /\ IsKind("dict", t[i - 1])
    <3>1. i \in DOMAIN s /\ IsKind("string", s[i])
      BY <2>1, <2>2
    <3>2. i > 1 /\ IsKind("dict", s[i - 1])
      BY <3>1 DEF Nested
    <3> QED BY <1>2, <1>3, <3>2
  <2>3. ASSUME NEW i \in DOMAIN t, i < Len(t), IsKind("dict", t[i])
        PROVE  IsKind("string", t[i + 1])
    <3>1. i \in DOMAIN s /\ IsKind("dict", s[i]) /\ i < Len(s)
      BY <1>2, <1>3, <2>1, <2>3
    <3>2. IsKind("string", s[i + 1])
      BY <3>1 DEF Nested
    <3> QED BY <1>2, <1>3, <2>3, <3>2
  <2> QED BY <2>1, <2>2, <2>3 DEF Nested
<1>6. ASSUME t # <<>>
      PROVE  ~IsKind("dict", TopOf(t))
  <2>1. Len(t) > 0
    BY <1>3, <1>6
  <2> HIDE DEF t
  <2>2. TopOf(t) = s[Len(s) - 1] /\ Len(s) - 1 \in DOMAIN s /\ Len(s) - 1 < Len(s)
    BY <1>2, <1>3, <2>1 DEF TopOf
  <2>3. ~IsKind("dict", s[Len(s) - 1])
    BY <1>2, <1>4, <2>2 DEF Nested
  <2> QED BY <2>2, <2>3
<1> QED BY <1>3, <1>5, <1>6 DEF IsStack

\* A top that is replaced by one of its own kind.
LEMMA ReplacedTopIsNested ==
  ASSUME NEW s, NEW n, IsStack(s), Nested(s), s # <<>>,
         \/ IsKind("array", TopOf(s)) /\ IsKind("array", n)
         \/ IsKind("dict", TopOf(s)) /\ IsKind("dict", n)
  PROVE  LET t == [s EXCEPT ![Len(s)] = n]
         IN  IsStack(t) /\ Nested(t) /\ t # <<>> /\ TopOf(t) = n
<1> DEFINE t == [s EXCEPT ![Len(s)] = n]
<1>1. PICK S : s \in Seq(S)
  BY DEF IsStack
<1>2. Len(s) \in Nat /\ Len(s) > 0 /\ DOMAIN s = 1 .. Len(s)
  BY <1>1
<1>3. t \in Seq(S \cup {n})
  <2>1. s \in Seq(S \cup {n}) /\ n \in S \cup {n} /\ Len(s) \in 1 .. Len(s)
    BY <1>1, <1>2
  <2> QED BY <2>1
<1>4. /\ Len(t) = Len(s) /\ DOMAIN t = DOMAIN s /\ t[Len(s)] = n
      /\ \A i \in DOMAIN s : i < Len(s) => t[i] = s[i]
  BY <1>2, <1>3
<1>5. t # <<>> /\ TopOf(t) = n
  BY <1>2, <1>4 DEF TopOf
<1>6. Waits(n) /\ ~IsKind("string", n)
  BY DEF IsKind, Waits
<1>7. \A i \in DOMAIN t : Waits(t[i])
  <2> HIDE DEF t
  <2> QED BY <1>2, <1>4, <1>6 DEF Nested
<1>8. ASSUME NEW i \in DOMAIN t, IsKind("string", t[i])
      PROVE  i > 1 /\ IsKind("dict", t[i - 1])
  <2> HIDE DEF t
  <2>1. i < Len(s) /\ IsKind("string", s[i]) /\ i \in DOMAIN s
    BY <1>2, <1>4, <1>6, <1>8
  <2>2. i > 1 /\ IsKind("dict", s[i - 1])
    BY <2>1 DEF Nested
  <2> QED BY <1>2, <1>4, <2>1, <2>2
<1>9. ASSUME NEW i \in DOMAIN t, i < Len(t), IsKind("dict", t[i])
      PROVE  IsKind("string", t[i + 1])
  <2> HIDE DEF t
  <2>1. i \in DOMAIN s /\ i < Len(s) /\ IsKind("dict", s[i])
    BY <1>4, <1>9
  <2>2. IsKind("string", s[i + 1])
    BY <2>1 DEF Nested
  <2>3. CASE i + 1 < Len(s)
    BY <1>2, <1>4, <2>1, <2>2, <2>3
  <2>4. CASE i + 1 = Len(s)
    BY <2>2, <2>4 DEF IsKind, TopOf
  <2> QED BY <1>2, <2>1, <2>3, <2>4
<1> QED BY <1>3, <1>5, <1>7, <1>8, <1>9 DEF IsStack, Nested

LEMMA ArrayValueIsNested ==
  ASSUME NEW s, NEW n, IsStack(s), Nested(s), s # <<>>, IsKind("array", TopOf(s))
  PROVE  /\ IsStack(ArrayValue(s, n)) /\ Nested(ArrayValue(s, n))
         /\ ArrayValue(s, n) # <<>> /\ IsKind("array", TopOf(ArrayValue(s, n)))
<1> DEFINE m == NodeOf("array", Append(s[Len(s)][2], n))
<1>1. IsKind("array", m)
  BY DEF IsKind, NodeOf
<1>2. ArrayValue(s, n) = [s EXCEPT ![Len(s)] = m]
  BY DEF ArrayValue
<1> HIDE DEF m
<1> QED BY <1>1, <1>2, ReplacedTopIsNested

\* Below a key is its dict, which is the top when the key has gone.
LEMMA DictValueIsNested ==
  ASSUME NEW s, NEW n, IsStack(s), Nested(s), s # <<>>, IsKind("string", TopOf(s))
  PROVE  /\ IsStack(DictValue(s, n)) /\ Nested(DictValue(s, n))
         /\ DictValue(s, n) # <<>> /\ IsKind("dict", TopOf(DictValue(s, n)))
<1>1. PICK S : s \in Seq(S)
  BY DEF IsStack
<1> DEFINE t == Popped(s)
<1>2. Len(s) \in Nat /\ Len(s) > 1 /\ DOMAIN s = 1 .. Len(s) /\ IsKind("dict", s[Len(s) - 1])
  <2>1. Len(s) \in Nat /\ Len(s) > 0 /\ DOMAIN s = 1 .. Len(s)
    BY <1>1
  <2>2. Len(s) \in DOMAIN s /\ IsKind("string", s[Len(s)])
    BY <2>1 DEF TopOf
  <2> QED BY <2>1, <2>2 DEF Nested
<1>3. /\ t \in Seq(S) /\ Len(t) = Len(s) - 1 /\ DOMAIN t = 1 .. Len(s) - 1
      /\ \A i \in 1 .. Len(s) - 1 : t[i] = s[i]
  BY <1>1, <1>2 DEF Popped
<1> HIDE DEF t
<1>4. t # <<>> /\ IsKind("dict", TopOf(t))
  BY <1>2, <1>3 DEF TopOf
<1>5. Nested(t)
  <2>1. \A i \in DOMAIN t : i \in DOMAIN s /\ t[i] = s[i]
    BY <1>2, <1>3
  <2>2. ASSUME NEW i \in DOMAIN t, IsKind("string", t[i])
        PROVE  i > 1 /\ IsKind("dict", t[i - 1])
    <3>1. i > 1 /\ IsKind("dict", s[i - 1])
      BY <2>1, <2>2 DEF Nested
    <3> QED BY <1>2, <1>3, <3>1
  <2>3. ASSUME NEW i \in DOMAIN t, i < Len(t), IsKind("dict", t[i])
        PROVE  IsKind("string", t[i + 1])
    <3>1. i \in DOMAIN s /\ IsKind("dict", s[i]) /\ i < Len(s)
      BY <1>2, <1>3, <2>1, <2>3
    <3>2. IsKind("string", s[i + 1])
      BY <3>1 DEF Nested
    <3> QED BY <1>2, <1>3, <2>3, <3>2
  <2> QED BY <2>1, <2>2, <2>3 DEF Nested
<1> DEFINE m == NodeOf("dict", With(t[Len(t)][2], TopOf(s)[2], n))
<1>6. IsKind("dict", m)
  BY DEF IsKind, NodeOf
<1>7. DictValue(s, n) = [t EXCEPT ![Len(t)] = m]
  BY <1>3 DEF DictValue, t
<1> HIDE DEF m
<1>8. IsStack(t)
  BY <1>3 DEF IsStack
<1> QED BY <1>4, <1>5, <1>6, <1>7, <1>8, ReplacedTopIsNested

LEMMA WithValueIsNested ==
  ASSUME NEW s, NEW n, IsStack(s), Nested(s), s # <<>>, ~IsKind("dict", TopOf(s))
  PROVE  IsStack(WithValue(s, n)) /\ Nested(WithValue(s, n))
<1>1. Waits(TopOf(s))
  <2>1. PICK S : s \in Seq(S)
    BY DEF IsStack
  <2>2. Len(s) \in DOMAIN s
    BY <2>1
  <2> QED BY <2>2 DEF Nested, TopOf
<1>2. CASE IsKind("string", TopOf(s))
  BY <1>2, DictValueIsNested DEF WithValue
<1>3. CASE ~IsKind("string", TopOf(s))
  BY <1>1, <1>3, ArrayValueIsNested DEF WithValue, Waits
<1> QED BY <1>2, <1>3

LEMMA ForwardNodeKeepsInv ==
  ASSUME NEW s, NEW n, IsStack(s), Nested(s), ForwardNode(s, n)
  PROVE  BuilderInv'
<1>1. CASE root # NullNode \/ (s # <<>> /\ IsKind("dict", TopOf(s)))
  BY <1>1 DEF ForwardNode, ThrowWith, BuilderInv, ContextFits
<1>2. CASE ~(root # NullNode \/ (s # <<>> /\ IsKind("dict", TopOf(s)))) /\ s = <<>>
  BY <1>2 DEF ForwardNode, Returns, BuilderInv, ContextFits
<1>3. CASE ~(root # NullNode \/ (s # <<>> /\ IsKind("dict", TopOf(s)))) /\ s # <<>>
  BY <1>3, WithValueIsNested DEF ForwardNode, Returns, BuilderInv, ContextFits
<1> QED BY <1>1, <1>2, <1>3

\* What the check of a call says of the top.
LEMMA CheckedTop ==
  ASSUME NEW on, NEW call, Checked(on, call)
  PROVE  /\ call \in {"StartArray", "StartDict", "Value"}
              => nodes_stack = <<>> \/ (nodes_stack # <<>> /\ ~IsKind("dict", TopOf(nodes_stack)))
         /\ call = "EndArray" => nodes_stack # <<>> /\ IsKind("array", TopOf(nodes_stack))
         /\ call \in {"EndDict", "Key"} => nodes_stack # <<>> /\ IsKind("dict", TopOf(nodes_stack))
<1>1. CASE call \in {"StartArray", "StartDict", "Value"}
  BY <1>1 DEF Checked, CheckCallCorrectness, TopIs, IsKind
<1>2. CASE call = "EndArray"
  BY <1>2 DEF Checked, CheckCallCorrectness, TopIs, IsKind
<1>3. CASE call \in {"EndDict", "Key"}
  BY <1>3 DEF Checked, CheckCallCorrectness, TopIs, IsKind
<1> QED BY <1>1, <1>2, <1>3

LEMMA NextKeepsInv == BuilderInv /\ [BuilderNext]_builder_vars => BuilderInv'
<1> SUFFICES ASSUME BuilderInv, [BuilderNext]_builder_vars
             PROVE  BuilderInv'
  OBVIOUS
<1>1. IsStack(nodes_stack) /\ Nested(nodes_stack)
  BY DEF BuilderInv
<1>2. ASSUME NEW on, StartArray(on)
      PROVE  BuilderInv'
  <2>1. IsKind("array", NodeOf("array", <<>>))
    BY DEF IsKind, NodeOf
  <2> QED BY <1>1, <1>2, <2>1, CheckedTop, PushedIsNested DEF StartArray, Returns, BuilderInv, ContextFits
<1>3. ASSUME NEW on, StartDict(on)
      PROVE  BuilderInv'
  <2>1. IsKind("dict", NodeOf("dict", <<>>))
    BY DEF IsKind, NodeOf
  <2> QED BY <1>1, <1>3, <2>1, CheckedTop, PushedIsNested DEF StartDict, Returns, BuilderInv, ContextFits
<1>4. ASSUME NEW on, EndArray(on)
      PROVE  BuilderInv'
  BY <1>1, <1>4, CheckedTop, PoppedIsNested, ForwardNodeKeepsInv DEF EndArray
<1>5. ASSUME NEW on, EndDict(on)
      PROVE  BuilderInv'
  BY <1>1, <1>5, CheckedTop, PoppedIsNested, ForwardNodeKeepsInv DEF EndDict
<1>6. ASSUME NEW on, NEW key, Key(on, key)
      PROVE  BuilderInv'
  <2>1. IsKind("string", NodeOf("string", key))
    BY DEF IsKind, NodeOf
  <2> QED BY <1>1, <1>6, <2>1, CheckedTop, PushedIsNested DEF Key, Returns, BuilderInv, ContextFits
<1>7. ASSUME NEW on, NEW call, Refused(on, call)
      PROVE  BuilderInv'
  BY <1>1, <1>7 DEF Refused, ThrowWith, BuilderInv, ContextFits
<1>8. ASSUME NEW n, Value(n)
      PROVE  BuilderInv'
  <2>1. CASE nodes_stack = <<>>
    BY <1>1, <1>8, <2>1, ForwardNodeKeepsInv DEF Value
  <2>2. CASE nodes_stack # <<>>
    BY <1>1, <1>8, <2>2, CheckedTop, WithValueIsNested DEF Value, Returns, BuilderInv, ContextFits
  <2> QED BY <2>1, <2>2
<1>9. ASSUME NEW n, ChainedValue(n)
      PROVE  BuilderInv'
  <2>1. CASE context = "ArrayContext"
    <3>1. nodes_stack # <<>> /\ IsKind("array", TopOf(nodes_stack))
      BY <2>1 DEF BuilderInv, ContextFits
    <3> QED BY <1>1, <1>9, <2>1, <3>1, ArrayValueIsNested
            DEF ChainedValue, Returns, BuilderInv, ContextFits
  <2>2. CASE context = "ValueOfDictContext"
    <3>1. nodes_stack # <<>> /\ IsKind("string", TopOf(nodes_stack))
      BY <2>2 DEF BuilderInv, ContextFits
    <3> QED BY <1>1, <1>9, <2>2, <3>1, DictValueIsNested
            DEF ChainedValue, Returns, BuilderInv, ContextFits
  <2>3. CASE context = "DictContext"
    BY <1>9, <2>3 DEF ChainedValue, Offers
  <2> QED BY <1>9, <2>1, <2>2, <2>3 DEF ChainedValue, BuilderInv, ContextFits
<1>10. ASSUME Build
       PROVE  BuilderInv'
  BY <1>1, <1>10 DEF Build, Returns, BuilderInv, ContextFits
<1>11. CASE UNCHANGED builder_vars
  BY <1>11 DEF builder_vars, BuilderInv, ContextFits
<1> QED BY <1>2, <1>3, <1>4, <1>5, <1>6, <1>7, <1>8, <1>9, <1>10, <1>11 DEF BuilderNext

LEMMA InitHasInv == BuilderInit => BuilderInv
<1>1. <<>> \in Seq({}) /\ DOMAIN <<>> = {}
  OBVIOUS
<1> QED BY <1>1 DEF BuilderInit, BuilderInv, ContextFits, IsStack, Nested

\* For all keys and values, and any sequence of calls on the builder and its
\* contexts: a chain that compiles is never refused, nor, though ArrayValue and
\* DictValue of a context check nothing, meets another top than it expects.
THEOREM ChainsThatCompilePass == BuilderSpec => []ChainsPassTheChecks
<1>1. BuilderInv => ChainsPassTheChecks
  <2> SUFFICES ASSUME BuilderInv, context # "Builder", NEW call \in Offers(context)
               PROVE  CheckCallCorrectness(call)
    BY DEF ChainsPassTheChecks
  <2>1. CASE context = "ArrayContext" /\ nodes_stack # <<>> /\ IsKind("array", TopOf(nodes_stack))
    BY <2>1 DEF Offers, CheckCallCorrectness, TopIs
  <2>2. CASE context = "DictContext" /\ nodes_stack # <<>> /\ IsKind("dict", TopOf(nodes_stack))
    BY <2>2 DEF Offers, CheckCallCorrectness, TopIs
  <2>3. CASE context = "ValueOfDictContext" /\ nodes_stack # <<>> /\ IsKind("string", TopOf(nodes_stack))
    BY <2>3 DEF Offers, CheckCallCorrectness, TopIs
  <2> QED BY <2>1, <2>2, <2>3 DEF BuilderInv, ContextFits
<1> QED BY <1>1, InitHasInv, NextKeepsInv, PTL DEF BuilderSpec

\* A node is only forwarded with the stack popped when there is a place for it:
\* while there is no root, the call that throws is the one that a check refused.
LEMMA ForwardedNodeFindsItsPlace ==
  ASSUME NEW s, NEW n, ForwardNode(s, n), root = NullNode, s # <<>> => ~IsKind("dict", TopOf(s))
  PROVE  outcome' # "logic_error"
BY DEF ForwardNode, Returns

\* For all keys and values: before the document is complete, a call that throws
\* leaves it as it was.
THEOREM RefusedCallsAreHarmless == BuilderSpec => RefusalsAreHarmless
<1>1. BuilderInv /\ [BuilderNext]_builder_vars
        => [outcome' = "logic_error" /\ root = NullNode => UNCHANGED <<nodes_stack, root>>]_builder_vars
  <2> SUFFICES ASSUME BuilderInv, BuilderNext, outcome' = "logic_error", root = NullNode
               PROVE  UNCHANGED <<nodes_stack, root>>
    OBVIOUS
  <2>1. IsStack(nodes_stack) /\ Nested(nodes_stack)
    BY DEF BuilderInv
  <2>2. ASSUME NEW on, EndArray(on) \/ EndDict(on)
        PROVE  FALSE
    BY <2>1, <2>2, CheckedTop, PoppedIsNested, ForwardedNodeFindsItsPlace DEF EndArray, EndDict
  <2>3. ASSUME NEW n, Value(n)
        PROVE  FALSE
    BY <2>3, ForwardedNodeFindsItsPlace DEF Value, Returns
  <2>4. ASSUME NEW on, NEW call, Refused(on, call)
        PROVE  UNCHANGED <<nodes_stack, root>>
    BY <2>4 DEF Refused, ThrowWith
  <2>5. ASSUME NEW on, NEW key, StartArray(on) \/ StartDict(on) \/ Key(on, key)
        PROVE  FALSE
    BY <2>5 DEF StartArray, StartDict, Key, Returns
  <2>6. ASSUME NEW n, ChainedValue(n) \/ Build
        PROVE  FALSE
    BY <2>6 DEF ChainedValue, Build, Returns
  <2> QED BY <2>2, <2>3, <2>4, <2>5, <2>6 DEF BuilderNext
<1> QED BY <1>1, InitHasInv, NextKeepsInv, PTL DEF BuilderSpec, RefusalsAreHarmless
=============================================================================
