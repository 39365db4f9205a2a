--------------------------- MODULE PositionProofs ---------------------------
(***************************************************************************)
(* Theorems about Position, for alphabets and tables of any size: a text   *)
(* is read as the position whose name it is, and as no other.  Both loops  *)
(* keep a sum: what ToString has written and what it has still to write,   *)
(* and what FromString has read and what it has still to read, are the     *)
(* number of the column.  std::to_string, std::stoi and std::pow are       *)
(* recursive functions, so that the proofs need their equations            *)
(* (NumberRecursion) and inductions over lengths and numbers, which take a *)
(* least counterexample (LeastIndex).                                      *)
(***************************************************************************)
EXTENDS Position, TLAPS, NaturalsInduction, WellFoundedInduction

(***************************************************************************)
(* Recursion over the numbers: n that is no leaf needs what is at Back[n], *)
(* which is less, and makes G[n] of it.                                    *)
(***************************************************************************)
LEMMA LeastIndex ==
  ASSUME NEW Q, Q \subseteq Nat, Q # {}
  PROVE  \E n \in Q : \A d \in Q : n <= d
<1> DEFINE R == OpToRel(<, Nat)
<1>1. IsWellFoundedOn(R, Nat)
  BY NatLessThanWellFounded
<1>2. \A d, n \in Nat : d < n => <<d, n>> \in R
  BY DEF OpToRel
<1> HIDE DEF R
<1>3. PICK n \in Q : \A d \in Q : ~(<<d, n>> \in R)
  BY <1>1, WFMin
<1>4. \A d \in Q : ~(d < n)
  BY <1>2, <1>3
<1> QED BY <1>4

GoesBack(Leaf, Back) == \A n \in Nat : n \notin Leaf => Back[n] \in 0 .. n - 1
IsRun(f, Leaf, Back, L, G) == \A n \in Nat : f[n] = IF n \in Leaf THEN L[n] ELSE G[n][f[Back[n]]]
RunsBack(f, m, Leaf, Back, L, G) == \A n \in 0 .. m : f[n] = IF n \in Leaf THEN L[n] ELSE G[n][f[Back[n]]]

LEMMA RunsAreEqual ==
  ASSUME NEW Leaf, NEW Back, GoesBack(Leaf, Back), NEW L, NEW G,
         NEW m \in Nat, NEW k \in Nat, NEW f, RunsBack(f, m, Leaf, Back, L, G),
         NEW g, RunsBack(g, k, Leaf, Back, L, G)
  PROVE  \A n \in Nat : n <= m /\ n <= k => f[n] = g[n]
<1> DEFINE Bad == {n \in Nat : n <= m /\ n <= k /\ f[n] # g[n]}
<1> SUFFICES ASSUME Bad # {} PROVE FALSE
  OBVIOUS
<1>1. Bad \subseteq Nat
  OBVIOUS
<1>2. PICK n \in Bad : \A d \in Bad : n <= d
  <2> HIDE DEF Bad
  <2> QED BY <1>1, LeastIndex
<1>3. n \in 0 .. m /\ n \in 0 .. k /\ n \in Nat /\ f[n] # g[n]
  BY <1>2
<1>4. /\ f[n] = IF n \in Leaf THEN L[n] ELSE G[n][f[Back[n]]]
      /\ g[n] = IF n \in Leaf THEN L[n] ELSE G[n][g[Back[n]]]
  BY <1>3 DEF RunsBack
<1>5. n \notin Leaf /\ f[Back[n]] # g[Back[n]]
  BY <1>3, <1>4
<1>6. Back[n] \in Nat /\ Back[n] < n /\ Back[n] <= m /\ Back[n] <= k
  BY <1>3, <1>5 DEF GoesBack
<1>7. Back[n] \in Bad
  BY <1>5, <1>6
<1> QED BY <1>2, <1>3, <1>6, <1>7

LEMMA NumberRecursion ==
  ASSUME NEW Leaf, NEW Back, GoesBack(Leaf, Back),
         NEW X, NEW L \in [Nat -> X], NEW G \in [Nat -> [X -> X]]
  PROVE  \E f \in [Nat -> X] : IsRun(f, Leaf, Back, L, G)
<1> DEFINE Runs(f, m) == f \in [0 .. m -> X] /\ RunsBack(f, m, Leaf, Back, L, G)
           Bad == {m \in Nat : ~\E f : Runs(f, m)}
<1>1. ASSUME NEW m \in Nat, \A d \in Nat : d < m => \E f : Runs(f, d)
      PROVE  \E f : Runs(f, m)
  <2>1. CASE m = 0
    <3> DEFINE f == [n \in 0 .. 0 |-> L[0]]
    <3>1. 0 \in Leaf
      BY DEF GoesBack
    <3>2. Runs(f, m)
      BY <2>1, <3>1 DEF RunsBack
    <3> HIDE DEF Runs, f
    <3> QED BY <3>2
  <2>2. CASE m > 0
    <3>1. m - 1 \in Nat /\ m - 1 < m
      BY <2>2
    <3>2. PICK f : Runs(f, m - 1)
      <4> HIDE DEF Runs
      <4> QED BY <1>1, <3>1
    <3> DEFINE x == IF m \in Leaf THEN L[m] ELSE G[m][f[Back[m]]]
               g == [n \in 0 .. m |-> IF n < m THEN f[n] ELSE x]
    <3>3. f \in [0 .. m - 1 -> X] /\ \A n \in 0 .. m - 1 : f[n] = IF n \in Leaf THEN L[n] ELSE G[n][f[Back[n]]]
      BY <3>2 DEF RunsBack
    <3>4. m \notin Leaf => Back[m] \in 0 .. m - 1
      BY DEF GoesBack
    <3>5. x \in X
      BY <3>3, <3>4
    <3>6. g \in [0 .. m -> X]
      BY <3>3, <3>5
    <3>7. (\A n \in 0 .. m - 1 : g[n] = f[n]) /\ g[m] = x
      OBVIOUS
    <3> HIDE DEF g
    <3>8. ASSUME NEW n \in 0 .. m PROVE g[n] = IF n \in Leaf THEN L[n] ELSE G[n][g[Back[n]]]
      <4>1. CASE n = m
        BY <3>4, <3>7, <4>1
      <4>2. CASE n \in 0 .. m - 1
        <5>1. n \notin Leaf => Back[n] \in 0 .. m - 1
          BY <4>2 DEF GoesBack
        <5> QED BY <3>3, <3>7, <4>2, <5>1
      <4> QED BY <4>1, <4>2
    <3>9. Runs(g, m)
      BY <3>6, <3>8 DEF RunsBack
    <3> HIDE DEF Runs
    <3> QED BY <3>9
  <2> QED BY <2>1, <2>2
<1> HIDE DEF Runs
<1>2. \A m \in Nat : \E f : Runs(f, m)
  <2> SUFFICES ASSUME Bad # {} PROVE FALSE
    OBVIOUS
  <2>1. Bad \subseteq Nat
    OBVIOUS
  <2>2. PICK m \in Bad : \A d \in Bad : m <= d
    <3> HIDE DEF Bad
    <3> QED BY <2>1, LeastIndex
  <2>3. m \in Nat /\ \A d \in Nat : d < m => \E f : Runs(f, d)
    BY <2>2
  <2> QED BY <1>1, <2>2, <2>3
<1> DEFINE run(m) == CHOOSE f : Runs(f, m)
           h == [m \in Nat |-> run(m)[m]]
<1>3. \A m \in Nat : Runs(run(m), m)
  BY <1>2
<1>4. h \in [Nat -> X]
  <2>1. \A m \in Nat : run(m)[m] \in X
    <3> SUFFICES ASSUME NEW m \in Nat PROVE run(m)[m] \in X
      OBVIOUS
    <3>1. run(m) \in [0 .. m -> X] /\ m \in 0 .. m
      BY <1>3 DEF Runs
    <3> HIDE DEF run
    <3> QED BY <3>1
  <2> HIDE DEF run
  <2> QED BY <2>1
<1>5. ASSUME NEW n \in Nat PROVE h[n] = IF n \in Leaf THEN L[n] ELSE G[n][h[Back[n]]]
  <2> HIDE DEF run
  <2>1. h[n] = run(n)[n] /\ run(n)[n] = IF n \in Leaf THEN L[n] ELSE G[n][run(n)[Back[n]]]
    <3>1. n \in 0 .. n /\ RunsBack(run(n), n, Leaf, Back, L, G)
      BY <1>3 DEF Runs
    <3> QED BY <3>1 DEF RunsBack
  <2>2. CASE n \notin Leaf
    <3>1. Back[n] \in Nat /\ Back[n] <= n
      BY <2>2 DEF GoesBack
    <3>2. RunsBack(run(n), n, Leaf, Back, L, G) /\ RunsBack(run(Back[n]), Back[n], Leaf, Back, L, G)
      BY <1>3, <3>1 DEF Runs
    <3>3. run(n)[Back[n]] = run(Back[n])[Back[n]]
      <4> DEFINE k == Back[n]
                 f == run(n)
                 g == run(k)
      <4>1. k \in Nat /\ k <= n /\ RunsBack(f, n, Leaf, Back, L, G) /\ RunsBack(g, k, Leaf, Back, L, G)
        BY <3>1, <3>2
      <4> HIDE DEF k, f, g
      <4>2. \A d \in Nat : d <= n /\ d <= k => f[d] = g[d]
        BY <4>1, RunsAreEqual
      <4>3. f[k] = g[k]
        BY <4>1, <4>2
      <4> QED BY <4>3 DEF k, f, g
    <3> QED BY <2>1, <2>2, <3>1, <3>3
  <2> QED BY <2>1, <2>2
<1> HIDE DEF h
<1> QED BY <1>4, <1>5 DEF IsRun

(***************************************************************************)
(* Powers, and the quotients they stand before.                            *)
(***************************************************************************)
LEMMA Division ==
  ASSUME NEW b \in Nat, b > 1, NEW n \in Nat
  PROVE  /\ n \div b \in Nat /\ n % b \in 0 .. b - 1 /\ n = (n \div b) * b + (n % b)
         /\ n > 0 => n \div b < n
         /\ n < b => n \div b = 0 /\ n % b = n
         /\ n >= b => n \div b > 0
OBVIOUS

LEMMA DivisionBack ==
  ASSUME NEW b \in Nat, b > 1, NEW q \in Nat, NEW d \in 0 .. b - 1
  PROVE  q * b + d \in Nat /\ (q * b + d) \div b = q /\ (q * b + d) % b = d
OBVIOUS

LEMMA DivisionGrows ==
  ASSUME NEW b \in Nat, b > 1, NEW n \in Nat, NEW m \in Nat, n <= m
  PROVE  n \div b <= m \div b
OBVIOUS

LEMMA Multiplied ==
  ASSUME NEW a \in Nat, NEW b \in Nat, NEW c \in Nat, NEW d \in Nat, NEW e \in Nat
  PROVE  (a * b + c + 1) * d + e = a * (b * d) + ((c + 1) * d + e)
OBVIOUS

LEMMA BasesAreNumbers ==
  ASSUME PositionAssumption
  PROVE  LETTERS \in Nat /\ LETTERS > 1 /\ DECIMAL \in Nat /\ DECIMAL > 1
<1>1. LETTERS \in Nat \ {0, 1} /\ DECIMAL \in Nat \ {0, 1}
  BY DEF PositionAssumption
<1> QED BY <1>1

LEMMA Powers ==
  ASSUME PositionAssumption
  PROVE  /\ \A n \in Nat : Pow[n] \in Nat
         /\ Pow[0] = 1 /\ \A n \in Nat : Pow[n + 1] = LETTERS * Pow[n]
<1> DEFINE IsPow(f) == f = [n \in Nat |-> IF n = 0 THEN 1 ELSE LETTERS * f[n - 1]]
           Leaf == {0}
           Back == [n \in Nat |-> n - 1]
           L == [n \in Nat |-> 1]
           G == [n \in Nat |-> [x \in Nat |-> LETTERS * x]]
<1>1. GoesBack(Leaf, Back) /\ L \in [Nat -> Nat] /\ G \in [Nat -> [Nat -> Nat]]
  BY BasesAreNumbers DEF GoesBack
<1>2. PICK f \in [Nat -> Nat] : IsRun(f, Leaf, Back, L, G)
  <2> DEFINE X == Nat
  <2>1. GoesBack(Leaf, Back) /\ L \in [Nat -> X] /\ G \in [Nat -> [X -> X]]
    BY <1>1
  <2>2. \E f \in [Nat -> X] : IsRun(f, Leaf, Back, L, G)
    <3> HIDE DEF Leaf, Back, L, G, X
    <3> QED BY <2>1, NumberRecursion
  <2> HIDE DEF Leaf, Back, L, G
  <2> QED BY <2>2
<1>3. \A n \in Nat : f[n] = IF n = 0 THEN 1 ELSE LETTERS * f[n - 1]
  <2> SUFFICES ASSUME NEW n \in Nat, n # 0 PROVE f[n] = LETTERS * f[n - 1]
    BY <1>2 DEF IsRun
  <2>1. n - 1 \in Nat /\ f[n - 1] \in Nat
    BY <1>2
  <2> QED BY <1>2, <2>1 DEF IsRun
<1>4. IsPow(f)
  BY <1>2, <1>3
<1>5. IsPow(Pow)
  <2>1. Pow = CHOOSE g : IsPow(g)
    BY DEF Pow
  <2> HIDE DEF IsPow
  <2> QED BY <1>4, <2>1
<1>6. \A n \in Nat : Pow[n] = IF n = 0 THEN 1 ELSE LETTERS * Pow[n - 1]
  BY <1>5
<1> DEFINE Bad == {n \in Nat : Pow[n] \notin Nat}
<1>7. Bad = {}
  <2> SUFFICES ASSUME Bad # {} PROVE FALSE
    OBVIOUS
  <2>1. Bad \subseteq Nat
    OBVIOUS
  <2>2. PICK n \in Bad : \A d \in Bad : n <= d
    <3> HIDE DEF Bad
    <3> QED BY <2>1, LeastIndex
  <2>3. n \in Nat /\ n # 0 /\ n - 1 \in Nat /\ n - 1 \notin Bad
    BY <1>6, <2>2
  <2>4. Pow[n - 1] \in Nat /\ Pow[n] = LETTERS * Pow[n - 1]
    BY <1>6, <2>3
  <2> QED BY <2>2, <2>4, BasesAreNumbers
<1>8. ASSUME NEW n \in Nat PROVE Pow[n + 1] = LETTERS * Pow[n]
  <2>1. n + 1 \in Nat /\ n + 1 # 0 /\ (n + 1) - 1 = n
    OBVIOUS
  <2> QED BY <1>6, <2>1
<1> QED BY <1>6, <1>7, <1>8

(***************************************************************************)
(* Sequences that are read from the left.                                  *)
(***************************************************************************)
LEMMA Appended ==
  ASSUME NEW S, NEW s \in Seq(S), NEW x \in S
  PROVE  /\ Append(s, x) \in Seq(S) /\ Append(s, x) # <<>>
         /\ Len(s) \in Nat /\ Len(Append(s, x)) = Len(s) + 1
         /\ Append(s, x)[Len(s) + 1] = x /\ \A k \in 1 .. Len(s) : Append(s, x)[k] = s[k]
OBVIOUS

LEMMA LastOfAll ==
  ASSUME NEW S, NEW s \in Seq(S), s # <<>>
  PROVE  \E r \in Seq(S), x \in S : s = Append(r, x) /\ Len(r) = Len(s) - 1
<1>1. Len(s) \in Nat /\ Len(s) > 0
  OBVIOUS
<1> DEFINE n == Len(s) - 1
           r == [k \in 1 .. n |-> s[k]]
<1>2. n \in Nat /\ Len(s) = n + 1
  BY <1>1
<1>3. r \in Seq(S) /\ Len(r) = n
  <2>1. \A k \in 1 .. n : s[k] \in S
    BY <1>2
  <2> HIDE DEF n
  <2> QED BY <1>2, <2>1
<1>4. s[n + 1] \in S
  BY <1>2
<1>5. s = Append(r, s[n + 1])
  <2>1. \A k \in 1 .. n : r[k] = s[k]
    OBVIOUS
  <2> HIDE DEF n, r
  <2> DEFINE t == Append(r, s[n + 1])
  <2>2. t \in Seq(S) /\ Len(t) = n + 1 /\ t[n + 1] = s[n + 1] /\ \A k \in 1 .. n : t[k] = r[k]
    BY <1>2, <1>3, <1>4
  <2>3. \A k \in 1 .. n + 1 : t[k] = s[k]
    <3> SUFFICES ASSUME NEW k \in 1 .. n + 1 PROVE t[k] = s[k]
      OBVIOUS
    <3>1. k = n + 1 \/ k \in 1 .. n
      BY <1>2
    <3> QED BY <2>1, <2>2, <3>1
  <2> HIDE DEF t
  <2>4. t = s
    BY <1>2, <2>2, <2>3
  <2> QED BY <2>4 DEF t
<1> HIDE DEF n, r
<1>6. Len(r) = Len(s) - 1
  BY <1>3 DEF n
<1> QED BY <1>3, <1>4, <1>5, <1>6

(***************************************************************************)
(* What std::stoi reads, digit by digit.                                   *)
(***************************************************************************)
LEMMA OfDigits ==
  ASSUME PositionAssumption
  PROVE  /\ \A x \in Digit : x[2] \in 0 .. DECIMAL - 1 /\ x = <<"digit", x[2]>> /\ x \in Character /\ x \notin Letter
         /\ \A n \in 0 .. DECIMAL - 1 : <<"digit", n>> \in Digit /\ <<"digit", n>>[2] = n
  BY BasesAreNumbers DEF Digit, Letter, Character

Reads(s, v) == v = [k \in 0 .. Len(s) |-> IF k = 0 THEN 0 ELSE v[k - 1] * DECIMAL + s[k][2]]

LEMMA ReadingStep ==
  ASSUME NEW s \in Seq(Digit), NEW v, Reads(s, v)
  PROVE  v[0] = 0 /\ \A k \in 1 .. Len(s) : v[k] = v[k - 1] * DECIMAL + s[k][2]
<1> DEFINE E(u, k) == IF k = 0 THEN 0 ELSE u[k - 1] * DECIMAL + s[k][2]
<1>1. \A k \in 0 .. Len(s) : v[k] = E(v, k)
  <2>1. v = [k \in 0 .. Len(s) |-> E(v, k)]
    BY DEF Reads
  <2> HIDE DEF E
  <2> QED BY <2>1
<1>2. Len(s) \in Nat
  OBVIOUS
<1>3. v[0] = 0
  BY <1>1, <1>2
<1>4. ASSUME NEW k \in 1 .. Len(s) PROVE v[k] = v[k - 1] * DECIMAL + s[k][2]
  <2>1. k \in 0 .. Len(s) /\ k # 0
    BY <1>2
  <2> QED BY <1>1, <2>1
<1> QED BY <1>3, <1>4

LEMMA ReadingIsUnique ==
  ASSUME NEW s \in Seq(Digit), NEW u, Reads(s, u), NEW v, Reads(s, v)
  PROVE  u = v
<1> DEFINE Bad == {k \in Nat : k <= Len(s) /\ u[k] # v[k]}
<1>1. Len(s) \in Nat
  OBVIOUS
<1>2. Bad = {}
  <2> SUFFICES ASSUME Bad # {} PROVE FALSE
    OBVIOUS
  <2>1. Bad \subseteq Nat
    OBVIOUS
  <2>2. PICK k \in Bad : \A d \in Bad : k <= d
    <3> HIDE DEF Bad
    <3> QED BY <2>1, LeastIndex
  <2>3. u[0] = v[0]
    BY ReadingStep
  <2>4. k \in 1 .. Len(s) /\ k - 1 \in Nat /\ k - 1 \notin Bad /\ k - 1 <= Len(s)
    BY <1>1, <2>2, <2>3
  <2>5. u[k - 1] = v[k - 1]
    BY <2>4
  <2>6. u[k] = u[k - 1] * DECIMAL + s[k][2] /\ v[k] = v[k - 1] * DECIMAL + s[k][2]
    BY <2>4, ReadingStep
  <2> QED BY <2>2, <2>5, <2>6
<1>3. \A k \in 0 .. Len(s) : u[k] = v[k]
  BY <1>1, <1>2
<1> DEFINE E(w, k) == IF k = 0 THEN 0 ELSE w[k - 1] * DECIMAL + s[k][2]
<1>4. u = [k \in 0 .. Len(s) |-> E(u, k)] /\ v = [k \in 0 .. Len(s) |-> E(v, k)]
  BY DEF Reads
<1> HIDE DEF E
<1> QED BY <1>3, <1>4

LEMMA ReadingExtends ==
  ASSUME PositionAssumption, NEW s \in Seq(Digit), NEW x \in Digit,
         NEW v \in [0 .. Len(s) -> Nat], Reads(s, v)
  PROVE  LET w == [k \in 0 .. Len(s) + 1 |-> IF k <= Len(s) THEN v[k] ELSE v[Len(s)] * DECIMAL + x[2]]
         IN  w \in [0 .. Len(Append(s, x)) -> Nat] /\ Reads(Append(s, x), w)
<1> DEFINE t == Append(s, x)
           n == Len(s)
           w == [k \in 0 .. n + 1 |-> IF k <= n THEN v[k] ELSE v[n] * DECIMAL + x[2]]
<1>1. n \in Nat /\ t \in Seq(Digit) /\ Len(t) = n + 1 /\ t[n + 1] = x /\ \A k \in 1 .. n : t[k] = s[k]
  BY Appended
<1>2. x[2] \in Nat /\ DECIMAL \in Nat /\ v[n] \in Nat
  BY <1>1, OfDigits, BasesAreNumbers
<1>3. w \in [0 .. n + 1 -> Nat] /\ w[n + 1] = v[n] * DECIMAL + x[2] /\ \A k \in 0 .. n : w[k] = v[k]
  <2> DEFINE y == v[n] * DECIMAL + x[2]
  <2>1. n \in Nat /\ y \in Nat /\ v \in [0 .. n -> Nat]
    BY <1>1, <1>2
  <2> HIDE DEF n, t, y
  <2>2. w \in [0 .. n + 1 -> Nat] /\ w[n + 1] = y /\ \A k \in 0 .. n : w[k] = v[k]
    BY <2>1
  <2> QED BY <2>2 DEF y
<1>4. v[0] = 0 /\ \A k \in 1 .. n : v[k] = v[k - 1] * DECIMAL + s[k][2]
  BY ReadingStep
<1> HIDE DEF w, n, t
<1>5. ASSUME NEW k \in 0 .. n + 1 PROVE w[k] = IF k = 0 THEN 0 ELSE w[k - 1] * DECIMAL + t[k][2]
  <2>1. CASE k = 0
    BY <1>1, <1>3, <1>4, <2>1
  <2>2. CASE k \in 1 .. n
    <3>1. k \in 0 .. n /\ k - 1 \in 0 .. n /\ k # 0
      BY <1>1, <2>2
    <3> QED BY <1>1, <1>3, <1>4, <2>2, <3>1
  <2>3. CASE k = n + 1
    <3>1. n \in 0 .. n /\ k # 0 /\ k - 1 = n
      BY <1>1, <2>3
    <3> QED BY <1>1, <1>3, <2>3, <3>1
  <2> QED BY <1>1, <2>1, <2>2, <2>3
<1> DEFINE E(k) == IF k = 0 THEN 0 ELSE w[k - 1] * DECIMAL + t[k][2]
<1>6. w = [k \in 0 .. n + 1 |-> E(k)]
  <2>1. \A k \in 0 .. n + 1 : w[k] = E(k)
    BY <1>5
  <2> HIDE DEF E
  <2> QED BY <1>3, <2>1
<1>7. Reads(t, w)
  BY <1>1, <1>6 DEF Reads
<1> QED BY <1>1, <1>3, <1>7 DEF w, n, t

LEMMA EveryNumberIsRead ==
  ASSUME PositionAssumption, NEW s \in Seq(Digit)
  PROVE  \E v \in [0 .. Len(s) -> Nat] : Reads(s, v)
<1> DEFINE Read(r) == \E v \in [0 .. Len(r) -> Nat] : Reads(r, v)
           Bad == {n \in Nat : \E r \in Seq(Digit) : Len(r) = n /\ ~Read(r)}
<1>1. Bad = {}
  <2> SUFFICES ASSUME Bad # {} PROVE FALSE
    OBVIOUS
  <2>1. Bad \subseteq Nat
    OBVIOUS
  <2>2. PICK n \in Bad : \A d \in Bad : n <= d
    <3> HIDE DEF Bad
    <3> QED BY <2>1, LeastIndex
  <2>3. PICK r \in Seq(Digit) : Len(r) = n /\ ~Read(r)
    BY <2>2
  <2>4. CASE r = <<>>
    <3> DEFINE v == [k \in 0 .. 0 |-> 0]
    <3>1. v \in [0 .. Len(r) -> Nat] /\ v[0] = 0
      BY <2>4
    <3>2. Reads(r, v)
      BY <2>4 DEF Reads
    <3> HIDE DEF v
    <3> QED BY <2>3, <3>1, <3>2
  <2>5. CASE r # <<>>
    <3>1. PICK q \in Seq(Digit), x \in Digit : r = Append(q, x) /\ Len(q) = Len(r) - 1
      BY <2>5, LastOfAll
    <3>2. Len(q) \in Nat /\ Len(q) < n /\ Len(q) \notin Bad
      BY <2>2, <2>3, <3>1
    <3>3. Read(q)
      <4> HIDE DEF Read
      <4> QED BY <3>2
    <3>4. PICK v \in [0 .. Len(q) -> Nat] : Reads(q, v)
      BY <3>3
    <3> DEFINE w == [k \in 0 .. Len(q) + 1 |-> IF k <= Len(q) THEN v[k] ELSE v[Len(q)] * DECIMAL + x[2]]
    <3>5. w \in [0 .. Len(r) -> Nat] /\ Reads(r, w)
      BY <3>1, <3>4, ReadingExtends
    <3> HIDE DEF w
    <3> QED BY <2>3, <3>5
  <2> QED BY <2>4, <2>5
<1>2. Len(s) \in Nat
  OBVIOUS
<1>3. Read(s)
  <2> HIDE DEF Read
  <2> QED BY <1>1, <1>2
<1> QED BY <1>3

LEMMA StoiIsRead ==
  ASSUME PositionAssumption, NEW s \in Seq(Digit), NEW v, Reads(s, v)
  PROVE  Stoi(s) = v[Len(s)]
<1> DEFINE u == CHOOSE w : Reads(s, w)
<1>1. Stoi(s) = u[Len(s)]
  BY DEF Stoi, Reads
<1>2. Reads(s, u)
  OBVIOUS
<1> HIDE DEF u
<1>3. u = v
  BY <1>2, ReadingIsUnique
<1> QED BY <1>1, <1>3

LEMMA StoiStep ==
  ASSUME PositionAssumption
  PROVE  /\ Stoi(<<>>) = 0
         /\ \A s \in Seq(Digit) : Stoi(s) \in Nat /\ \A x \in Digit : Stoi(Append(s, x)) = Stoi(s) * DECIMAL + x[2]
<1>1. Stoi(<<>>) = 0
  <2>1. <<>> \in Seq(Digit) /\ Len(<<>>) = 0
    OBVIOUS
  <2>2. PICK v \in [0 .. 0 -> Nat] : Reads(<<>>, v)
    BY <2>1, EveryNumberIsRead
  <2> QED BY <2>1, <2>2, StoiIsRead, ReadingStep
<1>2. ASSUME NEW s \in Seq(Digit) PROVE Stoi(s) \in Nat
  <2>1. PICK v \in [0 .. Len(s) -> Nat] : Reads(s, v)
    BY EveryNumberIsRead
  <2> QED BY <2>1, StoiIsRead
<1>3. ASSUME NEW s \in Seq(Digit), NEW x \in Digit PROVE Stoi(Append(s, x)) = Stoi(s) * DECIMAL + x[2]
  <2>1. PICK v \in [0 .. Len(s) -> Nat] : Reads(s, v)
    BY EveryNumberIsRead
  <2> DEFINE w == [k \in 0 .. Len(s) + 1 |-> IF k <= Len(s) THEN v[k] ELSE v[Len(s)] * DECIMAL + x[2]]
             t == Append(s, x)
  <2>2. Reads(t, w)
    BY <2>1, ReadingExtends
  <2>3. t \in Seq(Digit) /\ Len(t) = Len(s) + 1 /\ Len(s) \in Nat
    BY Appended
  <2>4. w[Len(s) + 1] = v[Len(s)] * DECIMAL + x[2]
    BY <2>3
  <2> HIDE DEF w, t
  <2>5. Stoi(t) = w[Len(t)] /\ Stoi(s) = v[Len(s)]
    BY <2>1, <2>2, <2>3, StoiIsRead
  <2> QED BY <2>3, <2>4, <2>5 DEF t
<1> QED BY <1>1, <1>2, <1>3

(***************************************************************************)
(* What std::to_string writes.                                             *)
(***************************************************************************)
Rest(n) == n \div DECIMAL
LastDigit(n) == <<"digit", n % DECIMAL>>
OneDigit(n) == <<<<"digit", n>>>>

LEMMA ANumberIsRestAndLastDigit ==
  ASSUME PositionAssumption, NEW n \in Nat
  PROVE  /\ Rest(n) \in Nat /\ LastDigit(n) \in Digit /\ n = Rest(n) * DECIMAL + LastDigit(n)[2]
         /\ n > 0 => Rest(n) < n
         /\ n >= DECIMAL => Rest(n) > 0
         /\ n < DECIMAL => <<"digit", n>> \in Digit /\ <<"digit", n>>[2] = n /\ OneDigit(n) \in Seq(Digit)
         /\ \A m \in Nat : m <= n => Rest(m) <= Rest(n)
<1>1. DECIMAL \in Nat /\ DECIMAL > 1
  BY BasesAreNumbers
<1> DEFINE q == n \div DECIMAL
           d == n % DECIMAL
<1>2. /\ q \in Nat /\ d \in 0 .. DECIMAL - 1 /\ n = q * DECIMAL + d
      /\ n > 0 => q < n
      /\ n >= DECIMAL => q > 0
  BY <1>1, Division
<1>3. <<"digit", d>> \in Digit /\ <<"digit", d>>[2] = d
  <2> HIDE DEF d
  <2> QED BY <1>2, OfDigits
<1>4. ASSUME n < DECIMAL PROVE <<"digit", n>> \in Digit /\ <<"digit", n>>[2] = n /\ OneDigit(n) \in Seq(Digit)
  <2>1. n \in 0 .. DECIMAL - 1
    BY <1>1, <1>4
  <2>2. <<"digit", n>> \in Digit /\ <<"digit", n>>[2] = n
    BY <2>1, OfDigits
  <2> QED BY <2>2 DEF OneDigit
<1>5. \A m \in Nat : m <= n => Rest(m) <= Rest(n)
  BY <1>1, DivisionGrows DEF Rest
<1>6. Rest(n) = q /\ LastDigit(n) = <<"digit", d>>
  BY DEF Rest, LastDigit
<1> HIDE DEF q, d
<1> QED BY <1>2, <1>3, <1>4, <1>5, <1>6

LEMMA DigitsRule ==
  ASSUME PositionAssumption, NEW n \in Nat
  PROVE  /\ Digits[n] \in Seq(Digit)
         /\ n < DECIMAL => Digits[n] = OneDigit(n)
         /\ n >= DECIMAL => Digits[n] = Append(Digits[Rest(n)], LastDigit(n))
<1> DEFINE E(f, k) == IF k < DECIMAL THEN OneDigit(k) ELSE Append(f[Rest(k)], LastDigit(k))
           IsDigits(f) == f = [k \in Nat |-> E(f, k)]
           X == Seq(Digit)
           Leaf == {k \in Nat : k < DECIMAL}
           Back == [k \in Nat |-> Rest(k)]
           L == [k \in Nat |-> IF k < DECIMAL THEN OneDigit(k) ELSE <<>>]
           G == [k \in Nat |-> [x \in X |-> Append(x, LastDigit(k))]]
<1>1. DECIMAL \in Nat /\ DECIMAL > 1
  BY BasesAreNumbers
<1>2. GoesBack(Leaf, Back)
  <2>1. ASSUME NEW k \in Nat, k \notin Leaf PROVE Back[k] \in 0 .. k - 1
    <3>1. k > 0 /\ Rest(k) \in Nat /\ Rest(k) < k
      <4>1. k > 0
        BY <1>1, <2>1
      <4> QED BY <4>1, ANumberIsRestAndLastDigit
    <3> QED BY <3>1
  <2> QED BY <2>1 DEF GoesBack
<1>3. L \in [Nat -> X]
  <2>1. \A k \in Nat : k < DECIMAL => OneDigit(k) \in X
    BY ANumberIsRestAndLastDigit
  <2>2. <<>> \in X
    OBVIOUS
  <2> HIDE DEF X
  <2> QED BY <2>1, <2>2
<1>4. G \in [Nat -> [X -> X]]
  <2>1. ASSUME NEW k \in Nat, NEW x \in X PROVE Append(x, LastDigit(k)) \in X
    <3>1. LastDigit(k) \in Digit
      BY ANumberIsRestAndLastDigit
    <3> QED BY <3>1
  <2> HIDE DEF X
  <2> QED BY <2>1
<1>5. PICK f \in [Nat -> X] : IsRun(f, Leaf, Back, L, G)
  <2>1. \E f \in [Nat -> X] : IsRun(f, Leaf, Back, L, G)
    <3> HIDE DEF Leaf, Back, L, G, X
    <3> QED BY <1>2, <1>3, <1>4, NumberRecursion
  <2> HIDE DEF Leaf, Back, L, G, X
  <2> QED BY <2>1
<1>6. ASSUME NEW k \in Nat PROVE f[k] = E(f, k)
  <2>1. f[k] = IF k \in Leaf THEN L[k] ELSE G[k][f[Back[k]]]
    <3> HIDE DEF Leaf, Back, L, G, X
    <3> QED BY <1>5 DEF IsRun
  <2>2. f[Rest(k)] \in X
    <3>1. Rest(k) \in Nat
      BY ANumberIsRestAndLastDigit
    <3> HIDE DEF X
    <3> QED BY <1>5, <3>1
  <2> HIDE DEF X
  <2> QED BY <2>1, <2>2
<1>7. IsDigits(f)
  <2> HIDE DEF E, X
  <2>1. f = [k \in Nat |-> f[k]]
    BY <1>5
  <2> QED BY <1>6, <2>1
<1>8. IsDigits(Digits)
  <2>1. Digits = CHOOSE g : IsDigits(g)
    BY DEF Digits, Rest, LastDigit, OneDigit
  <2> HIDE DEF IsDigits
  <2> QED BY <1>7, <2>1
<1>9. ASSUME NEW k \in Nat PROVE Digits[k] = E(Digits, k)
  <2> HIDE DEF E
  <2> QED BY <1>8
<1> DEFINE Bad == {k \in Nat : Digits[k] \notin X}
<1>10. Bad = {}
  <2> SUFFICES ASSUME Bad # {} PROVE FALSE
    OBVIOUS
  <2>1. Bad \subseteq Nat
    OBVIOUS
  <2>2. PICK k \in Bad : \A d \in Bad : k <= d
    <3> HIDE DEF Bad
    <3> QED BY <2>1, LeastIndex
  <2>3. k \in Nat /\ Digits[k] \notin X
    BY <2>2
  <2>4. CASE k < DECIMAL
    <3>1. OneDigit(k) \in X /\ Digits[k] = OneDigit(k)
      BY <1>9, <2>3, <2>4, ANumberIsRestAndLastDigit
    <3> QED BY <2>3, <3>1
  <2>5. CASE k >= DECIMAL
    <3>1. Rest(k) \in Nat /\ Rest(k) < k /\ LastDigit(k) \in Digit
      <4>1. k > 0
        BY <1>1, <2>3, <2>5
      <4> QED BY <2>3, <4>1, ANumberIsRestAndLastDigit
    <3>2. Digits[Rest(k)] \in X
      <4> HIDE DEF X
      <4> QED BY <2>2, <3>1
    <3>3. Digits[k] = Append(Digits[Rest(k)], LastDigit(k))
      <4>1. ~(k < DECIMAL)
        BY <1>1, <2>3, <2>5
      <4> QED BY <1>9, <2>3, <4>1
    <3>4. Append(Digits[Rest(k)], LastDigit(k)) \in X
      BY <3>1, <3>2
    <3> QED BY <2>3, <3>3, <3>4
  <2> QED BY <1>1, <2>3, <2>4, <2>5
<1>11. Digits[n] \in X /\ Digits[n] = E(Digits, n)
  <2> HIDE DEF X, E
  <2> QED BY <1>9, <1>10
<1>12. n >= DECIMAL => ~(n < DECIMAL)
  BY <1>1
<1> QED BY <1>11, <1>12

\* Read again, a number is itself, and it begins with no zero.
LEMMA NumbersAreReadBack ==
  ASSUME PositionAssumption, NEW n \in Nat
  PROVE  Digits[n] # <<>> /\ Stoi(Digits[n]) = n /\ (n > 0 => Digits[n][1][2] # 0)
<1> DEFINE Good(k) == Digits[k] # <<>> /\ Stoi(Digits[k]) = k /\ (k > 0 => Digits[k][1][2] # 0)
           Bad == {k \in Nat : ~Good(k)}
<1>1. DECIMAL \in Nat /\ DECIMAL > 1
  BY BasesAreNumbers
<1>2. ASSUME NEW k \in Nat, \A d \in Nat : d < k => Good(d) PROVE Good(k)
  <2>1. CASE k < DECIMAL
    <3> DEFINE x == <<"digit", k>>
    <3>1. x \in Digit /\ x[2] = k
      BY <2>1, ANumberIsRestAndLastDigit
    <3>2. Digits[k] = <<x>>
      BY <2>1, DigitsRule DEF OneDigit
    <3> HIDE DEF x
    <3>3. <<x>> = Append(<<>>, x) /\ <<>> \in Seq(Digit) /\ <<x>> # <<>> /\ <<x>>[1] = x
      OBVIOUS
    <3>4. Stoi(<<x>>) = 0 * DECIMAL + x[2]
      BY <3>1, <3>3, StoiStep
    <3> QED BY <1>1, <3>1, <3>2, <3>3, <3>4
  <2>2. CASE k >= DECIMAL
    <3> DEFINE q == Rest(k)
               x == LastDigit(k)
    <3>1. q \in Nat /\ q < k /\ q > 0 /\ k = q * DECIMAL + x[2] /\ x \in Digit
      <4>1. k > 0
        BY <1>1, <2>2
      <4> HIDE DEF q, x
      <4>2. Rest(k) \in Nat /\ Rest(k) < k /\ Rest(k) > 0 /\ LastDigit(k) \in Digit
        BY <2>2, <4>1, ANumberIsRestAndLastDigit
      <4>3. k = Rest(k) * DECIMAL + LastDigit(k)[2]
        BY ANumberIsRestAndLastDigit
      <4> QED BY <4>2, <4>3 DEF q, x
    <3>2. Digits[k] = Append(Digits[q], x)
      BY <2>2, DigitsRule
    <3>3. Digits[q] \in Seq(Digit)
      BY <3>1, DigitsRule
    <3> HIDE DEF q, x
    <3>4. Good(q)
      <4> HIDE DEF Good
      <4> QED BY <1>2, <3>1
    <3>5. Stoi(Digits[k]) = q * DECIMAL + x[2]
      <4>1. Stoi(Append(Digits[q], x)) = Stoi(Digits[q]) * DECIMAL + x[2]
        BY <3>1, <3>3, StoiStep
      <4> QED BY <3>2, <3>4, <4>1
    <3>6. Digits[k] # <<>> /\ Digits[k][1] = Digits[q][1]
      <4>1. Len(Digits[q]) \in Nat /\ Len(Digits[q]) >= 1
        BY <3>3, <3>4
      <4>2. 1 \in 1 .. Len(Digits[q])
        BY <4>1
      <4>3. Append(Digits[q], x)[1] = Digits[q][1] /\ Append(Digits[q], x) # <<>>
        BY <3>1, <3>3, <4>2, Appended
      <4> QED BY <3>2, <4>3
    <3> QED BY <3>1, <3>4, <3>5, <3>6
  <2> QED BY <1>1, <2>1, <2>2
<1> HIDE DEF Good
<1>3. Bad = {}
  <2> SUFFICES ASSUME Bad # {} PROVE FALSE
    OBVIOUS
  <2>1. Bad \subseteq Nat
    OBVIOUS
  <2>2. PICK k \in Bad : \A d \in Bad : k <= d
    <3> HIDE DEF Bad
    <3> QED BY <2>1, LeastIndex
  <2>3. k \in Nat /\ \A d \in Nat : d < k => Good(d)
    BY <2>2
  <2> QED BY <1>2, <2>2, <2>3
<1>4. Good(n)
  BY <1>3
<1> QED BY <1>4 DEF Good

\* A greater number is not written with fewer digits.
LEMMA NumbersGrow ==
  ASSUME PositionAssumption, NEW n \in Nat
  PROVE  \A m \in Nat : m <= n => Len(Digits[m]) <= Len(Digits[n])
<1> DEFINE Good(k) == \A m \in Nat : m <= k => Len(Digits[m]) <= Len(Digits[k])
           Bad == {k \in Nat : ~Good(k)}
<1>1. DECIMAL \in Nat /\ DECIMAL > 1
  BY BasesAreNumbers
<1>2. ASSUME NEW k \in Nat, \A d \in Nat : d < k => Good(d) PROVE Good(k)
  <2> SUFFICES ASSUME NEW m \in Nat, m <= k PROVE Len(Digits[m]) <= Len(Digits[k])
    OBVIOUS
  <2>1. Len(Digits[k]) \in Nat /\ Len(Digits[k]) >= 1
    BY DigitsRule, NumbersAreReadBack
  <2>2. CASE m < DECIMAL
    <3>1. Digits[m] = OneDigit(m)
      BY <2>2, DigitsRule
    <3>2. Len(OneDigit(m)) = 1
      BY DEF OneDigit
    <3> QED BY <2>1, <3>1, <3>2
  <2>3. CASE m >= DECIMAL
    <3> DEFINE p == Rest(m)
               q == Rest(k)
    <3>1. k >= DECIMAL /\ k > 0
      BY <1>1, <2>3
    <3>2. p \in Nat /\ q \in Nat /\ p <= q /\ q < k
      BY <3>1, ANumberIsRestAndLastDigit
    <3>3. Digits[m] = Append(Digits[p], LastDigit(m)) /\ Digits[k] = Append(Digits[q], LastDigit(k))
      BY <2>3, <3>1, DigitsRule
    <3> HIDE DEF p, q
    <3>4. Len(Digits[p]) <= Len(Digits[q]) /\ Digits[p] \in Seq(Digit) /\ Digits[q] \in Seq(Digit)
      BY <1>2, <3>2, DigitsRule
    <3>5. Len(Digits[m]) = Len(Digits[p]) + 1 /\ Len(Digits[k]) = Len(Digits[q]) + 1
      BY <3>3, <3>4
    <3>6. Len(Digits[p]) \in Nat /\ Len(Digits[q]) \in Nat
      BY <3>4
    <3> QED BY <3>4, <3>5, <3>6
  <2> QED BY <1>1, <2>2, <2>3
<1> HIDE DEF Good
<1>3. Bad = {}
  <2> SUFFICES ASSUME Bad # {} PROVE FALSE
    OBVIOUS
  <2>1. Bad \subseteq Nat
    OBVIOUS
  <2>2. PICK k \in Bad : \A d \in Bad : k <= d
    <3> HIDE DEF Bad
    <3> QED BY <2>1, LeastIndex
  <2>3. k \in Nat /\ \A d \in Nat : d < k => Good(d)
    BY <2>2
  <2> QED BY <1>2, <2>2, <2>3
<1>4. Good(n)
  BY <1>3
<1> QED BY <1>4 DEF Good

\* Digits that begin with no zero are what is written for the number they are.
LEMMA DigitsAreWrittenBack ==
  ASSUME PositionAssumption, NEW s \in Seq(Digit), s # <<>>, s[1][2] # 0
  PROVE  Stoi(s) > 0 /\ Digits[Stoi(s)] = s
<1> DEFINE Good(r) == Stoi(r) > 0 /\ Digits[Stoi(r)] = r
           Number(r) == r \in Seq(Digit) /\ r # <<>> /\ r[1][2] # 0
           Bad == {k \in Nat : \E r : Number(r) /\ Len(r) = k /\ ~Good(r)}
<1>1. DECIMAL \in Nat /\ DECIMAL > 1
  BY BasesAreNumbers
<1>2. ASSUME NEW r, Number(r), \A q : Number(q) /\ Len(q) < Len(r) => Good(q) PROVE Good(r)
  <2>1. r \in Seq(Digit) /\ r # <<>> /\ r[1][2] # 0
    BY <1>2
  <2>2. PICK q \in Seq(Digit), x \in Digit : r = Append(q, x) /\ Len(q) = Len(r) - 1
    BY <2>1, LastOfAll
  <2>3. Stoi(q) \in Nat /\ Stoi(r) = Stoi(q) * DECIMAL + x[2] /\ x[2] \in 0 .. DECIMAL - 1 /\ x = <<"digit", x[2]>>
    BY <2>2, StoiStep, OfDigits
  <2>4. CASE q = <<>>
    <3>1. r = <<x>> /\ r[1] = x
      BY <2>2, <2>4
    <3>2. Stoi(q) = 0
      BY <2>4, StoiStep
    <3>3. Stoi(r) = x[2] /\ x[2] > 0
      BY <1>1, <2>1, <2>3, <3>1, <3>2
    <3>4. x[2] \in Nat /\ x[2] < DECIMAL
      BY <1>1, <2>3
    <3>5. Digits[x[2]] = OneDigit(x[2])
      BY <3>4, DigitsRule
    <3> QED BY <2>3, <3>1, <3>3, <3>5 DEF OneDigit
  <2>5. CASE q # <<>>
    <3>1. Len(q) \in Nat /\ Len(q) >= 1 /\ Len(q) < Len(r)
      BY <2>2, <2>5
    <3>2. r[1] = q[1]
      <4>1. 1 \in 1 .. Len(q)
        BY <3>1
      <4> QED BY <2>2, <4>1, Appended
    <3>3. Number(q)
      BY <2>1, <2>5, <3>2
    <3>4. Good(q)
      <4> HIDE DEF Number, Good
      <4> QED BY <1>2, <3>1, <3>3
    <3> DEFINE n == Stoi(q)
               d == x[2]
    <3>5. n \in Nat /\ n > 0 /\ d \in 0 .. DECIMAL - 1 /\ Stoi(r) = n * DECIMAL + d
      BY <2>3, <3>4
    <3> HIDE DEF n, d
    <3>6. Stoi(r) \in Nat /\ Stoi(r) \div DECIMAL = n /\ Stoi(r) % DECIMAL = d /\ Stoi(r) >= DECIMAL
      <4>1. n * DECIMAL + d \in Nat /\ (n * DECIMAL + d) \div DECIMAL = n /\ (n * DECIMAL + d) % DECIMAL = d
        BY <1>1, <3>5, DivisionBack
      <4>2. n * DECIMAL + d >= DECIMAL
        BY <1>1, <3>5
      <4> QED BY <3>5, <4>1, <4>2
    <3>7. Digits[Stoi(r)] = Append(Digits[n], <<"digit", d>>)
      BY <3>6, DigitsRule DEF Rest, LastDigit
    <3>8. Digits[n] = q /\ <<"digit", d>> = x
      BY <2>3, <3>4 DEF n, d
    <3> QED BY <1>1, <2>2, <3>6, <3>7, <3>8
  <2> QED BY <2>4, <2>5
<1> HIDE DEF Good
<1>3. Bad = {}
  <2> SUFFICES ASSUME Bad # {} PROVE FALSE
    OBVIOUS
  <2>1. Bad \subseteq Nat
    OBVIOUS
  <2>2. PICK k \in Bad : \A d \in Bad : k <= d
    <3> HIDE DEF Bad
    <3> QED BY <2>1, LeastIndex
  <2>3. PICK r : Number(r) /\ Len(r) = k /\ ~Good(r)
    BY <2>2
  <2>4. ASSUME NEW q, Number(q), Len(q) < Len(r) PROVE Good(q)
    <3>1. Len(q) \in Nat
      BY <2>4
    <3> HIDE DEF Number
    <3> QED BY <2>2, <2>3, <2>4, <3>1
  <2> HIDE DEF Number
  <2> QED BY <1>2, <2>3, <2>4
<1>4. Number(s) /\ Len(s) \in Nat
  OBVIOUS
<1>5. Good(s)
  <2> HIDE DEF Number
  <2> QED BY <1>3, <1>4
<1> QED BY <1>5 DEF Good

(***************************************************************************)
(* Words of letters as numbers: right[k] is what the letters behind the    *)
(* k-th add, and right[0] the number of the word, from 1 for the first     *)
(* column.                                                                 *)
(***************************************************************************)
Weighs(w, right) ==
  /\ right \in [0 .. Len(w) -> Nat] /\ right[Len(w)] = 0
  /\ \A k \in 0 .. Len(w) - 1 : right[k] = (w[k + 1][2] + 1) * Pow[Len(w) - 1 - k] + right[k + 1]

LEMMA OfLetters ==
  ASSUME PositionAssumption
  PROVE  /\ \A x \in Letter : x[2] \in 0 .. LETTERS - 1 /\ x \in Character /\ x \notin Digit
         /\ \A n \in 0 .. LETTERS - 1 : <<"letter", n>> \in Letter /\ <<"letter", n>>[2] = n
  BY BasesAreNumbers DEF Digit, Letter, Character

\* A letter before a word adds its power.
LEMMA LetterBefore ==
  ASSUME PositionAssumption, NEW w \in Seq(Letter), NEW right, Weighs(w, right), NEW x \in Letter
  PROVE  \E more : Weighs(<<x>> \o w, more) /\ more[0] = (x[2] + 1) * Pow[Len(w)] + right[0]
<1> DEFINE n == Len(w)
           s == <<x>> \o w
           first == (x[2] + 1) * Pow[n] + right[0]
           more == [k \in 0 .. n + 1 |-> IF k = 0 THEN first ELSE right[k - 1]]
<1>1. n \in Nat /\ Len(s) = n + 1 /\ s[1] = x /\ \A k \in 1 .. n : s[k + 1] = w[k]
  OBVIOUS
<1>2. right \in [0 .. n -> Nat] /\ right[n] = 0
  BY DEF Weighs
<1>3. first \in Nat
  <2>1. x[2] \in Nat
    BY OfLetters, BasesAreNumbers
  <2>2. Pow[n] \in Nat
    BY <1>1, Powers
  <2>3. right[0] \in Nat
    <3> HIDE DEF n
    <3> QED BY <1>1, <1>2
  <2> QED BY <2>1, <2>2, <2>3
<1>4. \A k \in 0 .. n - 1 : right[k] = (w[k + 1][2] + 1) * Pow[n - 1 - k] + right[k + 1]
  BY DEF Weighs
<1> HIDE DEF n, s, first
<1>5. more \in [0 .. n + 1 -> Nat] /\ more[0] = first /\ \A k \in 1 .. n + 1 : more[k] = right[k - 1]
  BY <1>1, <1>2, <1>3
<1> HIDE DEF more
<1>6. more[n + 1] = 0
  <2>1. n + 1 \in 1 .. n + 1 /\ (n + 1) - 1 = n
    BY <1>1
  <2> QED BY <1>2, <1>5, <2>1
<1>7. ASSUME NEW k \in 0 .. (n + 1) - 1
      PROVE  more[k] = (s[k + 1][2] + 1) * Pow[(n + 1) - 1 - k] + more[k + 1]
  <2>1. CASE k = 0
    <3>1. (n + 1) - 1 - k = n /\ more[k + 1] = right[0] /\ s[k + 1] = x
      BY <1>1, <1>5, <2>1
    <3> QED BY <1>5, <2>1, <3>1 DEF first
  <2>2. CASE k \in 1 .. n
    <3> DEFINE m == k - 1
    <3>1. m \in 0 .. n - 1 /\ k = m + 1 /\ (n + 1) - 1 - k = n - 1 - m
      BY <1>1, <2>2
    <3> HIDE DEF m
    <3>2. right[m] = (w[m + 1][2] + 1) * Pow[n - 1 - m] + right[m + 1]
      BY <1>4, <3>1
    <3>3. s[k + 1] = w[m + 1] /\ more[k] = right[m] /\ more[k + 1] = right[m + 1]
      <4>1. m + 1 \in 1 .. n /\ k \in 1 .. n + 1 /\ k + 1 \in 1 .. n + 1 /\ k - 1 = m /\ (k + 1) - 1 = m + 1
        BY <1>1, <3>1
      <4> QED BY <1>1, <1>5, <3>1, <4>1
    <3> QED BY <3>1, <3>2, <3>3
  <2> QED BY <1>1, <2>1, <2>2
<1>8. Weighs(s, more)
  BY <1>1, <1>5, <1>6, <1>7 DEF Weighs
<1>9. Weighs(<<x>> \o w, more) /\ more[0] = (x[2] + 1) * Pow[Len(w)] + right[0]
  BY <1>5, <1>8 DEF s, first, n
<1> QED BY <1>9

LEMMA EveryWordWeighs ==
  ASSUME PositionAssumption, NEW w \in Seq(Letter)
  PROVE  \E right : Weighs(w, right)
<1> DEFINE Bad == {n \in Nat : \E v \in Seq(Letter) : Len(v) = n /\ ~\E right : Weighs(v, right)}
<1>1. Bad = {}
  <2> SUFFICES ASSUME Bad # {} PROVE FALSE
    OBVIOUS
  <2>1. Bad \subseteq Nat
    OBVIOUS
  <2>2. PICK n \in Bad : \A d \in Bad : n <= d
    <3> HIDE DEF Bad
    <3> QED BY <2>1, LeastIndex
  <2>3. PICK v \in Seq(Letter) : Len(v) = n /\ ~\E right : Weighs(v, right)
    BY <2>2
  <2>4. CASE v = <<>>
    <3> DEFINE right == [k \in 0 .. 0 |-> 0]
    <3>1. right \in [0 .. Len(v) -> Nat] /\ right[Len(v)] = 0 /\ 0 .. Len(v) - 1 = {}
      BY <2>4
    <3> HIDE DEF right
    <3>2. Weighs(v, right)
      BY <3>1 DEF Weighs
    <3> QED BY <2>3, <3>2
  <2>5. CASE v # <<>>
    <3> DEFINE x == Head(v)
               u == Tail(v)
    <3>1. x \in Letter /\ u \in Seq(Letter) /\ v = <<x>> \o u /\ Len(u) = Len(v) - 1 /\ Len(u) \in Nat
      BY <2>5
    <3> HIDE DEF x, u
    <3>2. Len(u) \in Nat /\ Len(u) < n /\ Len(u) \notin Bad
      BY <2>2, <2>3, <3>1
    <3>3. PICK right : Weighs(u, right)
      BY <3>1, <3>2
    <3>4. \E more : Weighs(<<x>> \o u, more)
      BY <3>1, <3>3, LetterBefore
    <3> QED BY <2>3, <3>1, <3>4
  <2> QED BY <2>4, <2>5
<1>2. Len(w) \in Nat
  OBVIOUS
<1> QED BY <1>1, <1>2

(***************************************************************************)
(* The two parts of a text.                                                *)
(***************************************************************************)
LEMMA OneSplit ==
  ASSUME PositionAssumption, NEW s, NEW n \in 1 .. Len(s) - 1, Splits(s, n), Len(s) \in Nat
  PROVE  Matches(s) /\ Split(s) = n
<1>1. Matches(s)
  BY DEF Matches
<1>2. Split(s) \in 1 .. Len(s) - 1 /\ Splits(s, Split(s))
  BY <1>1 DEF Matches, Split
<1>3. ASSUME NEW a \in 1 .. Len(s) - 1, NEW b \in 1 .. Len(s) - 1, Splits(s, a), Splits(s, b), a < b PROVE FALSE
  <2>1. b \in a + 1 .. Len(s) /\ b \in 1 .. b
    BY <1>3
  <2>2. s[b] \in Letter /\ s[b] \in Digit
    BY <1>3, <2>1 DEF Splits
  <2> QED BY <2>2, OfLetters
<1>4. ~(Split(s) < n) /\ ~(n < Split(s))
  BY <1>2, <1>3
<1> QED BY <1>1, <1>2, <1>4

LEMMA PartsOfAMatch ==
  ASSUME PositionAssumption, NEW s \in Seq(Character), Matches(s)
  PROVE  /\ LettersOf(s) \in Seq(Letter) /\ LettersOf(s) # <<>>
         /\ DigitsOf(s) \in Seq(Digit) /\ DigitsOf(s) # <<>> /\ DigitsOf(s)[1][2] # 0
<1> DEFINE n == Split(s)
<1>1. n \in 1 .. Len(s) - 1 /\ Splits(s, n)
  BY DEF Matches, Split
<1>2. LettersOf(s) = SubSeq(s, 1, n) /\ DigitsOf(s) = SubSeq(s, n + 1, Len(s))
  BY DEF LettersOf, DigitsOf
<1> HIDE DEF n
<1>3. Len(s) \in Nat /\ n \in Nat
  BY <1>1
<1>4. SubSeq(s, 1, n) \in Seq(Letter) /\ SubSeq(s, 1, n) # <<>>
  <2>1. \A k \in 1 .. n : s[k] \in Letter
    BY <1>1 DEF Splits
  <2> DEFINE w == [k \in 1 .. n |-> s[k]]
  <2>2. SubSeq(s, 1, n) = w
    BY <1>1, <1>3
  <2>3. w \in Seq(Letter) /\ Len(w) = n
    BY <1>3, <2>1
  <2> HIDE DEF w
  <2>4. w # <<>>
    BY <1>1, <2>3
  <2> QED BY <2>2, <2>3, <2>4
<1>5. /\ SubSeq(s, n + 1, Len(s)) \in Seq(Digit) /\ SubSeq(s, n + 1, Len(s)) # <<>>
      /\ SubSeq(s, n + 1, Len(s))[1][2] # 0
  <2> DEFINE m == Len(s) - n
             d == [k \in 1 .. m |-> s[n + k]]
  <2>1. m \in Nat /\ m >= 1
    BY <1>1, <1>3
  <2>2. SubSeq(s, n + 1, Len(s)) = d
    BY <1>1, <1>3
  <2>3. \A k \in 1 .. m : s[n + k] \in Digit
    <3>1. \A k \in n + 1 .. Len(s) : s[k] \in Digit
      BY <1>1 DEF Splits
    <3> QED BY <1>1, <1>3, <3>1
  <2>4. s[n + 1][2] # 0
    BY <1>1 DEF Splits
  <2> HIDE DEF m
  <2>5. d \in Seq(Digit) /\ Len(d) = m /\ d[1] = s[n + 1]
    BY <2>1, <2>3
  <2>6. d # <<>>
    BY <2>1, <2>5
  <2> HIDE DEF d
  <2> QED BY <2>2, <2>4, <2>5, <2>6
<1> QED BY <1>2, <1>4, <1>5

LEMMA TextOfTwoParts ==
  ASSUME PositionAssumption, NEW w \in Seq(Letter), w # <<>>, NEW d \in Seq(Digit), d # <<>>, d[1][2] # 0
  PROVE  w \o d \in Seq(Character) /\ Matches(w \o d) /\ LettersOf(w \o d) = w /\ DigitsOf(w \o d) = d
<1> DEFINE s == w \o d
           n == Len(w)
           m == Len(d)
<1>1. n \in Nat /\ m \in Nat /\ n >= 1 /\ m >= 1 /\ Len(s) = n + m
  OBVIOUS
<1>2. (\A k \in 1 .. n : s[k] = w[k]) /\ \A k \in n + 1 .. n + m : s[k] = d[k - n]
  OBVIOUS
<1>3. (\A k \in 1 .. n : w[k] \in Letter) /\ \A k \in 1 .. m : d[k] \in Digit
  OBVIOUS
<1>4. w \in Seq(Character) /\ d \in Seq(Character) /\ s \in Seq(Character)
  <2>1. Letter \subseteq Character /\ Digit \subseteq Character
    BY DEF Character
  <2> QED BY <2>1
<1> HIDE DEF s, n, m
<1>5. \A k \in n + 1 .. n + m : s[k] \in Digit
  BY <1>1, <1>2, <1>3
<1>6. Splits(s, n)
  <2>1. n + 1 \in n + 1 .. n + m /\ (n + 1) - n = 1
    BY <1>1
  <2>2. s[n + 1] = d[1]
    BY <1>2, <2>1
  <2> QED BY <1>1, <1>2, <1>3, <1>5, <2>2 DEF Splits
<1>7. Matches(s) /\ Split(s) = n
  <2>1. n \in 1 .. Len(s) - 1 /\ Len(s) \in Nat
    BY <1>1
  <2> QED BY <1>6, <2>1, OneSplit
<1>8. LettersOf(s) = w /\ DigitsOf(s) = d
  <2>1. LettersOf(s) = SubSeq(s, 1, n) /\ DigitsOf(s) = SubSeq(s, n + 1, Len(s))
    BY <1>7 DEF LettersOf, DigitsOf
  <2>2. SubSeq(s, 1, n) = w /\ SubSeq(s, n + 1, Len(s)) = d
    BY DEF s, n, m
  <2> QED BY <2>1, <2>2
<1> QED BY <1>4, <1>7, <1>8 DEF s

(***************************************************************************)
(* The name of a position, and the invariant: the letters that ToString    *)
(* has made and the rest of the column are together the number of the      *)
(* column; the sum of FromString and the letters it has not read are the   *)
(* number of the word.                                                     *)
(***************************************************************************)
IsNameOf(s, p) ==
  /\ Matches(s) /\ DigitsOf(s) = Digits[p.row + 1]
  /\ \E right : Weighs(LettersOf(s), right) /\ right[0] = p.col + 1

Writing ==
  /\ InTheTable(given) /\ temp \in Nat /\ text \in Seq(Letter)
  /\ \E right : Weighs(text, right) /\ given.col + 1 = (temp + 1) * Pow[Len(text)] + right[0]
Written ==
  /\ text \in Seq(Character)
  /\ given # NONE => IF InTheTable(given) THEN IsNameOf(text, given) ELSE text = <<>>
Summing ==
  /\ Matches(text) /\ i \in 0 .. Len(LettersOf(text))
  /\ \A right : Weighs(LettersOf(text), right) /\ right[0] <= IntMax
                  => col \in Nat /\ col + right[i] = right[0]
Spelled(right) == [row |-> Stoi(DigitsOf(text)) - 1, col |-> right[0] - 1]
Answered ==
  /\ ~Matches(text) => result = NONE
  /\ Matches(text) =>
       \A right : Weighs(LettersOf(text), right) /\ right[0] <= IntMax
                    => result = IF InTheTable(Spelled(right)) THEN Spelled(right) ELSE NONE
PosInv ==
  /\ pc \in {"ToString", "column", "FromString", "sum", "done"} /\ given \in [row : Int, col : Int]
  /\ pc = "ToString" => text = <<>>
  /\ pc = "column" => Writing
  /\ pc \in {"FromString", "sum", "done"} => Written
  /\ pc = "sum" => Summing
  /\ pc = "done" => Answered

LEMMA TheTable ==
  ASSUME PositionAssumption
  PROVE  /\ MAX_ROWS \in Nat /\ MAX_COLS \in Nat /\ IntMin \in Int /\ IntMax \in Nat /\ IntMin < 0
         /\ MAX_ROWS >= 1 /\ MAX_COLS >= 1 /\ MAX_ROWS <= IntMax /\ MAX_COLS <= IntMax
<1>1. IntMin \in Int /\ IntMax \in Int /\ IntMin < 0 /\ MAX_ROWS \in 1 .. IntMax /\ MAX_COLS \in 1 .. IntMax
  BY DEF PositionAssumption
<1> QED BY <1>1

LEMMA InitPos == ASSUME PositionAssumption, Init PROVE PosInv
<1>1. NONE \in [row : Int, col : Int]
  BY DEF NONE
<1>2. CASE pc = "ToString" /\ given \in AnyPosition /\ text = <<>>
  <2>1. given \in [row : Int, col : Int]
    BY <1>2 DEF PositionAssumption
  <2> QED BY <1>2, <2>1 DEF PosInv
<1>3. CASE pc = "FromString" /\ given = NONE /\ text \in AnyText
  <2>1. text \in Seq(Character)
    BY <1>3 DEF PositionAssumption
  <2> QED BY <1>1, <1>3, <2>1 DEF PosInv, Written
<1> QED BY <1>2, <1>3 DEF Init

LEMMA ToStringPos == ASSUME PositionAssumption, PosInv, ToString PROVE PosInv'
<1>1. pc = "ToString" /\ text = <<>> /\ given \in [row : Int, col : Int]
  BY DEF PosInv, ToString
<1>2. given' = given /\ text' = text /\ temp' = given.col
  BY DEF ToString
<1>3. CASE InTheTable(given)
  <2>1. pc' = "column" /\ InTheTable(given')
    BY <1>2, <1>3 DEF ToString
  <2>2. temp' \in Nat
    BY <1>2, <1>3, TheTable DEF InTheTable
  <2>3. <<>> \in Seq(Letter)
    OBVIOUS
  <2>4. PICK right : Weighs(<<>>, right)
    BY <2>3, EveryWordWeighs
  <2>5. Len(<<>>) = 0 /\ right[0] = 0 /\ Pow[0] = 1
    BY <2>4, Powers DEF Weighs
  <2>6. given.col + 1 = (given.col + 1) * Pow[Len(<<>>)] + right[0]
    BY <1>2, <2>2, <2>5
  <2>7. Writing'
    BY <1>1, <1>2, <2>1, <2>2, <2>3, <2>4, <2>6 DEF Writing
  <2> QED BY <1>1, <1>2, <2>1, <2>7 DEF PosInv
<1>4. CASE ~InTheTable(given)
  <2>1. pc' = "FromString"
    BY <1>4 DEF ToString
  <2>2. Written'
    BY <1>1, <1>2, <1>4 DEF Written, InTheTable
  <2> QED BY <1>1, <1>2, <2>1, <2>2 DEF PosInv
<1> QED BY <1>3, <1>4

LEMMA ColumnLetterPos == ASSUME PositionAssumption, PosInv, ColumnLetter PROVE PosInv'
<1>1. pc = "column" /\ Writing /\ given \in [row : Int, col : Int]
  BY DEF PosInv, ColumnLetter
<1>2. PICK right : Weighs(text, right) /\ given.col + 1 = (temp + 1) * Pow[Len(text)] + right[0]
  BY <1>1 DEF Writing
<1> DEFINE q == temp \div LETTERS
           r == temp % LETTERS
           x == <<"letter", r>>
           letters == <<x>> \o text
           n == Len(text)
<1>3. LETTERS \in Nat /\ LETTERS > 1
  BY BasesAreNumbers
<1>4. q \in Nat /\ r \in 0 .. LETTERS - 1 /\ temp = q * LETTERS + r
  BY <1>1, <1>3, Division DEF Writing
<1>5. given' = given /\ temp' = q - 1
  BY DEF ColumnLetter
<1>6. IF q = 0 THEN text' = letters \o Digits[given.row + 1] /\ pc' = "FromString"
      ELSE text' = letters /\ pc' = "column"
  BY <1>1 DEF ColumnLetter
<1> HIDE DEF q, r
<1>7. x \in Letter /\ x[2] = r
  BY <1>4, OfLetters
<1> HIDE DEF x
<1>8. InTheTable(given) /\ InTheTable(given') /\ text \in Seq(Letter) /\ n \in Nat
  BY <1>1, <1>5 DEF Writing, InTheTable
<1>9. PICK more : Weighs(letters, more) /\ more[0] = (r + 1) * Pow[n] + right[0]
  BY <1>2, <1>7, <1>8, LetterBefore
<1>10. letters \in Seq(Letter) /\ letters # <<>> /\ Len(letters) = n + 1
  BY <1>7, <1>8
<1>11. right[0] \in Nat /\ Pow[n] \in Nat /\ Pow[n + 1] = LETTERS * Pow[n]
  <2>1. right \in [0 .. n -> Nat]
    BY <1>2 DEF Weighs
  <2> HIDE DEF n
  <2> QED BY <1>8, <2>1, Powers
<1>12. given.col + 1 = (q * LETTERS + r + 1) * Pow[n] + right[0]
  BY <1>2, <1>4
<1> HIDE DEF letters, n
<1>13. CASE q = 0
  <2> DEFINE d == Digits[given.row + 1]
  <2>1. given.row + 1 \in Nat /\ given.row + 1 > 0
    BY <1>8, TheTable DEF InTheTable
  <2>2. d \in Seq(Digit) /\ d # <<>> /\ d[1][2] # 0
    BY <2>1, DigitsRule, NumbersAreReadBack
  <2> HIDE DEF d
  <2>3. text' = letters \o d /\ pc' = "FromString"
    BY <1>6, <1>13 DEF d
  <2>4. text' \in Seq(Character) /\ Matches(text') /\ LettersOf(text') = letters /\ DigitsOf(text') = d
    BY <1>10, <2>2, <2>3, TextOfTwoParts
  <2>5. more[0] = given.col + 1
    BY <1>3, <1>4, <1>9, <1>11, <1>12, <1>13
  <2>6. IsNameOf(text', given')
    BY <1>5, <1>9, <2>4, <2>5 DEF IsNameOf, d
  <2>7. Written'
    BY <1>8, <2>4, <2>6 DEF Written
  <2> QED BY <1>1, <1>5, <2>3, <2>7 DEF PosInv
<1>14. CASE q # 0
  <2>1. text' = letters /\ pc' = "column"
    BY <1>6, <1>14
  <2>2. temp' \in Nat /\ temp' + 1 = q
    BY <1>4, <1>5, <1>14
  <2>3. given.col + 1 = q * (LETTERS * Pow[n]) + ((r + 1) * Pow[n] + right[0])
    <3>1. r \in Nat
      BY <1>3, <1>4
    <3> DEFINE base == LETTERS
               power == Pow[n]
               rest == right[0]
    <3>2. q \in Nat /\ base \in Nat /\ power \in Nat /\ rest \in Nat
      BY <1>3, <1>4, <1>11
    <3> HIDE DEF base, power, rest
    <3>3. (q * base + r + 1) * power + rest = q * (base * power) + ((r + 1) * power + rest)
      BY <3>1, <3>2, Multiplied
    <3> QED BY <1>12, <3>3 DEF base, power, rest
  <2>4. given'.col + 1 = (temp' + 1) * Pow[Len(text')] + more[0]
    BY <1>5, <1>9, <1>10, <1>11, <2>1, <2>2, <2>3
  <2>5. Weighs(text', more) /\ text' \in Seq(Letter)
    BY <1>9, <1>10, <2>1
  <2>6. Writing'
    BY <1>8, <2>2, <2>4, <2>5 DEF Writing
  <2> QED BY <1>1, <1>5, <2>1, <2>6 DEF PosInv
<1> QED BY <1>13, <1>14

LEMMA FromStringPos == ASSUME PositionAssumption, PosInv, FromString PROVE PosInv'
<1>1. pc = "FromString" /\ Written /\ given \in [row : Int, col : Int]
  BY DEF PosInv, FromString
<1>2. given' = given /\ text' = text /\ Written'
  BY <1>1 DEF FromString, Return, Written, IsNameOf
<1>3. CASE ~Matches(text) /\ Return(NONE) /\ UNCHANGED <<i, col>>
  <2>1. pc' = "done" /\ result' = NONE
    BY <1>3 DEF Return
  <2>2. Answered'
    BY <1>2, <1>3, <2>1 DEF Answered
  <2> QED BY <1>1, <1>2, <2>1, <2>2 DEF PosInv
<1>4. CASE Matches(text) /\ pc' = "sum" /\ i' = 0 /\ col' = 0
  <2>1. LettersOf(text) \in Seq(Letter)
    BY <1>1, <1>4, PartsOfAMatch DEF Written
  <2>2. 0 \in 0 .. Len(LettersOf(text))
    BY <2>1
  <2>3. ASSUME NEW right, Weighs(LettersOf(text), right) PROVE 0 + right[0] = right[0]
    BY <2>2, <2>3 DEF Weighs
  <2>4. Summing'
    BY <1>2, <1>4, <2>2, <2>3 DEF Summing
  <2> QED BY <1>1, <1>2, <1>4, <2>4 DEF PosInv
<1> QED BY <1>3, <1>4 DEF FromString

LEMMA SumLetterPos == ASSUME PositionAssumption, PosInv, SumLetter PROVE PosInv'
<1> DEFINE w == LettersOf(text)
           n == Len(w)
           term == (w[i + 1][2] + 1) * Pow[n - 1 - i]
<1>1. pc = "sum" /\ Written /\ Summing /\ given \in [row : Int, col : Int]
  BY DEF PosInv, SumLetter
<1>2. given' = given /\ text' = text /\ pc' = pc /\ i' = i + 1 /\ i < n /\ col' \in Converted(col + term) /\ Written'
  BY <1>1 DEF SumLetter, Written, IsNameOf
<1>3. w \in Seq(Letter) /\ Matches(text)
  BY <1>1, PartsOfAMatch DEF Written, Summing
<1>4. n \in Nat /\ i \in 0 .. n - 1 /\ i + 1 \in 0 .. n
  BY <1>1, <1>2, <1>3 DEF Summing
<1>5. term \in Nat
  <2>1. w[i + 1] \in Letter
    BY <1>3, <1>4
  <2>2. w[i + 1][2] \in Nat
    BY <2>1, OfLetters, BasesAreNumbers
  <2>3. n - 1 - i \in Nat
    BY <1>4
  <2>4. Pow[n - 1 - i] \in Nat
    BY <2>3, Powers
  <2> QED BY <2>2, <2>4
<1>6. ASSUME NEW right, Weighs(w, right), right[0] <= IntMax
      PROVE  col' \in Nat /\ col' + right[i + 1] = right[0]
  <2>1. right[i] = term + right[i + 1] /\ right[i] \in Nat /\ right[i + 1] \in Nat /\ right[0] \in Nat
    <3>1. right \in [0 .. n -> Nat] /\ right[i] = term + right[i + 1]
      BY <1>4, <1>6 DEF Weighs
    <3> HIDE DEF n, term
    <3> QED BY <1>4, <3>1
  <2>2. col \in Nat /\ col + right[i] = right[0]
    BY <1>1, <1>6 DEF Summing
  <2> HIDE DEF term
  <2>3. col + term \in Nat /\ col + term + right[i + 1] = right[0] /\ col + term <= IntMax
    BY <1>5, <1>6, <2>1, <2>2, TheTable
  <2>4. col + term \in IntMin .. IntMax
    BY <2>3, TheTable
  <2>5. col' = col + term
    BY <1>2, <2>4 DEF Converted
  <2> QED BY <2>3, <2>5
<1>7. Summing'
  BY <1>2, <1>3, <1>4, <1>6 DEF Summing
<1> QED BY <1>1, <1>2, <1>7 DEF PosInv

LEMMA ReturnPositionPos == ASSUME PositionAssumption, PosInv, ReturnPosition PROVE PosInv'
<1> DEFINE w == LettersOf(text)
           d == DigitsOf(text)
           p == [row |-> Stoi(d) - 1, col |-> col - 1]
<1>1. pc = "sum" /\ Written /\ Summing /\ given \in [row : Int, col : Int]
  BY DEF PosInv, ReturnPosition
<1>2. given' = given /\ text' = text /\ pc' = "done" /\ i = Len(w) /\ Written'
  BY <1>1 DEF ReturnPosition, Return, Written, IsNameOf
<1>3. result' = IF Len(d) > MAX_ROWS_LENGTH \/ ~InTheTable(p) THEN NONE ELSE p
  BY DEF ReturnPosition, Return
<1>4. Matches(text) /\ w \in Seq(Letter) /\ d \in Seq(Digit) /\ d # <<>> /\ d[1][2] # 0
  BY <1>1, PartsOfAMatch DEF Written, Summing
<1>5. Stoi(d) \in Nat /\ Digits[Stoi(d)] = d
  BY <1>4, StoiStep, DigitsAreWrittenBack
<1>6. Stoi(d) <= MAX_ROWS => ~(Len(d) > MAX_ROWS_LENGTH)
  <2>1. ASSUME Stoi(d) <= MAX_ROWS PROVE Len(d) <= MAX_ROWS_LENGTH
    BY <1>5, <2>1, NumbersGrow, TheTable DEF MAX_ROWS_LENGTH
  <2>2. Len(d) \in Nat /\ MAX_ROWS_LENGTH \in Nat
    BY <1>4, DigitsRule, TheTable DEF MAX_ROWS_LENGTH
  <2> QED BY <2>1, <2>2
<1> HIDE DEF d
<1>7. InTheTable(p) => ~(Len(d) > MAX_ROWS_LENGTH)
  BY <1>5, <1>6, TheTable DEF InTheTable
<1>8. result' = IF InTheTable(p) THEN p ELSE NONE
  BY <1>3, <1>7
<1>9. ASSUME NEW right, Weighs(w, right), right[0] <= IntMax PROVE p = Spelled(right)
  <2>1. col \in Nat /\ col + right[i] = right[0] /\ right[i] = 0
    BY <1>1, <1>2, <1>9 DEF Summing, Weighs
  <2>2. col = right[0]
    BY <2>1
  <2> QED BY <2>2 DEF Spelled, d
<1> HIDE DEF p
<1>10. ASSUME NEW right, Weighs(w, right), right[0] <= IntMax
       PROVE  result' = IF InTheTable(Spelled(right)) THEN Spelled(right) ELSE NONE
  BY <1>8, <1>9, <1>10
<1>11. Answered'
  BY <1>2, <1>4, <1>10 DEF Answered, Spelled
<1> QED BY <1>1, <1>2, <1>11 DEF PosInv

\* ToString and FromString: the sums are right at each turn of their loops.
THEOREM PositionsInvariant == ASSUME PositionAssumption PROVE Spec => []PosInv
<1>1. Init => PosInv
  BY InitPos
<1>2. PosInv /\ [Next]_vars => PosInv'
  <2> SUFFICES ASSUME PosInv, [Next]_vars PROVE PosInv'
    OBVIOUS
  <2>1. CASE ToString
    BY <2>1, ToStringPos
  <2>2. CASE ColumnLetter
    BY <2>2, ColumnLetterPos
  <2>3. CASE FromString
    BY <2>3, FromStringPos
  <2>4. CASE SumLetter
    BY <2>4, SumLetterPos
  <2>5. CASE ReturnPosition
    BY <2>5, ReturnPositionPos
  <2>6. CASE UNCHANGED vars
    BY <2>6 DEF vars, PosInv, Writing, Written, IsNameOf, Summing, Answered, Spelled
  <2> QED BY <2>1, <2>2, <2>3, <2>4, <2>5, <2>6 DEF Next
<1> QED BY <1>1, <1>2, PTL DEF Spec

LEMMA NamesAreReadAsTheirPosition ==
  ASSUME PositionAssumption, PosInv, Done, NEW p \in [row : Int, col : Int], InTheTable(p), IsNameOf(text, p)
  PROVE  result = p
<1>1. Written /\ Answered /\ Matches(text)
  BY DEF PosInv, Done, IsNameOf
<1>2. PICK right : Weighs(LettersOf(text), right) /\ right[0] = p.col + 1
  BY DEF IsNameOf
<1>3. right[0] <= IntMax
  BY <1>2, TheTable DEF InTheTable
<1>4. p.row + 1 \in Nat /\ DigitsOf(text) = Digits[p.row + 1]
  BY TheTable DEF InTheTable, IsNameOf
<1>5. Stoi(DigitsOf(text)) = p.row + 1
  BY <1>4, NumbersAreReadBack
<1>6. Spelled(right) = p
  <2>1. (p.row + 1) - 1 = p.row /\ (p.col + 1) - 1 = p.col
    OBVIOUS
  <2> QED BY <1>2, <1>5, <2>1 DEF Spelled
<1> QED BY <1>1, <1>2, <1>3, <1>6 DEF Answered

\* ToString and FromString: the text that is made of a position of the table
\* is read as this position again, for the 16384 columns and 16384 rows of the
\* program and for a table and an alphabet of any size, and the (empty) text of
\* any other position as NONE.
THEOREM PositionsReadBack ==
  ASSUME PositionAssumption
  PROVE  Spec => [](Done => ReadsBackWhatIsWritten)
<1>1. ASSUME PosInv, Done PROVE ReadsBackWhatIsWritten
  <2> SUFFICES ASSUME given # NONE PROVE result = IF InTheTable(given) THEN given ELSE NONE
    BY DEF ReadsBackWhatIsWritten
  <2>1. Written /\ Answered /\ given \in [row : Int, col : Int]
    BY <1>1 DEF PosInv, Done
  <2>2. CASE InTheTable(given)
    BY <1>1, <2>1, <2>2, NamesAreReadAsTheirPosition DEF Written
  <2>3. CASE ~InTheTable(given)
    <3>1. text = <<>>
      BY <2>1, <2>3 DEF Written
    <3>2. ~Matches(text)
      BY <3>1 DEF Matches
    <3> QED BY <2>1, <2>3, <3>2 DEF Answered
  <2> QED BY <2>2, <2>3
<1> QED BY <1>1, PositionsInvariant, PTL

\* FromString, of any text: the name of a position of the table is read as this
\* position, so that no text is the name of two; and the position that is read
\* from a text is the one the text names, unless the sum of its letters is
\* greater than an int.
Fits(s) == \A right : Weighs(LettersOf(s), right) => right[0] <= IntMax
ReadsNames ==
  /\ \A p \in [row : Int, col : Int] : InTheTable(p) /\ IsNameOf(text, p) => result = p
  /\ result # NONE /\ Fits(text) => InTheTable(result) /\ IsNameOf(text, result)
THEOREM TextsAreReadAsTheyAreNamed ==
  ASSUME PositionAssumption
  PROVE  Spec => [](Done => ReadsNames)
<1>1. ASSUME PosInv, Done PROVE ReadsNames
  <2>1. Written /\ Answered
    BY <1>1 DEF PosInv, Done
  <2>2. ASSUME result # NONE, Fits(text) PROVE InTheTable(result) /\ IsNameOf(text, result)
    <3>1. Matches(text) /\ text \in Seq(Character)
      BY <2>1, <2>2 DEF Answered, Written
    <3>2. /\ LettersOf(text) \in Seq(Letter)
          /\ DigitsOf(text) \in Seq(Digit) /\ DigitsOf(text) # <<>> /\ DigitsOf(text)[1][2] # 0
      BY <3>1, PartsOfAMatch
    <3>3. PICK right : Weighs(LettersOf(text), right)
      BY <3>2, EveryWordWeighs
    <3>4. right[0] <= IntMax
      BY <2>2, <3>3 DEF Fits
    <3>5. result = Spelled(right) /\ InTheTable(result)
      BY <2>1, <2>2, <3>1, <3>3, <3>4 DEF Answered
    <3>6. Stoi(DigitsOf(text)) \in Nat /\ Digits[Stoi(DigitsOf(text))] = DigitsOf(text)
      BY <3>2, StoiStep, DigitsAreWrittenBack
    <3>7. right[0] \in Nat
      <4>1. 0 \in 0 .. Len(LettersOf(text))
        BY <3>2
      <4> QED BY <3>3, <4>1 DEF Weighs
    <3>8. result.row + 1 = Stoi(DigitsOf(text)) /\ result.col + 1 = right[0]
      BY <3>5, <3>6, <3>7 DEF Spelled
    <3> QED BY <3>1, <3>3, <3>5, <3>6, <3>8 DEF IsNameOf
  <2> QED BY <1>1, <2>2, NamesAreReadAsTheirPosition DEF ReadsNames
<1> QED BY <1>1, PositionsInvariant, PTL
=============================================================================
