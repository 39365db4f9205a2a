--------------------------- MODULE TransportProofs ---------------------------
(***************************************************************************)
(* Theorems about TransportProgram: whatever base requests were read,      *)
(* stored, restored and refused, the distances are those that they give,   *)
(* the answers about buses and stops and the map are those that they       *)
(* describe, read at once, and the routes are the fastest journeys.        *)
(* RouterProofs says what the table of the Router knows about its graph;   *)
(* here the graph is shown to be that of the lines of the catalogue, and   *)
(* the catalogue, also one that comes back from the file, to have the      *)
(* stops, the buses and the distances that the base requests describe.     *)
(***************************************************************************)
EXTENDS TransportProgram, RouterProofs

(***************************************************************************)
(* The invariant.                                                          *)
(***************************************************************************)
\* A line is kept as BusStops makes it of the list it was given by, and each of
\* its legs has a distance.
IsLine(list, is_one_way, distances) ==
  /\ list \in Seq(ToSet(list)) /\ is_one_way \in BOOLEAN
  /\ is_one_way => list # <<>>
  /\ Legs(BusStops(list, is_one_way)) \subseteq DOMAIN distances

\* The distances are of finitely many pairs of stops.
AreDistances(distances) ==
  /\ distances \in [DOMAIN distances -> Int] /\ IsFiniteSet(DOMAIN distances)
  /\ \A leg \in DOMAIN distances : leg = <<leg[1], leg[2]>>

CatalogueInv(c) ==
  /\ c = [stops |-> c.stops, buses |-> c.buses, distances |-> c.distances]
  /\ AreDistances(c.distances)
  /\ IsFiniteSet(DOMAIN c.buses)
  /\ \A b \in DOMAIN c.buses :
       LET list == ProtoBus(c.buses[b]).stops
       IN  /\ c.buses[b].is_roundtrip \in BOOLEAN
           /\ IsLine(list, ~c.buses[b].is_roundtrip, c.distances)
           /\ c.buses[b].stops = BusStops(list, ~c.buses[b].is_roundtrip)

BaseInv ==
  /\ AreDistances(base.distances)
  /\ IsFiniteSet(DOMAIN base.buses)
  /\ \A b \in DOMAIN base.buses :
       IsLine(base.buses[b].stops, ~base.buses[b].is_roundtrip, base.distances)
  /\ base.bus_wait_time \in Int

\* The edge k is a ride from the i-th stop of the bus b to its j-th.
IsRide(k, b, i, j) ==
  LET stops == catalogue.buses[b].stops
  IN  /\ stops[i] \in Served /\ stops[j] \in Served
      /\ edges[k].from = stop_to_vertex[stops[i]] /\ edges[k].to = stop_to_vertex[stops[j]]
      /\ edges[k].weight = RideTime(b, i, j)
      /\ edges[k].name = b /\ j = i + edges[k].span_count

\* The graph is that of the lines of the catalogue, and the stops are numbered:
\* their numbers tell them apart and leave none out.
GraphInv ==
  /\ \A k \in DOMAIN edges : \E b \in DOMAIN catalogue.buses :
       \E i, j \in DOMAIN catalogue.buses[b].stops : i < j /\ IsRide(k, b, i, j)
  /\ \A b \in DOMAIN catalogue.buses : \A i, j \in DOMAIN catalogue.buses[b].stops :
       i < j => \E k \in DOMAIN edges : IsRide(k, b, i, j)
  /\ \A s \in Served : \E k \in DOMAIN edges : stop_to_vertex[s] \in {edges[k].from, edges[k].to}
  /\ \A s, t \in Served : stop_to_vertex[s] = stop_to_vertex[t] => s = t
  /\ \E n \in Nat : {stop_to_vertex[s] : s \in Served} = 0 .. n - 1

ProgramInv ==
  /\ runs \in Program /\ run \in Nat \ {0} /\ next \in Nat \ {0}
  /\ stage # "start" => run \in DOMAIN runs
  /\ stage = "add" => Run.mode # "process_requests"
  /\ stage \notin {"start", "answer"} => step = "initialize"
  /\ BaseInv
  /\ stage = "add" =>
       /\ buses_queue \in Seq(ToSet(Run.base_requests))
       /\ \A k \in DOMAIN buses_queue : buses_queue[k].type = "Bus"
  /\ \/ stage = "add" /\ Run.mode # "text"
     \/ stage \in {"store", "route", "answer"}
     => CatalogueInv(catalogue) /\ bus_wait_time \in Int
  /\ stage = "answer" \/ step # "initialize" => GraphInv


(***************************************************************************)
(* Recursion over the numbers up to m: F[n] is what the n-th step does.    *)
(***************************************************************************)
Follows(f, X, x, m, F) ==
  f \in [0 .. m -> X] /\ f[0] = x /\ \A n \in 1 .. m : f[n] = F[n][f[n - 1]]

LEMMA StepByStep ==
  ASSUME NEW X, NEW x \in X, NEW m \in Nat, NEW F \in [1 .. m -> [X -> X]]
  PROVE  \E f : Follows(f, X, x, m, F)
<1> DEFINE Done(a, f) == f \in [0 .. a -> X] /\ f[0] = x /\ \A n \in 1 .. a : f[n] = F[n][f[n - 1]]
           Bad == {a \in Nat : a <= m /\ ~\E f : Done(a, f)}
<1>1. 0 \notin Bad
  <2> DEFINE f == [n \in 0 .. 0 |-> x]
  <2>1. Done(0, f)
    OBVIOUS
  <2> HIDE DEF Done, f
  <2> QED BY <2>1
<1>2. ASSUME NEW a \in Nat, a + 1 <= m, NEW f, Done(a, f) PROVE \E g : Done(a + 1, g)
  <2> DEFINE g == [n \in 0 .. a + 1 |-> IF n <= a THEN f[n] ELSE F[a + 1][f[a]]]
  <2>1. f[a] \in X /\ F[a + 1] \in [X -> X]
    BY <1>2
  <2>2. g \in [0 .. a + 1 -> X] /\ g[0] = x
    BY <1>2, <2>1
  <2>3. (\A n \in 0 .. a : g[n] = f[n]) /\ g[a + 1] = F[a + 1][f[a]]
    OBVIOUS
  <2> HIDE DEF g
  <2>4. ASSUME NEW n \in 1 .. a + 1 PROVE g[n] = F[n][g[n - 1]]
    <3>1. CASE n = a + 1
      BY <3>1, <2>3
    <3>2. CASE n \in 1 .. a
      BY <3>2, <2>3, <1>2
    <3> QED BY <3>1, <3>2
  <2>5. Done(a + 1, g)
    BY <2>2, <2>4
  <2> HIDE DEF Done
  <2> QED BY <2>5
<1>3. Bad = {}
  <2> SUFFICES ASSUME Bad # {} PROVE FALSE
    OBVIOUS
  <2> HIDE DEF Done
  <2>1. Bad \subseteq Nat
    OBVIOUS
  <2> HIDE DEF Bad
  <2>2. PICK a \in Bad : \A d \in Bad : a <= d
    BY <2>1, LeastNatural
  <2>3. a \in Nat /\ a # 0 /\ a - 1 \in Nat /\ a - 1 \notin Bad
    BY <1>1, <2>1, <2>2
  <2> USE DEF Bad
  <2>4. a <= m /\ ~\E f : Done(a, f)
    BY <2>2
  <2>5. PICK f : Done(a - 1, f)
    BY <2>3, <2>4
  <2>6. (a - 1) + 1 = a
    BY <2>3
  <2>7. \E g : Done((a - 1) + 1, g)
    BY <1>2, <2>3, <2>4, <2>5, <2>6
  <2> QED BY <2>4, <2>6, <2>7
<1>4. m \notin Bad
  BY <1>3
<1>5. PICK f : Done(m, f)
  <2> HIDE DEF Done
  <2> QED BY <1>4
<1> QED BY <1>5 DEF Follows

\* What FlattenSeq goes through, one sequence after the other.
Flattens(q, n, flatten) ==
  /\ FlattenSeq(q) = flatten[n]
  /\ \A k \in 1 .. n : flatten[k] = IF k = 1 THEN q[k] ELSE flatten[k - 1] \o q[k]

LEMMA FlattenOneByOne ==
  ASSUME NEW n \in Nat, n > 0, NEW S, NEW q \in [1 .. n -> Seq(S)]
  PROVE  \E flatten : Flattens(q, n, flatten)
<1> DEFINE IsFlat(f) == f = [k \in 1 .. Len(q) |-> IF k = 1 THEN q[k] ELSE f[k - 1] \o q[k]]
           flatten == CHOOSE f : IsFlat(f)
<1>1. Len(q) = n /\ q \in Seq(Seq(S))
  OBVIOUS
<1> DEFINE X == Seq(S)
           F == [k \in 1 .. n |-> [y \in X |-> y \o q[k]]]
<1>2. F \in [1 .. n -> [X -> X]] /\ <<>> \in X
  OBVIOUS
<1>3. PICK g \in [0 .. n -> X] : g[0] = <<>> /\ \A k \in 1 .. n : g[k] = F[k][g[k - 1]]
  <2> HIDE DEF F, X
  <2>1. \E g : Follows(g, X, <<>>, n, F)
    BY <1>2, StepByStep
  <2> QED BY <2>1 DEF Follows
<1> DEFINE h == [k \in 1 .. n |-> g[k]]
<1>4. ASSUME NEW k \in 1 .. n PROVE g[k] = IF k = 1 THEN q[k] ELSE g[k - 1] \o q[k]
  <2>1. g[k - 1] \in X /\ q[k] \in Seq(S)
    OBVIOUS
  <2>2. g[k] = g[k - 1] \o q[k]
    BY <2>1, <1>3
  <2>3. k = 1 => g[k - 1] = <<>>
    BY <1>3
  <2>4. <<>> \o q[k] = q[k]
    BY <2>1
  <2> HIDE DEF F, X
  <2> QED BY <2>2, <2>3, <2>4
<1>5. IsFlat(h)
  <2> DEFINE w == [k \in 1 .. n |-> IF k = 1 THEN q[k] ELSE h[k - 1] \o q[k]]
  <2>1. ASSUME NEW k \in 1 .. n PROVE h[k] = IF k = 1 THEN q[k] ELSE h[k - 1] \o q[k]
    <3>1. h[k] = g[k] /\ (k # 1 => h[k - 1] = g[k - 1])
      OBVIOUS
    <3> HIDE DEF h
    <3> QED BY <3>1, <1>4
  <2>2. h = w
    BY <2>1
  <2> HIDE DEF h
  <2> QED BY <2>2, <1>1
<1>6. IsFlat(flatten)
  <2> HIDE DEF IsFlat, h
  <2> QED BY <1>5
<1>7. FlattenSeq(q) = flatten[n]
  BY <1>1 DEF FlattenSeq
<1> HIDE DEF flatten
<1>8. \A k \in 1 .. n : flatten[k] = IF k = 1 THEN q[k] ELSE flatten[k - 1] \o q[k]
  BY <1>6, <1>1
<1> QED BY <1>7, <1>8 DEF Flattens

\* FlattenSeq gives a sequence of what its sequences hold.
LEMMA FlattenHolds ==
  ASSUME NEW n \in Nat, NEW S, NEW q \in [1 .. n -> Seq(S)]
  PROVE  FlattenSeq(q) \in Seq(S) /\ ToSet(FlattenSeq(q)) = UNION {ToSet(q[k]) : k \in 1 .. n}
<1>1. Len(q) = n
  OBVIOUS
<1>2. CASE n = 0
  <2>1. FlattenSeq(q) = q /\ q = <<>>
    BY <1>1, <1>2 DEF FlattenSeq
  <2>2. ToSet(q) = {}
    BY <2>1 DEF ToSet
  <2> QED BY <2>1, <2>2, <1>2
<1>3. CASE n > 0
  <2>1. PICK flatten : /\ FlattenSeq(q) = flatten[n]
                       /\ \A k \in 1 .. n : flatten[k] = IF k = 1 THEN q[k] ELSE flatten[k - 1] \o q[k]
    <3>1. \E flatten : Flattens(q, n, flatten)
      BY <1>3, FlattenOneByOne
    <3> QED BY <3>1 DEF Flattens
  <2> DEFINE Holds(k) == /\ flatten[k] \in Seq(S)
                         /\ \A y : y \in ToSet(flatten[k]) <=> \E l \in 1 .. k : y \in ToSet(q[l])
             Bad == {k \in Nat : k \in 1 .. n /\ ~Holds(k)}
  <2>2. Holds(1)
    BY <2>1, <1>3
  <2>3. ASSUME NEW k \in 2 .. n, Holds(k - 1) PROVE Holds(k)
    <3>1. k \in 1 .. n /\ k # 1 /\ k - 1 \in 1 .. n
      OBVIOUS
    <3> DEFINE a == flatten[k - 1]
    <3>2. flatten[k] = a \o q[k]
      BY <3>1, <2>1
    <3>3. a \in Seq(S) /\ q[k] \in Seq(S)
      BY <3>1, <2>3
    <3> HIDE DEF a
    <3>4. \A y : y \in ToSet(a \o q[k]) <=> y \in ToSet(a) \/ y \in ToSet(q[k])
      <4> DEFINE b == q[k]
                 c == a \o b
      <4>1. Len(a) \in Nat /\ Len(b) \in Nat /\ DOMAIN a = 1 .. Len(a) /\ DOMAIN b = 1 .. Len(b)
        BY <3>3
      <4>2. /\ DOMAIN c = 1 .. Len(a) + Len(b)
            /\ \A l \in 1 .. Len(a) : c[l] = a[l]
            /\ \A l \in 1 .. Len(b) : c[Len(a) + l] = b[l]
        BY <3>3
      <4>3. \A l \in 1 .. Len(a) + Len(b) : l \in 1 .. Len(a) \/ \E o \in 1 .. Len(b) : l = Len(a) + o
        <5> SUFFICES ASSUME NEW l \in 1 .. Len(a) + Len(b), l \notin 1 .. Len(a)
                     PROVE  \E o \in 1 .. Len(b) : l = Len(a) + o
          OBVIOUS
        <5>1. l - Len(a) \in 1 .. Len(b) /\ l = Len(a) + (l - Len(a))
          BY <4>1
        <5> QED BY <5>1
      <4>4. (\A l \in 1 .. Len(a) : l \in DOMAIN c) /\ (\A l \in 1 .. Len(b) : Len(a) + l \in DOMAIN c)
        BY <4>1, <4>2
      <4> HIDE DEF b, c
      <4>5. ASSUME NEW y PROVE y \in ToSet(c) <=> y \in ToSet(a) \/ y \in ToSet(b)
        <5>1. ASSUME NEW l \in DOMAIN c PROVE c[l] \in ToSet(a) \/ c[l] \in ToSet(b)
          <6>1. l \in 1 .. Len(a) \/ \E o \in 1 .. Len(b) : l = Len(a) + o
            BY <4>2, <4>3
          <6> QED BY <6>1, <4>1, <4>2 DEF ToSet
        <5>2. \A l \in DOMAIN a : a[l] \in ToSet(c)
          BY <4>1, <4>2, <4>4 DEF ToSet
        <5>3. \A l \in DOMAIN b : b[l] \in ToSet(c)
          BY <4>1, <4>2, <4>4 DEF ToSet
        <5> QED BY <5>1, <5>2, <5>3 DEF ToSet
      <4> QED BY <4>5 DEF b, c
    <3>5. \A y : (\E l \in 1 .. k : y \in ToSet(q[l])) <=> (\E l \in 1 .. k - 1 : y \in ToSet(q[l])) \/ y \in ToSet(q[k])
      <4>1. \A l : l \in 1 .. k <=> l \in 1 .. k - 1 \/ l = k
        OBVIOUS
      <4> QED BY <4>1
    <3>6. flatten[k] \in Seq(S)
      BY <3>2, <3>3
    <3>7. \A y : y \in ToSet(a) <=> \E l \in 1 .. k - 1 : y \in ToSet(q[l])
      BY <2>3 DEF a
    <3> QED BY <3>2, <3>4, <3>5, <3>6, <3>7
  <2> HIDE DEF Holds
  <2>4. Bad = {}
    <3> SUFFICES ASSUME Bad # {} PROVE FALSE
      OBVIOUS
    <3>1. Bad \subseteq Nat
      OBVIOUS
    <3> HIDE DEF Bad
    <3>2. PICK k \in Bad : \A d \in Bad : k <= d
      BY <3>1, LeastNatural
    <3> USE DEF Bad
    <3>3. k \in 1 .. n /\ ~Holds(k) /\ k # 1
      BY <3>2, <2>2
    <3>4. k - 1 \in 1 .. n /\ k \in 2 .. n /\ k - 1 \in Nat /\ ~(k <= k - 1)
      BY <3>3
    <3>5. k - 1 \notin Bad
      <4> HIDE DEF Bad
      <4> QED BY <3>2, <3>4
    <3> QED BY <3>3, <3>4, <3>5, <2>3
  <2>5. Holds(n)
    <3>1. n \in 1 .. n
      BY <1>3
    <3>2. n \notin Bad
      BY <2>4
    <3> QED BY <3>1, <3>2
  <2> USE DEF Holds
  <2>6. \A y : y \in ToSet(flatten[n]) <=> y \in UNION {ToSet(q[l]) : l \in 1 .. n}
    BY <2>5
  <2> QED BY <2>1, <2>5, <2>6
<1> QED BY <1>2, <1>3

\* Pairs, one after the other.
LEMMA FlattenPairs ==
  ASSUME NEW n \in Nat, NEW S, NEW q \in [1 .. n -> Seq(S)], \A k \in 1 .. n : Len(q[k]) = 2
  PROVE  /\ Len(FlattenSeq(q)) = 2 * n
         /\ \A k \in 1 .. n : FlattenSeq(q)[2 * k] = q[k][2]
<1>1. CASE n = 0
  <2>1. Len(q) = 0 /\ 2 * n = 0 /\ 1 .. n = {}
    BY <1>1
  <2>2. FlattenSeq(q) = q
    BY <2>1 DEF FlattenSeq
  <2> QED BY <2>1, <2>2
<1>2. CASE n > 0
  <2>1. PICK flatten : /\ FlattenSeq(q) = flatten[n]
                       /\ \A k \in 1 .. n : flatten[k] = IF k = 1 THEN q[k] ELSE flatten[k - 1] \o q[k]
    <3>1. \E flatten : Flattens(q, n, flatten)
      BY <1>2, FlattenOneByOne
    <3> QED BY <3>1 DEF Flattens
  <2> DEFINE Holds(k) == /\ flatten[k] \in Seq(S) /\ Len(flatten[k]) = 2 * k
                         /\ \A l \in 1 .. k : flatten[k][2 * l] = q[l][2]
             Bad == {k \in Nat : k \in 1 .. n /\ ~Holds(k)}
  <2>2. Holds(1)
    <3>1. 1 \in 1 .. n /\ flatten[1] = q[1]
      BY <1>2, <2>1
    <3> QED BY <3>1
  <2>3. ASSUME NEW k \in 2 .. n, Holds(k - 1) PROVE Holds(k)
    <3> DEFINE a == flatten[k - 1]
               b == q[k]
    <3>1. k \in 1 .. n /\ k # 1 /\ k \in Nat
      OBVIOUS
    <3>2. flatten[k] = a \o b
      BY <2>1, <3>1
    <3>3. a \in Seq(S) /\ Len(a) = 2 * (k - 1) /\ b \in Seq(S) /\ Len(b) = 2
      BY <2>3, <3>1
    <3>4. \A l \in 1 .. k - 1 : a[2 * l] = q[l][2]
      BY <2>3
    <3> HIDE DEF a, b
    <3>5. a \o b \in Seq(S) /\ Len(a \o b) = 2 * k
      <4>1. a \in Seq(S) /\ b \in Seq(S)
        BY <3>3
      <4>2. a \o b \in Seq(S) /\ Len(a \o b) = Len(a) + Len(b)
        BY <4>1
      <4>3. 2 * (k - 1) + 2 = 2 * k
        BY <3>1
      <4> QED BY <3>3, <4>2, <4>3
    <3>6. ASSUME NEW l \in 1 .. k PROVE (a \o b)[2 * l] = q[l][2]
      <4>1. CASE l = k
        <5>1. 2 * l = Len(a) + 2 /\ 2 \in 1 .. Len(b)
          BY <3>1, <3>3, <4>1
        <5>2. (a \o b)[Len(a) + 2] = b[2]
          <6>1. a \in Seq(S) /\ b \in Seq(S)
            BY <3>3
          <6>2. \A i \in 1 .. Len(b) : (a \o b)[Len(a) + i] = b[i]
            BY <6>1
          <6> QED BY <5>1, <6>2
        <5> QED BY <4>1, <5>1, <5>2 DEF b
      <4>2. CASE l # k
        <5>1. l \in 1 .. k - 1 /\ 2 * l \in 1 .. Len(a)
          BY <3>1, <3>3, <4>2
        <5>2. (a \o b)[2 * l] = a[2 * l]
          BY <3>3, <5>1
        <5> QED BY <3>4, <5>1, <5>2
      <4> QED BY <4>1, <4>2
    <3> QED BY <3>2, <3>5, <3>6
  <2> HIDE DEF Holds
  <2>4. Bad = {}
    <3> SUFFICES ASSUME Bad # {} PROVE FALSE
      OBVIOUS
    <3>1. Bad \subseteq Nat
      OBVIOUS
    <3> HIDE DEF Bad
    <3>2. PICK k \in Bad : \A d \in Bad : k <= d
      BY <3>1, LeastNatural
    <3> USE DEF Bad
    <3>3. k \in 1 .. n /\ ~Holds(k) /\ k # 1
      BY <3>2, <2>2
    <3>4. k - 1 \in 1 .. n /\ k \in 2 .. n /\ k - 1 \in Nat /\ ~(k <= k - 1)
      BY <3>3
    <3>5. k - 1 \notin Bad
      <4> HIDE DEF Bad
      <4> QED BY <3>2, <3>4
    <3> QED BY <3>3, <3>4, <3>5, <2>3
  <2>5. Holds(n)
    <3>1. n \in 1 .. n
      BY <1>2
    <3>2. n \notin Bad
      BY <2>4
    <3> QED BY <3>1, <3>2
  <2> QED BY <2>1, <2>5 DEF Holds
<1> QED BY <1>1, <1>2

(***************************************************************************)
(* The lines.                                                              *)
(***************************************************************************)
\* A line that is kept there and back holds its list, and then the list backwards.
LEMMA ThereAndBack ==
  ASSUME NEW S, NEW list \in Seq(S), NEW one_way \in BOOLEAN, one_way => list # <<>>
  PROVE  /\ BusStops(list, one_way) \in Seq(S)
         /\ one_way => LET kept == BusStops(list, one_way)
                       IN  SubSeq(kept, 1, Len(kept) \div 2 + 1) = list
         /\ \A k \in DOMAIN list : /\ k \in DOMAIN BusStops(list, one_way)
                                   /\ BusStops(list, one_way)[k] = list[k]
<1>1. CASE ~one_way
  BY <1>1 DEF BusStops
<1>2. CASE one_way
  <2> DEFINE back == Tail(Reverse(list))
             n == Len(list)
  <2>1. n \in Nat /\ n > 0 /\ DOMAIN list = 1 .. n
    BY <1>2
  <2>2. Reverse(list) \in Seq(S) /\ Len(Reverse(list)) = n
    <3>1. Reverse(list) = [k \in 1 .. n |-> list[(n - k) + 1]]
      BY DEF Reverse
    <3>2. \A k \in 1 .. n : list[(n - k) + 1] \in S
      BY <2>1
    <3> QED BY <2>1, <3>1, <3>2
  <2>3. back \in Seq(S) /\ Len(back) = n - 1
    BY <2>1, <2>2
  <2> HIDE DEF back
  <2> DEFINE kept == list \o back
  <2>4. kept \in Seq(S) /\ Len(kept) = n + (n - 1) /\ \A k \in 1 .. n : kept[k] = list[k]
    BY <2>1, <2>3
  <2>5. (n + (n - 1)) \div 2 + 1 = n
    <3> HIDE DEF n
    <3>1. \A x \in Int : (2 * x + 1) \div 2 = x
      OBVIOUS
    <3>2. n - 1 \in Int /\ n + (n - 1) = 2 * (n - 1) + 1
      BY <2>1
    <3> QED BY <2>1, <3>1, <3>2
  <2>6. SubSeq(kept, 1, n) = list
    <3> HIDE DEF kept, n
    <3>1. n <= Len(kept)
      BY <2>1, <2>4
    <3>2. SubSeq(kept, 1, n) \in Seq(S) /\ Len(SubSeq(kept, 1, n)) = n
      BY <2>1, <2>4, <3>1
    <3>3. \A k \in 1 .. n : SubSeq(kept, 1, n)[k] = kept[k]
      BY <2>1, <2>4, <3>1
    <3> QED BY <2>1, <2>4, <3>2, <3>3 DEF n
  <2>7. \A k \in DOMAIN list : k \in DOMAIN kept /\ kept[k] = list[k]
    <3>1. DOMAIN kept = 1 .. n + (n - 1)
      BY <2>4
    <3> HIDE DEF kept, n
    <3> QED BY <2>1, <2>4, <3>1
  <2> QED BY <1>2, <2>4, <2>5, <2>6, <2>7 DEF BusStops, back
<1> QED BY <1>1, <1>2

\* The stops of a bus, and that their legs are known.
LEMMA StopsOfABus ==
  ASSUME NEW c, CatalogueInv(c), NEW b \in DOMAIN c.buses
  PROVE  \E n \in Nat :
           /\ Len(c.buses[b].stops) = n /\ DOMAIN c.buses[b].stops = 1 .. n
           /\ \A k \in 1 .. n - 1 : Known(c, c.buses[b].stops[k], c.buses[b].stops[k + 1])
<1> DEFINE list == ProtoBus(c.buses[b]).stops
           stops == c.buses[b].stops
           one_way == ~c.buses[b].is_roundtrip
<1>1. IsLine(list, one_way, c.distances) /\ stops = BusStops(list, one_way)
  BY DEF CatalogueInv
<1> HIDE DEF list, one_way
<1>2. stops \in Seq(ToSet(list))
  BY <1>1, ThereAndBack DEF IsLine
<1>3. Legs(stops) \subseteq DOMAIN c.distances
  BY <1>1 DEF IsLine
<1>4. Len(stops) \in Nat /\ DOMAIN stops = 1 .. Len(stops)
  BY <1>2
<1>5. ASSUME NEW k \in 1 .. Len(stops) - 1 PROVE Known(c, stops[k], stops[k + 1])
  BY <1>3 DEF Known, Legs
<1> QED BY <1>4, <1>5

LEMMA LegsAreWhole ==
  ASSUME NEW c, AreDistances(c.distances), NEW s, NEW t
  PROVE  Leg(c, s, t) \in Int
BY DEF AreDistances, Leg, Known

\* What Clock computes.
LEMMA ClockRuns ==
  ASSUME AreDistances(catalogue.distances), NEW b, NEW n \in Nat, n > 0,
         DOMAIN catalogue.buses[b].stops = 1 .. n
  PROVE  /\ Clock(b) \in [1 .. n -> Int] /\ Clock(b)[1] = 0
         /\ \A k \in 2 .. n :
              Clock(b)[k] = Clock(b)[k - 1]
                + Leg(catalogue, catalogue.buses[b].stops[k - 1], catalogue.buses[b].stops[k])
<1> DEFINE stops == catalogue.buses[b].stops
           leg(k) == Leg(catalogue, stops[k - 1], stops[k])
           IsClock(f) == f = [k \in DOMAIN stops |-> IF k = 1 THEN 0 ELSE f[k - 1] + leg(k)]
           clock == CHOOSE f : IsClock(f)
           F == [k \in 1 .. n - 1 |-> [y \in Int |-> y + leg(k + 1)]]
<1>0. \A k : leg(k) \in Int
  BY LegsAreWhole
<1> HIDE DEF leg
<1>1. F \in [1 .. n - 1 -> [Int -> Int]] /\ n - 1 \in Nat /\ 0 \in Int
  BY <1>0
<1>2. PICK g : Follows(g, Int, 0, n - 1, F)
  <2> HIDE DEF F
  <2> QED BY <1>1, StepByStep
<1> DEFINE h == [k \in 1 .. n |-> g[k - 1]]
<1>3. h \in [1 .. n -> Int] /\ h[1] = 0
  BY <1>2 DEF Follows
<1>4. ASSUME NEW k \in 2 .. n PROVE h[k] = h[k - 1] + leg(k)
  <2>1. k - 1 \in 1 .. n - 1 /\ (k - 1) - 1 \in 0 .. n - 1 /\ k \in 1 .. n /\ k - 1 \in 1 .. n /\ (k - 1) + 1 = k
    OBVIOUS
  <2>2. g[k - 1] = F[k - 1][g[(k - 1) - 1]] /\ g[(k - 1) - 1] \in Int
    BY <1>2, <2>1 DEF Follows
  <2>3. F[k - 1][g[(k - 1) - 1]] = g[(k - 1) - 1] + leg((k - 1) + 1)
    BY <2>1, <2>2
  <2> QED BY <2>1, <2>2, <2>3
<1>5. IsClock(h)
  <2> DEFINE w == [k \in DOMAIN stops |-> IF k = 1 THEN 0 ELSE h[k - 1] + leg(k)]
  <2>1. \A k \in 1 .. n : h[k] = w[k]
    <3> SUFFICES ASSUME NEW k \in 1 .. n PROVE h[k] = IF k = 1 THEN 0 ELSE h[k - 1] + leg(k)
      OBVIOUS
    <3> HIDE DEF h
    <3> QED BY <1>3, <1>4
  <2>2. h = w
    BY <2>1
  <2> HIDE DEF h
  <2> QED BY <2>2
<1>6. IsClock(clock)
  <2> HIDE DEF IsClock, h
  <2> QED BY <1>5
<1>7. Clock(b) = clock
  BY DEF Clock, leg
<1> HIDE DEF clock
<1>8. \A k \in 1 .. n : clock[k] = IF k = 1 THEN 0 ELSE clock[k - 1] + leg(k)
  BY <1>6
<1> DEFINE Bad == {k \in Nat : k \in 1 .. n /\ clock[k] \notin Int}
<1>9. Bad = {}
  <2> SUFFICES ASSUME Bad # {} PROVE FALSE
    OBVIOUS
  <2>1. Bad \subseteq Nat
    OBVIOUS
  <2> HIDE DEF Bad
  <2>2. PICK k \in Bad : \A d \in Bad : k <= d
    BY <2>1, LeastNatural
  <2>3. k \in 1 .. n /\ clock[k] \notin Int /\ k # 1
    BY <2>2, <1>8 DEF Bad
  <2>4. k - 1 \notin Bad /\ k - 1 \in 1 .. n /\ k - 1 \in Nat
    BY <2>2, <2>3
  <2>5. clock[k - 1] \in Int
    BY <2>4 DEF Bad
  <2> QED BY <2>3, <2>5, <1>8, <1>0
<1>10. clock \in [1 .. n -> Int]
  <2>1. clock = [k \in 1 .. n |-> clock[k]]
    BY <1>6
  <2> QED BY <2>1, <1>9
<1>11. clock[1] = 0 /\ \A k \in 2 .. n : clock[k] = clock[k - 1] + leg(k)
  BY <1>8
<1> QED BY <1>7, <1>10, <1>11 DEF leg

\* A ride takes the wait and what the clock says of its ends.
LEMMA TimeByTheClock ==
  ASSUME AreDistances(catalogue.distances), NEW b, NEW n \in Nat,
         DOMAIN catalogue.buses[b].stops = 1 .. n, bus_wait_time \in Int,
         NEW i \in 1 .. n, NEW j \in 1 .. n, i < j
  PROVE  /\ Time(catalogue, bus_wait_time, catalogue.buses[b].stops, i, j) = RideTime(b, i, j)
         /\ RideTime(b, i, j) \in Int
<1> DEFINE stops == catalogue.buses[b].stops
           leg(k) == Leg(catalogue, stops[k - 1], stops[k])
           IsTime(f) == f = [k \in i .. j |-> IF k = i THEN bus_wait_time ELSE f[k - 1] + leg(k)]
           time == CHOOSE f : IsTime(f)
           clock == Clock(b)
           h == [k \in i .. j |-> bus_wait_time + clock[k] - clock[i]]
<1>1. clock \in [1 .. n -> Int] /\ \A k \in 2 .. n : clock[k] = clock[k - 1] + leg(k)
  BY ClockRuns
<1>2. \A k : leg(k) \in Int
  BY LegsAreWhole
<1>3. RideTime(b, i, j) = bus_wait_time + clock[j] - clock[i]
  BY DEF RideTime
<1>4. Time(catalogue, bus_wait_time, stops, i, j) = time[j]
  BY DEF Time
<1> HIDE DEF leg, clock
<1>5. IsTime(h)
  <2> DEFINE w == [k \in i .. j |-> IF k = i THEN bus_wait_time ELSE h[k - 1] + leg(k)]
  <2>1. ASSUME NEW k \in i .. j PROVE h[k] = IF k = i THEN bus_wait_time ELSE h[k - 1] + leg(k)
    <3>1. CASE k = i
      BY <3>1, <1>1
    <3>2. CASE k # i
      <4>1. k - 1 \in i .. j /\ k \in 2 .. n /\ k - 1 \in 1 .. n
        BY <3>2
      <4>2. h[k] = bus_wait_time + clock[k] - clock[i] /\ h[k - 1] = bus_wait_time + clock[k - 1] - clock[i]
        BY <4>1
      <4> HIDE DEF h
      <4>3. clock[k] \in Int /\ clock[k - 1] \in Int /\ clock[i] \in Int /\ clock[k] = clock[k - 1] + leg(k)
        BY <1>1, <4>1
      <4> QED BY <3>2, <4>2, <4>3, <1>2
    <3> QED BY <3>1, <3>2
  <2>2. h = w
    BY <2>1
  <2> HIDE DEF h
  <2> QED BY <2>2
<1>6. IsTime(time)
  <2> HIDE DEF IsTime, h
  <2> QED BY <1>5
<1> HIDE DEF time
<1>7. \A k \in i .. j : time[k] = IF k = i THEN bus_wait_time ELSE time[k - 1] + leg(k)
  BY <1>6
<1>8. \A k \in i .. j : h[k] = IF k = i THEN bus_wait_time ELSE h[k - 1] + leg(k)
  <2> HIDE DEF h
  <2> QED BY <1>5
<1> DEFINE Bad == {k \in Nat : k \in i .. j /\ time[k] # h[k]}
<1>9. Bad = {}
  <2> SUFFICES ASSUME Bad # {} PROVE FALSE
    OBVIOUS
  <2> HIDE DEF h
  <2>1. Bad \subseteq Nat
    OBVIOUS
  <2> HIDE DEF Bad
  <2>2. PICK k \in Bad : \A d \in Bad : k <= d
    BY <2>1, LeastNatural
  <2>3. k \in i .. j /\ time[k] # h[k] /\ k # i
    BY <2>2, <1>7, <1>8 DEF Bad
  <2>4. k - 1 \notin Bad /\ k - 1 \in i .. j /\ k - 1 \in Nat
    BY <2>2, <2>3
  <2>5. time[k - 1] = h[k - 1]
    BY <2>4 DEF Bad
  <2> QED BY <2>3, <2>5, <1>7, <1>8
<1>10. j \in i .. j /\ j \in Nat
  OBVIOUS
<1>11. time[j] = h[j]
  <2> HIDE DEF h
  <2> QED BY <1>9, <1>10
<1>12. h[j] = bus_wait_time + clock[j] - clock[i] /\ h[j] \in Int
  BY <1>1, <1>10
<1> QED BY <1>3, <1>4, <1>11, <1>12 DEF clock

(***************************************************************************)
(* The rides of the buses.                                                 *)
(***************************************************************************)
RideOf(b, i, j) ==
  [start |-> catalogue.buses[b].stops[i], end |-> catalogue.buses[b].stops[j],
   weight |-> RideTime(b, i, j), name |-> b, span_count |-> j - i]

RidesOfStop(b, i) == {RideOf(b, i, j) : j \in {k \in DOMAIN catalogue.buses[b].stops : i < k}}
RidesOfBus(b) == UNION {RidesOfStop(b, i) : i \in DOMAIN catalogue.buses[b].stops}
RidesOfBuses == UNION {RidesOfBus(b) : b \in DOMAIN catalogue.buses}

LEMMA RidesFromAStop ==
  ASSUME CatalogueInv(catalogue), bus_wait_time \in Int, NEW b \in DOMAIN catalogue.buses,
         NEW i \in DOMAIN catalogue.buses[b].stops
  PROVE  /\ RidesFrom(catalogue, bus_wait_time, b, i) \in Seq(RidesOfStop(b, i))
         /\ ToSet(RidesFrom(catalogue, bus_wait_time, b, i)) = RidesOfStop(b, i)
<1> DEFINE stops == catalogue.buses[b].stops
           q == [n \in 1 .. Len(stops) - i |-> <<RideOf(b, i, i + n)>>]
           S == RidesOfStop(b, i)
<1>1. PICK m \in Nat : /\ Len(stops) = m /\ DOMAIN stops = 1 .. m
                       /\ \A k \in 1 .. m - 1 : Known(catalogue, stops[k], stops[k + 1])
  BY StopsOfABus
<1>2. AreDistances(catalogue.distances)
  BY DEF CatalogueInv
<1>3. i \in 1 .. m /\ m - i \in Nat
  BY <1>1
<1>4. ASSUME NEW n \in 1 .. m - i
      PROVE  /\ Known(catalogue, stops[i + n - 1], stops[i + n])
             /\ i + n \in 1 .. m /\ i < i + n
             /\ RideOf(b, i, i + n) =
                  [start |-> stops[i], end |-> stops[i + n],
                   weight |-> Time(catalogue, bus_wait_time, stops, i, i + n),
                   name |-> b, span_count |-> (i + n) - i]
  <2>1. i + n \in 1 .. m /\ i < i + n /\ i + n - 1 \in 1 .. m - 1 /\ (i + n - 1) + 1 = i + n
    BY <1>3
  <2>2. Time(catalogue, bus_wait_time, stops, i, i + n) = RideTime(b, i, i + n)
    BY <1>1, <1>2, <1>3, <2>1, TimeByTheClock
  <2> QED BY <1>1, <2>1, <2>2 DEF RideOf
<1>5. RidesFrom(catalogue, bus_wait_time, b, i) = FlattenSeq(q)
  <2> DEFINE ride(j) == [start |-> stops[i], end |-> stops[j],
                         weight |-> Time(catalogue, bus_wait_time, stops, i, j),
                         name |-> b, span_count |-> j - i]
             p == [n \in 1 .. Len(stops) - i |->
                    IF Known(catalogue, stops[i + n - 1], stops[i + n]) THEN <<ride(i + n)>> ELSE <<>>]
  <2>1. p = q
    BY <1>1, <1>4
  <2>2. RidesFrom(catalogue, bus_wait_time, b, i) = FlattenSeq(p)
    BY DEF RidesFrom
  <2> HIDE DEF p, q
  <2> QED BY <2>1, <2>2
<1>6. \A n \in 1 .. m - i : RideOf(b, i, i + n) \in S
  BY <1>1, <1>4 DEF RidesOfStop
<1>7. \A r \in S : \E n \in 1 .. m - i : r = RideOf(b, i, i + n)
  <2> SUFFICES ASSUME NEW j \in 1 .. m, i < j PROVE \E n \in 1 .. m - i : RideOf(b, i, j) = RideOf(b, i, i + n)
    BY <1>1 DEF RidesOfStop
  <2>1. j - i \in 1 .. m - i /\ i + (j - i) = j
    BY <1>3
  <2> QED BY <2>1
<1> HIDE DEF S
<1>8. q \in [1 .. m - i -> Seq(S)]
  BY <1>1, <1>6
<1>9. \A n \in 1 .. m - i : ToSet(q[n]) = {RideOf(b, i, i + n)}
  BY <1>1 DEF ToSet
<1> HIDE DEF q
<1>10. FlattenSeq(q) \in Seq(S) /\ ToSet(FlattenSeq(q)) = UNION {ToSet(q[n]) : n \in 1 .. m - i}
  BY <1>3, <1>8, FlattenHolds
<1>11. UNION {ToSet(q[n]) : n \in 1 .. m - i} = S
  BY <1>6, <1>7, <1>9
<1> QED BY <1>5, <1>10, <1>11 DEF S

LEMMA RidesOnABus ==
  ASSUME CatalogueInv(catalogue), bus_wait_time \in Int, NEW b \in DOMAIN catalogue.buses
  PROVE  LET rides == FlattenSeq([i \in DOMAIN catalogue.buses[b].stops |->
                                    RidesFrom(catalogue, bus_wait_time, b, i)])
         IN  rides \in Seq(RidesOfBus(b)) /\ ToSet(rides) = RidesOfBus(b)
<1> DEFINE stops == catalogue.buses[b].stops
           S == RidesOfBus(b)
           q == [i \in DOMAIN stops |-> RidesFrom(catalogue, bus_wait_time, b, i)]
<1>1. PICK m \in Nat : DOMAIN stops = 1 .. m
  BY StopsOfABus
<1>2. ASSUME NEW i \in 1 .. m
      PROVE  q[i] \in Seq(S) /\ ToSet(q[i]) = RidesOfStop(b, i) /\ RidesOfStop(b, i) \subseteq S
  <2>1. RidesOfStop(b, i) \subseteq S
    BY <1>1 DEF RidesOfBus
  <2>2. q[i] \in Seq(RidesOfStop(b, i)) /\ ToSet(q[i]) = RidesOfStop(b, i)
    BY <1>1, RidesFromAStop
  <2> HIDE DEF q, S
  <2> QED BY <2>1, <2>2
<1>3. S = UNION {RidesOfStop(b, i) : i \in 1 .. m}
  BY <1>1 DEF RidesOfBus
<1>4. q \in [1 .. m -> Seq(S)]
  <2>1. q = [i \in 1 .. m |-> q[i]]
    BY <1>1
  <2> HIDE DEF q, S
  <2> QED BY <1>2, <2>1
<1> HIDE DEF q, S
<1>5. FlattenSeq(q) \in Seq(S) /\ ToSet(FlattenSeq(q)) = UNION {ToSet(q[i]) : i \in 1 .. m}
  BY <1>4, FlattenHolds
<1>6. ToSet(FlattenSeq(q)) = S
  BY <1>2, <1>3, <1>5
<1> QED BY <1>5, <1>6 DEF q, S

\* AllRides gives the rides of the buses in its order, no more and no fewer.
LEMMA RidesOnAllBuses ==
  ASSUME CatalogueInv(catalogue), bus_wait_time \in Int,
         NEW order, order \in Seq(DOMAIN catalogue.buses), ToSet(order) = DOMAIN catalogue.buses
  PROVE  /\ AllRides(catalogue, bus_wait_time, order) \in Seq(RidesOfBuses)
         /\ ToSet(AllRides(catalogue, bus_wait_time, order)) = RidesOfBuses
<1> DEFINE S == RidesOfBuses
           q == [k \in DOMAIN order |->
                  FlattenSeq([i \in DOMAIN catalogue.buses[order[k]].stops |->
                               RidesFrom(catalogue, bus_wait_time, order[k], i)])]
           m == Len(order)
<1>1. m \in Nat /\ DOMAIN order = 1 .. m /\ \A k \in 1 .. m : order[k] \in DOMAIN catalogue.buses
  OBVIOUS
<1>2. AllRides(catalogue, bus_wait_time, order) = FlattenSeq(q)
  BY DEF AllRides
<1>3. ASSUME NEW k \in 1 .. m
      PROVE  q[k] \in Seq(S) /\ ToSet(q[k]) = RidesOfBus(order[k]) /\ RidesOfBus(order[k]) \subseteq S
  <2>1. RidesOfBus(order[k]) \subseteq S
    BY <1>1 DEF RidesOfBuses
  <2>2. q[k] \in Seq(RidesOfBus(order[k])) /\ ToSet(q[k]) = RidesOfBus(order[k])
    BY <1>1, RidesOnABus
  <2> HIDE DEF q, S
  <2> QED BY <2>1, <2>2
<1>4. q = [k \in 1 .. m |-> q[k]]
  BY <1>1
<1>5. S = UNION {RidesOfBus(order[k]) : k \in 1 .. m}
  BY <1>1 DEF RidesOfBuses, ToSet
<1> HIDE DEF q, S, m
<1>6. q \in [1 .. m -> Seq(S)]
  BY <1>3, <1>4
<1>7. FlattenSeq(q) \in Seq(S) /\ ToSet(FlattenSeq(q)) = UNION {ToSet(q[k]) : k \in 1 .. m}
  BY <1>1, <1>6, FlattenHolds
<1>8. ToSet(FlattenSeq(q)) = S
  BY <1>3, <1>5, <1>7
<1> QED BY <1>2, <1>7, <1>8 DEF S

(***************************************************************************)
(* The graph.                                                              *)
(***************************************************************************)
RideStops(rides) == {rides[k].start : k \in DOMAIN rides} \cup {rides[k].end : k \in DOMAIN rides}

\* The numbers of the stops tell them apart, and leave none out.
LEMMA NumbersTellApart ==
  ASSUME NEW R, NEW rides \in Seq(R), NEW id, id = VertexIds(rides)
  PROVE  /\ DOMAIN id = RideStops(rides)
         /\ \A s \in RideStops(rides) : id[s] \in Nat
         /\ \A s, t \in RideStops(rides) : id[s] = id[t] => s = t
         /\ \E n \in Nat : {id[s] : s \in RideStops(rides)} = 0 .. n - 1
<1> DEFINE E == RideStops(rides)
           q == [k \in DOMAIN rides |-> <<rides[k].start, rides[k].end>>]
           ends == FlattenSeq(q)
           first(s) == CHOOSE n \in DOMAIN ends : ends[n] = s /\ \A m \in 1 .. n - 1 : ends[m] # s
           before(n) == {ends[m] : m \in 1 .. n}
<1>1. Len(rides) \in Nat /\ DOMAIN rides = 1 .. Len(rides)
  OBVIOUS
<1>2. \A k \in 1 .. Len(rides) : rides[k].start \in E /\ rides[k].end \in E
  BY <1>1 DEF RideStops
<1>3. E = UNION {ToSet(q[k]) : k \in 1 .. Len(rides)}
  <2>1. \A k \in 1 .. Len(rides) : ToSet(q[k]) = {rides[k].start, rides[k].end}
    BY <1>1 DEF ToSet
  <2>2. E = UNION {{rides[k].start, rides[k].end} : k \in 1 .. Len(rides)}
    BY <1>1 DEF RideStops
  <2> HIDE DEF q, E
  <2> QED BY <2>1, <2>2
<1> HIDE DEF E
<1>4. q \in [1 .. Len(rides) -> Seq(E)]
  BY <1>1, <1>2
<1> HIDE DEF q
<1>5. ends \in Seq(E) /\ ToSet(ends) = E
  BY <1>1, <1>3, <1>4, FlattenHolds
<1>6. id = [s \in E |-> Cardinality(before(first(s) - 1))]
  <2>1. id = [s \in ToSet(ends) |-> Cardinality(before(first(s) - 1))]
    BY DEF VertexIds, q
  <2> HIDE DEF first, before, ends
  <2> QED BY <1>5, <2>1
<1> HIDE DEF ends
<1>7. ASSUME NEW s \in E
      PROVE  first(s) \in DOMAIN ends /\ ends[first(s)] = s /\ \A m \in 1 .. first(s) - 1 : ends[m] # s
  <2> DEFINE At_s == {n \in DOMAIN ends : ends[n] = s}
  <2>1. At_s # {} /\ At_s \subseteq Nat
    BY <1>5 DEF ToSet
  <2> HIDE DEF At_s
  <2>2. PICK n \in At_s : \A d \in At_s : n <= d
    BY <2>1, LeastNatural
  <2>3. n \in DOMAIN ends /\ ends[n] = s
    BY DEF At_s
  <2>4. \A m \in 1 .. n - 1 : ends[m] # s
    <3> SUFFICES ASSUME NEW m \in 1 .. n - 1, ends[m] = s PROVE FALSE
      OBVIOUS
    <3>1. m \in DOMAIN ends /\ ~(n <= m)
      BY <1>5, <2>3
    <3> QED BY <2>2, <3>1 DEF At_s
  <2> QED BY <2>3, <2>4
<1> HIDE DEF first
<1>8. ASSUME NEW n \in Nat PROVE IsFiniteSet(before(n)) /\ Cardinality(before(n)) \in Nat
  <2> DEFINE f == [m \in 1 .. n |-> ends[m]]
  <2>1. f \in Surjection(1 .. n, before(n))
    BY DEF Surjection
  <2>2. IsFiniteSet(1 .. n)
    BY FS_Interval
  <2> HIDE DEF f, before
  <2>3. IsFiniteSet(before(n))
    BY <2>1, <2>2, FS_Surjection
  <2> QED BY <2>3, FS_CardinalityType
<1>9. \A s \in E : first(s) \in Nat /\ first(s) >= 1 /\ first(s) - 1 \in Nat
  BY <1>5, <1>7
<1>10. ASSUME NEW s \in E, NEW t \in E, first(s) < first(t)
       PROVE  Cardinality(before(first(s) - 1)) # Cardinality(before(first(t) - 1))
  <2>1. before(first(s) - 1) \subseteq before(first(t) - 1)
    <3>1. \A m \in 1 .. first(s) - 1 : m \in 1 .. first(t) - 1
      BY <1>9, <1>10
    <3> QED BY <3>1
  <2>2. s \in before(first(t) - 1)
    <3>1. first(s) \in 1 .. first(t) - 1
      BY <1>9, <1>10
    <3> QED BY <3>1, <1>7
  <2>3. s \notin before(first(s) - 1)
    BY <1>7
  <2>4. IsFiniteSet(before(first(t) - 1))
    BY <1>8, <1>9
  <2> HIDE DEF before
  <2> QED BY <2>1, <2>2, <2>3, <2>4, FS_Subset
<1>11. ASSUME NEW s \in E, NEW t \in E, id[s] = id[t] PROVE s = t
  <2>1. Cardinality(before(first(s) - 1)) = Cardinality(before(first(t) - 1))
    <3> HIDE DEF before
    <3> QED BY <1>6, <1>11
  <2>2. ~(first(s) < first(t)) /\ ~(first(t) < first(s))
    <3> HIDE DEF before
    <3> QED BY <1>10, <2>1
  <2>3. first(s) = first(t)
    BY <1>9, <2>2
  <2> QED BY <2>3, <1>7
<1>12. \A s \in E : id[s] \in Nat
  <2> HIDE DEF before
  <2> QED BY <1>6, <1>8, <1>9
<1>13. DOMAIN id = E
  <2> HIDE DEF before
  <2> QED BY <1>6
<1>14. {id[s] : s \in E} = 0 .. Cardinality(E) - 1 /\ Cardinality(E) \in Nat
  <2> DEFINE T == 0 .. Cardinality(E) - 1
  <2>1. IsFiniteSet(E) /\ \A n \in Nat : n <= Len(ends) => before(n) \subseteq E
    <3>1. Len(ends) \in Nat /\ DOMAIN ends = 1 .. Len(ends) /\ before(Len(ends)) = E
      BY <1>5 DEF ToSet
    <3>2. \A n \in Nat : n <= Len(ends) => before(n) \subseteq before(Len(ends))
      BY <3>1
    <3> HIDE DEF before
    <3> QED BY <1>8, <3>1, <3>2
  <2>2. Cardinality(E) \in Nat
    BY <2>1, FS_CardinalityType
  <2>3. ASSUME NEW s \in E PROVE id[s] \in T
    <3> DEFINE m == first(s) - 1
    <3>0. Len(ends) \in Nat /\ first(s) \in 1 .. Len(ends)
      BY <1>5, <1>7
    <3>1. m \in Nat /\ m <= Len(ends) /\ s \notin before(m)
      BY <1>7, <3>0
    <3>2. id[s] = Cardinality(before(m)) /\ Cardinality(before(m)) \in Nat
      <4> HIDE DEF before
      <4> QED BY <1>6, <1>8, <3>1
    <3> HIDE DEF m, before
    <3>3. before(m) \in SUBSET E /\ before(m) # E
      BY <2>1, <3>1
    <3>4. Cardinality(before(m)) <= Cardinality(E) /\ Cardinality(before(m)) # Cardinality(E)
      BY <2>1, <3>3, FS_Subset
    <3> QED BY <2>2, <3>2, <3>4
  <2>4. id \in Injection(E, T)
    <3>1. id = [s \in E |-> id[s]]
      <4> HIDE DEF before
      <4> QED BY <1>6
    <3> HIDE DEF T
    <3> QED BY <1>11, <2>3, <3>1 DEF Injection, IsInjective
  <2>5. IsFiniteSet(T) /\ Cardinality(T) = Cardinality(E)
    <3>1. \A c \in Nat : IsFiniteSet(0 .. c - 1) /\ Cardinality(0 .. c - 1) = c
      BY FS_Interval
    <3> HIDE DEF before
    <3> QED BY <2>2, <3>1
  <2>6. id \in Surjection(E, T)
    <3> HIDE DEF T
    <3> QED BY <2>4, <2>5, FS_Injection
  <2> HIDE DEF T
  <2>7. {id[s] : s \in E} = T
    BY <2>3, <2>6 DEF Surjection
  <2> QED BY <2>2, <2>7 DEF T
<1> QED BY <1>11, <1>12, <1>13, <1>14 DEF E

\* The unordered containers give every set from end to end.
OrdersEnumerate ==
  \A S : IsFiniteSet(S) => \A order \in Orders(S) : order \in Seq(S) /\ ToSet(order) = S

LEMMA GraphOfTheLines ==
  ASSUME OrdersEnumerate, CatalogueInv(catalogue), bus_wait_time \in Int, MakeRouter
  PROVE  /\ IsGraph' /\ Constructing' /\ GraphInv'
         /\ UNCHANGED <<catalogue, bus_wait_time, runs, run, next, base>> /\ stage' = "answer"
<1>1. PICK order \in Orders(DOMAIN catalogue.buses) : MakeTransportRouter(order)
  BY DEF MakeRouter
<1>2. order \in Seq(DOMAIN catalogue.buses) /\ ToSet(order) = DOMAIN catalogue.buses
  BY <1>1 DEF OrdersEnumerate, CatalogueInv
<1> DEFINE rides == AllRides(catalogue, bus_wait_time, order)
           id == VertexIds(rides)
<1>3. /\ stop_to_vertex' = id /\ edges' = CreatedGraph(rides, id)
      /\ catalogue' = catalogue /\ bus_wait_time' = bus_wait_time
  BY <1>1 DEF MakeTransportRouter, Construct
<1>4. Constructing'
  BY <1>1 DEF MakeTransportRouter, Construct, Constructing
<1>5. rides \in Seq(RidesOfBuses) /\ ToSet(rides) = RidesOfBuses
  BY <1>2, RidesOnAllBuses
<1> HIDE DEF rides
<1>6. /\ DOMAIN id = RideStops(rides)
      /\ \A s \in RideStops(rides) : id[s] \in Nat
      /\ \A s, t \in RideStops(rides) : id[s] = id[t] => s = t
      /\ \E n \in Nat : {id[s] : s \in RideStops(rides)} = 0 .. n - 1
  BY <1>5, NumbersTellApart
<1> HIDE DEF id
<1>7. /\ DOMAIN rides = 1 .. Len(rides) /\ Len(rides) \in Nat
      /\ \A k \in DOMAIN rides : rides[k] \in RidesOfBuses
      /\ \A r \in RidesOfBuses : \E k \in DOMAIN rides : rides[k] = r
      /\ \A k \in DOMAIN rides : rides[k].start \in RideStops(rides) /\ rides[k].end \in RideStops(rides)
  BY <1>5 DEF ToSet, RideStops
<1>8. edges' = [k \in DOMAIN rides |->
                 [from |-> id[rides[k].start], to |-> id[rides[k].end], weight |-> rides[k].weight,
                  name |-> rides[k].name, span_count |-> rides[k].span_count]]
  BY <1>3 DEF CreatedGraph
<1>9. /\ \A r \in RidesOfBuses : \E b \in DOMAIN catalogue.buses :
           \E i, j \in DOMAIN catalogue.buses[b].stops : i < j /\ r = RideOf(b, i, j)
      /\ \A b \in DOMAIN catalogue.buses : \A i, j \in DOMAIN catalogue.buses[b].stops :
           i < j => RideOf(b, i, j) \in RidesOfBuses
  BY DEF RidesOfBuses, RidesOfBus, RidesOfStop
<1>10. ASSUME NEW b \in DOMAIN catalogue.buses, NEW i \in DOMAIN catalogue.buses[b].stops,
              NEW j \in DOMAIN catalogue.buses[b].stops, i < j
       PROVE  RideTime(b, i, j) \in Int
  <2>1. PICK n \in Nat : DOMAIN catalogue.buses[b].stops = 1 .. n
    BY StopsOfABus
  <2> QED BY <2>1, <1>10, TimeByTheClock DEF CatalogueInv
<1>11. \A k \in DOMAIN rides : rides[k].weight \in Int
  BY <1>7, <1>9, <1>10 DEF RideOf
<1>12. IsGraph'
  <2>1. DOMAIN edges' = 1 .. Len(rides)
    BY <1>7, <1>8
  <2>2. \A e \in 1 .. Len(rides) : edges'[e].from \in Nat /\ edges'[e].to \in Nat /\ edges'[e].weight \in Int
    BY <1>6, <1>7, <1>8, <1>11
  <2> QED BY <1>7, <2>1, <2>2 DEF IsGraph
<1>13. \A b, i, j : RideTime(b, i, j)' = RideTime(b, i, j)
  BY <1>3 DEF RideTime, Clock, Leg, Known
<1>14. Served' = RideStops(rides)
  BY <1>3, <1>6 DEF Served
<1>15. ASSUME NEW k \in DOMAIN rides, NEW b \in DOMAIN catalogue.buses,
              NEW i \in DOMAIN catalogue.buses[b].stops, NEW j \in DOMAIN catalogue.buses[b].stops,
              rides[k] = RideOf(b, i, j)
       PROVE  IsRide(k, b, i, j)'
  <2> DEFINE stops == catalogue.buses[b].stops
  <2>1. /\ rides[k].start = stops[i] /\ rides[k].end = stops[j] /\ rides[k].weight = RideTime(b, i, j)
        /\ rides[k].name = b /\ rides[k].span_count = j - i
    BY <1>15 DEF RideOf
  <2>2. stops[i] \in Served' /\ stops[j] \in Served'
    BY <2>1, <1>7, <1>14
  <2>3. j = i + (j - i)
    <3>1. PICK m \in Nat : DOMAIN stops = 1 .. m
      BY StopsOfABus
    <3> QED BY <3>1
  <2> QED BY <2>1, <2>2, <2>3, <1>3, <1>8, <1>13 DEF IsRide
<1>16. DOMAIN edges' = DOMAIN rides
  BY <1>8
<1>17. GraphInv'
  <2>1. \A k \in DOMAIN edges' : \E b \in DOMAIN catalogue'.buses :
          \E i, j \in DOMAIN catalogue'.buses[b].stops : i < j /\ IsRide(k, b, i, j)'
    BY <1>3, <1>7, <1>9, <1>15, <1>16
  <2>2. \A b \in DOMAIN catalogue'.buses : \A i, j \in DOMAIN catalogue'.buses[b].stops :
          i < j => \E k \in DOMAIN edges' : IsRide(k, b, i, j)'
    BY <1>3, <1>7, <1>9, <1>15, <1>16
  <2>3. \A s \in Served' : \E k \in DOMAIN edges' : stop_to_vertex'[s] \in {edges'[k].from, edges'[k].to}
    <3> SUFFICES ASSUME NEW s \in RideStops(rides)
                 PROVE  \E k \in DOMAIN edges' : stop_to_vertex'[s] \in {edges'[k].from, edges'[k].to}
      BY <1>14
    <3>1. PICK k \in DOMAIN rides : s \in {rides[k].start, rides[k].end}
      BY DEF RideStops
    <3> QED BY <3>1, <1>3, <1>8, <1>16
  <2>4. \A s, t \in Served' : stop_to_vertex'[s] = stop_to_vertex'[t] => s = t
    BY <1>3, <1>6, <1>14
  <2>5. \E n \in Nat : {stop_to_vertex'[s] : s \in Served'} = 0 .. n - 1
    BY <1>3, <1>6, <1>14
  <2> QED BY <2>1, <2>2, <2>3, <2>4, <2>5 DEF GraphInv
<1>18. UNCHANGED <<catalogue, bus_wait_time, runs, run, next, base>> /\ stage' = "answer"
  BY <1>3 DEF MakeRouter
<1> QED BY <1>4, <1>12, <1>17, <1>18

(***************************************************************************)
(* The answers.                                                            *)
(***************************************************************************)
LEMMA RoutesAreOfEdges ==
  ASSUME RouterInv, LinkInv, step = "ready", NEW i \in Vertex, NEW j \in Vertex, HasRoute(i, j),
         NEW n \in DOMAIN BuildRoute(i, j)
  PROVE  BuildRoute(i, j)[n] \in DOMAIN edges
<1>0. /\ IsGraph /\ VertexCount \in Nat /\ routes \in Table
      /\ Linked(routes) /\ Founded(routes) /\ StaysForNothing(routes) /\ routes[i][j] # NoRoute
  BY EdgeFacts DEF RouterInv, LinkInv, HasRoute
<1>1. PICK m \in Nat \ {0} : \E p : IsTrail(routes, i, p, m) /\ p[m] = j
  BY <1>0, TrailExists
<1>2. PICK p : IsTrail(routes, i, p, m) /\ p[m] = j
  BY <1>1
<1>3. PICK f : IsWay(i, f) /\ BuildRoute(i, j) = f[VertexCount][j]
  BY <1>0, BuildRouteIsAWay
<1>4. m \in 1 .. m /\ VertexCount \in m - 1 .. VertexCount
  BY <1>0, <1>1, <1>2, TrailFits
<1>5. BuildRoute(i, j) = TrailEdges(i, p, m)
  <2>1. f[VertexCount][p[m]] = TrailEdges(i, p, m)
    BY <1>0, <1>2, <1>3, <1>4, WayOfTrail
  <2> QED BY <2>1, <1>2, <1>3
<1>6. n \in 1 .. m - 1 /\ BuildRoute(i, j)[n] = routes[i][p[n + 1]].prev_edge
  BY <1>5 DEF TrailEdges
<1>7. p[n + 1] \in Vertex /\ routes[i][p[n + 1]] # NoRoute /\ p[n + 1] # i
  <2>1. n + 1 \in 1 .. m
    BY <1>6
  <2> QED BY <2>1, <1>2, <1>6 DEF IsTrail
<1> QED BY <1>0, <1>6, <1>7 DEF Linked, LinkedAt, IsLastEdge

LEMMA ServedAreVertices ==
  ASSUME RouterInv, GraphInv, step = "ready"
  PROVE  \A s \in Served : stop_to_vertex[s] \in Vertex
BY DEF RouterInv, GraphInv, EdgeIsIn

LEMMA FastestAnswers ==
  ASSUME RouterInv, GraphInv
  PROVE  AnswersAreFastest
<1> SUFFICES ASSUME step = "ready", NEW s \in Served
             PROVE  LET answer == [t \in Served |-> GetRouteInfo(s, t)]
                    IN  /\ answer[s].found /\ answer[s].total_weight = 0
                        /\ \A b \in DOMAIN catalogue.buses :
                             LET stops == catalogue.buses[b].stops
                             IN  \A i, j \in DOMAIN stops :
                                   i < j /\ answer[stops[i]].found =>
                                     /\ answer[stops[j]].found
                                     /\ answer[stops[j]].total_weight
                                          <= answer[stops[i]].total_weight + RideTime(b, i, j)
  BY DEF AnswersAreFastest
<1> DEFINE answer == [t \in Served |-> GetRouteInfo(s, t)]
           v == stop_to_vertex
<1>1. \A t \in Served : v[t] \in Vertex
  BY ServedAreVertices
<1>2. ASSUME NEW t \in Served
      PROVE  /\ answer[t].found <=> routes[v[s]][v[t]] # NoRoute
             /\ routes[v[s]][v[t]] # NoRoute => answer[t].total_weight = routes[v[s]][v[t]].weight
  BY DEF GetRouteInfo, Nullopt, HasRoute, Served
<1> HIDE DEF answer
<1>3. answer[s].found /\ answer[s].total_weight = 0
  BY <1>1, <1>2 DEF RouterInv, StaysForNothing
<1>4. ASSUME NEW b \in DOMAIN catalogue.buses, NEW i \in DOMAIN catalogue.buses[b].stops,
             NEW j \in DOMAIN catalogue.buses[b].stops, i < j,
             answer[catalogue.buses[b].stops[i]].found
      PROVE  /\ answer[catalogue.buses[b].stops[j]].found
             /\ answer[catalogue.buses[b].stops[j]].total_weight
                  <= answer[catalogue.buses[b].stops[i]].total_weight + RideTime(b, i, j)
  <2> DEFINE x == catalogue.buses[b].stops[i]
             y == catalogue.buses[b].stops[j]
  <2>1. PICK k \in DOMAIN edges : IsRide(k, b, i, j)
    BY <1>4 DEF GraphInv
  <2>2. /\ x \in Served /\ y \in Served /\ edges[k].from = v[x] /\ edges[k].to = v[y]
        /\ edges[k].weight = RideTime(b, i, j)
    BY <2>1 DEF IsRide
  <2> HIDE DEF x, y
  <2>3. routes[v[s]][v[x]] # NoRoute
    BY <1>2, <1>4, <2>2 DEF x
  <2>4. routes[v[x]][v[y]] # NoRoute /\ routes[v[x]][v[y]].weight <= RideTime(b, i, j)
    BY <2>2 DEF RouterInv, EdgeIsIn, Within
  <2>5. v[s] \in Vertex /\ v[x] \in Vertex /\ v[y] \in Vertex
    BY <1>1, <2>2
  <2>6. /\ routes[v[s]][v[y]] # NoRoute
        /\ routes[v[s]][v[y]].weight <= routes[v[s]][v[x]].weight + routes[v[x]][v[y]].weight
    BY <2>3, <2>4, <2>5 DEF RouterInv, Closed, Within
  <2>7. /\ routes[v[s]][v[x]].weight \in Nat /\ routes[v[x]][v[y]].weight \in Nat
        /\ routes[v[s]][v[y]].weight \in Nat
    BY <2>3, <2>4, <2>5, <2>6, WeightsOf DEF RouterInv
  <2>8. RideTime(b, i, j) \in Int
    BY <2>2, EdgeFacts DEF RouterInv
  <2>9. routes[v[s]][v[y]].weight <= routes[v[s]][v[x]].weight + RideTime(b, i, j)
    BY <2>4, <2>6, <2>7, <2>8
  <2> QED BY <1>2, <2>2, <2>3, <2>6, <2>9 DEF x, y
<1> QED BY <1>3, <1>4 DEF answer

LEMMA TravelledAnswers ==
  ASSUME RouterInv, LinkInv, GraphInv
  PROVE  AnswersCanBeTravelled
<1> SUFFICES ASSUME step = "ready", NEW s \in Served, NEW t \in Served, GetRouteInfo(s, t).found,
                    NEW n \in DOMAIN GetRouteInfo(s, t).edges
             PROVE  LET ride == edges[GetRouteInfo(s, t).edges[n]]
                        stops == catalogue.buses[ride.name].stops
                    IN  \E i, j \in DOMAIN stops :
                          /\ stops[i] = GetStopNameByVertexId(ride.from)
                          /\ stops[j] = GetStopNameByVertexId(ride.to)
                          /\ j = i + ride.span_count
                          /\ ride.weight = RideTime(ride.name, i, j)
  BY DEF AnswersCanBeTravelled
<1> DEFINE a == stop_to_vertex[s]
           b == stop_to_vertex[t]
<1>1. a \in Vertex /\ b \in Vertex
  BY ServedAreVertices
<1>2. HasRoute(a, b) /\ GetRouteInfo(s, t).edges = BuildRoute(a, b)
  BY DEF GetRouteInfo, Nullopt, Served
<1> DEFINE k == BuildRoute(a, b)[n]
<1>3. k \in DOMAIN edges
  BY <1>1, <1>2, RoutesAreOfEdges
<1>4. GetRouteInfo(s, t).edges[n] = k
  BY <1>2
<1> HIDE DEF k
<1>5. PICK bus \in DOMAIN catalogue.buses : \E i, j \in DOMAIN catalogue.buses[bus].stops :
        i < j /\ IsRide(k, bus, i, j)
  BY <1>3 DEF GraphInv
<1>6. PICK i, j \in DOMAIN catalogue.buses[bus].stops : i < j /\ IsRide(k, bus, i, j)
  BY <1>5
<1> DEFINE stops == catalogue.buses[bus].stops
<1>7. /\ stops[i] \in Served /\ stops[j] \in Served
      /\ edges[k].from = stop_to_vertex[stops[i]] /\ edges[k].to = stop_to_vertex[stops[j]]
      /\ edges[k].weight = RideTime(bus, i, j)
      /\ edges[k].name = bus /\ j = i + edges[k].span_count
  BY <1>6 DEF IsRide
<1>8. \A x \in Served : GetStopNameByVertexId(stop_to_vertex[x]) = x
  <2> SUFFICES ASSUME NEW x \in Served PROVE GetStopNameByVertexId(stop_to_vertex[x]) = x
    OBVIOUS
  <2>1. \A y \in Served : stop_to_vertex[y] = stop_to_vertex[x] <=> y = x
    BY DEF GraphInv
  <2> QED BY <2>1 DEF GetStopNameByVertexId, Served
<1> QED BY <1>4, <1>7, <1>8

(***************************************************************************)
(* The catalogue.                                                          *)
(***************************************************************************)
\* The catalogue d has the bus, and its stops, and all else that c had.
HasBus(c, name, list, is_one_way, d) ==
  /\ d = [stops |-> d.stops, buses |-> d.buses, distances |-> c.distances]
  /\ DOMAIN d.stops = DOMAIN c.stops \cup ToSet(BusStops(list, is_one_way))
  /\ DOMAIN d.buses = DOMAIN c.buses \cup {name}
  /\ d.buses[name].stops = BusStops(list, is_one_way) /\ d.buses[name].is_roundtrip = ~is_one_way
  /\ \A b \in DOMAIN c.buses : b # name => d.buses[b] = c.buses[b]

LEMMA AddBusAdds ==
  ASSUME NEW c, c = [stops |-> c.stops, buses |-> c.buses, distances |-> c.distances],
         NEW name, NEW list, NEW is_one_way
  PROVE  HasBus(c, name, list, is_one_way, AddBus(c, name, list, is_one_way))
<1> DEFINE kept == BusStops(list, is_one_way)
           called == CalledAt(c, name, kept)
           bus == [stops |-> kept, info |-> CalculateBusInfo(called, kept), is_roundtrip |-> ~is_one_way]
           stops == [s \in DOMAIN c.stops \cup ToSet(kept) |->
                      IF s \in ToSet(kept) THEN [StopOf(c, s) EXCEPT !.buses = @ \cup {name}]
                      ELSE c.stops[s]]
           buses == With(c.buses, name, bus)
           d == AddBus(c, name, list, is_one_way)
<1>1. called = [c EXCEPT !.stops = stops]
  BY DEF CalledAt
<1>2. d = [called EXCEPT !.buses = With(@, name, bus)]
  BY DEF AddBus
<1>3. DOMAIN stops = DOMAIN c.stops \cup ToSet(kept)
  OBVIOUS
<1>4. bus.stops = kept /\ bus.is_roundtrip = ~is_one_way
  OBVIOUS
<1> HIDE DEF stops, bus
<1>5. called = [stops |-> stops, buses |-> c.buses, distances |-> c.distances]
  BY <1>1
<1> HIDE DEF called
<1>6. /\ DOMAIN buses = DOMAIN c.buses \cup {name} /\ buses[name] = bus
      /\ \A b \in DOMAIN c.buses : b # name => buses[b] = c.buses[b]
  BY DEF With
<1>7. d = [stops |-> stops, buses |-> buses, distances |-> c.distances]
  BY <1>2, <1>5
<1> HIDE DEF d, buses, kept
<1>8. d = [stops |-> d.stops, buses |-> d.buses, distances |-> c.distances]
      /\ d.stops = stops /\ d.buses = buses
  BY <1>7
<1> QED BY <1>3, <1>4, <1>6, <1>8 DEF HasBus, kept, d

\* The lines of a catalogue come back to their first stops.
IsClosed(line) == line # <<>> /\ line[1] = line[Len(line)]
LinesAreClosed(c) == \A b \in DOMAIN c.buses : IsClosed(c.buses[b].stops)

Keeps(c, d) == CatalogueInv(d) /\ d.distances = c.distances

LEMMA AddBusKeeps ==
  ASSUME NEW c, CatalogueInv(c), NEW name, NEW list, NEW is_one_way,
         IsLine(list, is_one_way, c.distances)
  PROVE  /\ Keeps(c, AddBus(c, name, list, is_one_way))
         /\ LinesAreClosed(c) /\ IsClosed(BusStops(list, is_one_way))
              => LinesAreClosed(AddBus(c, name, list, is_one_way))
<1> DEFINE kept == BusStops(list, is_one_way)
           d == AddBus(c, name, list, is_one_way)
           bus == d.buses[name]
<1>1. is_one_way \in BOOLEAN
  BY DEF IsLine
<1>2. HasBus(c, name, list, is_one_way, d)
  BY AddBusAdds DEF CatalogueInv
<1> HIDE DEF d
<1>3. /\ d = [stops |-> d.stops, buses |-> d.buses, distances |-> d.distances]
      /\ d.distances = c.distances
      /\ DOMAIN d.buses = DOMAIN c.buses \cup {name}
      /\ bus.stops = kept /\ bus.is_roundtrip = ~is_one_way
      /\ \A b \in DOMAIN c.buses : b # name => d.buses[b] = c.buses[b]
  BY <1>2 DEF HasBus
<1> HIDE DEF kept
<1>4. IsFiniteSet(DOMAIN d.buses)
  BY <1>3, FS_AddElement DEF CatalogueInv
<1>5. AreDistances(d.distances)
  BY <1>3 DEF CatalogueInv
<1>6. ProtoBus(bus).stops = list
  <2>1. list \in Seq(ToSet(list)) /\ (is_one_way => list # <<>>)
    BY DEF IsLine
  <2>2. is_one_way => SubSeq(kept, 1, Len(kept) \div 2 + 1) = list
    BY <1>1, <2>1, ThereAndBack DEF kept
  <2>3. ~is_one_way => kept = list
    BY DEF BusStops, kept
  <2> HIDE DEF bus
  <2> QED BY <1>1, <1>3, <2>2, <2>3 DEF ProtoBus
<1>7. ASSUME NEW b \in DOMAIN d.buses
      PROVE  LET l == ProtoBus(d.buses[b]).stops
             IN  /\ d.buses[b].is_roundtrip \in BOOLEAN
                 /\ IsLine(l, ~d.buses[b].is_roundtrip, d.distances)
                 /\ d.buses[b].stops = BusStops(l, ~d.buses[b].is_roundtrip)
  <2>1. CASE b = name
    <3>2. (~bus.is_roundtrip) = is_one_way /\ bus.is_roundtrip \in BOOLEAN
      BY <1>1, <1>3
    <3> HIDE DEF bus
    <3> DEFINE one_way == ~bus.is_roundtrip
    <3>3. one_way = is_one_way
      BY <3>2
    <3> HIDE DEF one_way
    <3>4. IsLine(list, one_way, d.distances) /\ kept = BusStops(list, one_way)
      BY <1>3, <3>3 DEF kept
    <3> QED BY <2>1, <3>2, <3>4, <1>3, <1>6 DEF one_way, bus
  <2>2. CASE b # name
    <3>1. b \in DOMAIN c.buses /\ d.buses[b] = c.buses[b]
      BY <2>2, <1>3
    <3> QED BY <3>1, <1>3 DEF CatalogueInv
  <2> QED BY <2>1, <2>2
<1>8. CatalogueInv(d)
  <2> HIDE DEF bus
  <2> QED BY <1>3, <1>4, <1>5, <1>7 DEF CatalogueInv
<1>9. LinesAreClosed(c) /\ IsClosed(kept) => LinesAreClosed(d)
  BY <1>3 DEF LinesAreClosed
<1> QED BY <1>3, <1>8, <1>9 DEF d, kept, Keeps

\* Buses are restored one after the other.
LEMMA RestoredOneByOne ==
  ASSUME NEW c, NEW proto, NEW order, Len(order) \in Nat
  PROVE  \E added :
           /\ RestoredBuses(c, proto, order) = added[Len(order)] /\ added[0] = c
           /\ \A n \in 1 .. Len(order) :
                added[n] = AddBus(added[n - 1], order[n], proto[order[n]].stops, ~proto[order[n]].is_roundtrip)
<1> DEFINE Step(n, y) == AddBus(y, order[n], proto[order[n]].stops, ~proto[order[n]].is_roundtrip)
           m == Len(order)
           IsAdded(f) == f = [n \in 0 .. m |-> IF n = 0 THEN c ELSE Step(n, f[n - 1])]
           added == CHOOSE f : IsAdded(f)
           Upto(a, f) == f[0] = c /\ \A n \in 1 .. a : f[n] = Step(n, f[n - 1])
           Bad == {a \in Nat : ~\E f : Upto(a, f)}
<1>1. m \in Nat
  OBVIOUS
<1>2. RestoredBuses(c, proto, order) = added[m]
  BY DEF RestoredBuses
<1> HIDE DEF Step, m
<1>4. 0 \notin Bad
  <2> DEFINE f == [n \in 0 .. 0 |-> c]
  <2>1. Upto(0, f)
    OBVIOUS
  <2> HIDE DEF Upto, f
  <2> QED BY <2>1
<1>5. ASSUME NEW a \in Nat, NEW f, Upto(a, f) PROVE \E g : Upto(a + 1, g)
  <2> DEFINE g == [n \in 0 .. a + 1 |-> IF n <= a THEN f[n] ELSE Step(a + 1, f[a])]
  <2>1. (\A n \in 0 .. a : g[n] = f[n]) /\ g[a + 1] = Step(a + 1, f[a])
    OBVIOUS
  <2> HIDE DEF g
  <2>2. g[0] = c
    BY <1>5, <2>1
  <2>3. ASSUME NEW n \in 1 .. a + 1 PROVE g[n] = Step(n, g[n - 1])
    <3>1. CASE n = a + 1
      BY <3>1, <2>1
    <3>2. CASE n \in 1 .. a
      <4>1. n - 1 \in 0 .. a /\ n \in 0 .. a
        BY <3>2
      <4> QED BY <3>2, <4>1, <2>1, <1>5
    <3> QED BY <3>1, <3>2
  <2>4. Upto(a + 1, g)
    BY <2>2, <2>3
  <2> HIDE DEF Upto
  <2> QED BY <2>4
<1>6. Bad = {}
  <2> SUFFICES ASSUME Bad # {} PROVE FALSE
    OBVIOUS
  <2> HIDE DEF Upto
  <2>1. Bad \subseteq Nat
    OBVIOUS
  <2> HIDE DEF Bad
  <2>2. PICK a \in Bad : \A d \in Bad : a <= d
    BY <2>1, LeastNatural
  <2>3. a \in Nat /\ a # 0 /\ a - 1 \in Nat /\ a - 1 \notin Bad /\ (a - 1) + 1 = a
    BY <1>4, <2>1, <2>2
  <2>4. PICK f : Upto(a - 1, f)
    BY <2>3 DEF Bad
  <2>5. \E g : Upto((a - 1) + 1, g)
    BY <1>5, <2>3, <2>4
  <2> QED BY <2>2, <2>3, <2>5 DEF Bad
<1>7. PICK f : Upto(m, f)
  <2> HIDE DEF Upto
  <2> QED BY <1>1, <1>6
<1> DEFINE h == [n \in 0 .. m |-> f[n]]
<1>8. IsAdded(h)
  <2> DEFINE w == [n \in 0 .. m |-> IF n = 0 THEN c ELSE Step(n, h[n - 1])]
  <2>1. ASSUME NEW n \in 0 .. m PROVE h[n] = IF n = 0 THEN c ELSE Step(n, h[n - 1])
    <3>1. CASE n = 0
      BY <3>1, <1>7
    <3>2. CASE n # 0
      <4>1. n - 1 \in 0 .. m /\ n \in 1 .. m
        BY <1>1, <3>2
      <4>2. h[n] = f[n] /\ h[n - 1] = f[n - 1]
        BY <4>1
      <4> HIDE DEF h
      <4> QED BY <3>2, <4>1, <4>2, <1>7
    <3> QED BY <3>1, <3>2
  <2>2. h = w
    BY <2>1
  <2> HIDE DEF h
  <2> QED BY <2>2
<1>9. IsAdded(added)
  <2> HIDE DEF IsAdded, h
  <2> QED BY <1>8
<1> HIDE DEF added
<1>10. \A n \in 0 .. m : added[n] = IF n = 0 THEN c ELSE Step(n, added[n - 1])
  BY <1>9
<1>11. added[0] = c /\ \A n \in 1 .. m : added[n] = Step(n, added[n - 1])
  BY <1>1, <1>10
<1> QED BY <1>2, <1>11 DEF m, Step

\* So do the buses that are restored, one after the other.
LEMMA RestoredBusesKeep ==
  ASSUME NEW c, CatalogueInv(c), NEW proto, NEW N, NEW order \in Seq(N),
         \A b \in N : IsLine(proto[b].stops, ~proto[b].is_roundtrip, c.distances)
  PROVE  /\ Keeps(c, RestoredBuses(c, proto, order))
         /\ LinesAreClosed(c) /\ (\A b \in N : IsClosed(BusStops(proto[b].stops, ~proto[b].is_roundtrip)))
              => LinesAreClosed(RestoredBuses(c, proto, order))
<1>20. Len(order) \in Nat
  OBVIOUS
<1>21. \E added :
         /\ RestoredBuses(c, proto, order) = added[Len(order)] /\ added[0] = c
         /\ \A n \in 1 .. Len(order) :
              added[n] = AddBus(added[n - 1], order[n], proto[order[n]].stops, ~proto[order[n]].is_roundtrip)
  BY <1>20, RestoredOneByOne
<1> DEFINE Step(n, y) == AddBus(y, order[n], proto[order[n]].stops, ~proto[order[n]].is_roundtrip)
           m == Len(order)
           AllClosed == /\ LinesAreClosed(c)
                        /\ \A b \in N : IsClosed(BusStops(proto[b].stops, ~proto[b].is_roundtrip))
<1>1. m \in Nat /\ DOMAIN order = 1 .. m /\ \A n \in 1 .. m : order[n] \in N
  OBVIOUS
<1>2. PICK added : /\ RestoredBuses(c, proto, order) = added[m] /\ added[0] = c
                   /\ \A n \in 1 .. m : added[n] = Step(n, added[n - 1])
  BY <1>21
<1>3. ASSUME NEW n \in 1 .. m, NEW y, CatalogueInv(y), y.distances = c.distances
      PROVE  /\ CatalogueInv(Step(n, y)) /\ Step(n, y).distances = c.distances
             /\ LinesAreClosed(y) /\ AllClosed => LinesAreClosed(Step(n, y))
  <2> DEFINE list == proto[order[n]].stops
             one_way == ~proto[order[n]].is_roundtrip
  <2>1. IsLine(list, one_way, y.distances)
    BY <1>1, <1>3
  <2>2. Step(n, y) = AddBus(y, order[n], list, one_way)
    OBVIOUS
  <2>3. AllClosed => IsClosed(BusStops(list, one_way))
    BY <1>1
  <2> HIDE DEF list, one_way, Step, AllClosed
  <2>4. /\ Keeps(y, AddBus(y, order[n], list, one_way))
        /\ LinesAreClosed(y) /\ IsClosed(BusStops(list, one_way))
             => LinesAreClosed(AddBus(y, order[n], list, one_way))
    BY <1>3, <2>1, AddBusKeeps
  <2> QED BY <1>3, <2>2, <2>3, <2>4 DEF Keeps
<1> HIDE DEF Step, m, AllClosed
<1>10. added[0] = c /\ \A n \in 1 .. m : added[n] = Step(n, added[n - 1])
  BY <1>2
<1> DEFINE Good(n) == /\ CatalogueInv(added[n]) /\ added[n].distances = c.distances
                      /\ AllClosed => LinesAreClosed(added[n])
           Wrong == {n \in Nat : n \in 0 .. m /\ ~Good(n)}
<1>11. Wrong = {}
  <2> SUFFICES ASSUME Wrong # {} PROVE FALSE
    OBVIOUS
  <2>1. Good(0)
    BY <1>1, <1>10 DEF AllClosed
  <2> HIDE DEF Good
  <2>2. Wrong \subseteq Nat
    OBVIOUS
  <2> HIDE DEF Wrong
  <2>3. PICK n \in Wrong : \A d \in Wrong : n <= d
    BY <2>2, LeastNatural
  <2>4. n \in 0 .. m /\ ~Good(n) /\ n # 0
    BY <2>1, <2>3 DEF Wrong
  <2>5. n - 1 \notin Wrong /\ n - 1 \in 0 .. m /\ n - 1 \in Nat /\ n \in 1 .. m
    BY <1>1, <2>3, <2>4
  <2>6. Good(n - 1)
    BY <2>5 DEF Wrong
  <2>7. Good(n)
    BY <2>4, <2>5, <2>6, <1>3, <1>10 DEF Good
  <2> QED BY <2>4, <2>7
<1>12. Good(m)
  <2> HIDE DEF Good
  <2> QED BY <1>1, <1>11
<1> QED BY <1>2, <1>12 DEF Keeps, AllClosed

\* What setting distances does to a catalogue.
Grows(c, d) ==
  /\ d = [stops |-> c.stops, buses |-> c.buses, distances |-> d.distances]
  /\ AreDistances(d.distances)
  /\ DOMAIN c.distances \subseteq DOMAIN d.distances

\* The catalogue d has the distance w from s to t, and back if nothing was known.
HasDistance(c, s, t, w, d) ==
  /\ Grows(c, d)
  /\ DOMAIN d.distances = DOMAIN c.distances \cup {<<s, t>>, <<t, s>>}
  /\ d.distances[<<s, t>>] = w
  /\ <<t, s>> \notin DOMAIN c.distances => d.distances[<<t, s>>] = w
  /\ \A p \in DOMAIN c.distances : p # <<s, t>> => d.distances[p] = c.distances[p]

LEMMA SetDistanceGrows ==
  ASSUME NEW c, Grows(c, c), NEW s, NEW t, NEW w \in Int
  PROVE  HasDistance(c, s, t, w, SetDistance(c, s, t, w))
<1> DEFINE there == With(c.distances, <<s, t>>, w)
           back == At(there, <<t, s>>, w)
           both == With(there, <<t, s>>, back)
           d == SetDistance(c, s, t, w)
<1>1. /\ there \in [DOMAIN c.distances \cup {<<s, t>>} -> Int]
      /\ there[<<s, t>>] = w
      /\ \A p \in DOMAIN c.distances : p # <<s, t>> => there[p] = c.distances[p]
  BY DEF Grows, AreDistances, With
<1>2. d = [c EXCEPT !.distances = both]
  BY DEF SetDistance
<1> HIDE DEF there
<1>3. /\ back \in Int
      /\ <<t, s>> \in DOMAIN there => back = there[<<t, s>>]
      /\ <<t, s>> \notin DOMAIN there => back = w
  BY <1>1 DEF At
<1> HIDE DEF back
<1>4. /\ both \in [DOMAIN c.distances \cup {<<s, t>>} \cup {<<t, s>>} -> Int]
      /\ both[<<t, s>>] = back
      /\ \A p \in DOMAIN c.distances \cup {<<s, t>>} : p # <<t, s>> => both[p] = there[p]
  BY <1>1, <1>3 DEF With
<1> HIDE DEF both, d
<1>5. d = [stops |-> c.stops, buses |-> c.buses, distances |-> both]
  BY <1>2 DEF Grows
<1>6. d.distances = both /\ d = [stops |-> c.stops, buses |-> c.buses, distances |-> d.distances]
  BY <1>5
<1>7. DOMAIN both = DOMAIN c.distances \cup {<<s, t>>, <<t, s>>}
  BY <1>4
<1>8. both \in [DOMAIN both -> Int] /\ IsFiniteSet(DOMAIN both)
  <2>1. IsFiniteSet(DOMAIN c.distances \cup {<<s, t>>} \cup {<<t, s>>})
    BY FS_AddElement DEF Grows, AreDistances
  <2>2. DOMAIN both = DOMAIN c.distances \cup {<<s, t>>} \cup {<<t, s>>}
    BY <1>4
  <2> QED BY <1>4, <2>1, <2>2
<1>9. both[<<s, t>>] = w /\ (<<t, s>> \notin DOMAIN c.distances => both[<<t, s>>] = w)
  <2>1. DOMAIN there = DOMAIN c.distances \cup {<<s, t>>}
    BY <1>1
  <2> QED BY <1>1, <1>3, <1>4, <2>1
<1>10. \A p \in DOMAIN c.distances : p # <<s, t>> => both[p] = c.distances[p]
  BY <1>1, <1>3, <1>4
<1>11. Grows(c, d) /\ d.distances = both
  <2>1. \A p \in DOMAIN both : p = <<p[1], p[2]>>
    BY <1>7 DEF Grows, AreDistances
  <2> QED BY <1>6, <1>7, <1>8, <2>1 DEF Grows, AreDistances
<1> QED BY <1>7, <1>9, <1>10, <1>11 DEF d, HasDistance

\* A function of a finite set has finitely many values.
LEMMA ValuesAreFinite ==
  ASSUME NEW S, IsFiniteSet(S), NEW f, f = [x \in S |-> f[x]]
  PROVE  IsFiniteSet({f[x] : x \in S})
<1> DEFINE T == {f[x] : x \in S}
<1>1. f \in [S -> T] /\ \A t \in T : \E x \in S : f[x] = t
  OBVIOUS
<1>2. f \in Surjection(S, T)
  BY <1>1 DEF Surjection
<1> QED BY <1>2, FS_Surjection

\* What SetDistances goes through, one distance after the other.
Sets(c, ds, set) ==
  /\ set[0] = c /\ set[Len(ds)] = SetDistances(c, ds)
  /\ \A n \in 0 .. Len(ds) : Grows(set[n], set[n]) /\ set[n].stops = c.stops /\ set[n].buses = c.buses
  /\ \A n \in 1 .. Len(ds) :
       set[n] = SetDistance(set[n - 1], ds[n].from, ds[n].to, ds[n].distance)

LEMMA SetDistancesOneByOne ==
  ASSUME NEW c, Grows(c, c), NEW ds, Len(ds) \in Nat, \A n \in 1 .. Len(ds) : ds[n].distance \in Int
  PROVE  \E set : Sets(c, ds, set)
<1> DEFINE m == Len(ds)
           Step(n, y) == SetDistance(y, ds[n].from, ds[n].to, ds[n].distance)
           BothWays(n) == {<<ds[n].from, ds[n].to>>, <<ds[n].to, ds[n].from>>}
           P == DOMAIN c.distances \cup {<<ds[n].from, ds[n].to>> : n \in 1 .. m}
                  \cup {<<ds[n].to, ds[n].from>> : n \in 1 .. m}
           X == {[stops |-> c.stops, buses |-> c.buses, distances |-> d] : d \in UNION {[D -> Int] : D \in SUBSET P}}
           F == [n \in 1 .. m |-> [y \in X |-> Step(n, y)]]
           IsSet(f) == f = [n \in 0 .. m |-> IF n = 0 THEN c ELSE Step(n, f[n - 1])]
           set == CHOOSE f : IsSet(f)
<1>1. SetDistances(c, ds) = set[m]
  BY DEF SetDistances
<1>0. IsFiniteSet(P)
  <2>1. IsFiniteSet(1 .. m)
    BY FS_Interval
  <2> HIDE DEF m
  <2> DEFINE way == [n \in 1 .. m |-> <<ds[n].from, ds[n].to>>]
             back == [n \in 1 .. m |-> <<ds[n].to, ds[n].from>>]
  <2>2. IsFiniteSet({way[n] : n \in 1 .. m}) /\ IsFiniteSet({back[n] : n \in 1 .. m})
    BY <2>1, ValuesAreFinite
  <2>3. /\ {way[n] : n \in 1 .. m} = {<<ds[n].from, ds[n].to>> : n \in 1 .. m}
        /\ {back[n] : n \in 1 .. m} = {<<ds[n].to, ds[n].from>> : n \in 1 .. m}
    OBVIOUS
  <2>4. IsFiniteSet(DOMAIN c.distances)
    BY DEF Grows, AreDistances
  <2> QED BY <2>2, <2>3, <2>4, FS_Union
<1>00. \A p \in P : p = <<p[1], p[2]>>
  BY DEF Grows, AreDistances
<1>2. ASSUME NEW y
      PROVE  y \in X <=> Grows(y, y) /\ y.stops = c.stops /\ y.buses = c.buses /\ DOMAIN y.distances \subseteq P
  <2>1. ASSUME y \in X PROVE Grows(y, y) /\ y.stops = c.stops /\ y.buses = c.buses /\ DOMAIN y.distances \subseteq P
    <3>1. PICK D \in SUBSET P : \E d \in [D -> Int] : y = [stops |-> c.stops, buses |-> c.buses, distances |-> d]
      BY <2>1
    <3>2. PICK d \in [D -> Int] : y = [stops |-> c.stops, buses |-> c.buses, distances |-> d]
      BY <3>1
    <3> HIDE DEF P
    <3>3. IsFiniteSet(D) /\ \A p \in D : p = <<p[1], p[2]>>
      BY <1>0, <1>00, FS_Subset
    <3> QED BY <3>2, <3>3 DEF Grows, AreDistances
  <2>2. ASSUME Grows(y, y), y.stops = c.stops, y.buses = c.buses, DOMAIN y.distances \subseteq P PROVE y \in X
    <3> HIDE DEF P
    <3> QED BY <2>2 DEF Grows, AreDistances
  <2> QED BY <2>1, <2>2
<1>3. c \in X
  <2>1. DOMAIN c.distances \subseteq P
    OBVIOUS
  <2> HIDE DEF X, P
  <2> QED BY <1>2, <2>1
<1>4. \A n \in 1 .. m : ds[n].distance \in Int /\ BothWays(n) \subseteq P
  OBVIOUS
<1> HIDE DEF X, P
<1>5. ASSUME NEW n \in 1 .. m, NEW y \in X
      PROVE  /\ Step(n, y) \in X /\ Grows(y, Step(n, y))
             /\ DOMAIN Step(n, y).distances = DOMAIN y.distances \cup BothWays(n)
  <2>1. Grows(y, y) /\ y.stops = c.stops /\ y.buses = c.buses /\ DOMAIN y.distances \subseteq P
    BY <1>2
  <2>2. Grows(y, Step(n, y)) /\ DOMAIN Step(n, y).distances = DOMAIN y.distances \cup BothWays(n)
    <3>1. Grows(y, y) /\ ds[n].distance \in Int
      BY <1>4, <2>1
    <3>2. HasDistance(y, ds[n].from, ds[n].to, ds[n].distance, Step(n, y))
      BY <3>1, SetDistanceGrows
    <3> HIDE DEF Step
    <3> QED BY <3>2 DEF HasDistance
  <2> HIDE DEF Step
  <2>3. Grows(Step(n, y), Step(n, y)) /\ Step(n, y).stops = y.stops /\ Step(n, y).buses = y.buses
    BY <2>2 DEF Grows
  <2> HIDE DEF BothWays
  <2> QED BY <1>2, <1>4, <2>1, <2>2, <2>3
<1> HIDE DEF Step, BothWays
<1>6. F \in [1 .. m -> [X -> X]]
  BY <1>5
<1>7. PICK g : Follows(g, X, c, m, F)
  <2> HIDE DEF F
  <2> QED BY <1>3, <1>6, StepByStep
<1>8. IsSet(g)
  <2> DEFINE w == [n \in 0 .. m |-> IF n = 0 THEN c ELSE Step(n, g[n - 1])]
  <2>1. ASSUME NEW n \in 0 .. m PROVE g[n] = IF n = 0 THEN c ELSE Step(n, g[n - 1])
    <3>1. CASE n = 0
      BY <3>1, <1>7 DEF Follows
    <3>2. CASE n # 0
      <4>1. n \in 1 .. m /\ n - 1 \in 0 .. m
        BY <3>2
      <4>2. g[n - 1] \in X /\ g[n] = F[n][g[n - 1]]
        BY <4>1, <1>7 DEF Follows
      <4> QED BY <3>2, <4>1, <4>2
    <3> QED BY <3>1, <3>2
  <2>2. g = w
    BY <2>1, <1>7 DEF Follows
  <2> HIDE DEF F
  <2> QED BY <2>2
<1>9. IsSet(set)
  <2> HIDE DEF IsSet
  <2> QED BY <1>8
<1> HIDE DEF set
<1>10. \A n \in 0 .. m : set[n] = IF n = 0 THEN c ELSE Step(n, set[n - 1])
  BY <1>9
<1> DEFINE Wrong == {n \in Nat : n \in 0 .. m /\ set[n] \notin X}
<1>11. Wrong = {}
  <2> SUFFICES ASSUME Wrong # {} PROVE FALSE
    OBVIOUS
  <2>1. set[0] \in X
    BY <1>3, <1>10
  <2>2. Wrong \subseteq Nat
    OBVIOUS
  <2> HIDE DEF Wrong
  <2>3. PICK n \in Wrong : \A d \in Wrong : n <= d
    BY <2>2, LeastNatural
  <2>4. n \in 0 .. m /\ set[n] \notin X /\ n # 0
    BY <2>1, <2>3 DEF Wrong
  <2>5. n - 1 \notin Wrong /\ n - 1 \in 0 .. m /\ n - 1 \in Nat /\ n \in 1 .. m
    BY <2>3, <2>4
  <2>6. set[n - 1] \in X
    BY <2>5 DEF Wrong
  <2>7. set[n] = Step(n, set[n - 1])
    BY <2>4, <1>10
  <2> QED BY <1>5, <2>4, <2>5, <2>6, <2>7
<1>12. \A n \in 0 .. m : Grows(set[n], set[n]) /\ set[n].stops = c.stops /\ set[n].buses = c.buses
  <2> SUFFICES ASSUME NEW n \in 0 .. m
               PROVE  Grows(set[n], set[n]) /\ set[n].stops = c.stops /\ set[n].buses = c.buses
    OBVIOUS
  <2>1. set[n] \in X
    BY <1>11
  <2> QED BY <1>2, <2>1
<1>13. set[0] = c
  BY <1>10
<1>14. \A n \in 1 .. m : set[n] = SetDistance(set[n - 1], ds[n].from, ds[n].to, ds[n].distance)
  BY <1>10 DEF Step
<1> QED BY <1>1, <1>12, <1>13, <1>14 DEF Sets

\* The distances agree when two for the same way are the same.
Agree(ds) ==
  \A k, l \in 1 .. Len(ds) : ds[k].from = ds[l].from /\ ds[k].to = ds[l].to => ds[k].distance = ds[l].distance

\* The first n of the distances: a way has its own; one that has none keeps what
\* it had, or else has that of the way back.
SaysOf(c, ds, n, distances) ==
  /\ \A p : p \in DOMAIN distances <=>
            \/ p \in DOMAIN c.distances
            \/ \E k \in 1 .. n : p \in {<<ds[k].from, ds[k].to>>, <<ds[k].to, ds[k].from>>}
  /\ \A k \in 1 .. n : distances[<<ds[k].from, ds[k].to>>] = ds[k].distance
  /\ \A p : (\A k \in 1 .. n : p # <<ds[k].from, ds[k].to>>) =>
       /\ p \in DOMAIN c.distances => distances[p] = c.distances[p]
       /\ \A k \in 1 .. n : p \notin DOMAIN c.distances /\ p = <<ds[k].to, ds[k].from>>
                             => distances[p] = ds[k].distance

LEMMA SetDistancesSay ==
  ASSUME NEW c, Grows(c, c), NEW ds, Len(ds) \in Nat, \A n \in 1 .. Len(ds) : ds[n].distance \in Int,
         Agree(ds)
  PROVE  Grows(c, SetDistances(c, ds)) /\ SaysOf(c, ds, Len(ds), SetDistances(c, ds).distances)
<1> DEFINE m == Len(ds)
           Wrong(set) == {n \in Nat : n \in 0 .. m /\ ~SaysOf(c, ds, n, set[n].distances)}
<1>1. PICK set : Sets(c, ds, set)
  BY SetDistancesOneByOne
<1>2. Wrong(set) = {}
  <2> SUFFICES ASSUME Wrong(set) # {} PROVE FALSE
    OBVIOUS
  <2>1. SaysOf(c, ds, 0, set[0].distances)
    BY <1>1 DEF Sets, SaysOf
  <2>2. Wrong(set) \subseteq Nat
    OBVIOUS
  <2> HIDE DEF Wrong
  <2>3. PICK n \in Wrong(set) : \A d \in Wrong(set) : n <= d
    BY <2>2, LeastNatural
  <2>4. n \in 0 .. m /\ ~SaysOf(c, ds, n, set[n].distances) /\ n # 0
    BY <2>1, <2>3 DEF Wrong
  <2>5. n - 1 \notin Wrong(set) /\ n - 1 \in 0 .. m /\ n - 1 \in Nat /\ n \in 1 .. m
    BY <2>3, <2>4
  <2> DEFINE e == set[n - 1].distances
             f == set[n].distances
             way(k) == <<ds[k].from, ds[k].to>>
             back(k) == <<ds[k].to, ds[k].from>>
             w == ds[n].distance
  <2>6. SaysOf(c, ds, n - 1, e)
    BY <2>5 DEF Wrong
  <2>7. /\ DOMAIN f = DOMAIN e \cup {way(n), back(n)}
        /\ f[way(n)] = w
        /\ back(n) \notin DOMAIN e => f[back(n)] = w
        /\ \A p \in DOMAIN e : p # way(n) => f[p] = e[p]
    <3>1. Grows(set[n - 1], set[n - 1]) /\ w \in Int
          /\ set[n] = SetDistance(set[n - 1], ds[n].from, ds[n].to, ds[n].distance)
      BY <1>1, <2>5 DEF Sets
    <3>2. HasDistance(set[n - 1], ds[n].from, ds[n].to, w, set[n])
      BY <3>1, SetDistanceGrows
    <3> QED BY <3>2 DEF HasDistance
  <2> HIDE DEF e, f
  <2>8. \A k \in 1 .. n : k \in 1 .. n - 1 \/ k = n
    BY <2>5
  <2>9. \A k \in 1 .. n - 1 : k \in 1 .. n /\ k \in 1 .. m
    BY <2>5
  <2>10. \A k \in 1 .. m : way(k) = way(n) => ds[k].distance = w
    BY <2>5 DEF Agree
  <2>11. \A k \in 1 .. m : back(k) = way(n) <=> way(k) = back(n)
    OBVIOUS
  <2>12. /\ \A p : p \in DOMAIN e <=>
                 p \in DOMAIN c.distances \/ \E k \in 1 .. n - 1 : p \in {way(k), back(k)}
         /\ \A k \in 1 .. n - 1 : e[way(k)] = ds[k].distance
         /\ \A p : (\A k \in 1 .. n - 1 : p # way(k)) =>
              /\ p \in DOMAIN c.distances => e[p] = c.distances[p]
              /\ \A k \in 1 .. n - 1 : p \notin DOMAIN c.distances /\ p = back(k) => e[p] = ds[k].distance
    BY <2>6 DEF SaysOf
  <2>13. \A p : p \in DOMAIN f <=>
             p \in DOMAIN c.distances \/ \E k \in 1 .. n : p \in {way(k), back(k)}
    <3>1. \A p : p \in DOMAIN f <=> p \in DOMAIN e \/ p \in {way(n), back(n)}
      BY <2>7
    <3>2. n \in 1 .. n
      BY <2>5
    <3> HIDE DEF way, back
    <3> QED BY <2>8, <2>9, <2>12, <3>1, <3>2
  <2>14. ASSUME NEW k \in 1 .. n PROVE f[way(k)] = ds[k].distance
    <3>1. CASE way(k) = way(n)
      BY <2>7, <2>8, <2>9, <2>10, <3>1
    <3>2. CASE way(k) # way(n)
      <4>1. k \in 1 .. n - 1
        BY <2>8, <3>2
      <4>2. way(k) \in DOMAIN e /\ e[way(k)] = ds[k].distance
        BY <2>12, <4>1
      <4> QED BY <2>7, <3>2, <4>2
    <3> QED BY <3>1, <3>2
  <2>15. ASSUME NEW p, \A k \in 1 .. n : p # way(k)
         PROVE  /\ p \in DOMAIN c.distances => f[p] = c.distances[p]
                /\ \A k \in 1 .. n : p \notin DOMAIN c.distances /\ p = back(k) => f[p] = ds[k].distance
    <3>1. p # way(n) /\ \A k \in 1 .. n - 1 : p # way(k)
      BY <2>5, <2>9, <2>15
    <3>2. p \in DOMAIN c.distances => f[p] = c.distances[p]
      BY <2>7, <2>12, <3>1
    <3>3. ASSUME NEW k \in 1 .. n, p \notin DOMAIN c.distances, p = back(k) PROVE f[p] = ds[k].distance
      <4>1. CASE k \in 1 .. n - 1
        <5>1. p \in DOMAIN e /\ e[p] = ds[k].distance
          BY <2>12, <3>1, <3>3, <4>1
        <5> QED BY <2>7, <3>1, <5>1
      <4>2. CASE k = n /\ p \notin DOMAIN e
        BY <2>7, <3>3, <4>2
      <4>3. CASE k = n /\ p \in DOMAIN e
        <5>1. PICK l \in 1 .. n - 1 : p = back(l)
          BY <2>12, <3>1, <3>3, <4>3
        <5>2. way(l) = way(n)
          BY <3>3, <4>3, <5>1
        <5>3. ds[l].distance = w /\ e[p] = ds[l].distance
          BY <2>9, <2>10, <2>12, <3>1, <3>3, <5>1, <5>2
        <5> QED BY <2>7, <3>1, <4>3, <5>3
      <4> QED BY <2>8, <4>1, <4>2, <4>3
    <3> QED BY <3>2, <3>3
  <2>16. SaysOf(c, ds, n, f)
    BY <2>13, <2>14, <2>15 DEF SaysOf
  <2> QED BY <2>4, <2>16 DEF f
<1>3. SaysOf(c, ds, m, set[m].distances) /\ set[m] = SetDistances(c, ds)
      /\ Grows(set[m], set[m]) /\ set[m].stops = c.stops /\ set[m].buses = c.buses
  <2>1. m \in 0 .. m /\ m \in Nat
    OBVIOUS
  <2> QED BY <1>1, <1>2, <2>1 DEF Sets
<1>4. DOMAIN c.distances \subseteq DOMAIN set[m].distances
  BY <1>3 DEF SaysOf
<1> HIDE DEF m
<1>5. Grows(c, set[m])
  BY <1>3, <1>4 DEF Grows
<1> QED BY <1>3, <1>5 DEF m

LEMMA GrowthKeeps ==
  ASSUME NEW c, CatalogueInv(c), NEW d, Grows(c, d)
  PROVE  CatalogueInv(d)
<1>1. /\ d.stops = c.stops /\ d.buses = c.buses
      /\ d = [stops |-> d.stops, buses |-> d.buses, distances |-> d.distances]
  BY DEF Grows
<1> QED BY <1>1 DEF CatalogueInv, Grows, IsLine

LEMMA GrowsFromItself ==
  ASSUME NEW c, CatalogueInv(c)
  PROVE  Grows(c, c)
BY DEF CatalogueInv, Grows

\* SetToSeq gives a finite set as a sequence.
LEMMA AsASequence ==
  ASSUME NEW S, IsFiniteSet(S)
  PROVE  /\ SetToSeq(S) \in Seq(S) /\ DOMAIN SetToSeq(S) = 1 .. Len(SetToSeq(S))
         /\ ToSet(SetToSeq(S)) = S
<1> DEFINE m == Cardinality(S)
           f == SetToSeq(S)
<1>1. m \in Nat /\ ExistsBijection(1 .. m, S)
  BY FS_CardinalityType
<1>2. \E g \in [1 .. m -> S] : IsInjective(g)
  BY <1>1 DEF ExistsBijection, Bijection, Injection
<1>3. f \in [1 .. m -> S] /\ IsInjective(f)
  BY <1>2 DEF SetToSeq
<1> HIDE DEF f
<1>4. f \in Injection(1 .. m, S)
  BY <1>3 DEF Injection, IsInjective
<1>5. IsFiniteSet(1 .. m) /\ Cardinality(1 .. m) = m
  BY <1>1, FS_Interval
<1>6. f \in Surjection(1 .. m, S)
  BY <1>4, <1>5, FS_Injection
<1>7. f \in Seq(S) /\ DOMAIN f = 1 .. Len(f)
  BY <1>1, <1>3
<1>8. ToSet(f) = S
  BY <1>3, <1>6 DEF ToSet, Surjection
<1> QED BY <1>7, <1>8 DEF f

\* A stop has told d what the distances e say of it: a road from it has the
\* length in the table; the way back has a length of its own or the same.
Told(d, s, table, e) ==
  /\ \A p : p \in DOMAIN e <=>
       p \in DOMAIN d \/ \E t \in DOMAIN table : p \in {<<s, t>>, <<t, s>>}
  /\ \A t \in DOMAIN table : e[<<s, t>>] = table[t]
  /\ \A p : (\A t \in DOMAIN table : p # <<s, t>>) =>
       /\ p \in DOMAIN d => e[p] = d[p]
       /\ \A t \in DOMAIN table : p \notin DOMAIN d /\ p = <<t, s>> => e[p] = table[t]

IsTable(table) == IsFiniteSet(DOMAIN table) /\ \A t \in DOMAIN table : table[t] \in Int

\* What is read of a stop: its place, its distances, and nothing about buses.
LEMMA HandleAddStopSays ==
  ASSUME NEW c, Grows(c, c), NEW request, NEW table, IsTable(table),
         Gives(DistancesFrom(request), table)
  PROVE  /\ Grows(AddStop(c, request.name, request.coordinates), HandleAddStop(c, request))
         /\ HandleAddStop(c, request).buses = c.buses
         /\ DOMAIN c.distances \subseteq DOMAIN HandleAddStop(c, request).distances
         /\ Told(c.distances, request.name, table, HandleAddStop(c, request).distances)
<1> DEFINE distances == DistancesFrom(request)
           s == request.name
           ds == [k \in DOMAIN distances |->
                   [from |-> s, to |-> distances[k].to, distance |-> distances[k].distance]]
           d == AddStop(c, s, request.coordinates)
           e == SetDistances(d, ds)
<1>1. HandleAddStop(c, request) = e
  BY DEF HandleAddStop
<1>2. /\ distances \in Seq(ToSet(distances)) /\ Len(distances) \in Nat
      /\ DOMAIN distances = 1 .. Len(distances)
      /\ {distances[k].to : k \in DOMAIN distances} = DOMAIN table
      /\ \A k \in DOMAIN distances : distances[k].distance = table[distances[k].to]
  BY DEF Gives
<1>3. Grows(d, d) /\ d.buses = c.buses /\ d.distances = c.distances
  <2> DEFINE stops == With(c.stops, s, [StopOf(c, s) EXCEPT !.coordinates = request.coordinates])
  <2>1. d = [c EXCEPT !.stops = stops]
    BY DEF AddStop
  <2>2. c = [stops |-> c.stops, buses |-> c.buses, distances |-> c.distances]
    BY DEF Grows
  <2> HIDE DEF d, stops
  <2>3. d = [stops |-> stops, buses |-> c.buses, distances |-> c.distances]
    BY <2>1, <2>2
  <2>4. /\ d = [stops |-> d.stops, buses |-> d.buses, distances |-> d.distances]
        /\ d.buses = c.buses /\ d.distances = c.distances
    BY <2>3
  <2> QED BY <2>4 DEF Grows
<1> HIDE DEF d, distances
<1>4. /\ Len(ds) = Len(distances) /\ Len(ds) \in Nat
      /\ \A k \in 1 .. Len(ds) :
           /\ ds[k].from = s /\ ds[k].to \in DOMAIN table /\ ds[k].distance = table[ds[k].to]
      /\ \A t \in DOMAIN table : \E k \in 1 .. Len(ds) : ds[k].to = t
  BY <1>2
<1> HIDE DEF ds, s
<1>5. Agree(ds) /\ \A k \in 1 .. Len(ds) : ds[k].distance \in Int
  <2>1. ASSUME NEW k \in 1 .. Len(ds), NEW l \in 1 .. Len(ds), ds[k].to = ds[l].to
        PROVE  ds[k].distance = ds[l].distance
    <3>1. ds[k].distance = table[ds[k].to] /\ ds[l].distance = table[ds[l].to]
      BY <1>4
    <3> QED BY <2>1, <3>1
  <2>2. \A k \in 1 .. Len(ds) : ds[k].distance \in Int
    BY <1>4 DEF IsTable
  <2> QED BY <2>1, <2>2 DEF Agree
<1>6. Grows(d, e) /\ SaysOf(d, ds, Len(ds), e.distances)
  BY <1>3, <1>4, <1>5, SetDistancesSay
<1> HIDE DEF e
<1>7. /\ \A p : p \in DOMAIN e.distances <=>
                p \in DOMAIN c.distances
                  \/ \E k \in 1 .. Len(ds) : p \in {<<s, ds[k].to>>, <<ds[k].to, s>>}
      /\ \A k \in 1 .. Len(ds) : e.distances[<<s, ds[k].to>>] = table[ds[k].to]
      /\ \A p : (\A k \in 1 .. Len(ds) : p # <<s, ds[k].to>>) =>
           /\ p \in DOMAIN c.distances => e.distances[p] = c.distances[p]
           /\ \A k \in 1 .. Len(ds) : p \notin DOMAIN c.distances /\ p = <<ds[k].to, s>>
                                     => e.distances[p] = table[ds[k].to]
  <2> DEFINE way(k) == <<ds[k].from, ds[k].to>>
             back(k) == <<ds[k].to, ds[k].from>>
             f == e.distances
  <2>1. /\ \A p : p \in DOMAIN f <=>
               p \in DOMAIN c.distances \/ \E k \in 1 .. Len(ds) : p \in {way(k), back(k)}
        /\ \A k \in 1 .. Len(ds) : f[way(k)] = ds[k].distance
        /\ \A p : (\A k \in 1 .. Len(ds) : p # way(k)) =>
             /\ p \in DOMAIN c.distances => f[p] = c.distances[p]
             /\ \A k \in 1 .. Len(ds) : p \notin DOMAIN c.distances /\ p = back(k) => f[p] = ds[k].distance
    BY <1>3, <1>6 DEF SaysOf
  <2>2. \A k \in 1 .. Len(ds) : /\ way(k) = <<s, ds[k].to>> /\ back(k) = <<ds[k].to, s>>
                                /\ ds[k].distance = table[ds[k].to]
    BY <1>4
  <2> HIDE DEF way, back, f
  <2>3. /\ \A p : p \in DOMAIN f <=>
               p \in DOMAIN c.distances \/ \E k \in 1 .. Len(ds) : p \in {<<s, ds[k].to>>, <<ds[k].to, s>>}
        /\ \A k \in 1 .. Len(ds) : f[<<s, ds[k].to>>] = table[ds[k].to]
    BY <2>1, <2>2
  <2>4. ASSUME NEW p, \A k \in 1 .. Len(ds) : p # <<s, ds[k].to>>
        PROVE  /\ p \in DOMAIN c.distances => f[p] = c.distances[p]
               /\ \A k \in 1 .. Len(ds) :
                    p \notin DOMAIN c.distances /\ p = <<ds[k].to, s>> => f[p] = table[ds[k].to]
    <3>1. \A k \in 1 .. Len(ds) : p # way(k)
      BY <2>2, <2>4
    <3> QED BY <2>1, <2>2, <3>1
  <2> QED BY <2>3, <2>4 DEF f
<1>8. Told(c.distances, s, table, e.distances)
  <2>1. ASSUME NEW p PROVE p \in DOMAIN e.distances <=>
             p \in DOMAIN c.distances \/ \E t \in DOMAIN table : p \in {<<s, t>>, <<t, s>>}
    BY <1>4, <1>7
  <2>2. ASSUME NEW t \in DOMAIN table PROVE e.distances[<<s, t>>] = table[t]
    <3>1. PICK k \in 1 .. Len(ds) : ds[k].to = t
      BY <1>4
    <3> QED BY <1>7, <3>1
  <2>3. ASSUME NEW p, \A t \in DOMAIN table : p # <<s, t>>
        PROVE  /\ p \in DOMAIN c.distances => e.distances[p] = c.distances[p]
               /\ \A t \in DOMAIN table :
                    p \notin DOMAIN c.distances /\ p = <<t, s>> => e.distances[p] = table[t]
    <3>1. \A k \in 1 .. Len(ds) : p # <<s, ds[k].to>>
      BY <1>4, <2>3
    <3>2. p \in DOMAIN c.distances => e.distances[p] = c.distances[p]
      BY <1>7, <3>1
    <3>3. ASSUME NEW t \in DOMAIN table, p \notin DOMAIN c.distances, p = <<t, s>>
          PROVE  e.distances[p] = table[t]
      <4>1. PICK k \in 1 .. Len(ds) : ds[k].to = t
        BY <1>4
      <4> QED BY <1>7, <3>1, <3>3, <4>1
    <3> QED BY <3>2, <3>3
  <2> QED BY <2>1, <2>2, <2>3 DEF Told
<1>9. d.buses = e.buses /\ DOMAIN d.distances \subseteq DOMAIN e.distances
  BY <1>6 DEF Grows
<1> QED BY <1>1, <1>3, <1>6, <1>8, <1>9 DEF d, s

LEMMA DistancesAreNatural ==
  ASSUME NEW n \in Int
  PROVE  AsDistance(n) \in Nat
<1>1. DistanceSize \in Int /\ DistanceSize > 0
  BY DistanceAssumption
<1> QED BY <1>1 DEF AsDistance

LEMMA RoadDistancesAreTables ==
  ASSUME NEW request, IsRequest(request), IsComplete(request), request.type = "Stop"
  PROVE  /\ IsTable(RoadDistances(request))
         /\ \A t \in DOMAIN RoadDistances(request) : RoadDistances(request)[t] \in Nat
<1>1. /\ IsFiniteSet(DOMAIN request.road_distances)
      /\ \A t \in DOMAIN request.road_distances : request.road_distances[t] \in Int
  BY DEF IsRequest
<1>2. \A t \in DOMAIN request.road_distances : AsDistance(request.road_distances[t]) \in Nat
  BY <1>1, DistancesAreNatural
<1> QED BY <1>1, <1>2 DEF IsTable, RoadDistances

\* The distances of a stop, from JSON, are those of its request.
LEMMA JSONGives ==
  ASSUME NEW request, IsRequest(request), IsComplete(request), request.type = "Stop",
         Run.mode # "text"
  PROVE  /\ IsTable(RoadDistances(request))
         /\ Gives(DistancesFrom(request), RoadDistances(request))
<1> DEFINE table == RoadDistances(request)
           names == SetToSeq(DOMAIN table)
           distances == [k \in DOMAIN names |-> [to |-> names[k], distance |-> table[names[k]]]]
<1>1. IsTable(table)
  BY RoadDistancesAreTables
<1>2. distances = DistancesFrom(request)
  BY DEF DistancesFrom, table, names
<1> HIDE DEF table
<1>3. /\ names \in Seq(DOMAIN table) /\ DOMAIN names = 1 .. Len(names) /\ Len(names) \in Nat
      /\ {names[k] : k \in 1 .. Len(names)} = DOMAIN table
  <2> DEFINE S == DOMAIN table
             q == SetToSeq(S)
  <2>1. IsFiniteSet(S)
    BY <1>1 DEF IsTable
  <2> HIDE DEF S
  <2>2. q \in Seq(S) /\ DOMAIN q = 1 .. Len(q) /\ ToSet(q) = S
    BY <2>1, AsASequence
  <2> HIDE DEF q
  <2>3. Len(q) \in Nat /\ {q[k] : k \in 1 .. Len(q)} = S
    BY <2>2 DEF ToSet
  <2> QED BY <2>2, <2>3 DEF names, q, S
<1> HIDE DEF names
<1>4. /\ distances \in Seq(ToSet(distances))
      /\ \A k \in DOMAIN distances : distances[k].distance = table[distances[k].to]
  BY <1>3 DEF ToSet
<1>5. {distances[k].to : k \in DOMAIN distances} = DOMAIN table
  BY <1>3
<1>6. Gives(distances, table)
  BY <1>4, <1>5 DEF Gives
<1>7. Gives(DistancesFrom(request), table)
  BY <1>2, <1>6
<1> QED BY <1>1, <1>7 DEF table

\* And so are those of a line that says the same.
LEMMA TextGives ==
  ASSUME NEW said, NEW request, Gives(said.distances, request.road_distances), Run.mode = "text"
  PROVE  Gives(DistancesFrom(said), RoadDistances(request))
<1> DEFINE given == said.distances
           table == request.road_distances
           distances == [k \in DOMAIN given |->
                          [to |-> given[k].to, distance |-> AsDistance(given[k].distance)]]
<1>1. distances = DistancesFrom(said)
  BY DEF DistancesFrom
<1>2. /\ given \in Seq(ToSet(given)) /\ {given[k].to : k \in DOMAIN given} = DOMAIN table
      /\ \A k \in DOMAIN given : given[k].distance = table[given[k].to]
  BY DEF Gives
<1> HIDE DEF given, table
<1>3. Len(given) \in Nat /\ DOMAIN given = 1 .. Len(given)
  BY <1>2
<1>4. distances \in Seq(ToSet(distances)) /\ DOMAIN distances = DOMAIN given
  BY <1>3 DEF ToSet
<1>5. \A k \in DOMAIN distances :
        distances[k].to = given[k].to /\ distances[k].distance = AsDistance(table[given[k].to])
  BY <1>2, <1>4
<1>6. {distances[k].to : k \in DOMAIN distances} = DOMAIN table
  BY <1>2, <1>4, <1>5
<1>7. /\ DOMAIN RoadDistances(request) = DOMAIN table
      /\ \A t \in DOMAIN table : RoadDistances(request)[t] = AsDistance(table[t])
  BY DEF RoadDistances, table
<1>8. \A k \in DOMAIN distances : distances[k].distance = RoadDistances(request)[distances[k].to]
  BY <1>2, <1>4, <1>5, <1>7
<1> HIDE DEF distances
<1>9. Gives(distances, RoadDistances(request))
  BY <1>4, <1>6, <1>7, <1>8 DEF Gives
<1> QED BY <1>1, <1>9

LEMMA HandleAddStopKeeps ==
  ASSUME NEW c, CatalogueInv(c), NEW request, IsRequest(request), IsComplete(request),
         request.type = "Stop", Run.mode # "text"
  PROVE  CatalogueInv(HandleAddStop(c, request))
<1> DEFINE d == HandleAddStop(c, request)
           place == AddStop(c, request.name, request.coordinates)
<1>1. Grows(c, c)
  BY GrowsFromItself
<1>2. IsTable(RoadDistances(request)) /\ Gives(DistancesFrom(request), RoadDistances(request))
  BY JSONGives
<1>3. Grows(place, d) /\ d.buses = c.buses /\ DOMAIN c.distances \subseteq DOMAIN d.distances
  BY <1>1, <1>2, HandleAddStopSays
<1> HIDE DEF d, place
<1>4. AreDistances(d.distances) /\ d = [stops |-> d.stops, buses |-> d.buses, distances |-> d.distances]
  <2>1. d.stops = place.stops /\ d.buses = place.buses
    BY <1>3 DEF Grows
  <2> QED BY <1>3, <2>1 DEF Grows
<1>5. CatalogueInv(d)
  BY <1>3, <1>4 DEF CatalogueInv, IsLine
<1> QED BY <1>5 DEF d

LEMMA EmptyCatalogueFits == CatalogueInv(EmptyCatalogue)
<1>1. /\ EmptyCatalogue.buses = Empty /\ EmptyCatalogue.distances = Empty
      /\ EmptyCatalogue = [stops |-> EmptyCatalogue.stops, buses |-> EmptyCatalogue.buses,
                           distances |-> EmptyCatalogue.distances]
  BY DEF EmptyCatalogue
<1>2. DOMAIN Empty = {} /\ Empty \in [DOMAIN Empty -> Int]
  BY DEF Empty
<1> QED BY <1>1, <1>2, FS_EmptySet DEF CatalogueInv, AreDistances

\* Before the buses, the stops and the distances are restored: those that were
\* stored, and those of the ways back, in whatever order they come.
LEMMA RestoredDistances ==
  ASSUME BaseInv, OrdersEnumerate, NEW order \in Orders(DOMAIN base.distances)
  PROVE  \E c :
           /\ Restored(order) = RestoredBuses(c, base.buses, SetToSeq(DOMAIN base.buses))
           /\ CatalogueInv(c) /\ c.buses = Empty
           /\ c.stops = [s \in DOMAIN base.stops |-> [coordinates |-> base.stops[s], buses |-> {}]]
           /\ \A p : p \in DOMAIN c.distances <=>
                      \E leg \in DOMAIN base.distances : p \in {leg, <<leg[2], leg[1]>>}
           /\ \A leg \in DOMAIN base.distances : c.distances[leg] = base.distances[leg]
<1> DEFINE places == [s \in DOMAIN base.stops |-> [coordinates |-> base.stops[s], buses |-> {}]]
           stops == [EmptyCatalogue EXCEPT !.stops = places]
           ds == [k \in DOMAIN order |-> [from |-> order[k][1], to |-> order[k][2],
                                          distance |-> base.distances[order[k]]]]
           c == SetDistances(stops, ds)
<1>1. Restored(order) = RestoredBuses(c, base.buses, SetToSeq(DOMAIN base.buses))
  BY DEF Restored
<1>2. order \in Seq(DOMAIN base.distances) /\ ToSet(order) = DOMAIN base.distances
  BY DEF OrdersEnumerate, BaseInv, AreDistances
<1>3. Len(order) \in Nat /\ DOMAIN order = 1 .. Len(order) /\ \A k \in 1 .. Len(order) : order[k] \in DOMAIN base.distances
  BY <1>2
<1>4. /\ Len(ds) = Len(order)
      /\ \A n \in 1 .. Len(ds) :
           /\ ds[n].distance \in Int /\ ds[n].distance = base.distances[order[n]]
           /\ ds[n].from = order[n][1] /\ ds[n].to = order[n][2]
  BY <1>3 DEF BaseInv, AreDistances
<1>5. CatalogueInv(stops)
  <2> HIDE DEF places
  <2>1. stops = [stops |-> places, buses |-> Empty, distances |-> Empty]
    <3> DEFINE e == Empty
    <3>1. EmptyCatalogue = [stops |-> e, buses |-> e, distances |-> e]
      BY DEF EmptyCatalogue
    <3> HIDE DEF e
    <3>2. stops = [stops |-> places, buses |-> e, distances |-> e]
      BY <3>1
    <3> QED BY <3>2 DEF e
  <2> HIDE DEF stops
  <2>2. stops = [stops |-> stops.stops, buses |-> stops.buses, distances |-> stops.distances]
    BY <2>1
  <2>3. stops.buses = Empty /\ stops.distances = Empty
    BY <2>1
  <2>4. DOMAIN Empty = {} /\ Empty \in [DOMAIN Empty -> Int]
    BY DEF Empty
  <2> QED BY <2>2, <2>3, <2>4, FS_EmptySet DEF CatalogueInv, AreDistances
<1> HIDE DEF stops, ds
<1>6. Grows(stops, c) /\ SaysOf(stops, ds, Len(ds), c.distances)
  <2>1. \A k \in 1 .. Len(order) : order[k] = <<order[k][1], order[k][2]>>
    BY <1>3 DEF BaseInv, AreDistances
  <2>2. \A k, l \in 1 .. Len(ds) :
          ds[k].from = ds[l].from /\ ds[k].to = ds[l].to => ds[k].distance = ds[l].distance
    BY <1>4, <2>1
  <2>3. Agree(ds)
    BY <2>2 DEF Agree
  <2> QED BY <1>3, <1>4, <1>5, <2>3, GrowsFromItself, SetDistancesSay
<1> HIDE DEF c
<1>7. CatalogueInv(c)
  BY <1>5, <1>6, GrowthKeeps
<1>11. stops.distances = Empty /\ stops.buses = Empty /\ DOMAIN Empty = {} /\ stops.stops = places
  <2> DEFINE e == Empty
  <2>1. EmptyCatalogue = [stops |-> e, buses |-> e, distances |-> e]
    BY DEF EmptyCatalogue
  <2> HIDE DEF e, places
  <2>2. stops = [stops |-> places, buses |-> e, distances |-> e]
    BY <2>1 DEF stops
  <2> QED BY <2>2 DEF e, Empty
<1>12. \A n \in 1 .. Len(ds) : /\ order[n] = <<ds[n].from, ds[n].to>>
                              /\ <<order[n][2], order[n][1]>> = <<ds[n].to, ds[n].from>>
                              /\ order[n] \in DOMAIN base.distances
                              /\ ds[n].distance = base.distances[order[n]]
  BY <1>3, <1>4 DEF BaseInv, AreDistances
<1>13. \A leg \in DOMAIN base.distances : \E n \in 1 .. Len(ds) : order[n] = leg
  BY <1>2, <1>3, <1>4 DEF ToSet
<1>14. ASSUME NEW p
       PROVE  p \in DOMAIN c.distances <=>
                \E leg \in DOMAIN base.distances : p \in {leg, <<leg[2], leg[1]>>}
  <2>1. p \in DOMAIN c.distances <=>
          \E n \in 1 .. Len(ds) : p \in {<<ds[n].from, ds[n].to>>, <<ds[n].to, ds[n].from>>}
    BY <1>6, <1>11 DEF SaysOf
  <2>2. p \in DOMAIN c.distances <=>
          \E n \in 1 .. Len(ds) : p \in {order[n], <<order[n][2], order[n][1]>>}
    BY <1>12, <2>1
  <2> QED BY <1>12, <1>13, <2>2
<1>15. ASSUME NEW leg \in DOMAIN base.distances PROVE c.distances[leg] = base.distances[leg]
  <2>1. PICK n \in 1 .. Len(ds) : order[n] = leg
    BY <1>13
  <2>2. c.distances[<<ds[n].from, ds[n].to>>] = ds[n].distance
    BY <1>6 DEF SaysOf
  <2> QED BY <1>12, <2>1, <2>2
<1>16. c.buses = Empty /\ c.stops = places
  BY <1>6, <1>11 DEF Grows
<1> QED BY <1>1, <1>7, <1>14, <1>15, <1>16

\* So are the lines, and their legs are there.
LEMMA RestoredFits ==
  ASSUME BaseInv, OrdersEnumerate, NEW order \in Orders(DOMAIN base.distances)
  PROVE  /\ CatalogueInv(Restored(order))
         /\ \A p : p \in DOMAIN Restored(order).distances <=>
                    \E leg \in DOMAIN base.distances : p \in {leg, <<leg[2], leg[1]>>}
         /\ \A leg \in DOMAIN base.distances : Restored(order).distances[leg] = base.distances[leg]
         /\ (\A b \in DOMAIN base.buses : IsClosed(BusStops(base.buses[b].stops, ~base.buses[b].is_roundtrip)))
              => LinesAreClosed(Restored(order))
<1> DEFINE buses == SetToSeq(DOMAIN base.buses)
<1>1. PICK c :
        /\ Restored(order) = RestoredBuses(c, base.buses, buses)
        /\ CatalogueInv(c) /\ c.buses = Empty
        /\ \A p : p \in DOMAIN c.distances <=>
                   \E leg \in DOMAIN base.distances : p \in {leg, <<leg[2], leg[1]>>}
        /\ \A leg \in DOMAIN base.distances : c.distances[leg] = base.distances[leg]
  BY RestoredDistances
<1>2. \A b \in DOMAIN base.buses : IsLine(base.buses[b].stops, ~base.buses[b].is_roundtrip, c.distances)
  <2> SUFFICES ASSUME NEW b \in DOMAIN base.buses
               PROVE  IsLine(base.buses[b].stops, ~base.buses[b].is_roundtrip, c.distances)
    OBVIOUS
  <2> DEFINE list == base.buses[b].stops
             one_way == ~base.buses[b].is_roundtrip
  <2>1. IsLine(list, one_way, base.distances)
    BY DEF BaseInv
  <2> HIDE DEF list, one_way
  <2>2. DOMAIN base.distances \subseteq DOMAIN c.distances
    BY <1>1
  <2>3. IsLine(list, one_way, c.distances)
    BY <2>1, <2>2 DEF IsLine
  <2> QED BY <2>3 DEF list, one_way
<1>3. buses \in Seq(DOMAIN base.buses)
  BY AsASequence DEF BaseInv
<1> HIDE DEF buses
<1> DEFINE all_closed == \A b \in DOMAIN base.buses :
                           IsClosed(BusStops(base.buses[b].stops, ~base.buses[b].is_roundtrip))
<1>4. /\ Keeps(c, RestoredBuses(c, base.buses, buses))
      /\ LinesAreClosed(c) /\ all_closed => LinesAreClosed(RestoredBuses(c, base.buses, buses))
  BY <1>1, <1>2, <1>3, RestoredBusesKeep
<1>5. LinesAreClosed(c)
  BY <1>1 DEF LinesAreClosed, Empty
<1> HIDE DEF all_closed
<1>6. all_closed => LinesAreClosed(Restored(order))
  BY <1>1, <1>4, <1>5
<1> QED BY <1>1, <1>4, <1>6 DEF Keeps, all_closed

LEMMA EmptyBaseFits == base = EmptyBase => BaseInv
<1>1. DOMAIN Empty = {} /\ Empty \in [DOMAIN Empty -> Int]
  BY DEF Empty
<1>2. EmptyBase.distances = Empty /\ EmptyBase.buses = Empty /\ EmptyBase.bus_wait_time = 0
  BY DEF EmptyBase
<1> SUFFICES ASSUME base = EmptyBase PROVE BaseInv
  OBVIOUS
<1>3. base.distances = Empty /\ base.buses = Empty /\ base.bus_wait_time \in Int
  BY <1>2
<1>4. IsFiniteSet(DOMAIN Empty) /\ AreDistances(Empty)
  BY <1>1, FS_EmptySet DEF AreDistances
<1> QED BY <1>1, <1>3, <1>4 DEF BaseInv

(***************************************************************************)
(* The steps of a run.                                                     *)
(***************************************************************************)
\* The run is one of the inputs that a program may have.
LEMMA RunIsInput ==
  ASSUME ProgramInv, stage # "start"
  PROVE  IsInput(Run)
<1>1. runs \in Seq(ToSet(runs)) /\ \A input \in ToSet(runs) : IsInput(input)
  BY ProgramAssumption DEF ProgramInv
<1>2. Run \in ToSet(runs)
  BY DEF ProgramInv, Run, ToSet
<1> QED BY <1>1, <1>2

\* The graph stays that of the lines as long as neither changes.
LEMMA LinesStay ==
  ASSUME GraphInv, edges' = edges, UNCHANGED transportVars
  PROVE  GraphInv'
<1>1. catalogue' = catalogue /\ bus_wait_time' = bus_wait_time /\ stop_to_vertex' = stop_to_vertex
  BY DEF transportVars
<1>2. \A b, i, j : RideTime(b, i, j)' = RideTime(b, i, j)
  BY <1>1 DEF RideTime, Clock, Leg, Known
<1>3. \A k, b, i, j : IsRide(k, b, i, j)' <=> IsRide(k, b, i, j)
  BY <1>1, <1>2 DEF IsRide, Served
<1>4. Served' = Served
  BY <1>1 DEF Served
<1>5. \A k \in DOMAIN edges : \E b \in DOMAIN catalogue.buses :
        \E i, j \in DOMAIN catalogue.buses[b].stops : i < j /\ IsRide(k, b, i, j)'
  BY <1>3 DEF GraphInv
<1>6. \A b \in DOMAIN catalogue.buses : \A i, j \in DOMAIN catalogue.buses[b].stops :
        i < j => \E k \in DOMAIN edges : IsRide(k, b, i, j)'
  BY <1>3 DEF GraphInv
<1>7. /\ \A s \in Served : \E k \in DOMAIN edges : stop_to_vertex[s] \in {edges[k].from, edges[k].to}
      /\ \A s, t \in Served : stop_to_vertex[s] = stop_to_vertex[t] => s = t
      /\ \E n \in Nat : {stop_to_vertex[s] : s \in Served} = 0 .. n - 1
  BY DEF GraphInv
<1> QED BY <1>1, <1>4, <1>5, <1>6, <1>7 DEF GraphInv

\* Every way in which a process ends.
LEMMA EndKeeps ==
  ASSUME ProgramInv, NEW outcome, End(outcome), BaseInv'
  PROVE  ProgramInv'
<1>1. /\ run' = run + 1 /\ stage' = "start" /\ runs' = runs /\ next' = next
      /\ UNCHANGED routerVars /\ UNCHANGED transportVars
  BY DEF End
<1>2. edges' = edges /\ step' = step
  BY <1>1 DEF routerVars
<1>3. step' # "initialize" => GraphInv'
  BY <1>1, <1>2, LinesStay DEF ProgramInv
<1>4. run' \in Nat \ {0}
  BY <1>1 DEF ProgramInv
<1> QED BY <1>1, <1>3, <1>4 DEF ProgramInv

LEMMA BaseStays == BaseInv /\ UNCHANGED base => BaseInv'
BY DEF BaseInv

LEMMA StartKeeps ==
  ASSUME ProgramInv, Start
  PROVE  ProgramInv' /\ IsGraph' /\ Constructing'
<1>1. /\ runs' = runs /\ run' = run /\ next' = 1 /\ buses_queue' = <<>> /\ base' = base
      /\ catalogue' = EmptyCatalogue /\ edges' = <<>> /\ step' = "initialize"
      /\ stage' = IF Run.mode = "process_requests" THEN "restore" ELSE "add"
      /\ stage = "start" /\ run <= Len(runs)
  BY DEF Start, Construct
<1>2. Run' = Run
  BY <1>1 DEF Run
<1>3. runs \in Seq(ToSet(runs)) /\ \A input \in ToSet(runs) : IsInput(input)
  BY ProgramAssumption DEF ProgramInv
<1>4. run \in DOMAIN runs
  BY <1>1, <1>3 DEF ProgramInv
<1>5. IsInput(Run)
  BY <1>3, <1>4 DEF Run, ToSet
<1>6. bus_wait_time' \in Int
  BY <1>5, ProgramAssumption DEF Start, IsInput
<1>7. CatalogueInv(catalogue)'
  <2>1. CatalogueInv(EmptyCatalogue)
    BY EmptyCatalogueFits
  <2> QED BY <1>1, <2>1 DEF CatalogueInv, IsLine
<1>8. IsGraph'
  <2>1. edges' = <<>> /\ 0 \in Nat /\ DOMAIN edges' = 1 .. 0
    BY <1>1
  <2> QED BY <2>1 DEF IsGraph
<1>9. Constructing'
  BY DEF Start, Construct, Constructing
<1>10. BaseInv'
  BY <1>1, BaseStays DEF ProgramInv
<1>11. buses_queue' \in Seq(ToSet(Run'.base_requests)) /\ DOMAIN buses_queue' = {}
  BY <1>1
<1>12. run' \in Nat \ {0} /\ next' \in Nat \ {0} /\ runs' \in Program /\ run' \in DOMAIN runs'
  BY <1>1, <1>4 DEF ProgramInv
<1>13. /\ stage' \in {"restore", "add"}
       /\ stage' = "add" => Run'.mode # "process_requests"
  BY <1>1, <1>2
<1> QED BY <1>1, <1>6, <1>7, <1>8, <1>9, <1>10, <1>11, <1>12, <1>13 DEF ProgramInv

LEMMA RefuseSettingsKeeps ==
  ASSUME ProgramInv, RefuseSettings
  PROVE  ProgramInv'
BY EndKeeps, BaseStays DEF RefuseSettings, ProgramInv

LEMMA RefuseNextKeeps ==
  ASSUME ProgramInv, RefuseNext
  PROVE  ProgramInv'
BY EndKeeps, BaseStays DEF RefuseNext, ProgramInv

\* The request that comes next, when it is one of JSON.
LEMMA ComingRequest ==
  ASSUME ProgramInv, Comes, Run.mode # "text"
  PROVE  /\ next \in DOMAIN Run.base_requests /\ IncomingRequest = Run.base_requests[next]
         /\ IsRequest(IncomingRequest)
<1>1. IsInput(Run)
  BY RunIsInput DEF Comes
<1>2. Run.base_requests \in Seq(ToSet(Run.base_requests))
  BY <1>1 DEF IsInput
<1>3. next \in DOMAIN Run.base_requests /\ IncomingRequest = Run.base_requests[next]
  BY <1>2 DEF Comes, Incoming, IncomingRequest, ProgramInv
<1>4. IncomingRequest \in ToSet(Run.base_requests)
  BY <1>3 DEF ToSet
<1> QED BY <1>1, <1>3, <1>4 DEF IsInput

\* A bus that comes next, as JSON or as text, is the one of the base request.
LEMMA ComingBus ==
  ASSUME ProgramInv, Comes, IncomingOutcome = "ok", IncomingRequest.type = "Bus"
  PROVE  next \in DOMAIN Run.base_requests /\ IncomingRequest = Run.base_requests[next]
<1>1. CASE Run.mode # "text"
  BY <1>1, ComingRequest
<1>2. CASE Run.mode = "text"
  <2> DEFINE request == Run.base_requests[next]
             line == Run.lines[next]
  <2>1. IsInput(Run)
    BY RunIsInput DEF Comes
  <2>2. next \in DOMAIN Run.base_requests
    BY <1>2, <2>1 DEF Comes, Incoming, IsInput, ProgramInv
  <2>3. MeansTheSame(line, request) /\ IncomingRequest = ProcessedRequest(line) /\ LineOutcome(line) = "ok"
    BY <1>2, <2>1, <2>2 DEF IsInput, IncomingRequest, IncomingOutcome
  <2> HIDE DEF request, line
  <2>4. IncomingRequest = request
    BY <2>3 DEF MeansTheSame
  <2> QED BY <2>2, <2>4 DEF request
<1> QED BY <1>1, <1>2

LEMMA QueueBusKeeps ==
  ASSUME ProgramInv, QueueBus
  PROVE  ProgramInv'
<1>1. /\ buses_queue' = Append(buses_queue, IncomingRequest) /\ next' = next + 1
      /\ runs' = runs /\ run' = run /\ stage' = stage /\ base' = base /\ stage = "add"
      /\ step' = step /\ edges' = edges
      /\ UNCHANGED transportVars /\ catalogue' = catalogue /\ bus_wait_time' = bus_wait_time
      /\ Comes /\ IncomingRequest.type = "Bus"
  BY DEF QueueBus, IsNext, Comes, routerVars, transportVars
<1>2. Run' = Run
  BY <1>1 DEF Run
<1>3. /\ buses_queue' \in Seq(ToSet(Run.base_requests))
      /\ \A k \in DOMAIN buses_queue' : buses_queue'[k].type = "Bus"
  <2>1. /\ buses_queue \in Seq(ToSet(Run.base_requests))
        /\ \A k \in DOMAIN buses_queue : buses_queue[k].type = "Bus"
    BY <1>1 DEF ProgramInv
  <2>2. IncomingRequest \in ToSet(Run.base_requests)
    BY <1>1, ComingBus DEF QueueBus, IsNext, ToSet
  <2> DEFINE S == ToSet(Run.base_requests)
             r == IncomingRequest
  <2>3. r \in S /\ r.type = "Bus" /\ buses_queue \in Seq(S) /\ buses_queue' = Append(buses_queue, r)
    BY <1>1, <2>1, <2>2
  <2> HIDE DEF S, r
  <2>4. buses_queue' \in Seq(S)
    BY <2>3
  <2>5. \A k \in DOMAIN buses_queue' : buses_queue'[k].type = "Bus"
    BY <2>1, <2>3
  <2> QED BY <2>4, <2>5 DEF S
<1>4. BaseInv'
  BY <1>1, BaseStays DEF ProgramInv
<1>5. CatalogueInv(catalogue)' <=> CatalogueInv(catalogue)
  BY <1>1 DEF CatalogueInv, IsLine
<1>6. next' \in Nat \ {0}
  BY <1>1 DEF ProgramInv
<1> QED BY <1>1, <1>2, <1>3, <1>4, <1>5, <1>6 DEF ProgramInv

LEMMA AddNextStopKeeps ==
  ASSUME ProgramInv, AddNextStop
  PROVE  ProgramInv'
<1>1. /\ catalogue' = HandleAddStop(catalogue, IncomingRequest) /\ next' = next + 1
      /\ runs' = runs /\ run' = run /\ stage' = stage /\ base' = base /\ stage = "add"
      /\ step' = step /\ buses_queue' = buses_queue /\ bus_wait_time' = bus_wait_time
      /\ Comes /\ IncomingOutcome = "ok" /\ IncomingRequest.type = "Stop"
  BY DEF AddNextStop, IsNext, Comes, routerVars
<1>2. Run' = Run
  BY <1>1 DEF Run
<1>3. Run.mode # "text" => CatalogueInv(catalogue')
  <2> SUFFICES ASSUME Run.mode # "text" PROVE CatalogueInv(catalogue')
    OBVIOUS
  <2>1. IsRequest(IncomingRequest)
    BY <1>1, ComingRequest
  <2>2. IsComplete(IncomingRequest)
    BY <1>1 DEF IncomingOutcome
  <2>3. CatalogueInv(catalogue)
    BY <1>1 DEF ProgramInv
  <2>4. CatalogueInv(HandleAddStop(catalogue, IncomingRequest))
    BY <1>1, <2>1, <2>2, <2>3, HandleAddStopKeeps
  <2> QED BY <1>1, <2>4
<1>4. CatalogueInv(catalogue)' <=> CatalogueInv(catalogue')
  BY DEF CatalogueInv, IsLine
<1>5. BaseInv'
  BY <1>1, BaseStays DEF ProgramInv
<1>6. next' \in Nat \ {0}
  BY <1>1 DEF ProgramInv
<1> QED BY <1>1, <1>2, <1>3, <1>4, <1>5, <1>6 DEF ProgramInv

\* A bus that can be added has a line.
LEMMA LineOfAddBus ==
  ASSUME NEW list, list \in Seq(ToSet(list)), NEW one_way \in BOOLEAN,
         AddBusOutcome(catalogue, list, one_way) = "ok"
  PROVE  IsLine(list, one_way, catalogue.distances)
<1>1. ~(one_way /\ list = <<>>)
      /\ ~(\E leg \in Legs(BusStops(list, one_way)) : leg \notin DOMAIN catalogue.distances)
  BY DEF AddBusOutcome
<1> QED BY <1>1 DEF IsLine

LEMMA AddQueuedBusKeeps ==
  ASSUME ProgramInv, AddQueuedBus
  PROVE  ProgramInv'
<1> DEFINE request == Head(buses_queue)
           outcome == IF ~IsComplete(request) THEN "out_of_range"
                      ELSE AddBusOutcome(catalogue, request.stops, ~request.is_roundtrip)
<1>0. stage = "add" /\ buses_queue # <<>> /\ HandleAddBus(request)
  BY DEF AddQueuedBus
<1>1. CASE /\ outcome = "ok"
           /\ catalogue' = AddBus(catalogue, request.name, request.stops, ~request.is_roundtrip)
           /\ buses_queue' = Tail(buses_queue)
           /\ UNCHANGED <<runs, run, stage, next, map_settings, base, responses, outcomes, made,
                          routerVars, bus_wait_time, all_buses, stop_to_vertex>>
  <2>1. /\ runs' = runs /\ run' = run /\ stage' = stage /\ next' = next /\ base' = base /\ step' = step
        /\ bus_wait_time' = bus_wait_time
    BY <1>1 DEF routerVars
  <2>2. Run' = Run
    BY <2>1 DEF Run
  <2> DEFINE S == ToSet(Run.base_requests)
             q == buses_queue
  <2>3. q \in Seq(S) /\ \A k \in DOMAIN q : q[k].type = "Bus"
    BY <1>0 DEF ProgramInv
  <2>6. buses_queue' = Tail(q) /\ q # <<>> /\ request = Head(q)
    BY <1>0, <1>1
  <2>7. \A r \in S : IsRequest(r)
    BY <1>0, RunIsInput DEF IsInput
  <2> HIDE DEF S, q, request
  <2>8. request \in S /\ request.type = "Bus" /\ IsRequest(request)
    <3>1. request = q[1] /\ 1 \in DOMAIN q /\ q[1] \in S
      BY <2>3, <2>6
    <3> QED BY <3>1, <2>3, <2>7
  <2>9. buses_queue' \in Seq(S) /\ \A k \in DOMAIN buses_queue' : buses_queue'[k].type = "Bus"
    <3>1. Tail(q) \in Seq(S) /\ Len(q) \in Nat /\ Len(q) > 0 /\ Len(Tail(q)) = Len(q) - 1
          /\ DOMAIN q = 1 .. Len(q)
      BY <2>3, <2>6
    <3>2. \A k \in 1 .. Len(q) - 1 : Tail(q)[k] = q[k + 1] /\ k + 1 \in DOMAIN q
      BY <2>3, <2>6, <3>1
    <3> QED BY <2>3, <2>6, <3>1, <3>2
  <2>10. ASSUME Run.mode # "text" PROVE CatalogueInv(catalogue')
    <3>1. IsComplete(request) /\ AddBusOutcome(catalogue, request.stops, ~request.is_roundtrip) = "ok"
      BY <1>1 DEF request
    <3>2. request.stops \in Seq(ToSet(request.stops)) /\ request.is_roundtrip \in BOOLEAN
      BY <2>8, <3>1 DEF IsRequest
    <3> DEFINE list == request.stops
               one_way == ~request.is_roundtrip
    <3>3. list \in Seq(ToSet(list)) /\ one_way \in BOOLEAN /\ AddBusOutcome(catalogue, list, one_way) = "ok"
      BY <3>1, <3>2
    <3>4. catalogue' = AddBus(catalogue, request.name, list, one_way)
      BY <1>1 DEF request
    <3> HIDE DEF list, one_way
    <3>5. IsLine(list, one_way, catalogue.distances)
      BY <3>3, LineOfAddBus
    <3>6. CatalogueInv(catalogue)
      BY <1>0, <2>10 DEF ProgramInv
    <3>7. Keeps(catalogue, AddBus(catalogue, request.name, list, one_way))
      BY <3>5, <3>6, AddBusKeeps
    <3> QED BY <3>4, <3>7 DEF Keeps
  <2>4. CatalogueInv(catalogue)' <=> CatalogueInv(catalogue')
    BY DEF CatalogueInv, IsLine
  <2>5. BaseInv'
    BY <2>1, BaseStays DEF ProgramInv
  <2>11. buses_queue' \in Seq(ToSet(Run'.base_requests))
    BY <2>2, <2>9 DEF S
  <2> HIDE DEF outcome
  <2> QED BY <1>0, <2>1, <2>2, <2>4, <2>5, <2>9, <2>10, <2>11 DEF ProgramInv
<1>2. CASE outcome # "ok" /\ End(outcome) /\ UNCHANGED <<base, responses, made>>
  <2>1. BaseInv'
    BY <1>2, BaseStays DEF ProgramInv
  <2> HIDE DEF outcome
  <2> QED BY <1>2, <2>1, EndKeeps
<1> QED BY <1>0, <1>1, <1>2 DEF HandleAddBus

LEMMA EndOfAddKeeps ==
  ASSUME ProgramInv, EndOfAdd
  PROVE  ProgramInv'
<1>1. /\ stage = "add" /\ runs' = runs /\ run' = run /\ next' = next /\ base' = base /\ step' = step
      /\ edges' = edges /\ catalogue' = catalogue /\ bus_wait_time' = bus_wait_time
      /\ UNCHANGED transportVars
  BY DEF EndOfAdd, routerVars, transportVars
<1>2. Run.mode \in {"make_base", "ReadJSON", "text"}
  BY <1>1, RunIsInput DEF IsInput, ProgramInv
<1>3. /\ Run.mode = "make_base" => stage' = "store"
      /\ Run.mode = "ReadJSON" => stage' = "route"
      /\ Run.mode = "text" => stage' = "print"
  BY DEF EndOfAdd
<1>4. BaseInv'
  BY <1>1, BaseStays DEF ProgramInv
<1>5. CatalogueInv(catalogue)' <=> CatalogueInv(catalogue)
  BY <1>1 DEF CatalogueInv, IsLine
<1>6. stage' \in {"store", "route", "print"} /\ (stage' \in {"store", "route"} => Run.mode # "text")
  BY <1>2, <1>3
<1> QED BY <1>1, <1>4, <1>5, <1>6 DEF ProgramInv

LEMMA StoreKeeps ==
  ASSUME ProgramInv, Store
  PROVE  ProgramInv'
<1>1. stage = "store" /\ CatalogueInv(catalogue) /\ bus_wait_time \in Int
  BY DEF Store, ProgramInv
<1>2. CASE base' = ProtoCatalogue /\ End("ok")
  <2> DEFINE p == ProtoCatalogue
  <2>1. /\ p.distances = catalogue.distances /\ p.bus_wait_time = bus_wait_time
        /\ p.buses = [b \in DOMAIN catalogue.buses |-> ProtoBus(catalogue.buses[b])]
    BY DEF ProtoCatalogue
  <2> HIDE DEF p
  <2>2. DOMAIN p.buses = DOMAIN catalogue.buses /\ \A b \in DOMAIN p.buses : p.buses[b] = ProtoBus(catalogue.buses[b])
    BY <2>1
  <2>3. \A b \in DOMAIN p.buses : p.buses[b].is_roundtrip = catalogue.buses[b].is_roundtrip
    <3>1. \A bus : ProtoBus(bus).is_roundtrip = bus.is_roundtrip
      BY DEF ProtoBus
    <3> QED BY <2>2, <3>1
  <2>4. ASSUME NEW b \in DOMAIN p.buses PROVE IsLine(p.buses[b].stops, ~p.buses[b].is_roundtrip, p.distances)
    <3> DEFINE list == ProtoBus(catalogue.buses[b]).stops
               one_way == ~catalogue.buses[b].is_roundtrip
    <3>1. IsLine(list, one_way, catalogue.distances)
      BY <1>1, <2>2 DEF CatalogueInv
    <3>2. p.buses[b].stops = list /\ (~p.buses[b].is_roundtrip) = one_way
      BY <2>2, <2>3
    <3> HIDE DEF list, one_way
    <3> DEFINE the_way == ~p.buses[b].is_roundtrip
    <3>3. the_way = one_way
      BY <3>2
    <3> HIDE DEF the_way
    <3>4. IsLine(p.buses[b].stops, the_way, p.distances)
      BY <2>1, <3>1, <3>2, <3>3
    <3> QED BY <3>4 DEF the_way
  <2>5. base' = p
    BY <1>2 DEF p
  <2>6. BaseInv'
    <3>1. AreDistances(p.distances) /\ IsFiniteSet(DOMAIN p.buses) /\ p.bus_wait_time \in Int
      BY <1>1, <2>1, <2>2 DEF CatalogueInv
    <3> QED BY <3>1, <2>4, <2>5 DEF BaseInv, AreDistances, IsLine
  <2> QED BY <1>2, <2>6, EndKeeps
<1>3. CASE base' = EmptyBase /\ End("out_of_range")
  <2>1. BaseInv'
    <3>1. DOMAIN Empty = {} /\ Empty \in [DOMAIN Empty -> Int]
      BY DEF Empty
    <3>2. base'.distances = Empty /\ base'.buses = Empty /\ base'.bus_wait_time \in Int
      BY <1>3 DEF EmptyBase
    <3>3. IsFiniteSet(DOMAIN Empty)
      BY <3>1, FS_EmptySet
    <3> QED BY <3>1, <3>2, <3>3 DEF BaseInv, AreDistances
  <2> QED BY <1>3, <2>1, EndKeeps
<1> QED BY <1>2, <1>3 DEF Store

LEMMA RestoreKeeps ==
  ASSUME OrdersEnumerate, ProgramInv, Restore
  PROVE  ProgramInv'
<1>1. /\ stage' = "route" /\ stage = "restore" /\ bus_wait_time' = base.bus_wait_time
      /\ runs' = runs /\ run' = run /\ next' = next /\ base' = base /\ step' = step
  BY DEF Restore, routerVars
<1>2. PICK order \in Orders(DOMAIN base.distances) : catalogue' = Restored(order)
  BY DEF Restore
<1>3. CatalogueInv(catalogue')
  BY <1>2, RestoredFits DEF ProgramInv
<1>4. CatalogueInv(catalogue)' <=> CatalogueInv(catalogue')
  BY DEF CatalogueInv, IsLine
<1>5. BaseInv' /\ bus_wait_time' \in Int
  BY <1>1, BaseStays DEF ProgramInv, BaseInv
<1> QED BY <1>1, <1>3, <1>4, <1>5 DEF ProgramInv

LEMMA MakeRouterKeeps ==
  ASSUME OrdersEnumerate, ProgramInv, MakeRouter
  PROVE  ProgramInv' /\ IsGraph' /\ Constructing'
<1>1. stage = "route" /\ CatalogueInv(catalogue) /\ bus_wait_time \in Int
  BY DEF MakeRouter, ProgramInv
<1>2. /\ IsGraph' /\ Constructing' /\ GraphInv' /\ stage' = "answer"
      /\ runs' = runs /\ run' = run /\ next' = next /\ base' = base
  BY <1>1, GraphOfTheLines
<1>3. BaseInv'
  BY <1>2, BaseStays DEF ProgramInv
<1>4. CatalogueInv(catalogue)' /\ bus_wait_time' \in Int
  BY <1>1, GraphOfTheLines DEF CatalogueInv, IsLine
<1> QED BY <1>1, <1>2, <1>3, <1>4 DEF ProgramInv

LEMMA RouterStepKeeps ==
  ASSUME ProgramInv, RouterStep
  PROVE  ProgramInv' /\ [Next]_vars
<1>1. /\ stage = "answer" /\ UNCHANGED transportVars /\ Next
      /\ stage' = stage /\ runs' = runs /\ run' = run /\ next' = next /\ base' = base
  BY DEF RouterStep, programVars
<1>2. edges' = edges
  BY <1>1 DEF Next, InitializeVertex, InitializeEdge, EndOfInitialize, Relax, Stop
<1>3. GraphInv'
  BY <1>1, <1>2, LinesStay DEF ProgramInv
<1>4. BaseInv'
  BY <1>1, BaseStays DEF ProgramInv
<1>5. CatalogueInv(catalogue)' /\ bus_wait_time' \in Int
  <2>1. catalogue' = catalogue /\ bus_wait_time' = bus_wait_time
    BY <1>1 DEF transportVars
  <2> QED BY <1>1, <2>1 DEF ProgramInv, CatalogueInv, IsLine
<1> QED BY <1>1, <1>3, <1>4, <1>5 DEF ProgramInv

LEMMA LastStepsKeep ==
  ASSUME ProgramInv, RouterFails \/ Answer \/ PrintAnswers
  PROVE  ProgramInv'
<1>1. UNCHANGED base /\ \E outcome : End(outcome)
  BY DEF RouterFails, Answer, PrintAnswers
<1>2. BaseInv'
  BY <1>1, BaseStays DEF ProgramInv
<1> QED BY <1>1, <1>2, EndKeeps

(***************************************************************************)
(* The theorems.                                                           *)
(***************************************************************************)
LEMMA ProgramStarts ==
  ASSUME ProgramInit
  PROVE  ProgramInv /\ IsGraph /\ Constructing
<1>1. BaseInv
  BY EmptyBaseFits DEF ProgramInit
<1>2. step = "initialize" /\ Constructing
  BY DEF ProgramInit, Constructing
<1>3. IsGraph
  <2>1. edges = <<>> /\ 0 \in Nat /\ DOMAIN edges = 1 .. 0
    BY DEF ProgramInit
  <2> QED BY <2>1 DEF IsGraph
<1> QED BY <1>1, <1>2, <1>3 DEF ProgramInit, ProgramInv

\* What a step of the program does to the router: it goes on, stays, or is made.
LEMMA ProgramSteps ==
  ASSUME OrdersEnumerate, ProgramInv, [ProgramNext]_allVars
  PROVE  ProgramInv' /\ ([Next]_vars \/ (IsGraph' /\ Constructing'))
<1>1. CASE Start
  BY <1>1, StartKeeps
<1>2. CASE MakeRouter
  BY <1>2, MakeRouterKeeps
<1>3. CASE RouterStep
  BY <1>3, RouterStepKeeps
<1>4. CASE RefuseSettings
  <2>1. UNCHANGED vars
    BY <1>4 DEF RefuseSettings, End, routerVars, vars
  <2> QED BY <1>4, <2>1, RefuseSettingsKeeps
<1>5. CASE QueueBus
  <2>1. UNCHANGED vars
    BY <1>5 DEF QueueBus, routerVars, vars
  <2> QED BY <1>5, <2>1, QueueBusKeeps
<1>6. CASE AddNextStop
  <2>1. UNCHANGED vars
    BY <1>6 DEF AddNextStop, routerVars, vars
  <2> QED BY <1>6, <2>1, AddNextStopKeeps
<1>7. CASE RefuseNext
  <2>1. UNCHANGED vars
    BY <1>7 DEF RefuseNext, End, routerVars, vars
  <2> QED BY <1>7, <2>1, RefuseNextKeeps
<1>8. CASE AddQueuedBus
  <2>1. UNCHANGED vars
    BY <1>8 DEF AddQueuedBus, HandleAddBus, End, routerVars, vars
  <2> QED BY <1>8, <2>1, AddQueuedBusKeeps
<1>9. CASE EndOfAdd
  <2>1. UNCHANGED vars
    BY <1>9 DEF EndOfAdd, routerVars, vars
  <2> QED BY <1>9, <2>1, EndOfAddKeeps
<1>10. CASE Store
  <2>1. UNCHANGED vars
    BY <1>10 DEF Store, End, routerVars, vars
  <2> QED BY <1>10, <2>1, StoreKeeps
<1>11. CASE Restore
  <2>1. UNCHANGED vars
    BY <1>11 DEF Restore, routerVars, vars
  <2> QED BY <1>11, <2>1, RestoreKeeps
<1>12. CASE RouterFails \/ Answer \/ PrintAnswers
  <2>1. UNCHANGED vars
    BY <1>12 DEF RouterFails, Answer, PrintAnswers, End, routerVars, vars
  <2> QED BY <1>12, <2>1, LastStepsKeep
<1>13. CASE UNCHANGED allVars
  <2>1. UNCHANGED routerVars /\ UNCHANGED transportVars /\ UNCHANGED programVars
    BY <1>13 DEF allVars
  <2>2. UNCHANGED vars /\ edges' = edges /\ step' = step
    BY <2>1 DEF routerVars, vars
  <2>3. /\ runs' = runs /\ run' = run /\ stage' = stage /\ next' = next /\ base' = base
        /\ buses_queue' = buses_queue /\ catalogue' = catalogue /\ bus_wait_time' = bus_wait_time
    BY <2>1 DEF programVars, transportVars
  <2>4. GraphInv => GraphInv'
    BY <2>1, <2>2, LinesStay
  <2>5. BaseInv' /\ Run' = Run /\ (CatalogueInv(catalogue)' <=> CatalogueInv(catalogue))
    BY <2>3, BaseStays DEF ProgramInv, Run, CatalogueInv, IsLine
  <2> QED BY <2>2, <2>3, <2>4, <2>5 DEF ProgramInv
<1> QED BY <1>1, <1>2, <1>3, <1>4, <1>5, <1>6, <1>7, <1>8, <1>9, <1>10, <1>11, <1>12, <1>13
        DEF ProgramNext

\* Whatever runs there are: the catalogue that a run has read, or has restored from
\* what an earlier run stored, knows the distance of every leg of its lines, and
\* the graph that is made of it holds exactly the rides of these lines.
THEOREM ProgramInvariant ==
  ASSUME OrdersEnumerate
  PROVE  ProgramSpec => [](ProgramInv /\ RouterInv /\ LinkInv)
<1>1. ProgramInit => ProgramInv /\ RouterInv /\ LinkInv
  BY ProgramStarts, InitKeeps, InitLinks
<1>2. ProgramInv /\ [ProgramNext]_allVars => ProgramInv' /\ ([Next]_vars \/ (IsGraph' /\ Constructing'))
  BY ProgramSteps
<1>3. RouterInv /\ LinkInv /\ [Next]_vars => RouterInv' /\ LinkInv'
  BY StepsKeep, StepsLink
<1>4. IsGraph' /\ Constructing' => RouterInv' /\ LinkInv'
  BY InitKeeps, InitLinks, PTL
<1>5. ProgramInv /\ RouterInv /\ LinkInv /\ [ProgramNext]_allVars => (ProgramInv /\ RouterInv /\ LinkInv)'
  BY <1>2, <1>3, <1>4
<1> QED BY <1>1, <1>5, PTL DEF ProgramSpec

\* For all base requests, files and orders of the containers: an answer of GetRouteInfo
\* is a journey on lines of the catalogue, ride by ride and minute by minute, and no
\* journey on them is faster.
THEOREM FastestJourneys ==
  ASSUME OrdersEnumerate
  PROVE  ProgramSpec => []AnswersAreFastestJourneys
<1>1. ProgramInv /\ RouterInv /\ LinkInv => AnswersAreFastestJourneys
  <2> SUFFICES ASSUME ProgramInv, RouterInv, LinkInv PROVE AnswersAreFastestJourneys
    OBVIOUS
  <2>1. RoutesAreWays
    BY ReadyTableHoldsWays
  <2>2. CASE step = "ready"
    <3>1. GraphInv
      BY <2>2 DEF ProgramInv
    <3> QED BY <2>1, <3>1, FastestAnswers, TravelledAnswers DEF AnswersAreFastestJourneys
  <2>3. CASE step # "ready"
    BY <2>1, <2>3 DEF AnswersAreFastestJourneys, AnswersAreFastest, AnswersCanBeTravelled
  <2> QED BY <2>2, <2>3
<1> QED BY <1>1, ProgramInvariant, PTL

(***************************************************************************)
(* The distances are those that the base requests give.                    *)
(***************************************************************************)
\* Where a distance from s to t is given in the first m requests.
GivenTill(document, m, s, t) == {k \in Given(document, s, t) : k <= m}

\* The distances d are those of the first m requests: the last that is given for
\* a way; if there is none, the first that is given for the way back.
Said(document, m, d) ==
  /\ \A s, t : <<s, t>> \in DOMAIN d <=>
                 GivenTill(document, m, s, t) \cup GivenTill(document, m, t, s) # {}
  /\ \A s, t : \A k \in GivenTill(document, m, s, t) :
       (\A l \in GivenTill(document, m, s, t) : l <= k)
         => d[<<s, t>>] = RoadDistances(document[k])[t]
  /\ \A s, t : GivenTill(document, m, s, t) = {} =>
       \A k \in GivenTill(document, m, t, s) :
         (\A l \in GivenTill(document, m, t, s) : k <= l)
           => d[<<s, t>>] = RoadDistances(document[k])[s]

LEMMA NothingIsSaid ==
  ASSUME NEW document, document \in Seq(ToSet(document))
  PROVE  Said(document, 0, Empty)
<1>1. \A s, t : GivenTill(document, 0, s, t) = {}
  BY DEF GivenTill, Given, Named
<1> QED BY <1>1 DEF Said, Empty

\* A request that is not about a stop gives no distance.
LEMMA OthersSayNothing ==
  ASSUME NEW document, document \in Seq(ToSet(document)), NEW m \in Nat,
         m + 1 \in DOMAIN document => document[m + 1].type # "Stop",
         NEW d, Said(document, m, d)
  PROVE  Said(document, m + 1, d)
<1>1. \A s, t : GivenTill(document, m + 1, s, t) = GivenTill(document, m, s, t)
  <2>1. \A k \in DOMAIN document : k <= m + 1 <=> k <= m \/ k = m + 1
    OBVIOUS
  <2> QED BY <2>1 DEF GivenTill, Given, Named
<1> QED BY <1>1 DEF Said

LEMMA StopsSayMore ==
  ASSUME NEW document, document \in Seq(ToSet(document)), NEW m \in Nat, m + 1 \in DOMAIN document,
         document[m + 1].type = "Stop", NEW d, Said(document, m, d),
         NEW e, Told(d, document[m + 1].name, RoadDistances(document[m + 1]), e)
  PROVE  Said(document, m + 1, e)
<1> DEFINE n == m + 1
           name == document[n].name
           table == RoadDistances(document[n])
           Earlier(s, t) == GivenTill(document, m, s, t)
           Now(s, t) == GivenTill(document, n, s, t)
           IsNew(s, t) == s = name /\ t \in DOMAIN table
<1>1. ASSUME NEW s, NEW t
      PROVE  /\ \A k : k \in Now(s, t) <=> k \in Earlier(s, t) \/ (k = n /\ IsNew(s, t))
             /\ \A k \in Earlier(s, t) : k \in Nat /\ k <= m
  <2>1. \A k \in DOMAIN document : k \in Nat /\ (k <= n <=> k <= m \/ k = n)
    OBVIOUS
  <2>2. n \in Given(document, s, t) <=> IsNew(s, t)
    BY DEF Given, Named, RoadDistances
  <2>3. Given(document, s, t) \subseteq DOMAIN document
    BY DEF Given, Named
  <2>4. n <= n /\ ~(n <= m)
    OBVIOUS
  <2> HIDE DEF IsNew, n
  <2> QED BY <2>1, <2>2, <2>3, <2>4 DEF GivenTill
<1>2. /\ \A s, t : <<s, t>> \in DOMAIN d <=> Earlier(s, t) \cup Earlier(t, s) # {}
      /\ \A s, t : \A k \in Earlier(s, t) :
           (\A l \in Earlier(s, t) : l <= k) => d[<<s, t>>] = RoadDistances(document[k])[t]
      /\ \A s, t : Earlier(s, t) = {} => \A k \in Earlier(t, s) :
           (\A l \in Earlier(t, s) : k <= l) => d[<<s, t>>] = RoadDistances(document[k])[s]
  BY DEF Said
<1>3. /\ \A s, t : <<s, t>> \in DOMAIN e <=> <<s, t>> \in DOMAIN d \/ IsNew(s, t) \/ IsNew(t, s)
      /\ \A s, t : IsNew(s, t) => e[<<s, t>>] = table[t]
      /\ \A s, t : ~IsNew(s, t) => /\ <<s, t>> \in DOMAIN d => e[<<s, t>>] = d[<<s, t>>]
                                   /\ <<s, t>> \notin DOMAIN d /\ IsNew(t, s) => e[<<s, t>>] = table[s]
  <2> HIDE DEF name, table
  <2>1. ASSUME NEW s, NEW t
        PROVE  <<s, t>> \in DOMAIN e <=> <<s, t>> \in DOMAIN d \/ IsNew(s, t) \/ IsNew(t, s)
    BY DEF Told, name, table
  <2>2. ASSUME NEW s, NEW t, IsNew(s, t) PROVE e[<<s, t>>] = table[t]
    BY <2>2 DEF Told, name, table
  <2>3. ASSUME NEW s, NEW t, ~IsNew(s, t)
        PROVE  /\ <<s, t>> \in DOMAIN d => e[<<s, t>>] = d[<<s, t>>]
               /\ <<s, t>> \notin DOMAIN d /\ IsNew(t, s) => e[<<s, t>>] = table[s]
    <3>1. \A u \in DOMAIN table : <<s, t>> # <<name, u>>
      BY <2>3
    <3> QED BY <3>1 DEF Told, name, table
  <2> QED BY <2>1, <2>2, <2>3
<1> HIDE DEF Earlier, Now, IsNew, table
<1>4. ASSUME NEW s, NEW t PROVE <<s, t>> \in DOMAIN e <=> Now(s, t) \cup Now(t, s) # {}
  BY <1>1, <1>2, <1>3
<1>5. ASSUME NEW s, NEW t, NEW k \in Now(s, t), \A l \in Now(s, t) : l <= k
      PROVE  e[<<s, t>>] = RoadDistances(document[k])[t]
  <2>1. CASE IsNew(s, t)
    <3>1. n \in Now(s, t) /\ n <= k
      BY <1>1, <1>5, <2>1
    <3>2. k = n
      BY <1>1, <1>5, <3>1
    <3> QED BY <1>3, <2>1, <3>2 DEF table
  <2>2. CASE ~IsNew(s, t)
    <3>1. k \in Earlier(s, t) /\ \A l \in Earlier(s, t) : l <= k
      BY <1>1, <1>5, <2>2
    <3>2. <<s, t>> \in DOMAIN d /\ d[<<s, t>>] = RoadDistances(document[k])[t]
      BY <1>2, <3>1
    <3> QED BY <1>3, <2>2, <3>2
  <2> QED BY <2>1, <2>2
<1>6. ASSUME NEW s, NEW t, Now(s, t) = {}, NEW k \in Now(t, s), \A l \in Now(t, s) : k <= l
      PROVE  e[<<s, t>>] = RoadDistances(document[k])[s]
  <2>1. Earlier(s, t) = {} /\ ~IsNew(s, t)
    BY <1>1, <1>6
  <2>2. CASE k \in Earlier(t, s)
    <3>1. \A l \in Earlier(t, s) : k <= l
      BY <1>1, <1>6
    <3>2. <<s, t>> \in DOMAIN d /\ d[<<s, t>>] = RoadDistances(document[k])[s]
      BY <1>2, <2>1, <2>2, <3>1
    <3> QED BY <1>3, <2>1, <3>2
  <2>3. CASE k \notin Earlier(t, s)
    <3>1. k = n /\ IsNew(t, s)
      BY <1>1, <1>6, <2>3
    <3>2. Earlier(t, s) = {}
      <4>1. \A l \in Earlier(t, s) : l \in Now(t, s) /\ l \in Nat /\ l <= m
        BY <1>1
      <4>2. \A l \in Earlier(t, s) : n <= l
        BY <1>6, <3>1, <4>1
      <4> QED BY <4>1, <4>2
    <3>3. <<s, t>> \notin DOMAIN d
      BY <1>2, <2>1, <3>2
    <3> QED BY <1>3, <2>1, <3>1, <3>3 DEF table
  <2> QED BY <2>2, <2>3
<1> QED BY <1>4, <1>5, <1>6 DEF Said, Now

\* At the end, what is said is what is described.
LEMMA GreatestGiven ==
  ASSUME NEW m \in Nat, NEW Q \in SUBSET (1 .. m), Q # {}
  PROVE  Max(Q) \in Q /\ (\A l \in Q : l <= Max(Q)) /\ Min(Q) \in Q /\ \A l \in Q : Min(Q) <= l
<1> DEFINE R == {n \in Nat : m - n \in Q}
<1>1. R # {}
  <2>1. PICK k \in Q : TRUE
    OBVIOUS
  <2>2. m - k \in Nat /\ m - (m - k) = k
    OBVIOUS
  <2> QED BY <2>1, <2>2
<1>2. PICK n \in R : \A d \in R : n <= d
  <2> HIDE DEF R
  <2>1. R \subseteq Nat
    BY DEF R
  <2> QED BY <1>1, <2>1, LeastNatural
<1>3. m - n \in Q /\ \A l \in Q : m - n >= l
  <2>1. ASSUME NEW l \in Q PROVE m - n >= l
    <3>1. m - l \in Nat /\ m - (m - l) = l
      OBVIOUS
    <3>2. n <= m - l
      BY <1>2, <3>1
    <3> QED BY <1>2, <3>2
  <2> QED BY <1>2, <2>1
<1>4. Max(Q) \in Q /\ \A l \in Q : Max(Q) >= l
  BY <1>3 DEF Max
<1>5. \E k \in Q : \A l \in Q : k <= l
  <2>1. Q \subseteq Nat
    OBVIOUS
  <2> QED BY <2>1, LeastNatural
<1>6. Min(Q) \in Q /\ \A l \in Q : Min(Q) <= l
  BY <1>5 DEF Min
<1>7. \A l \in Q : l <= Max(Q)
  BY <1>4
<1> QED BY <1>4, <1>6, <1>7

LEMMA SaidIsDescribed ==
  ASSUME NEW document, document \in Seq(ToSet(document)), NEW d, Said(document, Len(document), d), NEW s, NEW t
  PROVE  /\ <<s, t>> \in DOMAIN d <=> Described(document, s, t)
         /\ <<s, t>> \in DOMAIN d => d[<<s, t>>] = DistanceIn(document, s, t)
<1> DEFINE m == Len(document)
<1>1. m \in Nat /\ \A u, v : Given(document, u, v) \subseteq 1 .. m
  BY DEF Given, Named
<1>2. \A u, v : GivenTill(document, m, u, v) = Given(document, u, v)
  BY <1>1 DEF GivenTill
<1>3. <<s, t>> \in DOMAIN d <=> Described(document, s, t)
  BY <1>2 DEF Said, Described
<1>4. CASE Given(document, s, t) # {}
  <2> DEFINE Q == Given(document, s, t)
  <2>1. Max(Q) \in Q /\ \A l \in Q : l <= Max(Q)
    BY <1>1, <1>4, GreatestGiven
  <2>2. d[<<s, t>>] = RoadDistances(document[Max(Q)])[t]
    <3> HIDE DEF Q
    <3> QED BY <1>2, <2>1 DEF Said, Q
  <2> QED BY <1>3, <1>4, <2>2 DEF DistanceIn
<1>5. CASE Given(document, s, t) = {}
  <2> DEFINE Q == Given(document, t, s)
  <2> SUFFICES ASSUME Q # {} PROVE d[<<s, t>>] = DistanceIn(document, s, t)
    BY <1>3, <1>5 DEF Described
  <2>1. Min(Q) \in Q /\ \A l \in Q : Min(Q) <= l
    BY <1>1, GreatestGiven
  <2>2. d[<<s, t>>] = RoadDistances(document[Min(Q)])[s]
    <3> HIDE DEF Q
    <3> QED BY <1>2, <1>5, <2>1 DEF Said, Q
  <2> QED BY <1>5, <2>2 DEF DistanceIn
<1> QED BY <1>3, <1>4, <1>5

\* The base requests that the file was made of.
MadeOf == IF made = 0 THEN <<>> ELSE runs[made].base_requests

SaidIn(document, d) == Said(document, Len(document), d)

DistanceInv ==
  /\ made \in {0} \cup DOMAIN runs
  /\ SaidIn(MadeOf, base.distances)
  /\ stage = "add" => /\ next - 1 <= Len(Run.base_requests)
                      /\ Grows(catalogue, catalogue)
                      /\ Said(Run.base_requests, next - 1, catalogue.distances)
  /\ stage \in {"store", "route", "print", "answer"} =>
       Grows(catalogue, catalogue) /\ SaidIn(DocumentOf(run), catalogue.distances)
  /\ stage = "store" => Run.mode = "make_base"
  /\ stage = "restore" => Run.mode = "process_requests"

\* What is said does not depend on anything but the requests and the distances.
LEMMA SayingStays ==
  /\ UNCHANGED <<runs, made, base>> =>
       (SaidIn(MadeOf, base.distances)' <=> SaidIn(MadeOf, base.distances))
  /\ UNCHANGED <<runs, run, made, catalogue>> =>
       (SaidIn(DocumentOf(run), catalogue.distances)' <=> SaidIn(DocumentOf(run), catalogue.distances))
<1>1. ASSUME UNCHANGED <<runs, made, base>>
      PROVE  SaidIn(MadeOf, base.distances)' <=> SaidIn(MadeOf, base.distances)
  <2>1. MadeOf' = MadeOf /\ base' = base
    BY <1>1 DEF MadeOf
  <2> QED BY <2>1 DEF SaidIn, Said, GivenTill, Given, Named
<1>2. ASSUME UNCHANGED <<runs, run, made, catalogue>>
      PROVE  SaidIn(DocumentOf(run), catalogue.distances)' <=> SaidIn(DocumentOf(run), catalogue.distances)
  <2> DEFINE document == DocumentOf(run)
  <2>1. document' = document /\ catalogue' = catalogue
    BY <1>2 DEF DocumentOf, Source
  <2> HIDE DEF document
  <2>2. SaidIn(document, catalogue.distances)' <=> SaidIn(document, catalogue.distances)
    BY <2>1 DEF SaidIn, Said, GivenTill, Given, Named
  <2> QED BY <2>2 DEF document
<1> QED BY <1>1, <1>2

LEMMA EndKeepsDistances ==
  ASSUME DistanceInv, NEW outcome, End(outcome), UNCHANGED <<base, made>>
  PROVE  DistanceInv'
<1>1. runs' = runs /\ stage' = "start" /\ base' = base /\ made' = made
  BY DEF End
<1> QED BY <1>1, SayingStays DEF DistanceInv

LEMMA OtherStepsKeepDistances ==
  ASSUME ProgramInv, DistanceInv,
         \/ RefuseSettings \/ RefuseNext \/ RouterFails \/ Answer \/ PrintAnswers
         \/ MakeRouter \/ RouterStep \/ UNCHANGED allVars
  PROVE  DistanceInv'
<1>1. CASE RefuseSettings \/ RefuseNext \/ RouterFails \/ Answer \/ PrintAnswers
  <2>1. UNCHANGED <<base, made>> /\ \E outcome : End(outcome)
    BY <1>1 DEF RefuseSettings, RefuseNext, RouterFails, Answer, PrintAnswers
  <2> QED BY <2>1, EndKeepsDistances
<1>2. CASE MakeRouter \/ RouterStep
  <2>1. /\ runs' = runs /\ run' = run /\ made' = made /\ base' = base /\ stage' = "answer"
        /\ catalogue' = catalogue /\ stage \in {"route", "answer"}
    BY <1>2 DEF MakeRouter, MakeTransportRouter, RouterStep, programVars, transportVars
  <2>2. Grows(catalogue, catalogue)' <=> Grows(catalogue, catalogue)
    BY <2>1 DEF Grows, AreDistances
  <2> QED BY <2>1, <2>2, SayingStays DEF DistanceInv
<1>3. CASE UNCHANGED allVars
  <2>1. /\ runs' = runs /\ made' = made /\ base' = base /\ stage' = stage /\ run' = run
        /\ next' = next /\ catalogue' = catalogue
    BY <1>3 DEF allVars, programVars, transportVars
  <2>2. /\ Grows(catalogue, catalogue)' <=> Grows(catalogue, catalogue)
        /\ Said(Run.base_requests, next - 1, catalogue.distances)'
             <=> Said(Run.base_requests, next - 1, catalogue.distances)
    BY <2>1 DEF Said, GivenTill, Given, Named, Run, Grows, AreDistances
  <2> QED BY <2>1, <2>2, SayingStays DEF DistanceInv, Run
<1> QED BY <1>1, <1>2, <1>3

LEMMA StartKeepsDistances ==
  ASSUME ProgramInv, DistanceInv, Start
  PROVE  DistanceInv'
<1>1. /\ runs' = runs /\ run' = run /\ next' = 1 /\ base' = base /\ made' = made
      /\ catalogue' = EmptyCatalogue
      /\ stage' = IF Run.mode = "process_requests" THEN "restore" ELSE "add"
      /\ stage = "start" /\ run <= Len(runs)
  BY DEF Start
<1>2. Run' = Run
  BY <1>1 DEF Run
<1>3. IsInput(Run)
  <2>1. runs \in Seq(ToSet(runs)) /\ \A input \in ToSet(runs) : IsInput(input)
    BY ProgramAssumption DEF ProgramInv
  <2>2. run \in DOMAIN runs
    BY <1>1, <2>1 DEF ProgramInv
  <2> QED BY <2>1, <2>2 DEF Run, ToSet
<1> DEFINE document == Run.base_requests
<1>4. document \in Seq(ToSet(document)) /\ Len(document) \in Nat
  BY <1>3 DEF IsInput
<1>5. Grows(catalogue, catalogue)'
  <2>1. Grows(EmptyCatalogue, EmptyCatalogue)
    BY EmptyCatalogueFits, GrowsFromItself
  <2> QED BY <1>1, <2>1 DEF Grows, AreDistances
<1>6. Said(Run.base_requests, next - 1, catalogue.distances)'
  <2>1. Said(document, 0, Empty)
    BY <1>4, NothingIsSaid
  <2>2. EmptyCatalogue.distances = Empty
    BY DEF EmptyCatalogue
  <2>3. catalogue'.distances = Empty /\ next' - 1 = 0 /\ Run'.base_requests = document
    BY <1>1, <1>2, <2>2
  <2> HIDE DEF document
  <2> QED BY <2>1, <2>3 DEF Said, GivenTill, Given, Named
<1>7. next' - 1 <= Len(Run'.base_requests)
  BY <1>1, <1>2, <1>4
<1> QED BY <1>1, <1>2, <1>5, <1>6, <1>7, SayingStays DEF DistanceInv

\* What is read next, as JSON or as text, says what the base request says.
LEMMA IncomingSays ==
  ASSUME ProgramInv, stage = "add"
  PROVE  /\ Run.base_requests \in Seq(ToSet(Run.base_requests))
         /\ Len(Incoming) = Len(Run.base_requests)
<1>1. IsInput(Run)
  BY RunIsInput
<1> QED BY <1>1 DEF IsInput, Incoming

LEMMA ComingSays ==
  ASSUME ProgramInv, Comes, IncomingOutcome = "ok"
  PROVE  LET request == Run.base_requests[next]
         IN  /\ next \in DOMAIN Run.base_requests
             /\ IncomingRequest.type = request.type
             /\ request.type = "Stop" =>
                  /\ IncomingRequest.name = request.name /\ IsTable(RoadDistances(request))
                  /\ Gives(DistancesFrom(IncomingRequest), RoadDistances(request))
<1> DEFINE request == Run.base_requests[next]
<1>1. IsInput(Run)
  BY RunIsInput DEF Comes
<1>2. next \in DOMAIN Run.base_requests
  BY IncomingSays DEF Comes, ProgramInv
<1>3. IsRequest(request)
  BY <1>1, <1>2 DEF IsInput, ToSet
<1>4. CASE Run.mode # "text"
  <2>1. IncomingRequest = request
    BY <1>4 DEF IncomingRequest
  <2>2. request.type = "Stop" => IsComplete(request)
    BY <1>4, <2>1 DEF IncomingOutcome
  <2> HIDE DEF request
  <2>3. request.type = "Stop" => /\ IsTable(RoadDistances(request))
                                 /\ Gives(DistancesFrom(request), RoadDistances(request))
    BY <1>3, <1>4, <2>2, JSONGives
  <2> QED BY <1>2, <2>1, <2>3 DEF request
<1>5. CASE Run.mode = "text"
  <2> DEFINE line == Run.lines[next]
             said == ProcessedRequest(line)
  <2>1. IncomingRequest = said /\ LineOutcome(line) = "ok"
    BY <1>5 DEF IncomingRequest, IncomingOutcome
  <2>2. MeansTheSame(line, request)
    BY <1>1, <1>2, <1>5 DEF IsInput
  <2> HIDE DEF request, line
  <2>3. /\ IsComplete(request) /\ said.type = request.type
        /\ request.type = "Stop" =>
             said.name = request.name /\ Gives(said.distances, request.road_distances)
    BY <2>1, <2>2 DEF MeansTheSame
  <2>4. request.type = "Stop" => Gives(DistancesFrom(said), RoadDistances(request))
    BY <1>5, <2>3, TextGives
  <2>5. request.type = "Stop" => IsTable(RoadDistances(request))
    BY <1>3, <2>3, RoadDistancesAreTables
  <2> HIDE DEF said
  <2> QED BY <1>2, <2>1, <2>3, <2>4, <2>5 DEF request
<1> QED BY <1>4, <1>5

\* Reading on, the distances stay those of what has been read.
LEMMA ReadingKeepsDistances ==
  ASSUME ProgramInv, DistanceInv, QueueBus \/ AddNextStop
  PROVE  DistanceInv'
<1> DEFINE document == Run.base_requests
           m == next - 1
           d == catalogue.distances
           e == catalogue'.distances
<1>1. /\ runs' = runs /\ run' = run /\ stage' = stage /\ base' = base /\ made' = made
      /\ stage = "add" /\ next' = next + 1 /\ Comes /\ IncomingOutcome = "ok"
  BY DEF QueueBus, AddNextStop, IsNext, Comes
<1>2. Run' = Run
  BY <1>1 DEF Run
<1>3. document \in Seq(ToSet(document)) /\ next \in DOMAIN document /\ next <= Len(document)
  BY <1>1, IncomingSays, ComingSays
<1>4. m \in Nat /\ m + 1 = next /\ next' - 1 = next
  BY <1>1 DEF ProgramInv
<1>5. Grows(catalogue, catalogue) /\ Said(document, m, d)
  BY <1>1 DEF DistanceInv
<1>6. CASE QueueBus
  <2>1. document[next].type # "Stop" /\ catalogue' = catalogue
    BY <1>1, <1>6, ComingSays DEF QueueBus, IsNext, transportVars
  <2> HIDE DEF document, m, d
  <2>2. Said(document, next, d)
    BY <1>3, <1>4, <1>5, <2>1, OthersSayNothing
  <2>3. e = d /\ Grows(catalogue, catalogue)'
    BY <1>5, <2>1 DEF d, Grows, AreDistances
  <2>4. Said(Run.base_requests, next - 1, catalogue.distances)'
    BY <1>2, <1>4, <2>2, <2>3 DEF document, Said, GivenTill, Given, Named
  <2> QED BY <1>1, <1>2, <1>3, <1>4, <2>3, <2>4, SayingStays DEF DistanceInv, document
<1>7. CASE AddNextStop
  <2> DEFINE request == document[next]
             coming == IncomingRequest
             f == HandleAddStop(catalogue, coming)
  <2>1. /\ catalogue' = f /\ request.type = "Stop" /\ coming.name = request.name
        /\ IsTable(RoadDistances(request))
        /\ Gives(DistancesFrom(coming), RoadDistances(request))
    BY <1>1, <1>7, ComingSays DEF AddNextStop, IsNext
  <2> HIDE DEF document, coming
  <2>2. /\ Grows(AddStop(catalogue, coming.name, coming.coordinates), f)
        /\ Told(d, coming.name, RoadDistances(request), f.distances)
    BY <1>5, <2>1, HandleAddStopSays
  <2> HIDE DEF f
  <2>3. Told(d, request.name, RoadDistances(request), e)
    BY <2>1, <2>2
  <2> HIDE DEF m, d, e
  <2>4. Said(document, next, e)
    BY <1>3, <1>4, <1>5, <2>1, <2>3, StopsSayMore
  <2>5. Grows(catalogue, catalogue)'
    BY <2>1, <2>2 DEF Grows, AreDistances
  <2>6. Said(Run.base_requests, next - 1, catalogue.distances)'
    BY <1>2, <1>4, <2>4 DEF document, e, Said, GivenTill, Given, Named
  <2> QED BY <1>1, <1>2, <1>3, <1>4, <2>5, <2>6, SayingStays DEF DistanceInv, document
<1> QED BY <1>6, <1>7

\* Adding a bus leaves the distances alone.
LEMMA AddQueuedBusKeepsDistances ==
  ASSUME ProgramInv, DistanceInv, AddQueuedBus
  PROVE  DistanceInv'
<1> DEFINE request == Head(buses_queue)
           outcome == IF ~IsComplete(request) THEN "out_of_range"
                      ELSE AddBusOutcome(catalogue, request.stops, ~request.is_roundtrip)
           c == AddBus(catalogue, request.name, request.stops, ~request.is_roundtrip)
<1>0. stage = "add" /\ HandleAddBus(request)
  BY DEF AddQueuedBus
<1>1. CASE outcome # "ok" /\ End(outcome) /\ UNCHANGED <<base, responses, made>>
  <2> HIDE DEF outcome
  <2> QED BY <1>1, EndKeepsDistances
<1>2. CASE /\ catalogue' = c
           /\ UNCHANGED <<runs, run, stage, next, map_settings, base, responses, outcomes, made,
                          routerVars, bus_wait_time, all_buses, stop_to_vertex>>
  <2>1. Grows(catalogue, catalogue)
    BY <1>0 DEF DistanceInv
  <2>2. Grows(c, c) /\ c.distances = catalogue.distances
    <3>1. HasBus(catalogue, request.name, request.stops, ~request.is_roundtrip, c)
      BY <2>1, AddBusAdds DEF Grows
    <3> HIDE DEF c, request
    <3>2. c = [stops |-> c.stops, buses |-> c.buses, distances |-> c.distances]
          /\ c.distances = catalogue.distances
      BY <3>1 DEF HasBus
    <3> QED BY <2>1, <3>2 DEF Grows
  <2> HIDE DEF c
  <2>3. Grows(catalogue, catalogue)'
    BY <1>2, <2>2 DEF Grows, AreDistances
  <2>4. /\ runs' = runs /\ run' = run /\ next' = next /\ base' = base /\ made' = made
        /\ stage' = "add" /\ catalogue'.distances = catalogue.distances
    BY <1>0, <1>2, <2>2
  <2>5. Run' = Run
    BY <2>4 DEF Run
  <2>6. Said(Run.base_requests, next - 1, catalogue.distances)'
    <3>1. Said(Run.base_requests, next - 1, catalogue.distances)
      BY <1>0 DEF DistanceInv
    <3> QED BY <2>4, <2>5, <3>1 DEF Said, GivenTill, Given, Named
  <2>7. next - 1 <= Len(Run.base_requests)
    BY <1>0 DEF DistanceInv
  <2> QED BY <2>3, <2>4, <2>5, <2>6, <2>7, SayingStays DEF DistanceInv
<1> QED BY <1>0, <1>1, <1>2 DEF HandleAddBus

LEMMA EndOfAddKeepsDistances ==
  ASSUME ProgramInv, DistanceInv, EndOfAdd
  PROVE  DistanceInv'
<1> DEFINE document == Run.base_requests
           d == catalogue.distances
<1>1. /\ stage = "add" /\ runs' = runs /\ run' = run /\ base' = base /\ made' = made
      /\ catalogue' = catalogue /\ next > Len(Incoming)
  BY DEF EndOfAdd, transportVars
<1>2. Run.mode \in {"make_base", "ReadJSON", "text"}
  BY <1>1, RunIsInput DEF IsInput, ProgramInv
<1>3. /\ stage' \in {"store", "route", "print"}
      /\ stage' = "store" => Run.mode = "make_base"
  BY <1>2 DEF EndOfAdd
<1>4. document \in Seq(ToSet(document)) /\ next > Len(document)
  BY <1>1, IncomingSays
<1>5. /\ next - 1 <= Len(document) /\ Grows(catalogue, catalogue) /\ Said(document, next - 1, d)
  BY <1>1 DEF DistanceInv
<1>6. next - 1 = Len(document)
  <2>1. next \in Nat /\ Len(document) \in Nat
    BY <1>4 DEF ProgramInv
  <2> QED BY <1>4, <1>5, <2>1
<1>7. DocumentOf(run) = document
  BY <1>2 DEF DocumentOf, Source, Run, ProgramInv
<1>8. SaidIn(DocumentOf(run), catalogue.distances)
  <2> HIDE DEF document, d
  <2> QED BY <1>5, <1>6, <1>7 DEF SaidIn, d
<1>9. Grows(catalogue, catalogue)'
  BY <1>1, <1>5 DEF Grows, AreDistances
<1>10. Run' = Run
  BY <1>1 DEF Run
<1> QED BY <1>1, <1>3, <1>8, <1>9, <1>10, SayingStays DEF DistanceInv

\* The file gets the distances of the run that makes it, or none.
LEMMA StoreKeepsDistances ==
  ASSUME ProgramInv, DistanceInv, Store
  PROVE  DistanceInv'
<1>1. stage = "store" /\ runs' = runs /\ stage' = "start"
  BY DEF Store, End
<1>2. CASE base' = ProtoCatalogue /\ made' = run
  <2>1. ProtoCatalogue.distances = catalogue.distances
    BY DEF ProtoCatalogue
  <2>2. base'.distances = catalogue.distances
    BY <1>2, <2>1
  <2>3. run \in DOMAIN runs /\ run # 0 /\ Run.mode = "make_base"
    BY <1>1 DEF ProgramInv, DistanceInv
  <2>4. DocumentOf(run) = MadeOf'
    BY <1>1, <1>2, <2>3 DEF DocumentOf, Source, MadeOf, Run
  <2>5. SaidIn(DocumentOf(run), catalogue.distances)
    BY <1>1 DEF DistanceInv
  <2> DEFINE document == MadeOf
  <2>6. SaidIn(document', base'.distances)
    <3> HIDE DEF document
    <3>1. document' = DocumentOf(run)
      BY <2>4 DEF document
    <3> QED BY <2>2, <2>5, <3>1
  <2>7. SaidIn(MadeOf, base.distances)'
    <3> HIDE DEF document
    <3>1. SaidIn(document, base.distances)'
      BY <2>6 DEF SaidIn, Said, GivenTill, Given, Named
    <3> QED BY <3>1 DEF document
  <2> QED BY <1>1, <1>2, <2>3, <2>7 DEF DistanceInv
<1>3. CASE base' = EmptyBase /\ made' = 0
  <2>1. EmptyBase.distances = Empty
    BY DEF EmptyBase
  <2>2. MadeOf' = <<>> /\ base'.distances = Empty
    BY <1>3, <2>1 DEF MadeOf
  <2>3. SaidIn(<<>>, Empty)
    <3> DEFINE document == <<>>
    <3>1. document \in Seq(ToSet(document)) /\ Len(document) = 0
      OBVIOUS
    <3>2. Said(document, 0, Empty)
      BY <3>1, NothingIsSaid
    <3> QED BY <3>1, <3>2 DEF SaidIn
  <2> DEFINE document == MadeOf
  <2>4. SaidIn(MadeOf, base.distances)'
    <3>1. document' = <<>>
      BY <2>2
    <3> HIDE DEF document
    <3>2. SaidIn(document, base.distances)'
      BY <2>2, <2>3, <3>1 DEF SaidIn, Said, GivenTill, Given, Named
    <3> QED BY <3>2 DEF document
  <2> QED BY <1>1, <1>3, <2>4 DEF DistanceInv
<1> QED BY <1>2, <1>3 DEF Store

\* In whatever order the distances come back from the file, they are the same: the
\* file has the way back of every way it has.
LEMMA RestoredAsStored ==
  ASSUME OrdersEnumerate, BaseInv, DistanceInv, NEW order \in Orders(DOMAIN base.distances)
  PROVE  CatalogueInv(Restored(order)) /\ Restored(order).distances = base.distances
<1> DEFINE d == base.distances
           c == Restored(order)
           e == c.distances
<1>1. /\ CatalogueInv(c)
      /\ \A p : p \in DOMAIN e <=> \E leg \in DOMAIN d : p \in {leg, <<leg[2], leg[1]>>}
      /\ \A leg \in DOMAIN d : e[leg] = d[leg]
  BY RestoredFits
<1> HIDE DEF c
<1>2. Grows(c, c)
  BY <1>1, GrowsFromItself
<1>3. AreDistances(d) /\ AreDistances(e)
  BY <1>2 DEF BaseInv, Grows
<1>4. SaidIn(MadeOf, d)
  BY DEF DistanceInv
<1> HIDE DEF d, e
<1>5. \A s, t : <<s, t>> \in DOMAIN d <=> <<t, s>> \in DOMAIN d
  BY <1>4 DEF SaidIn, Said
<1>6. DOMAIN e = DOMAIN d
  <2>1. \A leg \in DOMAIN d : leg = <<leg[1], leg[2]>>
    BY <1>3 DEF AreDistances
  <2>2. \A leg \in DOMAIN d : <<leg[2], leg[1]>> \in DOMAIN d
    BY <1>5, <2>1
  <2> QED BY <1>1, <2>2
<1>7. e = d
  BY <1>1, <1>3, <1>6 DEF AreDistances
<1> QED BY <1>1, <1>7 DEF c, d, e

LEMMA RestoreKeepsDistances ==
  ASSUME OrdersEnumerate, ProgramInv, DistanceInv, Restore
  PROVE  DistanceInv'
<1> DEFINE d == base.distances
<1>1. /\ stage' = "route" /\ stage = "restore" /\ runs' = runs /\ run' = run
      /\ base' = base /\ made' = made
  BY DEF Restore
<1>2. PICK order \in Orders(DOMAIN base.distances) : catalogue' = Restored(order)
  BY DEF Restore
<1> DEFINE c == Restored(order)
<1>3. CatalogueInv(c) /\ c.distances = d
  BY RestoredAsStored DEF ProgramInv
<1> HIDE DEF c
<1>4. Grows(c, c)
  BY <1>3, GrowsFromItself
<1>5. SaidIn(MadeOf, d)
  BY DEF DistanceInv
<1> HIDE DEF d
<1>6. DocumentOf(run) = MadeOf
  BY <1>1 DEF DistanceInv, DocumentOf, MadeOf, Source, Run
<1>7. catalogue' = c /\ catalogue'.distances = d
  BY <1>2, <1>3 DEF c
<1>8. SaidIn(DocumentOf(run), catalogue.distances)'
  <2>1. DocumentOf(run)' = MadeOf
    BY <1>1, <1>6 DEF DocumentOf, Source
  <2>2. SaidIn(DocumentOf(run)', catalogue'.distances)
    BY <1>5, <1>7, <2>1
  <2> QED BY <2>2
<1>9. Grows(catalogue, catalogue)'
  BY <1>4, <1>7 DEF Grows, AreDistances
<1> QED BY <1>1, <1>8, <1>9, SayingStays DEF DistanceInv

LEMMA ProgramKeepsDistances ==
  ASSUME OrdersEnumerate, ProgramInv, DistanceInv, [ProgramNext]_allVars
  PROVE  DistanceInv'
BY OtherStepsKeepDistances, StartKeepsDistances, ReadingKeepsDistances, AddQueuedBusKeepsDistances,
   EndOfAddKeepsDistances, StoreKeepsDistances, RestoreKeepsDistances DEF ProgramNext

LEMMA NothingIsStored ==
  ASSUME ProgramInit
  PROVE  DistanceInv
<1> DEFINE document == <<>>
<1>1. stage = "start" /\ made = 0 /\ base = EmptyBase
  BY DEF ProgramInit
<1>2. MadeOf = document /\ base.distances = Empty
  BY <1>1 DEF MadeOf, EmptyBase
<1>3. document \in Seq(ToSet(document)) /\ Len(document) = 0
  OBVIOUS
<1> HIDE DEF document
<1>4. Said(document, 0, Empty)
  BY <1>3, NothingIsSaid
<1>5. SaidIn(MadeOf, base.distances)
  BY <1>2, <1>3, <1>4 DEF SaidIn
<1> QED BY <1>1, <1>5 DEF DistanceInv

\* For all base requests and runs, whatever was refused before, and in whatever order
\* the file gives the distances back: each distance of the catalogue is the one that
\* the base requests describe, and there are no others.
THEOREM DistancesStayAsDescribed ==
  ASSUME OrdersEnumerate
  PROVE  ProgramSpec => []DistancesAsDescribed
<1>1. ProgramInit => DistanceInv
  BY NothingIsStored
<1>2. ProgramInv /\ DistanceInv /\ [ProgramNext]_allVars => DistanceInv'
  BY ProgramKeepsDistances
<1>3. ProgramInv /\ DistanceInv => DistancesAsDescribed
  <2> SUFFICES ASSUME ProgramInv, DistanceInv, stage \in {"store", "route", "print"}, NEW s, NEW t
               PROVE  /\ Known(catalogue, s, t) <=> Described(DocumentOf(run), s, t)
                      /\ Known(catalogue, s, t) =>
                           catalogue.distances[<<s, t>>] = DistanceIn(DocumentOf(run), s, t)
    BY DEF DistancesAsDescribed
  <2> DEFINE document == DocumentOf(run)
             d == catalogue.distances
  <2>1. document \in Seq(ToSet(document))
    <3>1. runs \in Seq(ToSet(runs)) /\ \A input \in ToSet(runs) : IsInput(input)
      BY ProgramAssumption DEF ProgramInv
    <3>2. Source(run) \in {0} \cup DOMAIN runs
      BY DEF Source, ProgramInv, DistanceInv
    <3>3. CASE Source(run) = 0
      BY <3>3 DEF DocumentOf
    <3>4. CASE Source(run) \in DOMAIN runs /\ Source(run) # 0
      <4>1. IsInput(runs[Source(run)]) /\ document = runs[Source(run)].base_requests
        BY <3>1, <3>4 DEF DocumentOf, ToSet
      <4> QED BY <4>1 DEF IsInput
    <3> QED BY <3>2, <3>3, <3>4
  <2>2. Said(document, Len(document), d)
    BY DEF DistanceInv, SaidIn
  <2> HIDE DEF document, d
  <2>3. /\ <<s, t>> \in DOMAIN d <=> Described(document, s, t)
        /\ <<s, t>> \in DOMAIN d => d[<<s, t>>] = DistanceIn(document, s, t)
    BY <2>1, <2>2, SaidIsDescribed
  <2> QED BY <2>3 DEF Known, document, d
<1> QED BY <1>1, <1>2, <1>3, ProgramInvariant, PTL DEF ProgramSpec

(***************************************************************************)
(* Good base requests are answered.                                        *)
(***************************************************************************)
NoTimeIsNegative(distances) == \A leg \in DOMAIN distances : distances[leg] >= 0

\* The clock of a bus does not go back.
LEMMA ClockGoesOn ==
  ASSUME CatalogueInv(catalogue), NoTimeIsNegative(catalogue.distances),
         NEW b \in DOMAIN catalogue.buses, NEW i \in DOMAIN catalogue.buses[b].stops,
         NEW j \in DOMAIN catalogue.buses[b].stops, i < j
  PROVE  Clock(b)[i] \in Int /\ Clock(b)[j] \in Int /\ Clock(b)[i] <= Clock(b)[j]
<1> DEFINE stops == catalogue.buses[b].stops
           leg(k) == Leg(catalogue, stops[k - 1], stops[k])
           clock == Clock(b)
<1>1. PICK n \in Nat : DOMAIN stops = 1 .. n
  BY StopsOfABus
<1>2. i \in 1 .. n /\ j \in 1 .. n /\ n > 0
  BY <1>1
<1>3. clock \in [1 .. n -> Int] /\ \A k \in 2 .. n : clock[k] = clock[k - 1] + leg(k)
  BY <1>1, <1>2, ClockRuns DEF CatalogueInv
<1>4. \A k : leg(k) \in Int /\ leg(k) >= 0
  BY LegsAreWhole DEF CatalogueInv, NoTimeIsNegative, Leg, Known
<1> HIDE DEF clock, leg
<1> DEFINE Bad == {k \in Nat : k \in i .. j /\ ~(clock[i] <= clock[k])}
<1>5. Bad = {}
  <2> SUFFICES ASSUME Bad # {} PROVE FALSE
    OBVIOUS
  <2>1. Bad \subseteq Nat
    OBVIOUS
  <2> HIDE DEF Bad
  <2>2. PICK k \in Bad : \A d \in Bad : k <= d
    BY <2>1, LeastNatural
  <2>3. k \in i .. j /\ ~(clock[i] <= clock[k]) /\ k # i
    BY <2>2, <1>2, <1>3 DEF Bad
  <2>4. k - 1 \notin Bad /\ k - 1 \in i .. j /\ k - 1 \in Nat /\ k \in 2 .. n /\ k - 1 \in 1 .. n
    BY <2>2, <2>3, <1>2
  <2>5. clock[i] <= clock[k - 1]
    BY <2>4 DEF Bad
  <2>6. clock[k] = clock[k - 1] + leg(k)
    BY <2>4, <1>3
  <2>7. clock[i] \in Int /\ clock[k - 1] \in Int /\ clock[k] \in Int
    BY <1>2, <1>3, <2>4
  <2> QED BY <2>3, <2>5, <2>6, <2>7, <1>4
<1>6. j \notin Bad /\ j \in i .. j /\ j \in Nat
  BY <1>2, <1>5
<1>7. clock[i] <= clock[j]
  BY <1>6
<1> QED BY <1>2, <1>3, <1>7 DEF clock

\* When every line comes back, every vertex has an edge that leaves it.
LEMMA GoodGraph ==
  ASSUME IsGraph, GraphInv, CatalogueInv(catalogue), NoTimeIsNegative(catalogue.distances),
         bus_wait_time \in Int, bus_wait_time >= 0,
         LinesAreClosed(catalogue)
  PROVE  EveryVertexIsLeft /\ VerticesAreNumbered /\ \A e \in DOMAIN edges : edges[e].weight >= 0
<1> DEFINE v == stop_to_vertex
<1>1. ASSUME NEW e \in DOMAIN edges
      PROVE  /\ edges[e].from \in {v[s] : s \in Served} /\ edges[e].to \in Sources
             /\ edges[e].weight >= 0
  <2>1. PICK b \in DOMAIN catalogue.buses : \E i, j \in DOMAIN catalogue.buses[b].stops :
          i < j /\ IsRide(e, b, i, j)
    BY DEF GraphInv
  <2> DEFINE stops == catalogue.buses[b].stops
  <2>2. PICK i, j \in DOMAIN stops : i < j /\ IsRide(e, b, i, j)
    BY <2>1
  <2>3. PICK n \in Nat : Len(stops) = n /\ DOMAIN stops = 1 .. n
    BY StopsOfABus
  <2>4. /\ stops[i] \in Served /\ edges[e].from = v[stops[i]] /\ edges[e].to = v[stops[j]]
        /\ edges[e].weight = RideTime(b, i, j)
    BY <2>2 DEF IsRide
  <2>5. edges[e].weight >= 0
    BY <2>2, <2>4, ClockGoesOn DEF RideTime
  <2>6. ASSUME NEW k \in DOMAIN stops, k + 1 \in DOMAIN stops PROVE v[stops[k]] \in Sources
    <3>1. k < k + 1
      BY <2>3
    <3>2. PICK f \in DOMAIN edges : IsRide(f, b, k, k + 1)
      BY <2>6, <3>1 DEF GraphInv
    <3> QED BY <3>2 DEF IsRide, Sources
  <2>7. CASE j < n
    <3>1. j + 1 \in DOMAIN stops
      BY <2>3, <2>7
    <3> QED BY <2>4, <2>5, <2>6, <3>1
  <2>8. CASE ~(j < n)
    <3>1. j = n /\ 1 \in DOMAIN stops /\ 1 + 1 \in DOMAIN stops
      BY <2>2, <2>3, <2>8
    <3>2. stops[1] = stops[j]
      BY <2>3, <3>1 DEF LinesAreClosed, IsClosed
    <3> QED BY <2>4, <2>5, <2>6, <3>1, <3>2
  <2> QED BY <2>7, <2>8
<1>2. Sources = {v[s] : s \in Served}
  BY <1>1 DEF Sources, GraphInv
<1>3. PICK n \in Nat : {v[s] : s \in Served} = 0 .. n - 1
  BY DEF GraphInv
<1>4. Cardinality(0 .. n - 1) = n
  BY FS_Interval
<1>5. VerticesAreNumbered
  BY <1>2, <1>3, <1>4 DEF VerticesAreNumbered
<1> QED BY <1>1, <1>5 DEF EveryVertexIsLeft

\* What a run keeps, reading and storing: every request that has been read has its
\* stops in the catalogue, or waits.
AreKept(document, n, queue, stops) ==
  \A k \in DOMAIN document : k < n =>
    /\ document[k].type = "Stop" => document[k].name \in stops
    /\ document[k].type = "Bus" => \/ \E i \in DOMAIN queue : queue[i] = document[k]
                                   \/ CallsOf(document[k]) \subseteq stops

\* A run answers from base requests that are good.
GoodSource(j) == j # 0 /\ IsGoodInput(runs[j])

BaseIsGood ==
  /\ \A b \in DOMAIN base.buses : IsClosed(BusStops(base.buses[b].stops, ~base.buses[b].is_roundtrip))
  /\ base.bus_wait_time >= 0 /\ CanDraw(base.render_settings)

GoodInv ==
  /\ (\E S : outcomes \in Seq(S)) /\ run = Len(outcomes) + 1
  /\ stage = "add" => AreKept(Run.base_requests, next, buses_queue, DOMAIN catalogue.stops)
  /\ stage = "store" => StopNames(Run.base_requests) \subseteq DOMAIN catalogue.stops
  /\ stage \in {"store", "route", "answer"} => Run.mode # "text"
  /\ stage = "print" => Run.mode = "text"
  /\ GoodSource(made) => BaseIsGood
  /\ stage \in {"add", "store", "route", "answer"} /\ Run.mode # "text" /\ GoodSource(Source(run)) =>
       LinesAreClosed(catalogue) /\ bus_wait_time >= 0 /\ CanDraw(map_settings)
  /\ stage = "answer" => FailsOnBadGraphsOnly

LEMMA NothingHasEnded ==
  ASSUME ProgramInit
  PROVE  GoodInv
<1>1. outcomes = <<>> /\ run = 1 /\ stage = "start" /\ made = 0
  BY DEF ProgramInit
<1>2. outcomes \in Seq({}) /\ run = Len(outcomes) + 1
  BY <1>1
<1> QED BY <1>1, <1>2 DEF GoodInv, GoodSource

LEMMA GoodBaseStays ==
  ASSUME GoodInv, UNCHANGED <<runs, made, base>>
  PROVE  (GoodSource(made) => BaseIsGood)'
<1>1. (GoodSource(made)' <=> GoodSource(made)) /\ (BaseIsGood' <=> BaseIsGood)
  BY DEF GoodSource, BaseIsGood
<1> QED BY <1>1 DEF GoodInv

LEMMA EndKeepsGood ==
  ASSUME ProgramInv, GoodInv, NEW outcome, End(outcome),
         UNCHANGED <<base, made>> \/ (GoodSource(made)' => BaseIsGood')
  PROVE  GoodInv'
<1>1. outcomes' = Append(outcomes, outcome) /\ run' = run + 1 /\ stage' = "start" /\ runs' = runs
  BY DEF End
<1>2. PICK S : outcomes \in Seq(S)
  BY DEF GoodInv
<1>3. outcomes' \in Seq(S \cup {outcome}) /\ Len(outcomes') = Len(outcomes) + 1
  BY <1>1, <1>2
<1>4. run' = Len(outcomes') + 1
  BY <1>1, <1>3 DEF GoodInv
<1>5. GoodSource(made)' => BaseIsGood'
  BY <1>1, GoodBaseStays DEF GoodInv
<1> QED BY <1>1, <1>3, <1>4, <1>5 DEF GoodInv

\* A run that has ended as it should with good base requests.
LEMMA EndAnswers ==
  ASSUME ProgramInv, GoodInv, NEW outcome, End(outcome),
         UNCHANGED made \/ Run.mode # "process_requests",
         GoodSource(Source(run)) /\ AsksWell(Run) => outcome = "ok"
  PROVE  GoodDocumentsAreAnswered'
<1>1. outcomes' = Append(outcomes, outcome) /\ runs' = runs
  BY DEF End
<1>2. PICK S : outcomes \in Seq(S)
  BY DEF GoodInv
<1>3. Len(outcomes') = run /\ outcomes'[run] = outcome
  BY <1>1, <1>2 DEF GoodInv
<1>4. Source(Len(outcomes))' = Source(run)
  BY <1>1, <1>3 DEF Source, Run
<1>5. Source(Len(outcomes))' # 0 /\ IsGoodInput(runs[Source(Len(outcomes))])' <=> GoodSource(Source(run))
  BY <1>1, <1>4 DEF GoodSource
<1> QED BY <1>1, <1>3, <1>5 DEF GoodDocumentsAreAnswered, Run

\* As long as no run ends, the ended runs stay answered.
LEMMA StaysAnswered ==
  ASSUME UNCHANGED <<runs, made, outcomes>>, GoodDocumentsAreAnswered
  PROVE  GoodDocumentsAreAnswered'
BY DEF GoodDocumentsAreAnswered, Source

\* What a map is drawn with comes through reading, storing and restoring.
LEMMA DrawingStays ==
  ASSUME NEW settings, CanDraw(settings)
  PROVE  /\ \A read \in MapSettings(settings) : CanDraw(read)
         /\ CanDraw(GetProtoMapSettings(settings)) /\ CanDraw(DeserializeMapSettings(settings))
         /\ \A c : MapOutcome(c, settings) = "ok"
<1>1. /\ {"bus_label_offset", "stop_label_offset", "color_palette"} \subseteq DOMAIN settings
      /\ 1 \in DOMAIN settings.color_palette
      /\ Len(settings.bus_label_offset) >= 2 /\ Len(settings.stop_label_offset) >= 2
  BY DEF CanDraw, OffsetKeys
<1>2. ASSUME NEW other, {"bus_label_offset", "stop_label_offset", "color_palette"} \subseteq DOMAIN other,
             1 \in DOMAIN other.color_palette, other.bus_label_offset = settings.bus_label_offset,
             other.stop_label_offset = settings.stop_label_offset
      PROVE  CanDraw(other)
  BY <1>1, <1>2 DEF CanDraw, OffsetKeys
<1>3. ASSUME NEW read \in MapSettings(settings) PROVE CanDraw(read)
  <2> DEFINE color(k) == GetColorFromNode(settings.color_palette[k])
  <2>1. PICK number \in [NumberKeys -> Indeterminate] :
          read = [key \in SettingKeys |->
                   IF key \in DOMAIN settings THEN MatchSettingKeyToHandler(key, settings[key])
                   ELSE IF key \in NumberKeys THEN number[key] ELSE NoSettings[key]]
    BY DEF MapSettings
  <2>2. {"bus_label_offset", "stop_label_offset", "color_palette"} \subseteq SettingKeys
    BY DEF SettingKeys, OffsetKeys
  <2>3. \A key \in DOMAIN settings \cap SettingKeys :
          key \in DOMAIN read /\ read[key] = MatchSettingKeyToHandler(key, settings[key])
    BY <2>1
  <2>4. /\ {"bus_label_offset", "stop_label_offset", "color_palette"} \subseteq DOMAIN read
        /\ read.bus_label_offset = MatchSettingKeyToHandler("bus_label_offset", settings.bus_label_offset)
        /\ read.stop_label_offset = MatchSettingKeyToHandler("stop_label_offset", settings.stop_label_offset)
        /\ read.color_palette = MatchSettingKeyToHandler("color_palette", settings.color_palette)
    BY <1>1, <2>2, <2>3
  <2>5. /\ read.bus_label_offset = settings.bus_label_offset
        /\ read.stop_label_offset = settings.stop_label_offset
        /\ read.color_palette = [k \in DOMAIN settings.color_palette |-> color(k)]
    BY <2>4 DEF MatchSettingKeyToHandler
  <2> HIDE DEF color
  <2>6. 1 \in DOMAIN read.color_palette
    BY <1>1, <2>5
  <2> QED BY <1>2, <2>4, <2>5, <2>6
<1>4. CanDraw(GetProtoMapSettings(settings)) /\ CanDraw(DeserializeMapSettings(settings))
  <2> DEFINE proto(k) == GetProtoColor(settings.color_palette[k])
             color(k) == GetSvgColor(settings.color_palette[k])
             p == GetProtoMapSettings(settings)
             q == DeserializeMapSettings(settings)
  <2>1. /\ DOMAIN p = DOMAIN settings /\ DOMAIN q = DOMAIN settings
        /\ p.bus_label_offset = settings.bus_label_offset
        /\ p.stop_label_offset = settings.stop_label_offset
        /\ q.bus_label_offset = settings.bus_label_offset
        /\ q.stop_label_offset = settings.stop_label_offset
    BY <1>1 DEF GetProtoMapSettings, DeserializeMapSettings
  <2>2. /\ p.color_palette = [k \in DOMAIN settings.color_palette |-> proto(k)]
        /\ q.color_palette = [k \in DOMAIN settings.color_palette |-> color(k)]
    BY <1>1 DEF GetProtoMapSettings, DeserializeMapSettings
  <2> HIDE DEF proto, color, p, q
  <2>3. 1 \in DOMAIN p.color_palette /\ 1 \in DOMAIN q.color_palette
    BY <1>1, <2>2
  <2>4. CanDraw(p) /\ CanDraw(q)
    BY <1>1, <1>2, <2>1, <2>3
  <2> QED BY <2>4 DEF p, q
<1>5. ASSUME NEW c PROVE MapOutcome(c, settings) = "ok"
  <2>1. settings.color_palette # <<>>
    BY <1>1
  <2>2. ~(Len(settings.bus_label_offset) < 2) /\ ~(Len(settings.stop_label_offset) < 2)
    <3> DEFINE m == Len(settings.bus_label_offset)
               n == Len(settings.stop_label_offset)
    <3>1. m >= 2 /\ n >= 2
      BY <1>1
    <3> QED BY <3>1
  <2> QED BY <2>1, <2>2 DEF MapOutcome
<1> QED BY <1>3, <1>4, <1>5

LEMMA StartKeepsGood ==
  ASSUME ProgramInv, GoodInv, Start
  PROVE  GoodInv' /\ UNCHANGED <<runs, made, outcomes>>
<1>1. /\ runs' = runs /\ run' = run /\ next' = 1 /\ buses_queue' = <<>> /\ base' = base /\ made' = made
      /\ outcomes' = outcomes /\ catalogue' = EmptyCatalogue
      /\ stage' = IF Run.mode = "process_requests" THEN "restore" ELSE "add"
      /\ stage = "start" /\ run <= Len(runs)
      /\ ReadsSettings => map_settings' \in MapSettings(Run.render_settings)
      /\ "bus_wait_time" \in DOMAIN Run => bus_wait_time' = Run.bus_wait_time
  BY DEF Start
<1>2. Run' = Run /\ (GoodSource(Source(run))' <=> GoodSource(Source(run)))
      /\ (GoodSource(made) => BaseIsGood)'
  BY <1>1, GoodBaseStays DEF Run, GoodSource, Source
<1>3. IsInput(Run)
  <2>1. runs \in Seq(ToSet(runs)) /\ \A input \in ToSet(runs) : IsInput(input)
    BY ProgramAssumption DEF ProgramInv
  <2>2. run \in DOMAIN runs
    BY <1>1, <2>1 DEF ProgramInv
  <2> QED BY <2>1, <2>2 DEF Run, ToSet
<1>4. AreKept(Run.base_requests, next, buses_queue, DOMAIN catalogue.stops)'
  <2>1. \A k \in DOMAIN Run.base_requests : ~(k < 1)
    BY <1>3 DEF IsInput
  <2> QED BY <1>1, <1>2, <2>1 DEF AreKept
<1>5. ASSUME stage' = "add", Run.mode # "text", GoodSource(Source(run))
      PROVE  LinesAreClosed(catalogue)' /\ bus_wait_time' >= 0 /\ CanDraw(map_settings)'
  <2>1. Source(run) = run /\ ReadsSettings
    BY <1>1, <1>3, <1>5 DEF Source, Run, IsInput, ReadsSettings
  <2>2. HasGoodSettings(Run)
    BY <1>5, <2>1 DEF GoodSource, Run, IsGoodInput
  <2>3. bus_wait_time' >= 0
    BY <1>1, <2>2 DEF HasGoodSettings
  <2>4. CanDraw(map_settings')
    BY <1>1, <1>5, <2>1, <2>2, DrawingStays DEF HasGoodSettings
  <2>5. LinesAreClosed(EmptyCatalogue)
    BY DEF LinesAreClosed, EmptyCatalogue, Empty
  <2>6. LinesAreClosed(catalogue)'
    BY <1>1, <2>5
  <2>7. CanDraw(map_settings)'
    BY <2>4
  <2> QED BY <2>3, <2>6, <2>7
<1>6. stage' \in {"restore", "add"}
  BY <1>1
<1> QED BY <1>1, <1>2, <1>4, <1>5, <1>6 DEF GoodInv

LEMMA QueueBusKeepsGood ==
  ASSUME ProgramInv, GoodInv, QueueBus
  PROVE  GoodInv' /\ UNCHANGED <<runs, made, outcomes>>
<1> DEFINE document == Run.base_requests
           q == buses_queue
           request == IncomingRequest
<1>1. /\ runs' = runs /\ run' = run /\ base' = base /\ made' = made /\ outcomes' = outcomes
      /\ stage = "add" /\ stage' = "add" /\ map_settings' = map_settings
      /\ catalogue' = catalogue /\ bus_wait_time' = bus_wait_time
      /\ buses_queue' = Append(q, request) /\ next' = next + 1
      /\ Comes /\ IncomingOutcome = "ok" /\ request.type = "Bus"
  BY DEF QueueBus, IsNext, Comes, transportVars
<1>2. Run' = Run /\ (GoodSource(Source(run))' <=> GoodSource(Source(run)))
      /\ (GoodSource(made) => BaseIsGood)'
  BY <1>1, GoodBaseStays DEF Run, GoodSource, Source
<1>3. next \in DOMAIN document /\ request = document[next]
  BY <1>1, ComingBus
<1>4. q \in Seq(ToSet(document)) /\ document \in Seq(ToSet(document)) /\ next \in Nat
  BY <1>1, RunIsInput DEF ProgramInv, IsInput
<1> HIDE DEF document, q, request
<1>5. \E i \in DOMAIN Append(q, request) : Append(q, request)[i] = request
  <2>1. /\ Len(q) \in Nat /\ Append(q, request)[Len(q) + 1] = request
        /\ DOMAIN Append(q, request) = 1 .. Len(q) + 1
    BY <1>4
  <2> QED BY <2>1
<1>6. \A i \in DOMAIN q : i \in DOMAIN Append(q, request) /\ Append(q, request)[i] = q[i]
  BY <1>4
<1>7. \A k \in DOMAIN document : k < next + 1 => k < next \/ k = next
  BY <1>4
<1>8. AreKept(document, next, q, DOMAIN catalogue.stops)
  BY <1>1 DEF GoodInv, document, q
<1>9. AreKept(document, next + 1, Append(q, request), DOMAIN catalogue.stops)
  BY <1>1, <1>3, <1>5, <1>6, <1>7, <1>8 DEF AreKept
<1>10. AreKept(Run.base_requests, next, buses_queue, DOMAIN catalogue.stops)'
  BY <1>1, <1>2, <1>9 DEF AreKept, document
<1>11. /\ LinesAreClosed(catalogue)' <=> LinesAreClosed(catalogue)
       /\ CanDraw(map_settings)' <=> CanDraw(map_settings)
  BY <1>1
<1> QED BY <1>1, <1>2, <1>10, <1>11 DEF GoodInv

LEMMA AddNextStopKeepsGood ==
  ASSUME ProgramInv, DistanceInv, GoodInv, AddNextStop
  PROVE  GoodInv' /\ UNCHANGED <<runs, made, outcomes>>
<1> DEFINE document == Run.base_requests
           request == document[next]
           coming == IncomingRequest
           added == AddStop(catalogue, coming.name, coming.coordinates)
           f == HandleAddStop(catalogue, coming)
<1>1. /\ runs' = runs /\ run' = run /\ base' = base /\ made' = made /\ outcomes' = outcomes
      /\ stage = "add" /\ stage' = "add" /\ map_settings' = map_settings
      /\ catalogue' = f /\ bus_wait_time' = bus_wait_time
      /\ buses_queue' = buses_queue /\ next' = next + 1
      /\ Comes /\ IncomingOutcome = "ok" /\ coming.type = "Stop"
  BY DEF AddNextStop, IsNext, Comes
<1>2. Run' = Run /\ (GoodSource(Source(run))' <=> GoodSource(Source(run)))
      /\ (GoodSource(made) => BaseIsGood)'
  BY <1>1, GoodBaseStays DEF Run, GoodSource, Source
<1>3. /\ next \in DOMAIN document /\ request.type = "Stop" /\ coming.name = request.name
      /\ IsTable(RoadDistances(request))
      /\ Gives(DistancesFrom(coming), RoadDistances(request))
  BY <1>1, ComingSays
<1>4. Grows(catalogue, catalogue) /\ document \in Seq(ToSet(document)) /\ next \in Nat
  BY <1>1, IncomingSays DEF DistanceInv, ProgramInv
<1> HIDE DEF document, coming
<1>5. Grows(added, f)
  BY <1>3, <1>4, HandleAddStopSays
<1>6. added.buses = catalogue.buses /\ DOMAIN added.stops = DOMAIN catalogue.stops \cup {coming.name}
  <2> DEFINE stop == [StopOf(catalogue, coming.name) EXCEPT !.coordinates = coming.coordinates]
             stops == With(catalogue.stops, coming.name, stop)
  <2>1. added = [catalogue EXCEPT !.stops = stops]
    BY DEF AddStop
  <2>2. DOMAIN stops = DOMAIN catalogue.stops \cup {coming.name}
    BY DEF With
  <2>3. catalogue = [stops |-> catalogue.stops, buses |-> catalogue.buses, distances |-> catalogue.distances]
    BY <1>4 DEF Grows
  <2> HIDE DEF stops, added
  <2> QED BY <2>1, <2>2, <2>3
<1> HIDE DEF added, f
<1>7. f.buses = catalogue.buses /\ DOMAIN f.stops = DOMAIN catalogue.stops \cup {coming.name}
  BY <1>5, <1>6 DEF Grows
<1>8. AreKept(document, next, buses_queue, DOMAIN catalogue.stops)
  BY <1>1 DEF GoodInv, document
<1>9. AreKept(document, next + 1, buses_queue, DOMAIN f.stops)
  <2>1. \A k \in DOMAIN document : k < next + 1 => k < next \/ k = next
    BY <1>4
  <2> QED BY <1>3, <1>7, <1>8, <2>1 DEF AreKept
<1>10. AreKept(Run.base_requests, next, buses_queue, DOMAIN catalogue.stops)'
  BY <1>1, <1>2, <1>9 DEF AreKept, document
<1>11. /\ LinesAreClosed(catalogue)' <=> LinesAreClosed(catalogue)
       /\ CanDraw(map_settings)' <=> CanDraw(map_settings)
  BY <1>1, <1>7 DEF LinesAreClosed
<1> QED BY <1>1, <1>2, <1>10, <1>11 DEF GoodInv

\* Base requests that are good have a distance for every leg of their buses.
LEMMA GoodBusFits ==
  ASSUME ProgramInv, DistanceInv, stage = "add", next > Len(Incoming), GoodSource(run),
         NEW request \in ToSet(Run.base_requests), request.type = "Bus"
  PROVE  /\ IsComplete(request) /\ IsClosed(BusStops(request.stops, ~request.is_roundtrip))
         /\ AddBusOutcome(catalogue, request.stops, ~request.is_roundtrip) = "ok"
<1> DEFINE document == Run.base_requests
           d == catalogue.distances
<1>1. document \in Seq(ToSet(document)) /\ IsRequest(request) /\ IsGood(document)
  BY RunIsInput DEF IsInput, GoodSource, IsGoodInput, Run
<1>2. next - 1 = Len(document)
  <2>1. next > Len(document) /\ next - 1 <= Len(document)
    BY IncomingSays DEF DistanceInv
  <2>2. next \in Nat /\ Len(document) \in Nat
    BY <1>1 DEF ProgramInv
  <2> QED BY <2>1, <2>2
<1>3. Said(document, Len(document), d)
  BY <1>2 DEF DistanceInv
<1>4. PICK k \in DOMAIN document : document[k] = request
  BY DEF ToSet
<1> HIDE DEF document, d
<1> DEFINE list == request.stops
           one_way == ~request.is_roundtrip
           line == BusStops(list, one_way)
<1>5. /\ IsComplete(request) /\ list # <<>> /\ line[1] = line[Len(line)]
      /\ \A leg \in Legs(line) : Described(document, leg[1], leg[2])
  BY <1>1, <1>4 DEF IsGood, BusLine
<1>6. list \in Seq(ToSet(list)) /\ one_way \in BOOLEAN
  BY <1>1, <1>5 DEF IsRequest
<1>7. ASSUME NEW leg \in Legs(line) PROVE leg \in DOMAIN d
  <2>1. leg = <<leg[1], leg[2]>>
    BY DEF Legs
  <2>2. <<leg[1], leg[2]>> \in DOMAIN d
    BY <1>1, <1>3, <1>5, SaidIsDescribed
  <2> QED BY <2>1, <2>2
<1>8. line # <<>>
  <2> HIDE DEF list, one_way
  <2>1. 1 \in DOMAIN list
    BY <1>5, <1>6
  <2>2. 1 \in DOMAIN line
    BY <1>5, <1>6, <2>1, ThereAndBack
  <2> HIDE DEF line
  <2> QED BY <2>2
<1>9. AddBusOutcome(catalogue, list, one_way) = "ok"
  <2> HIDE DEF list, one_way
  <2> QED BY <1>5, <1>7 DEF AddBusOutcome, d
<1> QED BY <1>5, <1>8, <1>9 DEF IsClosed

LEMMA AddQueuedBusKeepsGood ==
  ASSUME ProgramInv, DistanceInv, GoodInv, GoodDocumentsAreAnswered, AddQueuedBus
  PROVE  GoodInv' /\ GoodDocumentsAreAnswered'
<1> DEFINE document == Run.base_requests
           S == ToSet(document)
           q == buses_queue
           request == Head(q)
           outcome == IF ~IsComplete(request) THEN "out_of_range"
                      ELSE AddBusOutcome(catalogue, request.stops, ~request.is_roundtrip)
           c == AddBus(catalogue, request.name, request.stops, ~request.is_roundtrip)
<1>0. stage = "add" /\ q # <<>> /\ next > Len(Incoming) /\ HandleAddBus(request)
  BY DEF AddQueuedBus
<1>1. q \in Seq(S) /\ (\A k \in DOMAIN q : q[k].type = "Bus") /\ \A r \in S : IsRequest(r)
  BY <1>0, RunIsInput DEF ProgramInv, IsInput
<1>2. request = q[1] /\ 1 \in DOMAIN q /\ request \in S /\ request.type = "Bus"
  <2> HIDE DEF S
  <2>1. request = q[1] /\ 1 \in DOMAIN q /\ q[1] \in S
    BY <1>0, <1>1
  <2> QED BY <1>1, <2>1
<1>3. Source(run) = run
  BY <1>0 DEF ProgramInv, Source, Run
<1>4. GoodSource(run) => outcome = "ok" /\ IsClosed(BusStops(request.stops, ~request.is_roundtrip))
  <2> HIDE DEF request
  <2> QED BY <1>0, <1>2, GoodBusFits
<1>5. CASE outcome # "ok" /\ End(outcome) /\ UNCHANGED <<base, responses, made>>
  <2> HIDE DEF outcome
  <2>1. GoodInv'
    BY <1>5, EndKeepsGood
  <2>2. GoodDocumentsAreAnswered'
    BY <1>3, <1>4, <1>5, EndAnswers
  <2> QED BY <2>1, <2>2
<1>6. CASE /\ outcome = "ok" /\ catalogue' = c /\ buses_queue' = Tail(q)
           /\ UNCHANGED <<runs, run, stage, next, map_settings, base, responses, outcomes, made,
                          routerVars, bus_wait_time, all_buses, stop_to_vertex>>
  <2>1. /\ runs' = runs /\ run' = run /\ base' = base /\ made' = made /\ outcomes' = outcomes
        /\ stage' = "add" /\ map_settings' = map_settings /\ bus_wait_time' = bus_wait_time
        /\ next' = next
    BY <1>0, <1>6
  <2>2. Run' = Run /\ (GoodSource(Source(run))' <=> GoodSource(Source(run)))
        /\ (GoodSource(made) => BaseIsGood)'
    BY <2>1, GoodBaseStays DEF Run, GoodSource, Source
  <2> DEFINE list == request.stops
             one_way == ~request.is_roundtrip
  <2>3. list \in Seq(ToSet(list)) /\ one_way \in BOOLEAN /\ AddBusOutcome(catalogue, list, one_way) = "ok"
    BY <1>1, <1>2, <1>6 DEF IsRequest
  <2>4. CallsOf(request) = ToSet(list) /\ c = AddBus(catalogue, request.name, list, one_way)
    BY DEF CallsOf
  <2>5. Grows(catalogue, catalogue) /\ AreKept(document, next, q, DOMAIN catalogue.stops)
    BY <1>0 DEF DistanceInv, GoodInv
  <2>6. GoodSource(run) => IsClosed(BusStops(list, one_way))
    BY <1>4
  <2> HIDE DEF document, S, request, outcome, list, one_way, c
  <2>7. IsLine(list, one_way, catalogue.distances)
    BY <2>3, LineOfAddBus
  <2>8. DOMAIN c.stops = DOMAIN catalogue.stops \cup ToSet(BusStops(list, one_way))
    BY <2>4, <2>5, AddBusAdds DEF Grows, HasBus
  <2>9. ToSet(list) \subseteq ToSet(BusStops(list, one_way))
    <3>1. \A k \in DOMAIN list : k \in DOMAIN BusStops(list, one_way) /\ BusStops(list, one_way)[k] = list[k]
      BY <2>7, ThereAndBack DEF IsLine
    <3> QED BY <3>1 DEF ToSet
  <2>10. \A i \in DOMAIN q : i # 1 => i - 1 \in DOMAIN Tail(q) /\ Tail(q)[i - 1] = q[i]
    <3>1. Len(q) \in Nat /\ Len(q) > 0 /\ DOMAIN q = 1 .. Len(q) /\ Len(Tail(q)) = Len(q) - 1 /\ DOMAIN Tail(q) = 1 .. Len(q) - 1
      BY <1>0, <1>1
    <3>2. \A i \in DOMAIN q : i # 1 => i - 1 \in 1 .. Len(q) - 1 /\ (i - 1) + 1 = i
      BY <3>1
    <3>3. \A k \in 1 .. Len(q) - 1 : Tail(q)[k] = q[k + 1]
      BY <1>0, <1>1, <3>1
    <3> QED BY <3>1, <3>2, <3>3
  <2>11. AreKept(document, next, Tail(q), DOMAIN c.stops)
    <3> SUFFICES ASSUME NEW k \in DOMAIN document, k < next
                 PROVE  /\ document[k].type = "Stop" => document[k].name \in DOMAIN c.stops
                        /\ document[k].type = "Bus" => \/ \E i \in DOMAIN Tail(q) : Tail(q)[i] = document[k]
                                                       \/ CallsOf(document[k]) \subseteq DOMAIN c.stops
      BY DEF AreKept
    <3>1. document[k].type = "Stop" => document[k].name \in DOMAIN c.stops
      BY <2>5, <2>8 DEF AreKept
    <3>2. ASSUME document[k].type = "Bus"
          PROVE  \/ \E i \in DOMAIN Tail(q) : Tail(q)[i] = document[k]
                 \/ CallsOf(document[k]) \subseteq DOMAIN c.stops
      <4>1. CASE CallsOf(document[k]) \subseteq DOMAIN catalogue.stops
        BY <2>8, <4>1
      <4>2. CASE \E i \in DOMAIN q : q[i] = document[k]
        <5>1. PICK i \in DOMAIN q : q[i] = document[k]
          BY <4>2
        <5>2. CASE i = 1
          BY <1>2, <2>4, <2>8, <2>9, <5>1, <5>2
        <5>3. CASE i # 1
          BY <2>10, <5>1, <5>3
        <5> QED BY <5>2, <5>3
      <4> QED BY <2>5, <3>2, <4>1, <4>2 DEF AreKept
    <3> QED BY <3>1, <3>2
  <2>12. AreKept(Run.base_requests, next, buses_queue, DOMAIN catalogue.stops)'
    BY <1>6, <2>1, <2>2, <2>11 DEF AreKept, document
  <2>13. Run.mode # "text" /\ GoodSource(run) /\ LinesAreClosed(catalogue) => LinesAreClosed(c)
    BY <1>0, <2>4, <2>6, <2>7, AddBusKeeps DEF ProgramInv
  <2>14. LinesAreClosed(catalogue)' <=> LinesAreClosed(c)
    BY <1>6
  <2>15. CanDraw(map_settings)' <=> CanDraw(map_settings)
    BY <2>1
  <2>16. GoodInv'
    BY <1>0, <1>3, <2>1, <2>2, <2>12, <2>13, <2>14, <2>15 DEF GoodInv
  <2> QED BY <2>1, <2>16, StaysAnswered
<1> QED BY <1>0, <1>5, <1>6 DEF HandleAddBus

LEMMA EndOfAddKeepsGood ==
  ASSUME ProgramInv, GoodInv, EndOfAdd
  PROVE  GoodInv' /\ UNCHANGED <<runs, made, outcomes>>
<1> DEFINE document == Run.base_requests
           stops == DOMAIN catalogue.stops
<1>1. /\ runs' = runs /\ run' = run /\ base' = base /\ made' = made /\ outcomes' = outcomes
      /\ stage = "add" /\ map_settings' = map_settings
      /\ catalogue' = catalogue /\ bus_wait_time' = bus_wait_time
      /\ next > Len(Incoming) /\ buses_queue = <<>>
  BY DEF EndOfAdd, transportVars
<1>2. Run' = Run /\ (GoodSource(Source(run))' <=> GoodSource(Source(run)))
      /\ (GoodSource(made) => BaseIsGood)'
  BY <1>1, GoodBaseStays DEF Run, GoodSource, Source
<1>3. Run.mode \in {"make_base", "ReadJSON", "text"}
  BY <1>1, RunIsInput DEF IsInput, ProgramInv
<1>4. stage' \in {"store", "route", "print"} /\ (stage' # "print" <=> Run.mode # "text")
  BY <1>3 DEF EndOfAdd
<1>5. document \in Seq(ToSet(document)) /\ next > Len(document) /\ next \in Nat
  BY <1>1, IncomingSays DEF ProgramInv
<1>6. AreKept(document, next, <<>>, stops)
  BY <1>1 DEF GoodInv
<1> HIDE DEF document, stops
<1>7. StopNames(document) \subseteq stops
  <2>1. \A k \in DOMAIN document : k < next
    BY <1>5
  <2>2. DOMAIN <<>> = {}
    OBVIOUS
  <2>3. \A k \in DOMAIN document : /\ document[k].type = "Stop" => document[k].name \in stops
                                  /\ document[k].type = "Bus" => CallsOf(document[k]) \subseteq stops
    BY <1>6, <2>1, <2>2 DEF AreKept
  <2>4. NamesOf(document, "Stop") \subseteq stops
    <3> SUFFICES ASSUME NEW x \in NamesOf(document, "Stop") PROVE x \in stops
      OBVIOUS
    <3>1. PICK k \in {n \in DOMAIN document : document[n].type = "Stop"} : x = document[k].name
      BY DEF NamesOf
    <3>2. k \in DOMAIN document /\ document[k].type = "Stop"
      BY <3>1
    <3>3. document[k].name \in stops
      BY <1>6, <2>1, <3>2 DEF AreKept
    <3> QED BY <3>1, <3>3
  <2> QED BY <2>3, <2>4 DEF StopNames
<1>8. (StopNames(Run.base_requests) \subseteq DOMAIN catalogue.stops)'
  BY <1>1, <1>2, <1>7 DEF document, stops
<1>9. /\ LinesAreClosed(catalogue)' <=> LinesAreClosed(catalogue)
      /\ CanDraw(map_settings)' <=> CanDraw(map_settings)
  BY <1>1
<1> QED BY <1>1, <1>2, <1>4, <1>8, <1>9 DEF GoodInv

\* The base requests that a run answers from.
LEMMA GoodDocument ==
  ASSUME ProgramInv, DistanceInv, stage # "start", GoodSource(Source(run))
  PROVE  LET document == DocumentOf(run)
         IN  /\ document \in Seq(ToSet(document)) /\ IsGood(document)
             /\ \A request \in ToSet(document) : IsRequest(request)
<1>1. runs \in Seq(ToSet(runs)) /\ \A input \in ToSet(runs) : IsInput(input)
  BY ProgramAssumption DEF ProgramInv
<1>2. Source(run) \in DOMAIN runs /\ DocumentOf(run) = runs[Source(run)].base_requests
  BY DEF Source, ProgramInv, DistanceInv, GoodSource, DocumentOf
<1>3. IsInput(runs[Source(run)])
  BY <1>1, <1>2 DEF ToSet
<1> QED BY <1>2, <1>3 DEF IsInput, GoodSource, IsGoodInput

\* What good base requests say of the distances.
LEMMA GoodDistances ==
  ASSUME NEW document, document \in Seq(ToSet(document)), IsGood(document),
         \A request \in ToSet(document) : IsRequest(request),
         NEW d, Said(document, Len(document), d), AreDistances(d)
  PROVE  /\ NoTimeIsNegative(d)
         /\ \A leg \in DOMAIN d : {leg[1], leg[2]} \subseteq StopNames(document)
<1> SUFFICES ASSUME NEW leg \in DOMAIN d
             PROVE  d[leg] >= 0 /\ {leg[1], leg[2]} \subseteq StopNames(document)
  BY DEF NoTimeIsNegative
<1> DEFINE s == leg[1]
           t == leg[2]
<1>1. leg = <<s, t>>
  BY DEF AreDistances
<1> HIDE DEF s, t
<1>2. Described(document, s, t) /\ d[leg] = DistanceIn(document, s, t)
  BY <1>1, SaidIsDescribed
<1>3. ASSUME NEW u, NEW v, NEW k \in Given(document, u, v)
      PROVE  {u, v} \subseteq StopNames(document) /\ RoadDistances(document[k])[v] >= 0
  <2>1. /\ k \in DOMAIN document /\ document[k].type = "Stop" /\ document[k].name = u
        /\ v \in DOMAIN document[k].road_distances
    BY DEF Given, Named
  <2>2. v \in StopNames(document)
    BY <2>1 DEF IsGood
  <2>3. u \in StopNames(document)
    BY <2>1 DEF StopNames, NamesOf
  <2>4. IsRequest(document[k]) /\ IsComplete(document[k])
    BY <2>1 DEF IsGood, ToSet
  <2>5. v \in DOMAIN RoadDistances(document[k])
    BY <2>1 DEF RoadDistances
  <2>6. RoadDistances(document[k])[v] \in Nat
    BY <2>1, <2>4, <2>5, RoadDistancesAreTables
  <2> QED BY <2>2, <2>3, <2>6
<1>4. Len(document) \in Nat /\ \A u, v : Given(document, u, v) \subseteq 1 .. Len(document)
  BY DEF Given, Named
<1>5. {s, t} \subseteq StopNames(document)
  BY <1>2, <1>3 DEF Described
<1>6. DistanceIn(document, s, t) >= 0
  <2>1. CASE Given(document, s, t) # {}
    <3>1. Max(Given(document, s, t)) \in Given(document, s, t)
      BY <1>4, <2>1, GreatestGiven
    <3> QED BY <1>3, <2>1, <3>1 DEF DistanceIn
  <2>2. CASE Given(document, s, t) = {}
    <3>1. Given(document, t, s) # {}
      BY <1>2, <2>2 DEF Described
    <3>2. Min(Given(document, t, s)) \in Given(document, t, s)
      BY <1>4, <3>1, GreatestGiven
    <3> QED BY <1>3, <2>2, <3>2 DEF DistanceIn
  <2> QED BY <2>1, <2>2
<1> QED BY <1>2, <1>5, <1>6 DEF s, t

\* The file gets the lines of the run that makes it.
LEMMA GoodStore ==
  ASSUME ProgramInv, GoodInv, stage = "store", GoodSource(Source(run)), base' = ProtoCatalogue
  PROVE  BaseIsGood'
<1> DEFINE p == ProtoCatalogue
<1>1. /\ p.buses = [b \in DOMAIN catalogue.buses |-> ProtoBus(catalogue.buses[b])]
      /\ p.bus_wait_time = bus_wait_time /\ p.render_settings = GetProtoMapSettings(map_settings)
  BY DEF ProtoCatalogue
<1> HIDE DEF p
<1>2. CatalogueInv(catalogue) /\ LinesAreClosed(catalogue) /\ bus_wait_time >= 0 /\ CanDraw(map_settings)
  BY DEF ProgramInv, GoodInv
<1>3. CanDraw(p.render_settings) /\ p.bus_wait_time >= 0
  BY <1>1, <1>2, DrawingStays
<1>4. ASSUME NEW b \in DOMAIN p.buses PROVE IsClosed(BusStops(p.buses[b].stops, ~p.buses[b].is_roundtrip))
  <2> DEFINE list == ProtoBus(catalogue.buses[b]).stops
             one_way == ~catalogue.buses[b].is_roundtrip
  <2>1. b \in DOMAIN catalogue.buses /\ p.buses[b] = ProtoBus(catalogue.buses[b])
    BY <1>1
  <2>2. catalogue.buses[b].stops = BusStops(list, one_way)
    BY <1>2, <2>1 DEF CatalogueInv
  <2>3. IsClosed(BusStops(list, one_way))
    BY <1>2, <2>1, <2>2 DEF LinesAreClosed
  <2>4. ProtoBus(catalogue.buses[b]).is_roundtrip = catalogue.buses[b].is_roundtrip
    BY DEF ProtoBus
  <2>5. p.buses[b].stops = list /\ (~p.buses[b].is_roundtrip) = one_way
    BY <2>1, <2>4
  <2> HIDE DEF list, one_way
  <2> DEFINE the_way == ~p.buses[b].is_roundtrip
  <2>6. the_way = one_way
    BY <2>5
  <2> HIDE DEF the_way
  <2>7. IsClosed(BusStops(p.buses[b].stops, the_way))
    BY <2>3, <2>5, <2>6
  <2> QED BY <2>7 DEF the_way
<1>5. base' = p
  BY DEF p
<1> QED BY <1>3, <1>4, <1>5 DEF BaseIsGood

LEMMA StoreKeepsGood ==
  ASSUME ProgramInv, DistanceInv, GoodInv, Store
  PROVE  GoodInv' /\ GoodDocumentsAreAnswered'
<1> DEFINE fits == \A leg \in DOMAIN catalogue.distances : {leg[1], leg[2]} \subseteq DOMAIN catalogue.stops
<1>1. stage = "store" /\ Run.mode = "make_base"
  BY DEF Store, DistanceInv
<1>2. Source(run) = run
  BY <1>1 DEF Source, Run
<1>3. GoodSource(run) => fits
  <2> SUFFICES ASSUME GoodSource(run) PROVE fits
    OBVIOUS
  <2> DEFINE document == DocumentOf(run)
  <2>1. /\ document \in Seq(ToSet(document)) /\ IsGood(document)
        /\ \A request \in ToSet(document) : IsRequest(request)
    BY <1>1, <1>2, GoodDocument
  <2>2. Said(document, Len(document), catalogue.distances) /\ AreDistances(catalogue.distances)
    BY <1>1 DEF DistanceInv, SaidIn, Grows
  <2>3. document = Run.base_requests
    BY <1>2 DEF DocumentOf, Run, GoodSource
  <2>4. StopNames(document) \subseteq DOMAIN catalogue.stops
    BY <1>1, <2>3 DEF GoodInv
  <2> HIDE DEF document
  <2>5. \A leg \in DOMAIN catalogue.distances : {leg[1], leg[2]} \subseteq StopNames(document)
    BY <2>1, <2>2, GoodDistances
  <2> QED BY <2>4, <2>5
<1>4. CASE fits
  <2>1. base' = ProtoCatalogue /\ made' = run /\ End("ok")
    BY <1>4 DEF Store
  <2>2. runs' = runs
    BY <2>1 DEF End
  <2>3. GoodSource(made)' => GoodSource(run)
    BY <2>1, <2>2 DEF GoodSource
  <2>4. GoodSource(made)' => BaseIsGood'
    BY <1>1, <1>2, <2>1, <2>3, GoodStore
  <2>5. GoodInv'
    BY <2>1, <2>4, EndKeepsGood
  <2>6. GoodDocumentsAreAnswered'
    BY <1>1, <2>1, EndAnswers
  <2> QED BY <2>5, <2>6
<1>5. CASE ~fits
  <2>1. base' = EmptyBase /\ made' = 0 /\ End("out_of_range")
    BY <1>5 DEF Store
  <2>2. ~GoodSource(made)'
    BY <2>1 DEF GoodSource
  <2>3. GoodInv'
    BY <2>1, <2>2, EndKeepsGood
  <2>4. GoodDocumentsAreAnswered'
    BY <1>1, <1>2, <1>3, <1>5, <2>1, EndAnswers
  <2> QED BY <2>3, <2>4
<1> QED BY <1>4, <1>5

LEMMA RestoreKeepsGood ==
  ASSUME OrdersEnumerate, ProgramInv, DistanceInv, GoodInv, Restore
  PROVE  GoodInv' /\ UNCHANGED <<runs, made, outcomes>>
<1>1. /\ runs' = runs /\ run' = run /\ base' = base /\ made' = made /\ outcomes' = outcomes
      /\ stage = "restore" /\ stage' = "route"
      /\ map_settings' = DeserializeMapSettings(base.render_settings)
      /\ bus_wait_time' = base.bus_wait_time
  BY DEF Restore
<1>2. Run' = Run /\ (GoodSource(Source(run))' <=> GoodSource(Source(run)))
      /\ (GoodSource(made) => BaseIsGood)'
  BY <1>1, GoodBaseStays DEF Run, GoodSource, Source
<1>3. Run.mode = "process_requests" /\ Source(run) = made
  BY <1>1 DEF DistanceInv, Source, Run
<1>4. ASSUME GoodSource(made)
      PROVE  LinesAreClosed(catalogue)' /\ bus_wait_time' >= 0 /\ CanDraw(map_settings)'
  <2>1. BaseIsGood
    BY <1>4 DEF GoodInv
  <2>2. PICK order \in Orders(DOMAIN base.distances) : catalogue' = Restored(order)
    BY DEF Restore
  <2>3. LinesAreClosed(Restored(order))
    BY <2>1, RestoredFits DEF BaseIsGood, ProgramInv
  <2>4. LinesAreClosed(catalogue)'
    BY <2>2, <2>3
  <2>5. CanDraw(map_settings')
    BY <1>1, <2>1, DrawingStays DEF BaseIsGood
  <2>6. CanDraw(map_settings)'
    BY <2>5
  <2>7. bus_wait_time' >= 0
    BY <1>1, <2>1 DEF BaseIsGood
  <2> QED BY <2>4, <2>6, <2>7
<1> QED BY <1>1, <1>2, <1>3, <1>4 DEF GoodInv

LEMMA RouterKeepsGood ==
  ASSUME OrdersEnumerate, ProgramInv, RouterInv, GoodInv, MakeRouter \/ RouterStep
  PROVE  GoodInv' /\ UNCHANGED <<runs, made, outcomes>>
<1>1. /\ runs' = runs /\ run' = run /\ base' = base /\ made' = made /\ outcomes' = outcomes
      /\ stage \in {"route", "answer"} /\ stage' = "answer" /\ map_settings' = map_settings
      /\ catalogue' = catalogue /\ bus_wait_time' = bus_wait_time
  BY DEF MakeRouter, MakeTransportRouter, RouterStep, programVars, transportVars
<1>2. Run' = Run /\ (GoodSource(Source(run))' <=> GoodSource(Source(run)))
      /\ (GoodSource(made) => BaseIsGood)'
  BY <1>1, GoodBaseStays DEF Run, GoodSource, Source
<1>3. /\ LinesAreClosed(catalogue)' <=> LinesAreClosed(catalogue)
      /\ CanDraw(map_settings)' <=> CanDraw(map_settings)
  BY <1>1
<1>4. FailsOnBadGraphsOnly'
  <2>1. CASE MakeRouter
    <3>1. Constructing'
      BY <2>1, MakeRouterKeeps
    <3>2. step' = "initialize"
      BY <3>1 DEF Constructing
    <3> QED BY <3>2 DEF FailsOnBadGraphsOnly, Failure
  <2>2. CASE RouterStep
    <3>1. [Next]_vars /\ FailsOnBadGraphsOnly
      BY <2>2, RouterStepKeeps DEF GoodInv, RouterStep
    <3> QED BY <3>1, StepsFail
  <2> QED BY <2>1, <2>2
<1> QED BY <1>1, <1>2, <1>3, <1>4 DEF GoodInv

LEMMA NoStepKeepsGood ==
  ASSUME GoodInv, UNCHANGED allVars
  PROVE  GoodInv' /\ UNCHANGED <<runs, made, outcomes>>
<1>1. /\ runs' = runs /\ run' = run /\ base' = base /\ made' = made /\ outcomes' = outcomes
      /\ stage' = stage /\ next' = next /\ buses_queue' = buses_queue /\ map_settings' = map_settings
      /\ catalogue' = catalogue /\ bus_wait_time' = bus_wait_time /\ edges' = edges /\ step' = step
  BY DEF allVars, programVars, transportVars, routerVars
<1>2. Run' = Run /\ (GoodSource(Source(run))' <=> GoodSource(Source(run)))
      /\ (GoodSource(made) => BaseIsGood)'
  BY <1>1, GoodBaseStays DEF Run, GoodSource, Source
<1>3. /\ LinesAreClosed(catalogue)' <=> LinesAreClosed(catalogue)
      /\ CanDraw(map_settings)' <=> CanDraw(map_settings)
      /\ AreKept(Run.base_requests, next, buses_queue, DOMAIN catalogue.stops)'
           <=> AreKept(Run.base_requests, next, buses_queue, DOMAIN catalogue.stops)
      /\ (StopNames(Run.base_requests) \subseteq DOMAIN catalogue.stops)'
           <=> StopNames(Run.base_requests) \subseteq DOMAIN catalogue.stops
  BY <1>1, <1>2
<1>4. FailsOnBadGraphsOnly' <=> FailsOnBadGraphsOnly
  BY <1>1 DEF FailsOnBadGraphsOnly, EveryVertexIsLeft, VerticesAreNumbered, Sources
<1> QED BY <1>1, <1>2, <1>3, <1>4 DEF GoodInv

\* Settings that are good are read, and so is every base request that is.
LEMMA RefusalIsDue ==
  ASSUME ProgramInv, GoodInv, RefuseSettings \/ RefuseNext
  PROVE  ~GoodSource(Source(run))
<1> SUFFICES ASSUME GoodSource(Source(run)) PROVE FALSE
  OBVIOUS
<1>1. CASE RefuseSettings
  <2>1. /\ ReadsSettings /\ MapSettingsOutcome(Run.render_settings) # "ok"
    BY <1>1 DEF RefuseSettings
  <2>2. Source(run) = run /\ Run.mode # "text"
    BY <2>1 DEF ReadsSettings, Source, Run
  <2>3. HasGoodSettings(Run)
    BY <2>2 DEF GoodSource, IsGoodInput, Run
  <2> QED BY <2>1, <2>2, <2>3 DEF HasGoodSettings
<1>2. CASE RefuseNext
  <2> DEFINE document == Run.base_requests
             request == document[next]
  <2>1. stage = "add" /\ Comes /\ IncomingOutcome # "ok"
    BY <1>2 DEF RefuseNext, Comes
  <2>2. Source(run) = run /\ IsInput(Run)
    BY <2>1, RunIsInput DEF ProgramInv, Source, Run
  <2>3. next \in DOMAIN document
    BY <2>1, IncomingSays DEF Comes, ProgramInv
  <2>4. IsGoodInput(Run)
    BY <2>2 DEF GoodSource, Run
  <2>5. IsComplete(request) /\ request.type \in {"Stop", "Bus"}
    BY <2>3, <2>4 DEF IsGoodInput, IsGood
  <2>6. CASE Run.mode = "text"
    <3>1. CanBeText(request) /\ MeansTheSame(Run.lines[next], request)
      BY <2>2, <2>3, <2>4, <2>6 DEF IsGoodInput, IsInput
    <3> HIDE DEF request
    <3>2. LineOutcome(Run.lines[next]) = "ok"
      BY <2>5, <3>1 DEF MeansTheSame
    <3> QED BY <2>1, <2>6, <3>2 DEF IncomingOutcome
  <2>7. CASE Run.mode # "text"
    <3>1. IncomingRequest = request
      BY <2>7 DEF IncomingRequest
    <3> HIDE DEF request
    <3>2. IncomingOutcome = "ok"
      BY <2>5, <2>7, <3>1 DEF IncomingOutcome, IsComplete
    <3> QED BY <2>1, <3>2
  <2> QED BY <2>6, <2>7
<1> QED BY <1>1, <1>2

\* The graph of good base requests is one that the router fills its table for.
LEMMA FailureIsDue ==
  ASSUME ProgramInv, RouterInv, DistanceInv, GoodInv, RouterFails
  PROVE  ~GoodSource(Source(run))
<1> SUFFICES ASSUME GoodSource(Source(run)) PROVE FALSE
  OBVIOUS
<1> DEFINE document == DocumentOf(run)
           d == catalogue.distances
<1>1. stage = "answer" /\ step \in Failure
  BY DEF RouterFails
<1>2. /\ document \in Seq(ToSet(document)) /\ IsGood(document)
      /\ \A request \in ToSet(document) : IsRequest(request)
  BY <1>1, GoodDocument
<1>3. Said(document, Len(document), d) /\ AreDistances(d)
  BY <1>1 DEF DistanceInv, SaidIn, Grows
<1> HIDE DEF document
<1>4. NoTimeIsNegative(d)
  BY <1>2, <1>3, GoodDistances
<1>5. /\ CatalogueInv(catalogue) /\ bus_wait_time \in Int /\ GraphInv
      /\ LinesAreClosed(catalogue) /\ bus_wait_time >= 0 /\ FailsOnBadGraphsOnly
  BY <1>1 DEF ProgramInv, GoodInv
<1>6. EveryVertexIsLeft /\ VerticesAreNumbered /\ \A e \in DOMAIN edges : edges[e].weight >= 0
  BY <1>4, <1>5, GoodGraph DEF RouterInv
<1>7. \A e \in DOMAIN edges : edges[e].weight \in Int
  BY EdgeFacts DEF RouterInv
<1> QED BY <1>1, <1>5, <1>6, <1>7 DEF FailsOnBadGraphsOnly

LEMMA AnswerIsGiven ==
  ASSUME ProgramInv, GoodInv, stage = "answer", GoodSource(Source(run)),
         NEW request, IsGoodQuestion(request)
  PROVE  ResponseOutcome(request) = "ok"
<1>1. CanDraw(map_settings)
  BY DEF GoodInv
<1>2. MapOutcome(catalogue, map_settings) = "ok"
  BY <1>1, DrawingStays
<1> QED BY <1>2 DEF ResponseOutcome, IsGoodQuestion

LEMMA EndsKeepGood ==
  ASSUME ProgramInv, RouterInv, DistanceInv, GoodInv,
         RefuseSettings \/ RefuseNext \/ RouterFails \/ Answer \/ PrintAnswers
  PROVE  GoodInv' /\ GoodDocumentsAreAnswered'
<1>1. CASE RefuseSettings \/ RefuseNext \/ RouterFails
  <2>1. UNCHANGED <<base, made>> /\ \E outcome : End(outcome)
    BY <1>1 DEF RefuseSettings, RefuseNext, RouterFails
  <2>2. ~GoodSource(Source(run))
    BY <1>1, RefusalIsDue, FailureIsDue
  <2> QED BY <2>1, <2>2, EndKeepsGood, EndAnswers
<1>2. CASE Answer
  <2> DEFINE requests == Run.stat_requests
             failing == {k \in DOMAIN requests : ResponseOutcome(requests[k]) # "ok"}
             are_good == AsksWell(Run)
  <2>1. /\ UNCHANGED <<base, made>> /\ stage = "answer"
        /\ \E outcome : End(outcome) /\ (failing = {} => outcome = "ok")
    BY <1>2 DEF Answer
  <2>2. GoodSource(Source(run)) /\ are_good => failing = {}
    <3>1. Run.mode # "text"
      BY <2>1 DEF GoodInv
    <3>2. are_good => \A n \in DOMAIN requests : IsGoodQuestion(requests[n])
      BY <3>1 DEF AsksWell
    <3> HIDE DEF are_good, requests
    <3>3. GoodSource(Source(run)) /\ are_good =>
            \A n \in DOMAIN requests : ResponseOutcome(requests[n]) = "ok"
      BY <2>1, <3>2, AnswerIsGiven
    <3> QED BY <3>3
  <2> HIDE DEF failing
  <2>3. PICK outcome : End(outcome) /\ (failing = {} => outcome = "ok")
    BY <2>1
  <2>4. GoodSource(Source(run)) /\ are_good => outcome = "ok"
    BY <2>2, <2>3
  <2> QED BY <2>1, <2>3, <2>4, EndKeepsGood, EndAnswers
<1>3. CASE PrintAnswers
  <2> DEFINE failing == {k \in DOMAIN Run.stat_lines : ~HasName(Run.stat_lines[k])}
             outcome == IF failing = {} THEN "ok" ELSE "out_of_range"
  <2>1. UNCHANGED <<base, made>> /\ End(outcome)
    BY <1>3 DEF PrintAnswers
  <2>2. Run.mode = "text"
    BY <1>3 DEF PrintAnswers, GoodInv
  <2>3. AsksWell(Run) => outcome = "ok"
    BY <2>2 DEF AsksWell
  <2> HIDE DEF outcome
  <2> QED BY <2>1, <2>3, EndKeepsGood, EndAnswers
<1> QED BY <1>1, <1>2, <1>3

LEMMA ProgramKeepsGood ==
  ASSUME OrdersEnumerate, ProgramInv, RouterInv, DistanceInv, GoodInv, GoodDocumentsAreAnswered,
         [ProgramNext]_allVars
  PROVE  GoodInv' /\ GoodDocumentsAreAnswered'
<1>1. CASE \/ Start \/ QueueBus \/ AddNextStop \/ EndOfAdd \/ Restore \/ MakeRouter \/ RouterStep
           \/ UNCHANGED allVars
  <2>1. GoodInv' /\ UNCHANGED <<runs, made, outcomes>>
    BY <1>1, StartKeepsGood, QueueBusKeepsGood, AddNextStopKeepsGood, EndOfAddKeepsGood,
       RestoreKeepsGood, RouterKeepsGood, NoStepKeepsGood
  <2> QED BY <2>1, StaysAnswered
<1>2. CASE RefuseSettings \/ RefuseNext \/ RouterFails \/ Answer \/ PrintAnswers
  BY <1>2, EndsKeepGood
<1>3. CASE AddQueuedBus
  BY <1>3, AddQueuedBusKeepsGood
<1>4. CASE Store
  BY <1>4, StoreKeepsGood
<1> QED BY <1>1, <1>2, <1>3, <1>4 DEF ProgramNext

\* For all base requests and runs, and in whatever orders they are read and come back
\* from the file: no run fails that answers good questions from good base requests.
THEOREM GoodDocumentsStayAnswered ==
  ASSUME OrdersEnumerate
  PROVE  ProgramSpec => []GoodDocumentsAreAnswered
<1>1. ProgramInit => DistanceInv
  BY NothingIsStored
<1>2. ProgramInit => GoodInv /\ GoodDocumentsAreAnswered
  <2>1. ProgramInit => GoodDocumentsAreAnswered
    BY DEF ProgramInit, GoodDocumentsAreAnswered
  <2> QED BY <2>1, NothingHasEnded
<1>3. ProgramInv /\ DistanceInv /\ [ProgramNext]_allVars => DistanceInv'
  BY ProgramKeepsDistances
<1>4. ProgramInv /\ RouterInv /\ DistanceInv /\ GoodInv /\ GoodDocumentsAreAnswered /\ [ProgramNext]_allVars
        => GoodInv' /\ GoodDocumentsAreAnswered'
  BY ProgramKeepsGood
<1> QED BY <1>1, <1>2, <1>3, <1>4, ProgramInvariant, PTL DEF ProgramSpec

(***************************************************************************)
(* The answers are those of the base requests, read at once.               *)
(***************************************************************************)
\* The descriptions of a stop or a bus before the n-th request.
NamedBefore(document, n, type, name) ==
  {k \in DOMAIN document : k < n /\ document[k].type = type /\ document[k].name = name}

BusesBefore(document, n) == {k \in DOMAIN document : k < n /\ document[k].type = "Bus"}

NamesBefore(document, n, type) ==
  {document[k].name : k \in {j \in DOMAIN document : j < n /\ document[j].type = type}}

\* When the stops before the n-th request are added, and the buses before the p-th.
StopsBefore(document, n, p) ==
  NamesBefore(document, n, "Stop") \cup UNION {CallsOf(document[k]) : k \in BusesBefore(document, p)}

PlaceBefore(document, n, s) ==
  LET said == NamedBefore(document, n, "Stop", s)
  IN  IF said = {} THEN Origin ELSE document[Max(said)].coordinates

LastBefore(document, p, name) == document[Max(NamedBefore(document, p, "Bus", name))]

\* The buses that call at a stop, of those that the requests at K describe.
Callers(document, K, s) == {document[k].name : k \in {j \in K : s \in CallsOf(document[j])}}

\* What is kept of a bus, when the stops are at the places P.
InfoOf(line, P, distances) ==
  [stops_count |-> Len(line), unique_stops_count |-> Cardinality(ToSet(line)),
   places |-> [i \in DOMAIN line |-> P[line[i]]],
   road_distance |->
     Total([i \in 1 .. Len(line) - 1 |-> distances[<<line[i], line[i + 1]>>]]) % DistanceSize]

KeptBus(line, P, distances, is_roundtrip) ==
  [stops |-> line, info |-> InfoOf(line, P, distances), is_roundtrip |-> is_roundtrip]

Entry(document, n, request, distances) ==
  LET line == BusLine(request)
  IN  KeptBus(line, [s \in ToSet(line) |-> PlaceBefore(document, n, s)], distances, request.is_roundtrip)

Tables(c, document, n, p, K) ==
  /\ c.stops = [s \in StopsBefore(document, n, p) |->
                 [coordinates |-> PlaceBefore(document, n, s), buses |-> Callers(document, K, s)]]
  /\ c.buses = [b \in NamesBefore(document, p, "Bus") |->
                 Entry(document, n, LastBefore(document, p, b), c.distances)]

\* The requests that have been read are complete, and the buses that have been
\* added have lines.
AreRead(document, n, p, distances) ==
  /\ \A k \in DOMAIN document : k < n => document[k].type \in {"Stop", "Bus"}
  /\ \A k \in DOMAIN document : k < n /\ document[k].type = "Stop" => IsComplete(document[k])
  /\ \A k \in BusesBefore(document, p) :
       IsComplete(document[k]) /\ IsLine(document[k].stops, ~document[k].is_roundtrip, distances)

\* The buses that wait are those from the p-th request to the one before the n-th.
AreWaiting(document, n, p, queue) ==
  \E at \in [DOMAIN queue -> BusesBefore(document, n)] :
    /\ \A i \in DOMAIN queue : queue[i] = document[at[i]] /\ at[i] >= p
    /\ \A i, j \in DOMAIN queue : i < j => at[i] < at[j]
    /\ \A k \in BusesBefore(document, n) : k >= p => \E i \in DOMAIN queue : at[i] = k

\* The last descriptions of the buses.
LastBuses(document) == {Max(Named(document, "Bus", b)) : b \in NamesOf(document, "Bus")}

\* The descriptions by which a run knows which buses call at a stop: what comes
\* back from the file has no earlier ones.
CallsKnown(mode, document) ==
  IF mode = "process_requests" THEN LastBuses(document) ELSE BusesBefore(document, Len(document) + 1)

\* The requests before the n-th are read, and the buses of the queue wait.
IsReading(c, document, n, queue) ==
  \E p \in 1 .. n :
    /\ p > 1 => n > Len(document)
    /\ AreWaiting(document, n, p, queue)
    /\ Tables(c, document, n, p, BusesBefore(document, p))
    /\ AreRead(document, n, p, c.distances)

HasRead(c, document, K) ==
  LET n == Len(document) + 1
  IN  Tables(c, document, n, n, K) /\ AreRead(document, n, n, c.distances)

HasStored(proto, document) ==
  /\ proto.stops = [s \in StopNames(document) |-> Places(document, s)]
  /\ proto.buses = [b \in NamesOf(document, "Bus") |->
                     LET request == document[Max(Named(document, "Bus", b))]
                     IN  [stops |-> request.stops, is_roundtrip |-> request.is_roundtrip]]
  /\ AreRead(document, Len(document) + 1, Len(document) + 1, proto.distances)

\* What the settings of a run may be, and what the file may have of them.
SettingsFrom(j) == IF j = 0 THEN {NoSettings} ELSE MapSettings(runs[j].render_settings)
ProtoSettingsFrom(j) == {GetProtoMapSettings(settings) : settings \in SettingsFrom(j)}

AnswerInv ==
  /\ stage = "add" => IsReading(catalogue, Run.base_requests, next, buses_queue)
  /\ stage \in {"store", "route", "print", "answer"} =>
       HasRead(catalogue, DocumentOf(run), CallsKnown(Run.mode, DocumentOf(run)))
  /\ HasStored(base, MadeOf)
  /\ base.render_settings \in ProtoSettingsFrom(made)
  /\ stage \in {"add", "store", "route", "answer"} /\ Run.mode # "text" =>
       map_settings \in SettingsFrom(Source(run))

LEMMA GreatestOfMore ==
  ASSUME NEW Q, Q \subseteq Nat, NEW a \in Nat, \A k \in Q : k < a
  PROVE  Max(Q \cup {a}) = a
<1>1. \A k \in Q \cup {a} : a >= k
  OBVIOUS
<1>2. ASSUME NEW x \in Q \cup {a}, \A k \in Q \cup {a} : x >= k PROVE x = a
  BY <1>2
<1> QED BY <1>1, <1>2 DEF Max

\* The last description is one, and none comes after it.
LEMMA LastOfThem ==
  ASSUME NEW document, document \in Seq(ToSet(document)), NEW Q, Q \subseteq DOMAIN document, Q # {}
  PROVE  Max(Q) \in Q /\ \A k \in Q : k <= Max(Q)
<1>1. Len(document) \in Nat /\ Q \in SUBSET (1 .. Len(document))
  OBVIOUS
<1> QED BY <1>1, GreatestGiven

\* Before the end of the document is in the document.
LEMMA WholeDocument ==
  ASSUME NEW document, document \in Seq(ToSet(document)), NEW n, n = Len(document) + 1
  PROVE  /\ \A type, name : NamedBefore(document, n, type, name) = Named(document, type, name)
         /\ \A type : NamesBefore(document, n, type) = NamesOf(document, type)
         /\ BusesBefore(document, n) = {k \in DOMAIN document : document[k].type = "Bus"}
         /\ StopsBefore(document, n, n) = StopNames(document)
         /\ \A s : PlaceBefore(document, n, s) = Places(document, s)
         /\ \A b : LastBefore(document, n, b) = document[Max(Named(document, "Bus", b))]
<1>1. \A k \in DOMAIN document : k < n
  OBVIOUS
<1>2. \A type, name : NamedBefore(document, n, type, name) = Named(document, type, name)
  BY <1>1 DEF NamedBefore, Named
<1>3. BusesBefore(document, n) = {k \in DOMAIN document : document[k].type = "Bus"}
  BY <1>1 DEF BusesBefore
<1>4. \A type : NamesBefore(document, n, type) = NamesOf(document, type)
  BY <1>1 DEF NamesBefore, NamesOf
<1>5. StopsBefore(document, n, n) = StopNames(document)
  BY <1>3, <1>4 DEF StopsBefore, StopNames
<1> QED BY <1>2, <1>3, <1>4, <1>5 DEF PlaceBefore, Places, LastBefore

\* What the next request adds: a stop its name and its place, another request nothing.
LEMMA NextStop ==
  ASSUME NEW document, document \in Seq(ToSet(document)), NEW n \in DOMAIN document,
         document[n].type = "Stop"
  PROVE  /\ NamesBefore(document, n + 1, "Stop") = NamesBefore(document, n, "Stop") \cup {document[n].name}
         /\ \A s : PlaceBefore(document, n + 1, s) =
                     IF s = document[n].name THEN document[n].coordinates ELSE PlaceBefore(document, n, s)
<1> DEFINE name == document[n].name
<1>1. n \in Nat /\ \A k \in DOMAIN document : k \in Nat /\ (k < n + 1 <=> k < n \/ k = n)
  OBVIOUS
<1>2. NamesBefore(document, n + 1, "Stop") = NamesBefore(document, n, "Stop") \cup {name}
  BY <1>1 DEF NamesBefore
<1>3. ASSUME NEW s
      PROVE  PlaceBefore(document, n + 1, s) =
               IF s = name THEN document[n].coordinates ELSE PlaceBefore(document, n, s)
  <2> DEFINE said == NamedBefore(document, n, "Stop", s)
             now == NamedBefore(document, n + 1, "Stop", s)
  <2>1. CASE s # name
    <3>1. now = said
      BY <1>1, <2>1 DEF NamedBefore
    <3> QED BY <2>1, <3>1 DEF PlaceBefore
  <2>2. CASE s = name
    <3>1. now = said \cup {n}
      BY <1>1, <2>2 DEF NamedBefore
    <3>2. said \subseteq Nat /\ \A k \in said : k < n
      BY <1>1 DEF NamedBefore
    <3> HIDE DEF said, now
    <3>3. Max(now) = n
      BY <1>1, <3>1, <3>2, GreatestOfMore
    <3>4. now # {}
      BY <3>1
    <3> QED BY <2>2, <3>3, <3>4 DEF PlaceBefore, now
  <2> QED BY <2>1, <2>2
<1> QED BY <1>2, <1>3

LEMMA NextOther ==
  ASSUME NEW document, document \in Seq(ToSet(document)), NEW n \in DOMAIN document,
         document[n].type # "Stop"
  PROVE  /\ NamesBefore(document, n + 1, "Stop") = NamesBefore(document, n, "Stop")
         /\ \A s : PlaceBefore(document, n + 1, s) = PlaceBefore(document, n, s)
<1>1. \A k \in DOMAIN document : k \in Nat /\ (k < n + 1 <=> k < n \/ k = n)
  OBVIOUS
<1>2. NamesBefore(document, n + 1, "Stop") = NamesBefore(document, n, "Stop")
  BY <1>1 DEF NamesBefore
<1>3. \A s : NamedBefore(document, n + 1, "Stop", s) = NamedBefore(document, n, "Stop", s)
  BY <1>1 DEF NamedBefore
<1> QED BY <1>2, <1>3 DEF PlaceBefore

\* What the bus at a adds, when it comes after those that are added.
LEMMA NextBus ==
  ASSUME NEW document, document \in Seq(ToSet(document)), NEW p \in Nat, NEW a \in DOMAIN document,
         document[a].type = "Bus", p <= a, \A k \in BusesBefore(document, a + 1) : k >= p => k = a
  PROVE  /\ BusesBefore(document, a + 1) = BusesBefore(document, p) \cup {a}
         /\ NamesBefore(document, a + 1, "Bus") = NamesBefore(document, p, "Bus") \cup {document[a].name}
         /\ \A n : StopsBefore(document, n, a + 1) = StopsBefore(document, n, p) \cup CallsOf(document[a])
         /\ \A b : b # document[a].name => LastBefore(document, a + 1, b) = LastBefore(document, p, b)
         /\ LastBefore(document, a + 1, document[a].name) = document[a]
<1> DEFINE name == document[a].name
           was == BusesBefore(document, p)
           now == BusesBefore(document, a + 1)
<1>1. a \in Nat /\ \A k \in DOMAIN document : k \in Nat
  OBVIOUS
<1>2. /\ \A k : k \in now <=> k \in was \/ k = a
      /\ \A k \in was : k < a /\ k \in Nat
  BY <1>1 DEF BusesBefore
<1>3. \A k : k \in DOMAIN document /\ document[k].type = "Bus" /\ k < a + 1 <=> k \in now
  BY DEF BusesBefore
<1>4. \A k : k \in DOMAIN document /\ document[k].type = "Bus" /\ k < p <=> k \in was
  BY DEF BusesBefore
<1>5. /\ \A b : NamedBefore(document, a + 1, "Bus", b) = {k \in now : document[k].name = b}
      /\ \A b : NamedBefore(document, p, "Bus", b) = {k \in was : document[k].name = b}
  BY <1>3, <1>4 DEF NamedBefore
<1>6. /\ NamesBefore(document, a + 1, "Bus") = {document[k].name : k \in now}
      /\ NamesBefore(document, p, "Bus") = {document[k].name : k \in was}
  BY <1>3, <1>4 DEF NamesBefore
<1> HIDE DEF now, was
<1>7. NamesBefore(document, a + 1, "Bus") = NamesBefore(document, p, "Bus") \cup {name}
  BY <1>2, <1>6
<1>8. \A n : StopsBefore(document, n, a + 1) = StopsBefore(document, n, p) \cup CallsOf(document[a])
  BY <1>2 DEF StopsBefore, now, was
<1>9. ASSUME NEW b, b # name PROVE LastBefore(document, a + 1, b) = LastBefore(document, p, b)
  <2>1. {k \in now : document[k].name = b} = {k \in was : document[k].name = b}
    BY <1>2, <1>9
  <2> QED BY <1>5, <2>1 DEF LastBefore
<1>10. LastBefore(document, a + 1, name) = document[a]
  <2> DEFINE Q == {k \in was : document[k].name = name}
  <2>1. NamedBefore(document, a + 1, "Bus", name) = Q \cup {a}
    BY <1>2, <1>5
  <2>2. Max(Q \cup {a}) = a
    BY <1>1, <1>2, GreatestOfMore
  <2> QED BY <2>1, <2>2 DEF LastBefore
<1> QED BY <1>2, <1>7, <1>8, <1>9, <1>10 DEF now, was

\* There and back, a line calls at the stops of its list.
LEMMA SameCalls ==
  ASSUME NEW list, list \in Seq(ToSet(list)), NEW one_way \in BOOLEAN, one_way => list # <<>>
  PROVE  ToSet(BusStops(list, one_way)) = ToSet(list)
<1> DEFINE kept == BusStops(list, one_way)
<1>1. kept \in Seq(ToSet(list)) /\ \A k \in DOMAIN list : k \in DOMAIN kept /\ kept[k] = list[k]
  BY ThereAndBack
<1> HIDE DEF kept
<1>2. \A k \in DOMAIN kept : kept[k] \in ToSet(list)
  BY <1>1
<1>3. ToSet(kept) \subseteq ToSet(list)
  <2> DEFINE S == ToSet(list)
  <2>1. \A k \in DOMAIN kept : kept[k] \in S
    BY <1>2
  <2> HIDE DEF S
  <2>2. ToSet(kept) \subseteq S
    BY <2>1 DEF ToSet
  <2> QED BY <2>2 DEF S
<1>4. ToSet(list) \subseteq ToSet(kept)
  BY <1>1 DEF ToSet
<1> QED BY <1>3, <1>4 DEF kept

LEMMA OneMoreBus ==
  ASSUME NEW stop, NEW place, NEW buses, NEW name, stop = [coordinates |-> place, buses |-> buses]
  PROVE  [stop EXCEPT !.buses = @ \cup {name}] = [coordinates |-> place, buses |-> buses \cup {name}]
<1> DEFINE more == buses \cup {name}
<1>1. stop.buses \cup {name} = more
  OBVIOUS
<1> HIDE DEF more
<1>2. [stop EXCEPT !.buses = more] = [coordinates |-> place, buses |-> more]
  OBVIOUS
<1>3. [stop EXCEPT !.buses = @ \cup {name}] = [stop EXCEPT !.buses = more]
  BY <1>1
<1> QED BY <1>2, <1>3 DEF more

\* Stops with their places and their callers, and what a bus adds to these.
StopTable(S, P, B) == [s \in S |-> [coordinates |-> P[s], buses |-> B[s]]]
WithCaller(S, B, calls, name) == [s \in S |-> IF s \in calls THEN B[s] \cup {name} ELSE B[s]]

\* The catalogue d has what c had and the bus, of stops with the places P and the
\* callers B.
AddsBus(c, name, line, is_one_way, S, P, B, d) ==
  LET calls == ToSet(line)
  IN  /\ d = [stops |-> d.stops, buses |-> d.buses, distances |-> c.distances]
      /\ d.stops = StopTable(S \cup calls, P, WithCaller(S \cup calls, B, calls, name))
      /\ d.buses = With(c.buses, name, KeptBus(line, P, c.distances, ~is_one_way))

LEMMA AddBusOnTable ==
  ASSUME NEW c, c = [stops |-> c.stops, buses |-> c.buses, distances |-> c.distances],
         NEW name, NEW list, NEW one_way \in BOOLEAN, NEW S, NEW P, NEW B,
         c.stops = StopTable(S, P, B),
         \A s \in ToSet(BusStops(list, one_way)) : s \notin S => P[s] = Origin /\ B[s] = {}
  PROVE  AddsBus(c, name, BusStops(list, one_way), one_way, S, P, B, AddBus(c, name, list, one_way))
<1> DEFINE kept == BusStops(list, one_way)
           called == CalledAt(c, name, kept)
           info == CalculateBusInfo(called, kept)
           bus == [stops |-> kept, info |-> info, is_roundtrip |-> ~one_way]
           stops == [s \in DOMAIN c.stops \cup ToSet(kept) |->
                      IF s \in ToSet(kept) THEN [StopOf(c, s) EXCEPT !.buses = @ \cup {name}]
                      ELSE c.stops[s]]
           table == [s \in S \cup ToSet(kept) |->
                      [coordinates |-> P[s],
                       buses |-> IF s \in ToSet(kept) THEN B[s] \cup {name} ELSE B[s]]]
           d == AddBus(c, name, list, one_way)
<1>1. called = [c EXCEPT !.stops = stops]
  BY DEF CalledAt
<1>2. d = [called EXCEPT !.buses = With(@, name, bus)]
  BY DEF AddBus
<1> HIDE DEF bus
<1>3. stops = table
  <2> DEFINE calls == ToSet(kept)
  <2>1. DOMAIN c.stops = S /\ \A s \in S : c.stops[s] = [coordinates |-> P[s], buses |-> B[s]]
    BY DEF StopTable
  <2>2. \A s \in calls : s \notin S => P[s] = Origin /\ B[s] = {}
    OBVIOUS
  <2> HIDE DEF calls, kept
  <2>3. ASSUME NEW s \in S \cup calls
        PROVE  (IF s \in calls THEN [StopOf(c, s) EXCEPT !.buses = @ \cup {name}] ELSE c.stops[s])
                 = [coordinates |-> P[s], buses |-> IF s \in calls THEN B[s] \cup {name} ELSE B[s]]
    <3>1. CASE s \in S
      <4>1. StopOf(c, s) = [coordinates |-> P[s], buses |-> B[s]]
        BY <2>1, <3>1 DEF StopOf, At
      <4> DEFINE stop == StopOf(c, s)
      <4>2. stop = [coordinates |-> P[s], buses |-> B[s]]
        BY <4>1
      <4> DEFINE place == P[s]
                 callers == B[s]
      <4>4. stop = [coordinates |-> place, buses |-> callers]
        BY <4>2
      <4> HIDE DEF stop, place, callers
      <4>3. [stop EXCEPT !.buses = @ \cup {name}] = [coordinates |-> place, buses |-> callers \cup {name}]
        BY <4>4, OneMoreBus
      <4> QED BY <2>1, <3>1, <4>3 DEF stop, place, callers
    <3>2. CASE s \notin S
      <4>1. P[s] = Origin /\ B[s] = {} /\ s \in calls
        BY <2>2, <2>3, <3>2
      <4> DEFINE stop == StopOf(c, s)
      <4>2. stop = [coordinates |-> P[s], buses |-> B[s]]
        BY <2>1, <3>2, <4>1 DEF StopOf, At
      <4> DEFINE place == P[s]
                 callers == B[s]
      <4>4. stop = [coordinates |-> place, buses |-> callers]
        BY <4>2
      <4> HIDE DEF stop, place, callers
      <4>3. [stop EXCEPT !.buses = @ \cup {name}] = [coordinates |-> place, buses |-> callers \cup {name}]
        BY <4>4, OneMoreBus
      <4> QED BY <4>1, <4>3 DEF stop, place, callers
    <3> QED BY <3>1, <3>2
  <2> QED BY <2>1, <2>3 DEF calls
<1>9. table = StopTable(S \cup ToSet(kept), P, WithCaller(S \cup ToSet(kept), B, ToSet(kept), name))
  <2> DEFINE calls == ToSet(kept)
  <2> HIDE DEF calls
  <2>1. [s \in S \cup calls |-> [coordinates |-> P[s],
                              buses |-> IF s \in calls THEN B[s] \cup {name} ELSE B[s]]]
          = StopTable(S \cup calls, P, WithCaller(S \cup calls, B, calls, name))
    BY DEF StopTable, WithCaller
  <2> QED BY <2>1 DEF calls
<1> HIDE DEF stops
<1>4. called = [stops |-> table, buses |-> c.buses, distances |-> c.distances]
  BY <1>1, <1>3
<1> HIDE DEF called
<1>5. d = [stops |-> table, buses |-> With(c.buses, name, bus), distances |-> c.distances]
  BY <1>2, <1>4
<1> HIDE DEF d
<1>6. /\ d = [stops |-> d.stops, buses |-> d.buses, distances |-> c.distances]
      /\ d.stops = table /\ d.buses = With(c.buses, name, bus)
  BY <1>5
<1>7. info = InfoOf(kept, P, c.distances)
  <2>1. called.stops = table /\ called.distances = c.distances
    BY <1>4
  <2>2. [i \in DOMAIN kept |-> called.stops[kept[i]].coordinates] = [i \in DOMAIN kept |-> P[kept[i]]]
    <3>1. \A i \in DOMAIN kept : kept[i] \in ToSet(kept)
      BY DEF ToSet
    <3>2. \A s \in ToSet(kept) : table[s].coordinates = P[s]
      OBVIOUS
    <3> HIDE DEF table, kept
    <3> QED BY <2>1, <3>1, <3>2
  <2>3. RoadDistance(called, kept)
          = Total([i \in 1 .. Len(kept) - 1 |-> c.distances[<<kept[i], kept[i + 1]>>]]) % DistanceSize
    <3> HIDE DEF kept, table
    <3> QED BY <2>1 DEF RoadDistance
  <2> HIDE DEF kept
  <2> QED BY <2>2, <2>3 DEF CalculateBusInfo, InfoOf
<1> HIDE DEF info
<1>8. bus = KeptBus(kept, P, c.distances, ~one_way)
  BY <1>7 DEF bus, KeptBus
<1> HIDE DEF kept, table
<1>10. AddsBus(c, name, kept, one_way, S, P, B, d)
  BY <1>6, <1>8, <1>9 DEF AddsBus
<1> QED BY <1>10 DEF d, kept

LEMMA SameInfo ==
  ASSUME NEW line, NEW P, NEW Q, NEW distances, \A s \in ToSet(line) : P[s] = Q[s]
  PROVE  InfoOf(line, P, distances) = InfoOf(line, Q, distances)
<1>1. \A i \in DOMAIN line : P[line[i]] = Q[line[i]]
  BY DEF ToSet
<1>2. [i \in DOMAIN line |-> P[line[i]]] = [i \in DOMAIN line |-> Q[line[i]]]
  BY <1>1
<1> QED BY <1>2 DEF InfoOf

\* Before the first bus is added.
LEMMA NoBusesYet ==
  ASSUME NEW document, document \in Seq(ToSet(document))
  PROVE  /\ BusesBefore(document, 1) = {} /\ NamesBefore(document, 1, "Bus") = {}
         /\ \A s : Callers(document, {}, s) = {}
         /\ \A n : StopsBefore(document, n, 1) = NamesBefore(document, n, "Stop")
<1>1. \A k \in DOMAIN document : ~(k < 1)
  OBVIOUS
<1>2. BusesBefore(document, 1) = {}
  BY <1>1 DEF BusesBefore
<1> QED BY <1>1, <1>2 DEF NamesBefore, Callers, StopsBefore

\* Adding the stop that comes next.
LEMMA TablesOfAddStop ==
  ASSUME NEW c, c = [stops |-> c.stops, buses |-> c.buses, distances |-> c.distances],
         NEW document, document \in Seq(ToSet(document)), NEW n \in DOMAIN document,
         document[n].type = "Stop", Tables(c, document, n, 1, {}),
         NEW d, d.stops = AddStop(c, document[n].name, document[n].coordinates).stops, d.buses = c.buses
  PROVE  Tables(d, document, n + 1, 1, {})
<1> DEFINE name == document[n].name
           place == document[n].coordinates
           S == StopsBefore(document, n, 1)
           P == [s \in S |-> PlaceBefore(document, n, s)]
           stop == [StopOf(c, name) EXCEPT !.coordinates = place]
<1>1. /\ StopsBefore(document, n + 1, 1) = S \cup {name}
      /\ \A s : PlaceBefore(document, n + 1, s) = IF s = name THEN place ELSE PlaceBefore(document, n, s)
  BY NextStop, NoBusesYet
<1>2. c.stops = [s \in S |-> [coordinates |-> P[s], buses |-> {}]]
  BY NoBusesYet DEF Tables
<1>3. stop = [coordinates |-> place, buses |-> {}]
  <2> DEFINE here == StopOf(c, name)
             callers == {}
  <2>1. \E p : here = [coordinates |-> p, buses |-> callers]
    <3>1. CASE name \in S
      <4>1. here = [coordinates |-> P[name], buses |-> {}]
        BY <1>2, <3>1 DEF StopOf, At
      <4> QED BY <4>1
    <3>2. CASE name \notin S
      <4>1. here = [coordinates |-> Origin, buses |-> {}]
        BY <1>2, <3>2 DEF StopOf, At
      <4> QED BY <4>1
    <3> QED BY <3>1, <3>2
  <2>2. PICK p : here = [coordinates |-> p, buses |-> callers]
    BY <2>1
  <2> HIDE DEF here, place, callers
  <2>3. [here EXCEPT !.coordinates = place] = [coordinates |-> place, buses |-> callers]
    BY <2>2
  <2> QED BY <2>3 DEF here, callers
<1> HIDE DEF stop
<1>4. AddStop(c, name, place).stops = With(c.stops, name, stop)
  <2> DEFINE stops == With(c.stops, name, stop)
             e == AddStop(c, name, place)
  <2>1. e = [c EXCEPT !.stops = stops]
    BY DEF AddStop, stop
  <2> HIDE DEF e, stops
  <2>2. e.stops = stops
    BY <2>1
  <2> QED BY <2>2 DEF e, stops
<1>5. d.stops = [s \in S \cup {name} |-> IF s = name THEN stop ELSE c.stops[s]]
  BY <1>2, <1>4 DEF With
<1>6. ASSUME NEW s \in S \cup {name}
      PROVE  (IF s = name THEN stop ELSE c.stops[s]) =
               [coordinates |-> PlaceBefore(document, n + 1, s), buses |-> Callers(document, {}, s)]
  <2>1. Callers(document, {}, s) = {}
    BY NoBusesYet
  <2>2. CASE s = name
    BY <1>1, <1>3, <2>1, <2>2
  <2>3. CASE s # name
    <3>1. s \in S /\ c.stops[s] = [coordinates |-> P[s], buses |-> {}] /\ P[s] = PlaceBefore(document, n, s)
      BY <1>2, <2>3
    <3> QED BY <1>1, <2>1, <2>3, <3>1
  <2> QED BY <2>2, <2>3
<1>7. d.stops = [s \in StopsBefore(document, n + 1, 1) |->
                  [coordinates |-> PlaceBefore(document, n + 1, s), buses |-> Callers(document, {}, s)]]
  <2> HIDE DEF S, name
  <2> QED BY <1>1, <1>5, <1>6
<1>8. d.buses = [b \in NamesBefore(document, 1, "Bus") |->
                  Entry(document, n + 1, LastBefore(document, 1, b), d.distances)]
  <2>1. NamesBefore(document, 1, "Bus") = {} /\ DOMAIN c.buses = {}
    BY NoBusesYet DEF Tables
  <2>2. c.buses = [b \in {} |-> Entry(document, n, LastBefore(document, 1, b), c.distances)]
    BY <2>1 DEF Tables
  <2> QED BY <2>1, <2>2
<1> QED BY <1>7, <1>8 DEF Tables

\* Adding the bus at a, which is the first that is not added yet.
LEMMA TablesOfAddBus ==
  ASSUME NEW c, c = [stops |-> c.stops, buses |-> c.buses, distances |-> c.distances],
         NEW document, document \in Seq(ToSet(document)), NEW n, NEW p \in Nat,
         NEW a \in DOMAIN document, document[a].type = "Bus", p <= a,
         \A k \in BusesBefore(document, a + 1) : k >= p => k = a,
         document[a].is_roundtrip \in BOOLEAN,
         IsLine(document[a].stops, ~document[a].is_roundtrip, c.distances),
         Tables(c, document, n, p, BusesBefore(document, p))
  PROVE  Tables(AddBus(c, document[a].name, document[a].stops, ~document[a].is_roundtrip),
                document, n, a + 1, BusesBefore(document, a + 1))
<1> DEFINE request == document[a]
           name == request.name
           list == request.stops
           one_way == ~request.is_roundtrip
           kept == BusStops(list, one_way)
           calls == ToSet(kept)
           K == BusesBefore(document, p)
           L == BusesBefore(document, a + 1)
           S == StopsBefore(document, n, p)
           P == [s \in S \cup calls |-> PlaceBefore(document, n, s)]
           B == [s \in S \cup calls |-> Callers(document, K, s)]
           d == AddBus(c, name, list, one_way)
           bus == KeptBus(kept, P, c.distances, ~one_way)
           names == NamesBefore(document, p, "Bus")
<1>1. /\ L = K \cup {a} /\ NamesBefore(document, a + 1, "Bus") = names \cup {name}
      /\ StopsBefore(document, n, a + 1) = S \cup CallsOf(request)
      /\ \A b : b # name => LastBefore(document, a + 1, b) = LastBefore(document, p, b)
      /\ LastBefore(document, a + 1, name) = request
  BY NextBus
<1>2. calls = CallsOf(request)
  <2>1. list \in Seq(ToSet(list)) /\ one_way \in BOOLEAN /\ (one_way => list # <<>>)
    BY DEF IsLine
  <2> HIDE DEF list, one_way
  <2>2. calls = ToSet(list)
    BY <2>1, SameCalls
  <2> QED BY <2>2 DEF list, CallsOf
<1>3. \A s : s \notin S => PlaceBefore(document, n, s) = Origin /\ Callers(document, K, s) = {}
  <2> SUFFICES ASSUME NEW s, s \notin S
               PROVE  PlaceBefore(document, n, s) = Origin /\ Callers(document, K, s) = {}
    OBVIOUS
  <2>1. s \notin NamesBefore(document, n, "Stop") /\ \A k \in K : s \notin CallsOf(document[k])
    BY DEF StopsBefore
  <2>2. NamedBefore(document, n, "Stop", s) = {}
    BY <2>1 DEF NamedBefore, NamesBefore
  <2>3. Callers(document, K, s) = {}
    BY <2>1 DEF Callers
  <2> QED BY <2>2, <2>3 DEF PlaceBefore
<1>4. c.stops = StopTable(S, P, B)
  <2>1. \A s \in S : P[s] = PlaceBefore(document, n, s) /\ B[s] = Callers(document, K, s)
    OBVIOUS
  <2> HIDE DEF P, B
  <2> QED BY <2>1 DEF Tables, StopTable
<1>5. \A s \in calls : s \notin S => P[s] = Origin /\ B[s] = {}
  BY <1>3
<1>6. /\ d = [stops |-> d.stops, buses |-> d.buses, distances |-> c.distances]
      /\ d.stops = StopTable(S \cup calls, P, WithCaller(S \cup calls, B, calls, name))
      /\ d.buses = With(c.buses, name, bus)
  <2>1. one_way \in BOOLEAN
    OBVIOUS
  <2> HIDE DEF S, P, B, list, one_way, name
  <2>2. AddsBus(c, name, kept, one_way, S, P, B, d)
    BY <1>4, <1>5, <2>1, AddBusOnTable
  <2> HIDE DEF d, kept
  <2> QED BY <2>2 DEF AddsBus
<1> HIDE DEF d
<1>7. d.distances = c.distances
  BY <1>6
<1>8. d.stops = [s \in StopsBefore(document, n, a + 1) |->
                  [coordinates |-> PlaceBefore(document, n, s), buses |-> Callers(document, L, s)]]
  <2>1. ASSUME NEW s \in S \cup calls
        PROVE  /\ P[s] = PlaceBefore(document, n, s)
               /\ (IF s \in calls THEN B[s] \cup {name} ELSE B[s]) = Callers(document, L, s)
    <3>1. P[s] = PlaceBefore(document, n, s) /\ B[s] = Callers(document, K, s)
      BY <2>1
    <3> HIDE DEF calls, K, L, P, B
    <3>2. Callers(document, L, s) = IF s \in calls THEN Callers(document, K, s) \cup {name}
                                    ELSE Callers(document, K, s)
      BY <1>1, <1>2 DEF Callers
    <3> QED BY <3>1, <3>2
  <2> HIDE DEF S, calls, P, B, L, K
  <2>2. d.stops = [s \in S \cup calls |->
                    [coordinates |-> PlaceBefore(document, n, s), buses |-> Callers(document, L, s)]]
    BY <1>6, <2>1 DEF StopTable, WithCaller
  <2> QED BY <1>1, <1>2, <2>2
<1>9. bus = Entry(document, n, request, c.distances)
  <2> DEFINE Q == [s \in ToSet(kept) |-> PlaceBefore(document, n, s)]
  <2>1. BusLine(request) = kept
    BY DEF BusLine
  <2>2. InfoOf(kept, P, c.distances) = InfoOf(kept, Q, c.distances)
    <3>1. \A s \in ToSet(kept) : P[s] = Q[s]
      OBVIOUS
    <3> HIDE DEF P, Q, kept
    <3> QED BY <3>1, SameInfo
  <2>3. Entry(document, n, request, c.distances) = KeptBus(kept, Q, c.distances, request.is_roundtrip)
    BY <2>1 DEF Entry
  <2> DEFINE both_ways == ~one_way
  <2>4. both_ways = request.is_roundtrip
    OBVIOUS
  <2> HIDE DEF kept, P, Q, both_ways
  <2>5. KeptBus(kept, P, c.distances, both_ways) = KeptBus(kept, Q, c.distances, request.is_roundtrip)
    BY <2>2, <2>4 DEF KeptBus
  <2> QED BY <2>3, <2>5 DEF both_ways
<1>10. d.buses = [b \in NamesBefore(document, a + 1, "Bus") |->
                   Entry(document, n, LastBefore(document, a + 1, b), d.distances)]
  <2>1. c.buses = [b \in names |-> Entry(document, n, LastBefore(document, p, b), c.distances)]
    BY DEF Tables
  <2> HIDE DEF names, bus, name, request
  <2>2. d.buses = [b \in names \cup {name} |-> IF b = name THEN bus ELSE c.buses[b]]
    BY <1>6, <2>1 DEF With
  <2>3. ASSUME NEW b \in names \cup {name}
        PROVE  (IF b = name THEN bus ELSE c.buses[b])
                 = Entry(document, n, LastBefore(document, a + 1, b), d.distances)
    <3>1. CASE b = name
      BY <1>1, <1>7, <1>9, <3>1
    <3>2. CASE b # name
      <4>1. b \in names /\ LastBefore(document, a + 1, b) = LastBefore(document, p, b)
        BY <1>1, <3>2
      <4> QED BY <1>7, <2>1, <3>2, <4>1
    <3> QED BY <3>1, <3>2
  <2> QED BY <1>1, <2>2, <2>3
<1> QED BY <1>8, <1>10 DEF Tables, d

\* The buses of N can be restored to the stops of S.
AreStored(proto, N, S) ==
  \A b \in N : /\ proto[b].is_roundtrip \in BOOLEAN
               /\ proto[b].stops \in Seq(ToSet(proto[b].stops))
               /\ ~proto[b].is_roundtrip => proto[b].stops # <<>>
               /\ ToSet(proto[b].stops) \subseteq S

\* What the buses leave when they are restored: each stop has the buses that call
\* there, and each bus what was kept of it.
LEMMA RestoredTables ==
  ASSUME NEW c, c = [stops |-> c.stops, buses |-> c.buses, distances |-> c.distances],
         NEW S, NEW P, c.stops = StopTable(S, P, [s \in S |-> {}]), c.buses = Empty,
         NEW proto, NEW N, NEW order \in Seq(N), ToSet(order) = N,
         AreStored(proto, N, S)
  PROVE  LET d == RestoredBuses(c, proto, order)
         IN  /\ d.distances = c.distances
             /\ d.stops = StopTable(S, P, [s \in S |-> {b \in N : s \in ToSet(proto[b].stops)}])
             /\ d.buses = [b \in N |-> KeptBus(BusStops(proto[b].stops, ~proto[b].is_roundtrip), P,
                                               c.distances, proto[b].is_roundtrip)]
<1>20. Len(order) \in Nat
  OBVIOUS
<1>21. \E added :
         /\ RestoredBuses(c, proto, order) = added[Len(order)] /\ added[0] = c
         /\ \A n \in 1 .. Len(order) :
              added[n] = AddBus(added[n - 1], order[n], proto[order[n]].stops, ~proto[order[n]].is_roundtrip)
  BY <1>20, RestoredOneByOne
<1> DEFINE m == Len(order)
           Line(b) == BusStops(proto[b].stops, ~proto[b].is_roundtrip)
           Bus(b) == KeptBus(Line(b), P, c.distances, proto[b].is_roundtrip)
           Done(n) == {order[k] : k \in 1 .. n}
           Calling(n) == [s \in S |-> {b \in Done(n) : s \in ToSet(proto[b].stops)}]
           IsRestored(n, d) ==
             /\ d = [stops |-> d.stops, buses |-> d.buses, distances |-> d.distances]
             /\ d.distances = c.distances
             /\ d.stops = StopTable(S, P, Calling(n))
             /\ d.buses = [b \in Done(n) |-> Bus(b)]
<1>1. m \in Nat /\ DOMAIN order = 1 .. m /\ \A n \in 1 .. m : order[n] \in N
  OBVIOUS
<1>2. PICK added :
        /\ RestoredBuses(c, proto, order) = added[m] /\ added[0] = c
        /\ \A n \in 1 .. m :
             added[n] = AddBus(added[n - 1], order[n], proto[order[n]].stops, ~proto[order[n]].is_roundtrip)
  BY <1>21
<1>3. IsRestored(0, c)
  <2>1. Done(0) = {}
    OBVIOUS
  <2> HIDE DEF Done, Bus
  <2>2. Calling(0) = [s \in S |-> {}]
    BY <2>1
  <2>3. c.buses = [b \in Done(0) |-> Bus(b)]
    BY <2>1 DEF Empty
  <2> HIDE DEF Calling
  <2> QED BY <2>2, <2>3
<1>4. ASSUME NEW n \in 1 .. m, NEW y, IsRestored(n - 1, y)
      PROVE  IsRestored(n, AddBus(y, order[n], proto[order[n]].stops, ~proto[order[n]].is_roundtrip))
  <2> DEFINE name == order[n]
             list == proto[name].stops
             one_way == ~proto[name].is_roundtrip
             line == BusStops(list, one_way)
             B == Calling(n - 1)
             d == AddBus(y, name, list, one_way)
  <2>1. name \in N /\ one_way \in BOOLEAN /\ list \in Seq(ToSet(list)) /\ (one_way => list # <<>>)
        /\ ToSet(list) \subseteq S
    BY <1>1 DEF AreStored
  <2>2. ToSet(line) = ToSet(list)
    <3> HIDE DEF list, one_way
    <3> QED BY <2>1, SameCalls
  <2>3. y.stops = StopTable(S, P, B) /\ y.buses = [b \in Done(n - 1) |-> Bus(b)]
        /\ y = [stops |-> y.stops, buses |-> y.buses, distances |-> y.distances]
        /\ y.distances = c.distances
    BY <1>4
  <2>4. AddsBus(y, name, line, one_way, S, P, B, d)
    <3>1. \A s \in ToSet(line) : s \notin S => P[s] = Origin /\ B[s] = {}
      BY <2>1, <2>2
    <3> HIDE DEF name, list, one_way, B
    <3> QED BY <2>1, <2>3, <3>1, AddBusOnTable
  <2>5. Done(n) = Done(n - 1) \cup {name}
    <3>1. \A k : k \in 1 .. n <=> k \in 1 .. n - 1 \/ k = n
      OBVIOUS
    <3> QED BY <3>1
  <2> HIDE DEF d, Done
  <2>6. /\ d = [stops |-> d.stops, buses |-> d.buses, distances |-> c.distances]
        /\ d.stops = StopTable(S \cup ToSet(line), P, WithCaller(S \cup ToSet(line), B, ToSet(line), name))
        /\ d.buses = With(y.buses, name, KeptBus(line, P, c.distances, ~one_way))
    <3> HIDE DEF name, line, one_way, B
    <3> QED BY <2>3, <2>4 DEF AddsBus
  <2>7. d.stops = StopTable(S, P, Calling(n))
    <3>1. S \cup ToSet(line) = S
      BY <2>1, <2>2
    <3>2. WithCaller(S, B, ToSet(line), name) = Calling(n)
      <4>1. ASSUME NEW s \in S
            PROVE  (IF s \in ToSet(line) THEN B[s] \cup {name} ELSE B[s]) = Calling(n)[s]
        <5>1. B[s] = {b \in Done(n - 1) : s \in ToSet(proto[b].stops)}
          OBVIOUS
        <5>2. Calling(n)[s] = {b \in Done(n) : s \in ToSet(proto[b].stops)}
          OBVIOUS
        <5>3. s \in ToSet(line) <=> s \in ToSet(proto[name].stops)
          BY <2>2
        <5> HIDE DEF B, Calling, name, line
        <5> QED BY <2>5, <5>1, <5>2, <5>3
      <4>2. Calling(n) = [s \in S |-> Calling(n)[s]]
        OBVIOUS
      <4> HIDE DEF B, Calling, line, name
      <4> QED BY <4>1, <4>2 DEF WithCaller
    <3> HIDE DEF line, B, Calling, name
    <3> QED BY <2>6, <3>1, <3>2
  <2>8. KeptBus(line, P, c.distances, ~one_way) = Bus(name)
    <3> DEFINE both_ways == ~one_way
    <3>1. both_ways = proto[name].is_roundtrip /\ line = Line(name)
      BY <2>1 DEF AreStored
    <3> HIDE DEF both_ways, line
    <3> QED BY <3>1 DEF both_ways
  <2>9. d.buses = [b \in Done(n) |-> Bus(b)]
    <3> HIDE DEF Bus, name, line, one_way
    <3> QED BY <2>3, <2>5, <2>6, <2>8 DEF With
  <2> HIDE DEF Calling, Bus
  <2> QED BY <2>6, <2>7, <2>9 DEF d, name, list, one_way
<1> DEFINE Wrong == {n \in Nat : n \in 0 .. m /\ ~IsRestored(n, added[n])}
<1> HIDE DEF IsRestored, m
<1>5. Wrong = {}
  <2> SUFFICES ASSUME Wrong # {} PROVE FALSE
    OBVIOUS
  <2>1. Wrong \subseteq Nat
    OBVIOUS
  <2>2. 0 \notin Wrong
    BY <1>2, <1>3
  <2> HIDE DEF Wrong
  <2>3. PICK n \in Wrong : \A k \in Wrong : n <= k
    BY <2>1, LeastNatural
  <2>4. n \in Nat /\ n \in 0 .. m /\ ~IsRestored(n, added[n]) /\ n # 0
    BY <2>2, <2>3 DEF Wrong
  <2>5. n - 1 \notin Wrong /\ n - 1 \in 0 .. m /\ n - 1 \in Nat /\ n \in 1 .. m
    BY <1>1, <2>3, <2>4
  <2>6. IsRestored(n - 1, added[n - 1])
    BY <2>5 DEF Wrong
  <2>7. IsRestored(n, added[n])
    BY <1>2, <1>4, <2>5, <2>6
  <2> QED BY <2>4, <2>7
<1>6. IsRestored(m, added[m])
  <2>1. m \in 0 .. m /\ m \in Nat
    BY <1>1
  <2> QED BY <1>5, <2>1
<1>7. Done(m) = N
  BY <1>1 DEF ToSet
<1> HIDE DEF Done
<1>8. Calling(m) = [s \in S |-> {b \in N : s \in ToSet(proto[b].stops)}]
  BY <1>7
<1> HIDE DEF Calling
<1> QED BY <1>2, <1>6, <1>7, <1>8 DEF IsRestored, m

(***************************************************************************)
(* Reading on.                                                             *)
(***************************************************************************)
\* A step changes what is said of the state by changing the state.
LEMMA SaidOfTheNextState ==
  /\ IsReading(catalogue, Run.base_requests, next, buses_queue)'
       <=> IsReading(catalogue', Run'.base_requests, next', buses_queue')
  /\ HasRead(catalogue, DocumentOf(run), CallsKnown(Run.mode, DocumentOf(run)))'
       <=> HasRead(catalogue', DocumentOf(run)', CallsKnown(Run'.mode, DocumentOf(run)'))
  /\ HasStored(base, MadeOf)' <=> HasStored(base', MadeOf')
OBVIOUS

\* Before the first request is read.
LEMMA NothingIsReadYet ==
  ASSUME NEW document, document \in Seq(ToSet(document))
  PROVE  IsReading(EmptyCatalogue, document, 1, <<>>)
<1>1. \A k \in DOMAIN document : ~(k < 1)
  OBVIOUS
<1>2. /\ NamesBefore(document, 1, "Stop") = {} /\ BusesBefore(document, 1) = {}
      /\ NamesBefore(document, 1, "Bus") = {} /\ StopsBefore(document, 1, 1) = {}
  BY <1>1 DEF NamesBefore, BusesBefore, StopsBefore
<1>3. Tables(EmptyCatalogue, document, 1, 1, BusesBefore(document, 1))
  BY <1>2 DEF Tables, EmptyCatalogue, Empty
<1>4. AreRead(document, 1, 1, EmptyCatalogue.distances)
  BY <1>1, <1>2 DEF AreRead
<1>5. AreWaiting(document, 1, 1, <<>>)
  <2> DEFINE at == [i \in DOMAIN <<>> |-> 0]
  <2>1. at \in [DOMAIN <<>> -> BusesBefore(document, 1)] /\ DOMAIN <<>> = {}
    OBVIOUS
  <2> QED BY <1>2, <2>1 DEF AreWaiting
<1>6. 1 \in 1 .. 1 /\ ~(1 > 1)
  OBVIOUS
<1> QED BY <1>3, <1>4, <1>5, <1>6 DEF IsReading

\* As long as there are requests, no bus is added.
LEMMA NoBusIsAddedYet ==
  ASSUME NEW document, document \in Seq(ToSet(document)), NEW n \in DOMAIN document,
         NEW c, NEW queue, IsReading(c, document, n, queue)
  PROVE  /\ AreWaiting(document, n, 1, queue) /\ Tables(c, document, n, 1, {})
         /\ AreRead(document, n, 1, c.distances)
<1>1. PICK p \in 1 .. n :
        /\ p > 1 => n > Len(document)
        /\ AreWaiting(document, n, p, queue)
        /\ Tables(c, document, n, p, BusesBefore(document, p))
        /\ AreRead(document, n, p, c.distances)
  BY DEF IsReading
<1>2. p = 1
  BY <1>1
<1> QED BY <1>1, <1>2, NoBusesYet

\* A bus that comes waits.
LEMMA BusWaits ==
  ASSUME NEW document, document \in Seq(ToSet(document)), NEW n \in DOMAIN document,
         NEW c, NEW queue \in Seq(ToSet(document)), IsReading(c, document, n, queue), document[n].type = "Bus"
  PROVE  IsReading(c, document, n + 1, Append(queue, document[n]))
<1>1. /\ AreWaiting(document, n, 1, queue) /\ Tables(c, document, n, 1, {})
      /\ AreRead(document, n, 1, c.distances)
  BY NoBusIsAddedYet
<1>2. Tables(c, document, n + 1, 1, BusesBefore(document, 1))
  <2>1. /\ NamesBefore(document, n + 1, "Stop") = NamesBefore(document, n, "Stop")
        /\ \A s : PlaceBefore(document, n + 1, s) = PlaceBefore(document, n, s)
    BY NextOther
  <2>2. StopsBefore(document, n + 1, 1) = StopsBefore(document, n, 1)
    BY <2>1 DEF StopsBefore
  <2>3. c.stops = [s \in StopsBefore(document, n + 1, 1) |->
                    [coordinates |-> PlaceBefore(document, n + 1, s), buses |-> Callers(document, {}, s)]]
    BY <1>1, <2>1, <2>2 DEF Tables
  <2>4. c.buses = [b \in NamesBefore(document, 1, "Bus") |->
                    Entry(document, n + 1, LastBefore(document, 1, b), c.distances)]
    BY <1>1, NoBusesYet DEF Tables
  <2> QED BY <2>3, <2>4, NoBusesYet DEF Tables
<1>3. n \in Nat /\ \A k \in DOMAIN document : k \in Nat /\ (k < n + 1 <=> k < n \/ k = n)
  OBVIOUS
<1>4. AreRead(document, n + 1, 1, c.distances)
  BY <1>1, <1>3 DEF AreRead
<1>5. AreWaiting(document, n + 1, 1, Append(queue, document[n]))
  <2>1. PICK at \in [DOMAIN queue -> BusesBefore(document, n)] :
          /\ \A i \in DOMAIN queue : queue[i] = document[at[i]] /\ at[i] >= 1
          /\ \A i, j \in DOMAIN queue : i < j => at[i] < at[j]
          /\ \A k \in BusesBefore(document, n) : k >= 1 => \E i \in DOMAIN queue : at[i] = k
    BY <1>1 DEF AreWaiting
  <2> DEFINE m == Len(queue)
             more == Append(queue, document[n])
             at2 == [i \in 1 .. m + 1 |-> IF i = m + 1 THEN n ELSE at[i]]
  <2>2. /\ m \in Nat /\ DOMAIN queue = 1 .. m /\ DOMAIN more = 1 .. m + 1
        /\ \A i \in 1 .. m : more[i] = queue[i]
        /\ more[m + 1] = document[n]
    OBVIOUS
  <2>3. BusesBefore(document, n + 1) = BusesBefore(document, n) \cup {n}
    BY <1>3 DEF BusesBefore
  <2>4. \A k \in BusesBefore(document, n) : k < n /\ k \in Nat
    BY <1>3 DEF BusesBefore
  <2> HIDE DEF m, more
  <2>5. \A i \in 1 .. m : at2[i] = at[i] /\ at[i] \in BusesBefore(document, n) /\ i \in 1 .. m + 1
    BY <2>1, <2>2
  <2>6. at2[m + 1] = n /\ m + 1 \in 1 .. m + 1 /\ \A i \in 1 .. m + 1 : i \in 1 .. m \/ i = m + 1
    BY <2>2
  <2>7. at2 \in [DOMAIN more -> BusesBefore(document, n + 1)]
    BY <2>2, <2>3, <2>5, <2>6
  <2> HIDE DEF at2
  <2>8. \A i \in DOMAIN more : more[i] = document[at2[i]] /\ at2[i] >= 1
    BY <1>3, <2>1, <2>2, <2>5, <2>6
  <2>9. \A i, j \in DOMAIN more : i < j => at2[i] < at2[j]
    <3> SUFFICES ASSUME NEW i \in DOMAIN more, NEW j \in DOMAIN more, i < j PROVE at2[i] < at2[j]
      OBVIOUS
    <3>1. i \in 1 .. m
      BY <2>2
    <3>2. CASE j = m + 1
      BY <2>4, <2>5, <2>6, <3>1, <3>2
    <3>3. CASE j \in 1 .. m
      BY <2>1, <2>2, <2>5, <3>1, <3>3
    <3> QED BY <2>2, <2>6, <3>2, <3>3
  <2>10. \A k \in BusesBefore(document, n + 1) : k >= 1 => \E i \in DOMAIN more : at2[i] = k
    BY <2>1, <2>2, <2>3, <2>5, <2>6
  <2> QED BY <2>7, <2>8, <2>9, <2>10 DEF AreWaiting, more
<1>6. 1 \in 1 .. n + 1 /\ ~(1 > 1)
  BY <1>3
<1> QED BY <1>2, <1>4, <1>5, <1>6 DEF IsReading

\* A stop that comes is added.
LEMMA StopIsRead ==
  ASSUME NEW document, document \in Seq(ToSet(document)), NEW n \in DOMAIN document,
         NEW c, c = [stops |-> c.stops, buses |-> c.buses, distances |-> c.distances],
         NEW queue, IsReading(c, document, n, queue),
         document[n].type = "Stop", IsComplete(document[n]),
         NEW d, d.stops = AddStop(c, document[n].name, document[n].coordinates).stops, d.buses = c.buses
  PROVE  IsReading(d, document, n + 1, queue)
<1>1. /\ AreWaiting(document, n, 1, queue) /\ Tables(c, document, n, 1, {})
      /\ AreRead(document, n, 1, c.distances)
  BY NoBusIsAddedYet
<1>2. Tables(d, document, n + 1, 1, BusesBefore(document, 1))
  BY <1>1, TablesOfAddStop, NoBusesYet
<1>3. n \in Nat /\ \A k \in DOMAIN document : k \in Nat /\ (k < n + 1 <=> k < n \/ k = n)
  OBVIOUS
<1>4. AreRead(document, n + 1, 1, d.distances)
  BY <1>1, <1>3, NoBusesYet DEF AreRead
<1>5. BusesBefore(document, n + 1) = BusesBefore(document, n)
  BY <1>3 DEF BusesBefore
<1>6. AreWaiting(document, n + 1, 1, queue)
  BY <1>1, <1>5 DEF AreWaiting
<1>7. 1 \in 1 .. n + 1 /\ ~(1 > 1)
  BY <1>3
<1> QED BY <1>2, <1>4, <1>6, <1>7 DEF IsReading

\* The bus that has waited longest is added.
LEMMA BusIsAdded ==
  ASSUME NEW document, document \in Seq(ToSet(document)), NEW n, n = Len(document) + 1,
         NEW c, c = [stops |-> c.stops, buses |-> c.buses, distances |-> c.distances],
         NEW queue \in Seq(ToSet(document)), queue # <<>>, IsReading(c, document, n, queue),
         IsComplete(Head(queue)), Head(queue).is_roundtrip \in BOOLEAN,
         IsLine(Head(queue).stops, ~Head(queue).is_roundtrip, c.distances)
  PROVE  LET request == Head(queue)
         IN  IsReading(AddBus(c, request.name, request.stops, ~request.is_roundtrip), document, n, Tail(queue))
<1>1. PICK p \in 1 .. n :
        /\ AreWaiting(document, n, p, queue)
        /\ Tables(c, document, n, p, BusesBefore(document, p))
        /\ AreRead(document, n, p, c.distances)
  BY DEF IsReading
<1>2. PICK at \in [DOMAIN queue -> BusesBefore(document, n)] :
        /\ \A i \in DOMAIN queue : queue[i] = document[at[i]] /\ at[i] >= p
        /\ \A i, j \in DOMAIN queue : i < j => at[i] < at[j]
        /\ \A k \in BusesBefore(document, n) : k >= p => \E i \in DOMAIN queue : at[i] = k
  BY <1>1 DEF AreWaiting
<1> DEFINE a == at[1]
           request == document[a]
           d == AddBus(c, request.name, request.stops, ~request.is_roundtrip)
<1>3. /\ 1 \in DOMAIN queue /\ Head(queue) = queue[1]
      /\ DOMAIN queue \subseteq Nat /\ \A i \in DOMAIN queue : i = 1 \/ 1 < i
  OBVIOUS
<1>4. /\ a \in BusesBefore(document, n) /\ a >= p /\ Head(queue) = request
      /\ \A i \in DOMAIN queue : at[i] \in BusesBefore(document, n) /\ (i = 1 \/ a < at[i])
  BY <1>2, <1>3
<1>5. /\ n \in Nat /\ p \in Nat /\ 1 <= p /\ p <= n
      /\ \A k \in DOMAIN document : k \in Nat /\ k < n
  OBVIOUS
<1>6. /\ \A m : \A k \in BusesBefore(document, m) : k \in DOMAIN document /\ document[k].type = "Bus" /\ k < m
      /\ \A k \in BusesBefore(document, a + 1) : k \in BusesBefore(document, n)
  BY <1>5 DEF BusesBefore
<1>7. a \in DOMAIN document /\ document[a].type = "Bus" /\ p <= a /\ a \in Nat /\ a < n
  BY <1>4, <1>5, <1>6
<1> HIDE DEF a
<1>8. \A k \in BusesBefore(document, a + 1) : k >= p => k = a
  <2> SUFFICES ASSUME NEW k \in BusesBefore(document, a + 1), k >= p, k # a PROVE FALSE
    OBVIOUS
  <2>1. k \in BusesBefore(document, n) /\ k \in DOMAIN document /\ k < a + 1
    BY <1>6
  <2>2. PICK i \in DOMAIN queue : at[i] = k
    BY <1>2, <2>1
  <2>3. i = 1 \/ a < k
    BY <1>4, <2>2
  <2>4. a < k
    BY <2>2, <2>3 DEF a
  <2> QED BY <1>5, <1>7, <2>1, <2>4
<1>9. /\ IsComplete(request) /\ request.is_roundtrip \in BOOLEAN
      /\ IsLine(request.stops, ~request.is_roundtrip, c.distances)
  BY <1>4
<1>10. Tables(d, document, n, a + 1, BusesBefore(document, a + 1))
  BY <1>1, <1>5, <1>7, <1>8, <1>9, TablesOfAddBus
<1>11. d.distances = c.distances
  <2> DEFINE one_way == ~request.is_roundtrip
  <2>1. d = AddBus(c, request.name, request.stops, one_way)
    OBVIOUS
  <2> HIDE DEF d, one_way
  <2>2. HasBus(c, request.name, request.stops, one_way, d)
    BY <2>1, AddBusAdds
  <2> QED BY <2>2 DEF HasBus
<1>12. AreRead(document, n, a + 1, d.distances)
  <2>1. BusesBefore(document, a + 1) = BusesBefore(document, p) \cup {a}
    BY <1>5, <1>7, <1>8, NextBus
  <2> HIDE DEF d
  <2> QED BY <1>1, <1>9, <1>11, <2>1 DEF AreRead
<1>13. AreWaiting(document, n, a + 1, Tail(queue))
  <2> DEFINE m == Len(queue) - 1
             rest == Tail(queue)
             at2 == [i \in 1 .. m |-> at[i + 1]]
  <2>1. /\ m \in Nat /\ DOMAIN rest = 1 .. m /\ DOMAIN queue = 1 .. m + 1
        /\ \A i \in 1 .. m : rest[i] = queue[i + 1]
    OBVIOUS
  <2> HIDE DEF m, rest
  <2>2. \A i \in 1 .. m : i + 1 \in DOMAIN queue /\ 1 < i + 1 /\ i + 1 # 1
    BY <2>1
  <2>3. at2 \in [DOMAIN rest -> BusesBefore(document, n)] /\ \A i \in 1 .. m : at2[i] = at[i + 1]
    BY <1>4, <2>1, <2>2
  <2> HIDE DEF at2
  <2>4. \A i \in DOMAIN rest : rest[i] = document[at2[i]]
    BY <1>2, <2>1, <2>2, <2>3
  <2>5. \A i \in DOMAIN rest : at2[i] >= a + 1
    <3> SUFFICES ASSUME NEW i \in 1 .. m PROVE at[i + 1] >= a + 1
      BY <2>1, <2>3
    <3>1. a < at[i + 1] /\ at[i + 1] \in Nat
      BY <1>4, <1>5, <1>6, <2>2
    <3> QED BY <1>7, <3>1
  <2>6. ASSUME NEW i \in DOMAIN rest, NEW j \in DOMAIN rest, i < j PROVE at2[i] < at2[j]
    <3>1. i + 1 < j + 1 /\ i + 1 \in DOMAIN queue /\ j + 1 \in DOMAIN queue
      BY <2>1, <2>2, <2>6
    <3> QED BY <1>2, <2>1, <2>3, <3>1
  <2>7. ASSUME NEW k \in BusesBefore(document, n), k >= a + 1 PROVE \E i \in DOMAIN rest : at2[i] = k
    <3>1. k \in Nat /\ k >= p /\ k # a
      BY <1>5, <1>6, <1>7, <2>7
    <3>2. PICK i \in DOMAIN queue : at[i] = k
      BY <1>2, <3>1
    <3>3. i # 1
      BY <3>1, <3>2 DEF a
    <3>4. i - 1 \in 1 .. m /\ (i - 1) + 1 = i
      BY <2>1, <3>3
    <3> QED BY <2>1, <2>3, <3>2, <3>4
  <2>8. \E f \in [DOMAIN rest -> BusesBefore(document, n)] :
          /\ \A i \in DOMAIN rest : rest[i] = document[f[i]] /\ f[i] >= a + 1
          /\ \A i, j \in DOMAIN rest : i < j => f[i] < f[j]
          /\ \A k \in BusesBefore(document, n) : k >= a + 1 => \E i \in DOMAIN rest : f[i] = k
    BY <2>3, <2>4, <2>5, <2>6, <2>7
  <2> QED BY <2>8 DEF AreWaiting, rest
<1>14. a + 1 \in 1 .. n /\ n > Len(document)
  BY <1>5, <1>7
<1>15. IsReading(d, document, n, Tail(queue))
  <2> HIDE DEF d
  <2> QED BY <1>10, <1>12, <1>13, <1>14 DEF IsReading
<1>16. Head(queue) = request
  BY <1>4
<1> HIDE DEF request
<1> QED BY <1>15, <1>16

\* When no bus waits any more, all of the document is read.
LEMMA AllIsRead ==
  ASSUME NEW document, document \in Seq(ToSet(document)), NEW n, n = Len(document) + 1,
         NEW c, IsReading(c, document, n, <<>>)
  PROVE  HasRead(c, document, BusesBefore(document, n))
<1>1. PICK p \in 1 .. n :
        /\ AreWaiting(document, n, p, <<>>)
        /\ Tables(c, document, n, p, BusesBefore(document, p))
        /\ AreRead(document, n, p, c.distances)
  BY DEF IsReading
<1>2. n \in Nat /\ p \in Nat /\ p <= n /\ \A k \in DOMAIN document : k \in Nat /\ k < n
  OBVIOUS
<1>3. \A k \in BusesBefore(document, n) : ~(k >= p)
  <2>1. DOMAIN <<>> = {}
    OBVIOUS
  <2> QED BY <1>1, <2>1 DEF AreWaiting
<1>4. \A k \in DOMAIN document : document[k].type = "Bus" => k < p
  BY <1>2, <1>3 DEF BusesBefore
<1>5. /\ BusesBefore(document, p) = BusesBefore(document, n)
      /\ NamesBefore(document, p, "Bus") = NamesBefore(document, n, "Bus")
      /\ \A b : NamedBefore(document, p, "Bus", b) = NamedBefore(document, n, "Bus", b)
  BY <1>2, <1>4 DEF BusesBefore, NamesBefore, NamedBefore
<1>6. \A b : LastBefore(document, p, b) = LastBefore(document, n, b)
  BY <1>5 DEF LastBefore
<1>7. StopsBefore(document, n, p) = StopsBefore(document, n, n)
  BY <1>5 DEF StopsBefore
<1>8. Tables(c, document, n, n, BusesBefore(document, n))
  BY <1>1, <1>5, <1>6, <1>7 DEF Tables
<1>9. AreRead(document, n, n, c.distances)
  BY <1>1, <1>5 DEF AreRead
<1> QED BY <1>8, <1>9 DEF HasRead

(***************************************************************************)
(* What is stored of the tables, and what comes back.                      *)
(***************************************************************************)
AreRequests(document) ==
  document \in Seq(ToSet(document)) /\ \A request \in ToSet(document) : IsRequest(request)

\* The last description of a bus is one of it, and is complete once it is read.
LEMMA LastDescription ==
  ASSUME NEW document, AreRequests(document), NEW distances,
         AreRead(document, Len(document) + 1, Len(document) + 1, distances),
         NEW b \in NamesOf(document, "Bus")
  PROVE  LET k == Max(Named(document, "Bus", b))
         IN  /\ k \in Named(document, "Bus", b) /\ document[k].name = b
             /\ CallsOf(document[k]) \subseteq StopNames(document)
             /\ IsComplete(document[k])
             /\ document[k].is_roundtrip \in BOOLEAN
             /\ document[k].stops \in Seq(ToSet(document[k].stops))
             /\ ~document[k].is_roundtrip => document[k].stops # <<>>
             /\ Legs(BusLine(document[k])) \subseteq DOMAIN distances
<1> DEFINE said == Named(document, "Bus", b)
           k == Max(said)
           n == Len(document) + 1
<1>1. document \in Seq(ToSet(document)) /\ \A request \in ToSet(document) : IsRequest(request)
  BY DEF AreRequests
<1>2. said \subseteq DOMAIN document /\ said # {}
  BY DEF Named, NamesOf
<1> HIDE DEF said
<1>3. k \in said
  BY <1>1, <1>2, LastOfThem
<1>4. k \in DOMAIN document /\ document[k].type = "Bus" /\ document[k].name = b
  BY <1>3 DEF said, Named
<1>5. k < n
  BY <1>1, <1>4
<1> HIDE DEF k, n
<1>6. k \in BusesBefore(document, n)
  BY <1>4, <1>5 DEF BusesBefore
<1>7. IsComplete(document[k]) /\ IsLine(document[k].stops, ~document[k].is_roundtrip, distances)
  BY <1>6 DEF AreRead, n
<1>8. IsRequest(document[k])
  BY <1>1, <1>4 DEF ToSet
<1>9. document[k].is_roundtrip \in BOOLEAN
  BY <1>4, <1>7, <1>8 DEF IsRequest
<1>10. CallsOf(document[k]) \subseteq StopNames(document)
  BY <1>4 DEF StopNames
<1> QED BY <1>3, <1>4, <1>7, <1>9, <1>10 DEF IsLine, BusLine, k, said

\* Of a line that is kept there and back, the file has the way there.
LEMMA StoredBus ==
  ASSUME NEW request, request.is_roundtrip \in BOOLEAN, request.stops \in Seq(ToSet(request.stops)),
         ~request.is_roundtrip => request.stops # <<>>,
         NEW bus, bus.stops = BusLine(request), bus.is_roundtrip = request.is_roundtrip
  PROVE  ProtoBus(bus) = [stops |-> request.stops, is_roundtrip |-> request.is_roundtrip]
<1> DEFINE list == request.stops
           one_way == ~request.is_roundtrip
           kept == BusStops(list, one_way)
<1>1. list \in Seq(ToSet(list)) /\ one_way \in BOOLEAN /\ (one_way => list # <<>>)
  OBVIOUS
<1>2. bus.stops = kept /\ bus.is_roundtrip = request.is_roundtrip
  BY DEF BusLine
<1>3. CASE request.is_roundtrip
  <2>1. kept = list
    BY <1>3 DEF BusStops
  <2> QED BY <1>2, <1>3, <2>1 DEF ProtoBus
<1>4. CASE ~request.is_roundtrip
  <2>1. one_way
    BY <1>4
  <2> HIDE DEF list, one_way
  <2>2. SubSeq(kept, 1, Len(kept) \div 2 + 1) = list
    BY <1>1, <2>1, ThereAndBack
  <2> HIDE DEF kept
  <2> QED BY <1>2, <1>4, <2>2 DEF ProtoBus, list
<1> QED BY <1>3, <1>4

LEMMA WhatIsStored ==
  ASSUME NEW document, AreRequests(document), NEW K, HasRead(catalogue, document, K)
  PROVE  HasStored(ProtoCatalogue, document)
<1> DEFINE n == Len(document) + 1
           c == catalogue
           names == NamesOf(document, "Bus")
           last(b) == document[Max(Named(document, "Bus", b))]
<1>1. Tables(c, document, n, n, K) /\ AreRead(document, n, n, c.distances)
  BY DEF HasRead
<1>2. document \in Seq(ToSet(document))
  BY DEF AreRequests
<1>3. /\ \A type : NamesBefore(document, n, type) = NamesOf(document, type)
      /\ StopsBefore(document, n, n) = StopNames(document)
      /\ \A s : PlaceBefore(document, n, s) = Places(document, s)
      /\ \A b : LastBefore(document, n, b) = last(b)
  BY <1>2, WholeDocument
<1>4. ProtoCatalogue.stops = [s \in StopNames(document) |-> Places(document, s)]
  BY <1>1, <1>3 DEF Tables, ProtoCatalogue
<1>5. c.buses = [b \in names |-> Entry(document, n, last(b), c.distances)]
  BY <1>1, <1>3 DEF Tables
<1>6. ASSUME NEW b \in names
      PROVE  ProtoBus(c.buses[b]) = [stops |-> last(b).stops, is_roundtrip |-> last(b).is_roundtrip]
  <2> DEFINE request == last(b)
             bus == c.buses[b]
  <2>1. /\ request.is_roundtrip \in BOOLEAN /\ request.stops \in Seq(ToSet(request.stops))
        /\ ~request.is_roundtrip => request.stops # <<>>
    BY <1>1, LastDescription
  <2> HIDE DEF request
  <2>2. bus = Entry(document, n, request, c.distances)
    BY <1>5 DEF request
  <2> HIDE DEF bus
  <2>3. bus.stops = BusLine(request) /\ bus.is_roundtrip = request.is_roundtrip
    BY <2>2 DEF Entry, KeptBus
  <2>4. ProtoBus(bus) = [stops |-> request.stops, is_roundtrip |-> request.is_roundtrip]
    BY <2>1, <2>3, StoredBus
  <2> QED BY <2>4 DEF bus, request
<1>7. ProtoCatalogue.buses = [b \in names |-> [stops |-> last(b).stops, is_roundtrip |-> last(b).is_roundtrip]]
  BY <1>5, <1>6 DEF ProtoCatalogue
<1>8. ProtoCatalogue.distances = c.distances
  BY DEF ProtoCatalogue
<1> QED BY <1>1, <1>4, <1>7, <1>8 DEF HasStored

LEMMA WhatIsRestored ==
  ASSUME OrdersEnumerate, BaseInv, NEW order \in Orders(DOMAIN base.distances),
         NEW document, AreRequests(document), HasStored(base, document),
         Restored(order).distances = base.distances
  PROVE  HasRead(Restored(order), document, LastBuses(document))
<1> DEFINE n == Len(document) + 1
           S == StopNames(document)
           P == [s \in S |-> Places(document, s)]
           nobody == [s \in S |-> {}]
           proto == base.buses
           N == NamesOf(document, "Bus")
           last(b) == document[Max(Named(document, "Bus", b))]
           list == SetToSeq(N)
           d == Restored(order)
<1>1. PICK c :
        /\ d = RestoredBuses(c, proto, SetToSeq(DOMAIN proto))
        /\ CatalogueInv(c) /\ c.buses = Empty
        /\ c.stops = [s \in DOMAIN base.stops |-> [coordinates |-> base.stops[s], buses |-> {}]]
  BY RestoredDistances
<1>2. /\ base.stops = P
      /\ proto = [b \in N |-> [stops |-> last(b).stops, is_roundtrip |-> last(b).is_roundtrip]]
      /\ AreRead(document, n, n, base.distances)
  BY DEF HasStored
<1>3. DOMAIN proto = N /\ d = RestoredBuses(c, proto, list)
  BY <1>1, <1>2
<1>4. IsFiniteSet(N)
  BY <1>3 DEF BaseInv
<1>5. list \in Seq(N) /\ ToSet(list) = N
  BY <1>4, AsASequence
<1>6. c = [stops |-> c.stops, buses |-> c.buses, distances |-> c.distances]
  BY <1>1 DEF CatalogueInv
<1>7. c.stops = StopTable(S, P, nobody)
  BY <1>1, <1>2 DEF StopTable
<1>8. ASSUME NEW b \in N
      PROVE  /\ last(b).name = b /\ CallsOf(last(b)) \subseteq S /\ last(b).is_roundtrip \in BOOLEAN
             /\ last(b).stops \in Seq(ToSet(last(b).stops))
             /\ ~last(b).is_roundtrip => last(b).stops # <<>>
             /\ Legs(BusLine(last(b))) \subseteq DOMAIN base.distances
  BY <1>2, LastDescription
<1>9. \A b \in N : proto[b].stops = last(b).stops /\ proto[b].is_roundtrip = last(b).is_roundtrip
  BY <1>2
<1>10. AreStored(proto, N, S)
  BY <1>8, <1>9 DEF AreStored, CallsOf
<1>11. c.buses = Empty
  BY <1>1
<1> DEFINE callers == [s \in S |-> {b \in N : s \in ToSet(proto[b].stops)}]
           kept == [b \in N |-> KeptBus(BusStops(proto[b].stops, ~proto[b].is_roundtrip), P, c.distances,
                                        proto[b].is_roundtrip)]
<1>12. /\ RestoredBuses(c, proto, list).distances = c.distances
       /\ RestoredBuses(c, proto, list).stops = StopTable(S, P, callers)
       /\ RestoredBuses(c, proto, list).buses = kept
  <2> HIDE DEF S, P, N, list, proto
  <2> QED BY <1>5, <1>6, <1>7, <1>10, <1>11, RestoredTables
<1> HIDE DEF list
<1>13. d.distances = c.distances /\ d.stops = StopTable(S, P, callers) /\ d.buses = kept
  BY <1>3, <1>12
<1>14. document \in Seq(ToSet(document))
  BY DEF AreRequests
<1>15. /\ \A type : NamesBefore(document, n, type) = NamesOf(document, type)
       /\ StopsBefore(document, n, n) = S
       /\ \A s : PlaceBefore(document, n, s) = Places(document, s)
       /\ \A b : LastBefore(document, n, b) = last(b)
  BY <1>14, WholeDocument
<1> HIDE DEF d
<1>16. d.stops = [s \in StopsBefore(document, n, n) |->
                   [coordinates |-> PlaceBefore(document, n, s),
                    buses |-> Callers(document, LastBuses(document), s)]]
  <2>1. ASSUME NEW s \in S PROVE callers[s] = Callers(document, LastBuses(document), s)
    <3>1. callers[s] = {b \in N : s \in CallsOf(last(b))}
      BY <1>9, <2>1 DEF CallsOf
    <3>2. {b \in N : s \in CallsOf(last(b))} \subseteq Callers(document, LastBuses(document), s)
      BY <1>8 DEF Callers, LastBuses
    <3>3. Callers(document, LastBuses(document), s) \subseteq {b \in N : s \in CallsOf(last(b))}
      BY <1>8 DEF Callers, LastBuses
    <3> QED BY <3>1, <3>2, <3>3
  <2> HIDE DEF callers
  <2>2. d.stops = [s \in S |-> [coordinates |-> Places(document, s),
                                buses |-> Callers(document, LastBuses(document), s)]]
    BY <1>13, <2>1 DEF StopTable
  <2> QED BY <1>15, <2>2
<1>17. ASSUME NEW b \in N
       PROVE  kept[b] = Entry(document, n, last(b), d.distances)
  <2> DEFINE request == last(b)
             line == BusLine(request)
             Q == [s \in ToSet(line) |-> PlaceBefore(document, n, s)]
  <2>1. request.is_roundtrip \in BOOLEAN /\ request.stops \in Seq(ToSet(request.stops))
        /\ (~request.is_roundtrip => request.stops # <<>>) /\ ToSet(request.stops) \subseteq S
    BY <1>8 DEF CallsOf
  <2>2. kept[b] = KeptBus(BusStops(proto[b].stops, ~proto[b].is_roundtrip), P, c.distances, proto[b].is_roundtrip)
    OBVIOUS
  <2>3. proto[b].stops = request.stops /\ proto[b].is_roundtrip = request.is_roundtrip
    BY <1>9
  <2> HIDE DEF request, kept
  <2>4. kept[b] = KeptBus(line, P, c.distances, request.is_roundtrip)
    BY <2>2, <2>3 DEF BusLine
  <2>5. ToSet(line) \subseteq S
    <3> DEFINE stops == request.stops
               one_way == ~request.is_roundtrip
    <3>1. stops \in Seq(ToSet(stops)) /\ one_way \in BOOLEAN /\ (one_way => stops # <<>>)
      BY <2>1
    <3>2. line = BusStops(stops, one_way)
      BY DEF BusLine
    <3> HIDE DEF stops, one_way, line
    <3>3. ToSet(line) = ToSet(stops)
      BY <3>1, <3>2, SameCalls
    <3> QED BY <2>1, <3>3 DEF stops
  <2>6. \A s \in ToSet(line) : P[s] = Q[s]
    BY <1>15, <2>5
  <2> DEFINE e == c.distances
  <2> HIDE DEF P, Q, line, e
  <2>7. InfoOf(line, P, e) = InfoOf(line, Q, e)
    BY <2>6, SameInfo
  <2>8. KeptBus(line, P, e, request.is_roundtrip) = KeptBus(line, Q, e, request.is_roundtrip)
    BY <2>7 DEF KeptBus
  <2>9. Entry(document, n, request, e) = KeptBus(line, Q, e, request.is_roundtrip)
    BY DEF Entry, line, Q
  <2> QED BY <1>13, <2>4, <2>8, <2>9 DEF request, e
<1> HIDE DEF kept
<1>18. d.buses = [b \in NamesBefore(document, n, "Bus") |->
                   Entry(document, n, LastBefore(document, n, b), d.distances)]
  <2>1. kept = [b \in N |-> kept[b]]
    BY DEF kept
  <2> QED BY <1>13, <1>15, <1>17, <2>1
<1>19. Tables(d, document, n, n, LastBuses(document))
  BY <1>16, <1>18 DEF Tables
<1>20. AreRead(document, n, n, d.distances)
  BY <1>2 DEF d
<1> QED BY <1>19, <1>20 DEF HasRead, d

(***************************************************************************)
(* The steps of the program keep the tables.                               *)
(***************************************************************************)
LEMMA SettingsStay ==
  /\ UNCHANGED <<runs, made>> => ProtoSettingsFrom(made)' = ProtoSettingsFrom(made)
  /\ UNCHANGED <<runs, run, made>> => SettingsFrom(Source(run))' = SettingsFrom(Source(run))
<1>1. UNCHANGED <<runs, made>> => ProtoSettingsFrom(made)' = ProtoSettingsFrom(made)
  BY DEF ProtoSettingsFrom, SettingsFrom
<1>2. ASSUME UNCHANGED <<runs, run, made>>
      PROVE  SettingsFrom(Source(run))' = SettingsFrom(Source(run))
  <2>1. runs' = runs /\ Source(run)' = Source(run)
    BY <1>2 DEF Source
  <2> DEFINE j == Source(run)
  <2>2. SettingsFrom(j)' = IF j' = 0 THEN {NoSettings} ELSE MapSettings(runs'[j'].render_settings)
    <3> HIDE DEF j
    <3> QED BY DEF SettingsFrom
  <2> QED BY <2>1, <2>2 DEF SettingsFrom
<1> QED BY <1>1, <1>2

LEMMA BaseTablesStay ==
  ASSUME AnswerInv, UNCHANGED <<runs, made, base>>
  PROVE  HasStored(base, MadeOf)' /\ base'.render_settings \in ProtoSettingsFrom(made)'
<1>1. MadeOf' = MadeOf /\ base' = base /\ ProtoSettingsFrom(made)' = ProtoSettingsFrom(made)
  BY SettingsStay DEF MadeOf
<1>2. HasStored(base', MadeOf')
  BY <1>1 DEF AnswerInv
<1> QED BY <1>1, <1>2, SaidOfTheNextState DEF AnswerInv

\* The document of a run, and that of the file.
LEMMA RequestsAreRead ==
  ASSUME ProgramInv, DistanceInv
  PROVE  /\ AreRequests(MadeOf)
         /\ stage # "start" => AreRequests(Run.base_requests) /\ AreRequests(DocumentOf(run))
<1>1. runs \in Seq(ToSet(runs)) /\ \A input \in ToSet(runs) : IsInput(input)
  BY ProgramAssumption DEF ProgramInv
<1>2. \A j \in DOMAIN runs : AreRequests(runs[j].base_requests)
  BY <1>1 DEF ToSet, IsInput, AreRequests
<1>3. AreRequests(<<>>)
  BY DEF AreRequests, ToSet
<1>4. made \in {0} \cup DOMAIN runs
  BY DEF DistanceInv
<1>5. AreRequests(MadeOf)
  BY <1>2, <1>3, <1>4 DEF MadeOf
<1>6. ASSUME stage # "start" PROVE AreRequests(Run.base_requests) /\ AreRequests(DocumentOf(run))
  <2>1. run \in DOMAIN runs
    BY <1>6 DEF ProgramInv
  <2>2. Source(run) \in {0} \cup DOMAIN runs
    BY <1>4, <2>1 DEF Source
  <2> QED BY <1>2, <1>3, <2>1, <2>2 DEF Run, DocumentOf
<1> QED BY <1>5, <1>6

\* A request that is taken is complete when it is a stop; what is read of it is
\* what it says.
LEMMA ComingIsTaken ==
  ASSUME ProgramInv, Comes, IncomingOutcome = "ok"
  PROVE  LET request == Run.base_requests[next]
         IN  /\ request.type \in {"Stop", "Bus"}
             /\ request.type = "Stop" =>
                  /\ IsComplete(request) /\ IncomingRequest.name = request.name
                  /\ IncomingRequest.coordinates = request.coordinates
<1> DEFINE request == Run.base_requests[next]
<1>1. IsInput(Run)
  BY RunIsInput DEF Comes
<1>2. next \in DOMAIN Run.base_requests
  BY IncomingSays DEF Comes, ProgramInv
<1>3. CASE Run.mode # "text"
  <2>1. IncomingRequest = request
    BY <1>3 DEF IncomingRequest
  <2> HIDE DEF request
  <2> QED BY <1>3, <2>1 DEF IncomingOutcome, request
<1>4. CASE Run.mode = "text"
  <2> DEFINE line == Run.lines[next]
             said == ProcessedRequest(line)
  <2>1. IncomingRequest = said /\ LineOutcome(line) = "ok"
    BY <1>4 DEF IncomingRequest, IncomingOutcome
  <2>2. MeansTheSame(line, request)
    BY <1>1, <1>2, <1>4 DEF IsInput
  <2> HIDE DEF request, line
  <2>3. said.type \in {"Stop", "Bus"}
    BY DEF ProcessedRequest
  <2> HIDE DEF said
  <2>4. /\ IsComplete(request) /\ said.type = request.type
        /\ request.type = "Stop" => said.name = request.name /\ said.coordinates = request.coordinates
    BY <2>1, <2>2 DEF MeansTheSame, said
  <2> QED BY <2>1, <2>3, <2>4 DEF request
<1> QED BY <1>3, <1>4

LEMMA EndKeepsAnswers ==
  ASSUME AnswerInv, NEW outcome, End(outcome), UNCHANGED <<base, made>>
  PROVE  AnswerInv'
<1>1. runs' = runs /\ stage' = "start" /\ base' = base /\ made' = made
  BY DEF End
<1>2. HasStored(base, MadeOf)' /\ base'.render_settings \in ProtoSettingsFrom(made)'
  BY <1>1, BaseTablesStay
<1> QED BY <1>1, <1>2 DEF AnswerInv

LEMMA StartKeepsAnswers ==
  ASSUME ProgramInv, AnswerInv, Start
  PROVE  AnswerInv'
<1>1. /\ runs' = runs /\ run' = run /\ next' = 1 /\ base' = base /\ made' = made
      /\ catalogue' = EmptyCatalogue /\ buses_queue' = <<>>
      /\ stage' = IF Run.mode = "process_requests" THEN "restore" ELSE "add"
      /\ map_settings' \in IF ReadsSettings THEN MapSettings(Run.render_settings) ELSE {NoSettings}
      /\ stage = "start" /\ run <= Len(runs)
  BY DEF Start
<1>2. Run' = Run
  BY <1>1 DEF Run
<1>3. IsInput(Run)
  <2>1. runs \in Seq(ToSet(runs)) /\ \A input \in ToSet(runs) : IsInput(input)
    BY ProgramAssumption DEF ProgramInv
  <2>2. run \in DOMAIN runs
    BY <1>1, <2>1 DEF ProgramInv
  <2> QED BY <2>1, <2>2 DEF Run, ToSet
<1>4. HasStored(base, MadeOf)' /\ base'.render_settings \in ProtoSettingsFrom(made)'
  BY <1>1, BaseTablesStay
<1>5. IsReading(catalogue, Run.base_requests, next, buses_queue)'
  <2>1. Run.base_requests \in Seq(ToSet(Run.base_requests))
    BY <1>3 DEF IsInput
  <2>2. IsReading(EmptyCatalogue, Run.base_requests, 1, <<>>)
    BY <2>1, NothingIsReadYet
  <2>3. IsReading(catalogue', Run'.base_requests, next', buses_queue')
    BY <1>1, <1>2, <2>2
  <2> QED BY <2>3, SaidOfTheNextState
<1>6. ASSUME stage' = "add", Run.mode # "text" PROVE map_settings' \in SettingsFrom(Source(run))'
  <2>1. Run.mode \in {"make_base", "ReadJSON"}
    BY <1>1, <1>3, <1>6 DEF IsInput
  <2>2. Source(run) = run /\ run # 0
    BY <2>1 DEF Source, Run, ProgramInv
  <2>3. map_settings' \in SettingsFrom(Source(run))
    BY <1>1, <2>1, <2>2 DEF ReadsSettings, SettingsFrom, Run
  <2> QED BY <1>1, <2>3, SettingsStay
<1> QED BY <1>1, <1>2, <1>4, <1>5, <1>6 DEF AnswerInv

\* Reading on keeps the tables.
LEMMA ReadingKeepsAnswers ==
  ASSUME ProgramInv, DistanceInv, AnswerInv, QueueBus \/ AddNextStop
  PROVE  AnswerInv'
<1> DEFINE document == Run.base_requests
           request == document[next]
<1>1. /\ runs' = runs /\ run' = run /\ stage' = stage /\ base' = base /\ made' = made
      /\ map_settings' = map_settings
      /\ stage = "add" /\ next' = next + 1 /\ Comes /\ IncomingOutcome = "ok"
  BY DEF QueueBus, AddNextStop, IsNext, Comes
<1>2. Run' = Run
  BY <1>1 DEF Run
<1>3. document \in Seq(ToSet(document)) /\ next \in DOMAIN document /\ IncomingRequest.type = request.type
  BY <1>1, IncomingSays, ComingSays
<1>4. IsReading(catalogue, document, next, buses_queue)
  BY <1>1 DEF AnswerInv
<1>5. IsReading(catalogue', document, next + 1, buses_queue')
  <2>1. CASE QueueBus
    <3>1. /\ catalogue' = catalogue /\ IncomingRequest.type = "Bus"
          /\ buses_queue' = Append(buses_queue, IncomingRequest)
      BY <2>1 DEF QueueBus, IsNext, transportVars
    <3>2. IncomingRequest = request
      BY <1>1, <3>1, ComingBus
    <3>3. buses_queue \in Seq(ToSet(document))
      BY <1>1 DEF ProgramInv
    <3>4. request.type = "Bus"
      BY <1>3, <3>1
    <3> HIDE DEF document
    <3>5. IsReading(catalogue, document, next + 1, Append(buses_queue, document[next]))
      BY <1>3, <1>4, <3>3, <3>4, BusWaits
    <3> QED BY <3>1, <3>2, <3>5
  <2>2. CASE AddNextStop
    <3> DEFINE coming == IncomingRequest
               c == catalogue
               d == HandleAddStop(c, coming)
               added == AddStop(c, request.name, request.coordinates)
    <3>1. catalogue' = d /\ request.type = "Stop" /\ buses_queue' = buses_queue
      BY <1>3, <2>2 DEF AddNextStop, IsNext
    <3>2. /\ IsComplete(request) /\ coming.name = request.name /\ coming.coordinates = request.coordinates
          /\ IsTable(RoadDistances(request)) /\ Gives(DistancesFrom(coming), RoadDistances(request))
      BY <1>1, <3>1, ComingSays, ComingIsTaken
    <3>3. Grows(c, c)
      BY <1>1 DEF DistanceInv
    <3> DEFINE queue == buses_queue
               n == next
    <3> HIDE DEF coming, c, document
    <3>4. Grows(AddStop(c, coming.name, coming.coordinates), d) /\ d.buses = c.buses
      BY <3>2, <3>3, HandleAddStopSays
    <3>5. d.stops = added.stops
      BY <3>2, <3>4 DEF Grows
    <3>6. c = [stops |-> c.stops, buses |-> c.buses, distances |-> c.distances]
      BY <3>3 DEF Grows
    <3>7. IsReading(c, document, n, queue) /\ n \in DOMAIN document /\ document[n].type = "Stop"
          /\ IsComplete(document[n]) /\ document \in Seq(ToSet(document))
      BY <1>3, <1>4, <3>1, <3>2 DEF c
    <3> HIDE DEF d, queue, n
    <3>8. d.stops = AddStop(c, document[n].name, document[n].coordinates).stops
      BY <3>5 DEF n
    <3>9. IsReading(d, document, n + 1, queue)
      BY <3>4, <3>6, <3>7, <3>8, StopIsRead
    <3> QED BY <3>1, <3>9 DEF queue, n
  <2> QED BY <2>1, <2>2
<1>6. IsReading(catalogue, Run.base_requests, next, buses_queue)'
  BY <1>1, <1>2, <1>5, SaidOfTheNextState
<1>7. SettingsFrom(Source(run))' = SettingsFrom(Source(run))
  BY <1>1, SettingsStay
<1> QED BY <1>1, <1>2, <1>6, <1>7, BaseTablesStay DEF AnswerInv

\* So does a bus that is added.
LEMMA AddQueuedBusKeepsAnswers ==
  ASSUME ProgramInv, DistanceInv, AnswerInv, AddQueuedBus
  PROVE  AnswerInv'
<1> DEFINE request == Head(buses_queue)
           outcome == IF ~IsComplete(request) THEN "out_of_range"
                      ELSE AddBusOutcome(catalogue, request.stops, ~request.is_roundtrip)
           c == AddBus(catalogue, request.name, request.stops, ~request.is_roundtrip)
           document == Run.base_requests
<1>0. stage = "add" /\ HandleAddBus(request) /\ next > Len(Incoming) /\ buses_queue # <<>>
  BY DEF AddQueuedBus
<1>1. CASE outcome # "ok" /\ End(outcome) /\ UNCHANGED <<base, responses, made>>
  <2> HIDE DEF outcome
  <2> QED BY <1>1, EndKeepsAnswers
<1>2. CASE /\ outcome = "ok" /\ catalogue' = c /\ buses_queue' = Tail(buses_queue)
           /\ UNCHANGED <<runs, run, stage, next, map_settings, base, responses, outcomes, made,
                          routerVars, bus_wait_time, all_buses, stop_to_vertex>>
  <2>1. /\ runs' = runs /\ run' = run /\ stage' = "add" /\ next' = next /\ base' = base /\ made' = made
        /\ map_settings' = map_settings
    BY <1>0, <1>2
  <2>2. Run' = Run
    BY <2>1 DEF Run
  <2>3. document \in Seq(ToSet(document)) /\ next = Len(document) + 1
    <3>1. document \in Seq(ToSet(document)) /\ next > Len(document)
      BY <1>0, IncomingSays
    <3>2. next - 1 <= Len(document) /\ next \in Nat /\ Len(document) \in Nat
      BY <1>0, <3>1 DEF DistanceInv, ProgramInv
    <3> QED BY <3>1, <3>2
  <2>4. buses_queue \in Seq(ToSet(document)) /\ IsReading(catalogue, document, next, buses_queue)
    BY <1>0 DEF ProgramInv, AnswerInv
  <2>5. IsComplete(request) /\ AddBusOutcome(catalogue, request.stops, ~request.is_roundtrip) = "ok"
    BY <1>2
  <2>6. IsRequest(request) /\ request.type = "Bus"
    <3>1. \A r \in ToSet(document) : IsRequest(r)
      BY <1>0, RunIsInput DEF IsInput
    <3>2. 1 \in DOMAIN buses_queue /\ request = buses_queue[1] /\ request \in ToSet(document)
      BY <1>0, <2>4
    <3>3. \A k \in DOMAIN buses_queue : buses_queue[k].type = "Bus"
      BY <1>0 DEF ProgramInv
    <3> QED BY <3>1, <3>2, <3>3
  <2>7. request.stops \in Seq(ToSet(request.stops)) /\ request.is_roundtrip \in BOOLEAN
    BY <2>5, <2>6 DEF IsRequest
  <2>8. IsLine(request.stops, ~request.is_roundtrip, catalogue.distances)
    <3> DEFINE list == request.stops
               one_way == ~request.is_roundtrip
    <3>1. list \in Seq(ToSet(list)) /\ one_way \in BOOLEAN /\ AddBusOutcome(catalogue, list, one_way) = "ok"
      BY <2>5, <2>7
    <3> HIDE DEF list, one_way, request
    <3>2. IsLine(list, one_way, catalogue.distances)
      BY <3>1, LineOfAddBus
    <3> QED BY <3>2 DEF list, one_way
  <2>9. catalogue = [stops |-> catalogue.stops, buses |-> catalogue.buses, distances |-> catalogue.distances]
    BY <1>0 DEF DistanceInv, Grows
  <2> HIDE DEF document
  <2>10. IsReading(c, document, next, Tail(buses_queue))
    BY <1>0, <2>3, <2>4, <2>5, <2>7, <2>8, <2>9, BusIsAdded
  <2> HIDE DEF c
  <2>11. IsReading(catalogue, Run.base_requests, next, buses_queue)'
    BY <1>2, <2>1, <2>2, <2>10, SaidOfTheNextState DEF document
  <2>12. SettingsFrom(Source(run))' = SettingsFrom(Source(run))
    BY <2>1, SettingsStay
  <2>13. HasStored(base, MadeOf)' /\ base'.render_settings \in ProtoSettingsFrom(made)'
    BY <2>1, BaseTablesStay
  <2> QED BY <1>0, <2>1, <2>2, <2>11, <2>12, <2>13 DEF AnswerInv
<1> QED BY <1>0, <1>1, <1>2 DEF HandleAddBus

LEMMA EndOfAddKeepsAnswers ==
  ASSUME ProgramInv, DistanceInv, AnswerInv, EndOfAdd
  PROVE  AnswerInv'
<1> DEFINE document == Run.base_requests
<1>1. /\ stage = "add" /\ runs' = runs /\ run' = run /\ base' = base /\ made' = made
      /\ map_settings' = map_settings /\ catalogue' = catalogue /\ next > Len(Incoming) /\ buses_queue = <<>>
  BY DEF EndOfAdd, transportVars
<1>2. Run.mode \in {"make_base", "ReadJSON", "text"}
  BY <1>1, RunIsInput DEF IsInput, ProgramInv
<1>3. stage' \in {"store", "route", "print"}
  BY <1>2 DEF EndOfAdd
<1>4. document \in Seq(ToSet(document)) /\ next = Len(document) + 1
  <2>1. document \in Seq(ToSet(document)) /\ next > Len(document)
    BY <1>1, IncomingSays
  <2>2. next - 1 <= Len(document) /\ next \in Nat /\ Len(document) \in Nat
    BY <1>1, <2>1 DEF DistanceInv, ProgramInv
  <2> QED BY <2>1, <2>2
<1>5. DocumentOf(run) = document
  BY <1>2 DEF DocumentOf, Source, Run, ProgramInv
<1>6. Run' = Run /\ DocumentOf(run)' = DocumentOf(run)
  BY <1>1 DEF Run, DocumentOf, Source
<1>7. IsReading(catalogue, document, next, <<>>)
  BY <1>1 DEF AnswerInv
<1>8. HasRead(catalogue, DocumentOf(run), CallsKnown(Run.mode, DocumentOf(run)))
  <2> HIDE DEF document
  <2>1. HasRead(catalogue, document, BusesBefore(document, next))
    BY <1>4, <1>7, AllIsRead
  <2> QED BY <1>2, <1>4, <1>5, <2>1 DEF CallsKnown
<1>9. HasRead(catalogue, DocumentOf(run), CallsKnown(Run.mode, DocumentOf(run)))'
  BY <1>1, <1>6, <1>8, SaidOfTheNextState
<1>10. SettingsFrom(Source(run))' = SettingsFrom(Source(run))
  BY <1>1, SettingsStay
<1> QED BY <1>1, <1>3, <1>6, <1>9, <1>10, BaseTablesStay DEF AnswerInv

\* A color of a document comes back from the file, and so do the settings.
LEMMA ColorsComeBack ==
  ASSUME NEW color, color = NoColor \/ \E node : color = GetColorFromNode(node)
  PROVE  GetSvgColor(GetProtoColor(color)) = color
<1>1. CASE color = NoColor
  BY <1>1 DEF NoColor, GetProtoColor, GetSvgColor, Empty
<1>2. ASSUME NEW node, color = GetColorFromNode(node)
      PROVE  GetSvgColor(GetProtoColor(color)) = color
  <2>1. \/ \E s : color = [kind |-> "string", text |-> s]
        \/ \E rgb : color = [kind |-> "rgb", rgb |-> rgb]
        \/ \E rgb, opacity : color = [kind |-> "rgba", rgb |-> rgb, opacity |-> opacity]
    BY <1>2 DEF GetColorFromNode, String
  <2>2. ASSUME NEW s, color = [kind |-> "string", text |-> s]
        PROVE  GetSvgColor(GetProtoColor(color)) = color
    BY <2>2 DEF GetProtoColor, GetSvgColor, String
  <2>3. ASSUME NEW rgb, color = [kind |-> "rgb", rgb |-> rgb]
        PROVE  GetSvgColor(GetProtoColor(color)) = color
    <3>1. GetProtoColor(color) = [rgb |-> rgb]
      BY <2>3 DEF GetProtoColor
    <3>2. DOMAIN [rgb |-> rgb] = {"rgb"} /\ [rgb |-> rgb].rgb = rgb
      OBVIOUS
    <3> QED BY <2>3, <3>1, <3>2 DEF GetSvgColor
  <2>4. ASSUME NEW rgb, NEW opacity, color = [kind |-> "rgba", rgb |-> rgb, opacity |-> opacity]
        PROVE  GetSvgColor(GetProtoColor(color)) = color
    <3>1. GetProtoColor(color) = [rgb |-> rgb, opacity |-> opacity]
      BY <2>4 DEF GetProtoColor
    <3>2. DOMAIN [rgb |-> rgb, opacity |-> opacity] = {"rgb", "opacity"}
      OBVIOUS
    <3> QED BY <2>4, <3>1, <3>2 DEF GetSvgColor
  <2> QED BY <2>1, <2>2, <2>3, <2>4
<1> QED BY <1>1, <1>2

LEMMA SettingsComeBack ==
  ASSUME NEW settings, settings = NoSettings \/ \E section : settings \in MapSettings(section)
  PROVE  DeserializeMapSettings(GetProtoMapSettings(settings)) = settings
<1> DEFINE proto == GetProtoMapSettings(settings)
           back == DeserializeMapSettings(proto)
           IsSome(color) == color = NoColor \/ \E node : color = GetColorFromNode(node)
<1>1. /\ settings = [key \in SettingKeys |-> settings[key]]
      /\ IsSome(settings["underlayer_color"])
      /\ \E J : /\ settings["color_palette"] = [k \in J |-> settings["color_palette"][k]]
                /\ \A k \in J : IsSome(settings["color_palette"][k])
  <2>1. CASE settings = NoSettings
    <3>1. settings = [key \in SettingKeys |-> settings[key]]
      BY <2>1 DEF NoSettings, SettingKeys, NumberKeys, OffsetKeys
    <3>2. settings["underlayer_color"] = NoColor /\ settings["color_palette"] = <<>>
      BY <2>1 DEF NoSettings
    <3>3. <<>> = [k \in {} |-> <<>>[k]]
      OBVIOUS
    <3> QED BY <3>1, <3>2, <3>3
  <2>2. ASSUME NEW section, settings \in MapSettings(section)
        PROVE  /\ settings = [key \in SettingKeys |-> settings[key]]
               /\ IsSome(settings["underlayer_color"])
               /\ \E J : /\ settings["color_palette"] = [k \in J |-> settings["color_palette"][k]]
                         /\ \A k \in J : IsSome(settings["color_palette"][k])
    <3>0. PICK number \in [NumberKeys -> Indeterminate] :
            settings = [key \in SettingKeys |->
                         IF key \in DOMAIN section THEN MatchSettingKeyToHandler(key, section[key])
                         ELSE IF key \in NumberKeys THEN number[key] ELSE NoSettings[key]]
      BY <2>2 DEF MapSettings
    <3>1. settings = [key \in SettingKeys |-> settings[key]]
      BY <3>0
    <3>2. IsSome(settings["underlayer_color"])
      <4>1. settings["underlayer_color"] = IF "underlayer_color" \in DOMAIN section
              THEN MatchSettingKeyToHandler("underlayer_color", section["underlayer_color"])
              ELSE NoSettings["underlayer_color"]
        BY <3>0 DEF SettingKeys, NumberKeys
      <4>2. MatchSettingKeyToHandler("underlayer_color", section["underlayer_color"])
              = GetColorFromNode(section["underlayer_color"])
        BY DEF MatchSettingKeyToHandler
      <4>3. NoSettings["underlayer_color"] = NoColor
        BY DEF NoSettings
      <4> QED BY <4>1, <4>2, <4>3
    <3>3. \E J : /\ settings["color_palette"] = [k \in J |-> settings["color_palette"][k]]
                 /\ \A k \in J : IsSome(settings["color_palette"][k])
      <4> DEFINE nodes == section["color_palette"]
      <4>1. settings["color_palette"] = IF "color_palette" \in DOMAIN section
              THEN MatchSettingKeyToHandler("color_palette", nodes) ELSE NoSettings["color_palette"]
        BY <3>0 DEF SettingKeys, NumberKeys
      <4>2. MatchSettingKeyToHandler("color_palette", nodes) = [k \in DOMAIN nodes |-> GetColorFromNode(nodes[k])]
        BY DEF MatchSettingKeyToHandler
      <4>3. NoSettings["color_palette"] = [k \in {} |-> NoColor]
        BY DEF NoSettings
      <4>4. CASE "color_palette" \in DOMAIN section
        <5> DEFINE J == DOMAIN nodes
                   f == [k \in J |-> GetColorFromNode(nodes[k])]
        <5>1. f = [k \in J |-> f[k]] /\ \A k \in J : IsSome(f[k])
          OBVIOUS
        <5>2. settings["color_palette"] = f
          BY <4>1, <4>2, <4>4
        <5> HIDE DEF J, f, IsSome
        <5> QED BY <5>1, <5>2
      <4>5. CASE "color_palette" \notin DOMAIN section
        <5>1. settings["color_palette"] = [k \in {} |-> NoColor]
          BY <4>1, <4>3, <4>5
        <5> QED BY <5>1
      <4> QED BY <4>4, <4>5
    <3> QED BY <3>1, <3>2, <3>3
  <2> QED BY <2>1, <2>2
<1>2. PICK J : /\ settings["color_palette"] = [k \in J |-> settings["color_palette"][k]]
               /\ \A k \in J : IsSome(settings["color_palette"][k])
  BY <1>1
<1> DEFINE palette == settings["color_palette"]
           coded == [k \in J |-> GetProtoColor(palette[k])]
           decoded == [k \in J |-> GetSvgColor(coded[k])]
<1>3. DOMAIN palette = J /\ palette = [k \in J |-> palette[k]]
  BY <1>2
<1>4. proto = [key \in SettingKeys |->
                 IF key = "underlayer_color" THEN GetProtoColor(settings["underlayer_color"])
                 ELSE IF key = "color_palette" THEN coded ELSE settings[key]]
  <2>1. proto = [key \in DOMAIN settings |->
                   IF key = "color_palette" THEN [k \in DOMAIN palette |-> GetProtoColor(palette[k])]
                   ELSE IF key = "underlayer_color" THEN GetProtoColor(settings["underlayer_color"])
                   ELSE settings[key]]
    BY <1>1 DEF GetProtoMapSettings, SettingKeys
  <2>2. DOMAIN settings = SettingKeys
    BY <1>1
  <2> QED BY <1>3, <2>1, <2>2
<1> HIDE DEF proto
<1>5. /\ DOMAIN proto = SettingKeys /\ proto["color_palette"] = coded
      /\ proto["underlayer_color"] = GetProtoColor(settings["underlayer_color"])
      /\ \A key \in SettingKeys : key \notin {"underlayer_color", "color_palette"} => proto[key] = settings[key]
  BY <1>4 DEF SettingKeys
<1>6. back = [key \in SettingKeys |->
                 IF key = "underlayer_color" THEN GetSvgColor(proto["underlayer_color"])
                 ELSE IF key = "color_palette" THEN decoded ELSE proto[key]]
  <2>1. back = [key \in DOMAIN proto |->
                   IF key = "color_palette" THEN [k \in DOMAIN proto["color_palette"] |-> GetSvgColor(proto["color_palette"][k])]
                   ELSE IF key = "underlayer_color" THEN GetSvgColor(proto["underlayer_color"])
                   ELSE proto[key]]
    BY <1>5 DEF DeserializeMapSettings, SettingKeys
  <2>2. DOMAIN coded = J
    OBVIOUS
  <2> HIDE DEF coded
  <2> QED BY <1>5, <2>1, <2>2
<1>7. GetSvgColor(proto["underlayer_color"]) = settings["underlayer_color"]
  BY <1>1, <1>5, ColorsComeBack
<1>8. decoded = palette
  <2>1. \A k \in J : GetSvgColor(GetProtoColor(palette[k])) = palette[k]
    BY <1>2, ColorsComeBack
  <2> HIDE DEF palette
  <2> QED BY <1>3, <2>1
<1> HIDE DEF back, decoded
<1>9. \A key \in SettingKeys : back[key] = settings[key]
  BY <1>5, <1>6, <1>7, <1>8
<1>10. back = [key \in SettingKeys |-> back[key]]
  BY <1>6
<1> QED BY <1>1, <1>9, <1>10 DEF back, proto

\* A file without anything is that of no base requests.
LEMMA NothingIsInTheFile == HasStored(EmptyBase, <<>>)
<1> DEFINE document == <<>>
<1>1. DOMAIN document = {}
  OBVIOUS
<1> HIDE DEF document
<1>2. StopNames(document) = {} /\ NamesOf(document, "Bus") = {} /\ \A n : BusesBefore(document, n) = {}
  BY <1>1 DEF StopNames, NamesOf, BusesBefore
<1>3. \A n, distances : AreRead(document, n, n, distances)
  BY <1>1, <1>2 DEF AreRead
<1>4. HasStored(EmptyBase, document)
  BY <1>2, <1>3 DEF HasStored, EmptyBase, Empty
<1> QED BY <1>4 DEF document

\* The file gets the tables of the run that makes it, or none.
LEMMA StoreKeepsAnswers ==
  ASSUME ProgramInv, DistanceInv, AnswerInv, Store
  PROVE  AnswerInv'
<1>1. stage = "store" /\ runs' = runs /\ stage' = "start"
  BY DEF Store, End
<1>2. CASE base' = ProtoCatalogue /\ made' = run
  <2>1. run \in DOMAIN runs /\ run # 0 /\ Run.mode = "make_base"
    BY <1>1 DEF ProgramInv, DistanceInv
  <2>2. DocumentOf(run) = MadeOf' /\ Source(run) = run
    BY <1>1, <1>2, <2>1 DEF DocumentOf, Source, MadeOf, Run
  <2>3. HasRead(catalogue, DocumentOf(run), CallsKnown(Run.mode, DocumentOf(run)))
        /\ map_settings \in SettingsFrom(run)
    BY <1>1, <2>1, <2>2 DEF AnswerInv
  <2>4. AreRequests(DocumentOf(run))
    BY <1>1, RequestsAreRead
  <2>5. HasStored(ProtoCatalogue, DocumentOf(run))
    BY <2>3, <2>4, WhatIsStored
  <2>6. HasStored(base, MadeOf)'
    BY <1>2, <2>2, <2>5, SaidOfTheNextState
  <2>7. base'.render_settings \in {GetProtoMapSettings(settings) : settings \in SettingsFrom(run)}
    BY <1>2, <2>3 DEF ProtoCatalogue
  <2>8. ProtoSettingsFrom(made)' = {GetProtoMapSettings(settings) : settings \in SettingsFrom(run)}
    BY <1>1, <1>2, <2>1 DEF ProtoSettingsFrom, SettingsFrom
  <2> QED BY <1>1, <2>6, <2>7, <2>8 DEF AnswerInv
<1>3. CASE base' = EmptyBase /\ made' = 0
  <2>1. MadeOf' = <<>>
    BY <1>3 DEF MadeOf
  <2>2. HasStored(EmptyBase, <<>>)
    BY NothingIsInTheFile
  <2>3. HasStored(base, MadeOf)'
    BY <1>3, <2>1, <2>2, SaidOfTheNextState
  <2>4. base'.render_settings \in ProtoSettingsFrom(made)'
    BY <1>3 DEF EmptyBase, ProtoSettingsFrom, SettingsFrom
  <2> QED BY <1>1, <2>3, <2>4 DEF AnswerInv
<1> QED BY <1>2, <1>3 DEF Store

\* What the file has comes back.
LEMMA RestoreKeepsAnswers ==
  ASSUME OrdersEnumerate, ProgramInv, DistanceInv, AnswerInv, Restore
  PROVE  AnswerInv'
<1>1. /\ stage' = "route" /\ stage = "restore" /\ runs' = runs /\ run' = run
      /\ base' = base /\ made' = made
      /\ map_settings' = DeserializeMapSettings(base.render_settings)
  BY DEF Restore
<1>2. PICK order \in Orders(DOMAIN base.distances) : catalogue' = Restored(order)
  BY DEF Restore
<1>3. Restored(order).distances = base.distances
  BY RestoredAsStored DEF ProgramInv
<1>4. Run.mode = "process_requests" /\ Run' = Run /\ Source(run) = made /\ DocumentOf(run) = MadeOf
  BY <1>1 DEF DistanceInv, DocumentOf, MadeOf, Source, Run
<1>5. AreRequests(MadeOf) /\ BaseInv /\ HasStored(base, MadeOf)
  BY RequestsAreRead DEF ProgramInv, AnswerInv
<1>6. HasRead(Restored(order), MadeOf, LastBuses(MadeOf))
  BY <1>3, <1>5, WhatIsRestored
<1>7. DocumentOf(run)' = MadeOf
  BY <1>1, <1>4 DEF DocumentOf, Source
<1>8. HasRead(catalogue', DocumentOf(run)', CallsKnown(Run'.mode, DocumentOf(run)'))
  BY <1>2, <1>4, <1>6, <1>7 DEF CallsKnown
<1>9. HasRead(catalogue, DocumentOf(run), CallsKnown(Run.mode, DocumentOf(run)))'
  BY <1>8, SaidOfTheNextState
<1>10. map_settings' \in SettingsFrom(made)
  <2>1. PICK settings \in SettingsFrom(made) : base.render_settings = GetProtoMapSettings(settings)
    BY DEF AnswerInv, ProtoSettingsFrom
  <2>2. settings = NoSettings \/ \E section : settings \in MapSettings(section)
    BY DEF SettingsFrom
  <2> QED BY <1>1, <2>1, <2>2, SettingsComeBack
<1>11. SettingsFrom(Source(run))' = SettingsFrom(made)
  BY <1>1, <1>4, SettingsStay
<1> QED BY <1>1, <1>9, <1>10, <1>11, BaseTablesStay DEF AnswerInv

\* The other steps leave the tables alone, or end the run.
LEMMA OtherStepsKeepAnswers ==
  ASSUME ProgramInv, AnswerInv,
         \/ RefuseSettings \/ RefuseNext \/ RouterFails \/ Answer \/ PrintAnswers
         \/ MakeRouter \/ RouterStep \/ UNCHANGED allVars
  PROVE  AnswerInv'
<1>1. CASE RefuseSettings \/ RefuseNext \/ RouterFails \/ Answer \/ PrintAnswers
  <2>1. UNCHANGED <<base, made>> /\ \E outcome : End(outcome)
    BY <1>1 DEF RefuseSettings, RefuseNext, RouterFails, Answer, PrintAnswers
  <2> QED BY <2>1, EndKeepsAnswers
<1>2. CASE MakeRouter \/ RouterStep \/ UNCHANGED allVars
  <2>1. /\ runs' = runs /\ run' = run /\ made' = made /\ base' = base /\ map_settings' = map_settings
        /\ catalogue' = catalogue /\ next' = next /\ buses_queue' = buses_queue
        /\ stage' = stage \/ (stage = "route" /\ stage' = "answer")
    BY <1>2 DEF MakeRouter, MakeTransportRouter, RouterStep, allVars, programVars, transportVars
  <2>2. Run' = Run /\ DocumentOf(run)' = DocumentOf(run)
    BY <2>1 DEF Run, DocumentOf, Source
  <2>3. SettingsFrom(Source(run))' = SettingsFrom(Source(run))
    BY <2>1, SettingsStay
  <2>4. HasStored(base, MadeOf)' /\ base'.render_settings \in ProtoSettingsFrom(made)'
    BY <2>1, BaseTablesStay
  <2>5. IsReading(catalogue, Run.base_requests, next, buses_queue)'
          <=> IsReading(catalogue, Run.base_requests, next, buses_queue)
    BY <2>1, <2>2, SaidOfTheNextState
  <2>6. HasRead(catalogue, DocumentOf(run), CallsKnown(Run.mode, DocumentOf(run)))'
          <=> HasRead(catalogue, DocumentOf(run), CallsKnown(Run.mode, DocumentOf(run)))
    BY <2>1, <2>2, SaidOfTheNextState
  <2> QED BY <2>1, <2>2, <2>3, <2>4, <2>5, <2>6 DEF AnswerInv
<1> QED BY <1>1, <1>2

LEMMA ProgramKeepsAnswers ==
  ASSUME OrdersEnumerate, ProgramInv, DistanceInv, AnswerInv, [ProgramNext]_allVars
  PROVE  AnswerInv'
BY OtherStepsKeepAnswers, StartKeepsAnswers, ReadingKeepsAnswers, AddQueuedBusKeepsAnswers,
   EndOfAddKeepsAnswers, StoreKeepsAnswers, RestoreKeepsAnswers DEF ProgramNext

LEMMA NothingIsAnswered ==
  ASSUME ProgramInit
  PROVE  AnswerInv
<1>1. stage = "start" /\ made = 0 /\ base = EmptyBase
  BY DEF ProgramInit
<1>2. MadeOf = <<>> /\ base.render_settings \in ProtoSettingsFrom(made)
  BY <1>1 DEF MadeOf, EmptyBase, ProtoSettingsFrom, SettingsFrom
<1>3. HasStored(base, MadeOf)
  BY <1>1, <1>2, NothingIsInTheFile
<1> QED BY <1>1, <1>2, <1>3 DEF AnswerInv

(***************************************************************************)
(* The answers about buses and stops.                                      *)
(***************************************************************************)
LEMMA BusIsAnswered ==
  ASSUME NEW document, AreRequests(document), NEW c, NEW K, HasRead(c, document, K),
         SaidIn(document, c.distances), NEW b
  PROVE  GetBusInfo(c, b) = BusAnswer(document, b)
<1> DEFINE n == Len(document) + 1
           said == Named(document, "Bus", b)
           request == document[Max(said)]
           line == BusLine(request)
           d == c.distances
           P == [s \in ToSet(line) |-> PlaceBefore(document, n, s)]
<1>1. Tables(c, document, n, n, K) /\ AreRead(document, n, n, d)
  BY DEF HasRead
<1>2. document \in Seq(ToSet(document))
  BY DEF AreRequests
<1>3. /\ \A type : NamesBefore(document, n, type) = NamesOf(document, type)
      /\ \A s : PlaceBefore(document, n, s) = Places(document, s)
      /\ \A bus : LastBefore(document, n, bus) = document[Max(Named(document, "Bus", bus))]
  BY <1>2, WholeDocument
<1>4. c.buses = [bus \in NamesOf(document, "Bus") |->
                  Entry(document, n, document[Max(Named(document, "Bus", bus))], d)]
  BY <1>1, <1>3 DEF Tables
<1>5. said # {} <=> b \in NamesOf(document, "Bus")
  BY DEF NamesOf, Named
<1>6. CASE said = {}
  BY <1>4, <1>5, <1>6 DEF GetBusInfo, BusAnswer
<1>7. CASE said # {}
  <2>1. b \in NamesOf(document, "Bus")
    BY <1>5, <1>7
  <2>2. Legs(line) \subseteq DOMAIN d
    BY <1>1, <2>1, LastDescription
  <2> HIDE DEF said
  <2>3. c.buses[b] = Entry(document, n, request, d) /\ b \in DOMAIN c.buses
    BY <1>4, <2>1 DEF said
  <2> HIDE DEF request
  <2>4. GetBusInfo(c, b) = InfoOf(line, P, d)
    BY <2>3 DEF GetBusInfo, Entry, KeptBus
  <2> HIDE DEF line
  <2>5. [i \in DOMAIN line |-> P[line[i]]] = [k \in DOMAIN line |-> Places(document, line[k])]
    BY <1>3 DEF ToSet
  <2>6. [i \in 1 .. Len(line) - 1 |-> d[<<line[i], line[i + 1]>>]]
          = [k \in 1 .. Len(line) - 1 |-> DistanceIn(document, line[k], line[k + 1])]
    <3>1. ASSUME NEW i \in 1 .. Len(line) - 1
          PROVE  d[<<line[i], line[i + 1]>>] = DistanceIn(document, line[i], line[i + 1])
      <4> DEFINE s == line[i]
                 t == line[i + 1]
      <4>1. <<s, t>> \in DOMAIN d
        BY <2>2 DEF Legs
      <4>2. Said(document, Len(document), d)
        BY DEF SaidIn
      <4> HIDE DEF s, t, d
      <4>3. d[<<s, t>>] = DistanceIn(document, s, t)
        BY <1>2, <4>1, <4>2, SaidIsDescribed
      <4> QED BY <4>3 DEF s, t
    <3> QED BY <3>1
  <2> DEFINE Q == [k \in DOMAIN line |-> Places(document, line[k])]
             lengths == [k \in 1 .. Len(line) - 1 |-> DistanceIn(document, line[k], line[k + 1])]
  <2>7. BusAnswer(document, b) = [stops_count |-> Len(line), unique_stops_count |-> Cardinality(ToSet(line)),
                                  places |-> Q, road_distance |-> Total(lengths) % DistanceSize]
    BY <1>7 DEF BusAnswer, line, request, said
  <2>8. InfoOf(line, P, d) = [stops_count |-> Len(line), unique_stops_count |-> Cardinality(ToSet(line)),
                              places |-> Q, road_distance |-> Total(lengths) % DistanceSize]
    BY <2>5, <2>6 DEF InfoOf
  <2> QED BY <2>4, <2>7, <2>8
<1> QED BY <1>6, <1>7

\* Buses that are described once have only their last descriptions.
LEMMA OnceIsLast ==
  ASSUME NEW document, document \in Seq(ToSet(document)), DescribedOnce(document)
  PROVE  BusesBefore(document, Len(document) + 1) = LastBuses(document)
<1> DEFINE said(b) == Named(document, "Bus", b)
<1>1. ASSUME NEW b \in NamesOf(document, "Bus")
      PROVE  Max(said(b)) \in said(b) /\ \A k \in said(b) : k = Max(said(b))
  <2>1. said(b) # {} /\ said(b) \subseteq DOMAIN document
    BY DEF NamesOf, Named
  <2>2. Max(said(b)) \in said(b)
    BY <2>1, LastOfThem
  <2>3. IsFiniteSet(said(b))
    <3>1. Len(document) \in Nat /\ DOMAIN document = 1 .. Len(document)
      OBVIOUS
    <3>2. IsFiniteSet(1 .. Len(document))
      BY <3>1, FS_Interval
    <3> QED BY <2>1, <3>1, <3>2, FS_Subset
  <2>4. \E x : said(b) = {x}
    BY <2>3, FS_Singleton DEF DescribedOnce
  <2> QED BY <2>2, <2>4
<1>2. BusesBefore(document, Len(document) + 1) = {k \in DOMAIN document : document[k].type = "Bus"}
  BY WholeDocument
<1>3. ASSUME NEW k \in DOMAIN document, document[k].type = "Bus" PROVE k \in LastBuses(document)
  <2> DEFINE b == document[k].name
  <2>1. b \in NamesOf(document, "Bus") /\ k \in said(b)
    BY <1>3 DEF NamesOf, Named
  <2>2. k = Max(said(b))
    BY <1>1, <2>1
  <2> QED BY <2>1, <2>2 DEF LastBuses
<1>4. ASSUME NEW k \in LastBuses(document) PROVE k \in DOMAIN document /\ document[k].type = "Bus"
  <2>1. PICK b \in NamesOf(document, "Bus") : k = Max(said(b))
    BY <1>4 DEF LastBuses
  <2>2. k \in said(b)
    BY <1>1, <2>1
  <2> QED BY <2>2 DEF Named
<1> QED BY <1>2, <1>3, <1>4

\* The callers of a stop, by the last descriptions.
LEMMA LastCallers ==
  ASSUME NEW document, document \in Seq(ToSet(document)), NEW s
  PROVE  Callers(document, LastBuses(document), s)
           = {b \in NamesOf(document, "Bus") : s \in CallsOf(document[Max(Named(document, "Bus", b))])}
<1> DEFINE last(b) == Max(Named(document, "Bus", b))
<1>1. ASSUME NEW b \in NamesOf(document, "Bus") PROVE document[last(b)].name = b
  <2>1. Named(document, "Bus", b) # {} /\ Named(document, "Bus", b) \subseteq DOMAIN document
    BY DEF NamesOf, Named
  <2>2. last(b) \in Named(document, "Bus", b)
    BY <2>1, LastOfThem
  <2> QED BY <2>2 DEF Named
<1>2. LastBuses(document) = {last(b) : b \in NamesOf(document, "Bus")}
  BY DEF LastBuses
<1> HIDE DEF last
<1>3. Callers(document, LastBuses(document), s) = {b \in NamesOf(document, "Bus") : s \in CallsOf(document[last(b)])}
  BY <1>1, <1>2 DEF Callers
<1> QED BY <1>3 DEF last

LEMMA StopIsAnswered ==
  ASSUME NEW document, AreRequests(document), NEW c, HasRead(c, document, LastBuses(document)), NEW s
  PROVE  GetBusesByStop(c, s) = StopAnswer(document, s)
<1> DEFINE n == Len(document) + 1
<1>1. Tables(c, document, n, n, LastBuses(document))
  BY DEF HasRead
<1>2. document \in Seq(ToSet(document))
  BY DEF AreRequests
<1>3. StopsBefore(document, n, n) = StopNames(document)
  BY <1>2, WholeDocument
<1>4. /\ DOMAIN c.stops = StopNames(document)
      /\ s \in StopNames(document) => c.stops[s].buses = Callers(document, LastBuses(document), s)
  BY <1>1, <1>3 DEF Tables
<1> QED BY <1>2, <1>4, LastCallers DEF GetBusesByStop, StopAnswer

(***************************************************************************)
(* The drawing is true to scale.                                           *)
(***************************************************************************)
\* Finitely many whole numbers have a greatest and a least.
LEMMA Extremes ==
  ASSUME NEW S, S \subseteq Int, IsFiniteSet(S), S # {}
  PROVE  /\ Max(S) \in S /\ \A x \in S : x <= Max(S)
         /\ Min(S) \in S /\ \A x \in S : Min(S) <= x
<1>0. PICK n \in Nat : ExistsBijection(1 .. n, S)
  BY FS_NatBijection
<1>1. PICK f \in [1 .. n -> S] : \A x \in S : \E k \in 1 .. n : f[k] = x
  BY <1>0 DEF ExistsBijection, Bijection, Injection, Surjection
<1> DEFINE Holds(k) == /\ \E i \in 1 .. k : \A j \in 1 .. k : f[j] <= f[i]
                       /\ \E i \in 1 .. k : \A j \in 1 .. k : f[i] <= f[j]
           Bad == {k \in Nat : k \in 1 .. n /\ ~Holds(k)}
<1>2. n > 0
  <2>1. 1 .. n # {}
    BY <1>1
  <2> QED BY <2>1
<1>3. \A k \in 1 .. n : f[k] \in Int
  BY <1>1
<1>4. Holds(1)
  <2>1. 1 \in 1 .. n /\ \A j \in 1 .. 1 : j = 1
    BY <1>2
  <2> QED BY <1>3, <2>1
<1>5. ASSUME NEW k \in 2 .. n, Holds(k - 1) PROVE Holds(k)
  <2>1. /\ k \in 1 .. n /\ k \in 1 .. k
        /\ \A j \in 1 .. k : j \in 1 .. n /\ (j \in 1 .. k - 1 \/ j = k)
        /\ \A j \in 1 .. k - 1 : j \in 1 .. k
    OBVIOUS
  <2>2. PICK i \in 1 .. k - 1 : \A j \in 1 .. k - 1 : f[j] <= f[i]
    BY <1>5
  <2>3. PICK l \in 1 .. k - 1 : \A j \in 1 .. k - 1 : f[l] <= f[j]
    BY <1>5
  <2>4. f[i] \in Int /\ f[l] \in Int /\ f[k] \in Int /\ \A j \in 1 .. k : f[j] \in Int
    BY <1>3, <2>1, <2>2, <2>3
  <2>5. \E m \in 1 .. k : \A j \in 1 .. k : f[j] <= f[m]
    <3>1. CASE f[k] <= f[i]
      BY <2>1, <2>2, <2>4, <3>1
    <3>2. CASE f[i] <= f[k]
      <4>1. \A j \in 1 .. k : f[j] <= f[k]
        BY <2>1, <2>2, <2>4, <3>2
      <4> QED BY <2>1, <4>1
    <3> QED BY <2>4, <3>1, <3>2
  <2>6. \E m \in 1 .. k : \A j \in 1 .. k : f[m] <= f[j]
    <3>1. CASE f[l] <= f[k]
      BY <2>1, <2>3, <2>4, <3>1
    <3>2. CASE f[k] <= f[l]
      <4>1. \A j \in 1 .. k : f[k] <= f[j]
        BY <2>1, <2>3, <2>4, <3>2
      <4> QED BY <2>1, <4>1
    <3> QED BY <2>4, <3>1, <3>2
  <2> QED BY <2>5, <2>6
<1> HIDE DEF Holds
<1>6. Bad = {}
  <2> SUFFICES ASSUME Bad # {} PROVE FALSE
    OBVIOUS
  <2>1. Bad \subseteq Nat
    OBVIOUS
  <2> HIDE DEF Bad
  <2>2. PICK k \in Bad : \A d \in Bad : k <= d
    BY <2>1, LeastNatural
  <2> USE DEF Bad
  <2>3. k \in 1 .. n /\ ~Holds(k) /\ k # 1
    BY <1>4, <2>2
  <2>4. k - 1 \in 1 .. n /\ k \in 2 .. n /\ k - 1 \in Nat /\ ~(k <= k - 1)
    BY <2>3
  <2>5. k - 1 \notin Bad
    <3> HIDE DEF Bad
    <3> QED BY <2>2, <2>4
  <2> QED BY <1>5, <2>3, <2>4, <2>5
<1>7. Holds(n)
  <2>1. n \in 1 .. n
    BY <1>2
  <2>2. n \notin Bad
    BY <1>6
  <2> QED BY <2>1, <2>2
<1>8. \E x \in S : \A y \in S : x >= y
  <2>1. PICK i \in 1 .. n : \A j \in 1 .. n : f[j] <= f[i]
    BY <1>7 DEF Holds
  <2>2. \A y \in S : f[i] >= y
    BY <1>1, <1>3, <2>1
  <2> QED BY <2>2
<1>9. \E x \in S : \A y \in S : x <= y
  <2>1. PICK i \in 1 .. n : \A j \in 1 .. n : f[i] <= f[j]
    BY <1>7 DEF Holds
  <2>2. \A y \in S : f[i] <= y
    BY <1>1, <1>3, <2>1
  <2> QED BY <2>2
<1> QED BY <1>8, <1>9 DEF Max, Min

\* The least of a set of whole numbers is what is in it and below all of it.
LEMMA LeastIs ==
  ASSUME NEW S, S \subseteq Int, NEW a \in S, \A x \in S : a <= x
  PROVE  Min(S) = a
<1>1. \A x \in S : (\A y \in S : x <= y) => x = a
  <2> SUFFICES ASSUME NEW x \in S, \A y \in S : x <= y PROVE x = a
    OBVIOUS
  <2>1. x <= a /\ a <= x /\ x \in Int /\ a \in Int
    OBVIOUS
  <2> QED BY <2>1
<1> QED BY <1>1 DEF Min

\* Numbers that have an extent are not all one; those that have none are.
LEMMA Extent ==
  ASSUME NEW S, S \subseteq Int, IsFiniteSet(S), S # {}
  PROVE  /\ Max(S) - Min(S) \in Nat
         /\ Cardinality(S) = 1 <=> Max(S) - Min(S) = 0
<1>1. /\ Max(S) \in S /\ \A x \in S : x <= Max(S)
      /\ Min(S) \in S /\ \A x \in S : Min(S) <= x
  BY Extremes
<1> DEFINE a == Max(S)
           b == Min(S)
<1>2. a \in Int /\ b \in Int /\ b <= a
  BY <1>1
<1>3. Cardinality(S) = 1 <=> \E x : S = {x}
  BY FS_Singleton
<1> HIDE DEF a, b
<1>4. a - b = 0 => S = {a}
  <2> SUFFICES ASSUME a - b = 0, NEW x \in S PROVE x = a
    BY <1>1 DEF a
  <2>1. x <= a /\ b <= x /\ x \in Int
    BY <1>1 DEF a, b
  <2> QED BY <1>2, <2>1
<1>5. ASSUME NEW x, S = {x} PROVE a - b = 0
  <2>1. a \in S /\ b \in S
    BY <1>1 DEF a, b
  <2>2. a = x /\ b = x
    BY <1>5, <2>1
  <2> QED BY <1>2, <2>2
<1>6. Cardinality(S) = 1 <=> a - b = 0
  BY <1>3, <1>4, <1>5
<1>7. a - b \in Nat
  BY <1>2
<1> QED BY <1>6, <1>7 DEF a, b

\* The zoom that the projector takes of a width and a height.
ZoomFor(W, H, dx, dy) ==
  IF dx = 0 THEN Zoom(H, dy)
  ELSE IF dy = 0 THEN Zoom(W, dx)
  ELSE IF Zoom(H, dy).num * Zoom(W, dx).den < Zoom(W, dx).num * Zoom(H, dy).den
  THEN Zoom(H, dy) ELSE Zoom(W, dx)

\* A zoom lets both extents in, and one of them fills its room.
Fills(zoom, W, H, dx, dy) ==
  /\ zoom.num \in Nat /\ zoom.den \in Nat /\ zoom.den > 0
  /\ dx # 0 \/ dy # 0 => zoom.num > 0
  /\ dx * zoom.num <= W * zoom.den /\ dy * zoom.num <= H * zoom.den
  /\ \/ dx = 0 /\ dy = 0
     \/ dx * zoom.num = W * zoom.den \/ dy * zoom.num = H * zoom.den

\* Where there is room, the projector's zoom does so.
LEMMA ZoomFills ==
  ASSUME NEW W \in Int, NEW H \in Int, W > 0, H > 0, NEW dx \in Nat, NEW dy \in Nat
  PROVE  Fills(ZoomFor(W, H, dx, dy), W, H, dx, dy)
<1> DEFINE zoom == ZoomFor(W, H, dx, dy)
<1> USE DEF ZoomFor
<1> SUFFICES /\ zoom.num \in Nat /\ zoom.den \in Nat /\ zoom.den > 0
             /\ dx # 0 \/ dy # 0 => zoom.num > 0
             /\ dx * zoom.num <= W * zoom.den /\ dy * zoom.num <= H * zoom.den
             /\ \/ dx = 0 /\ dy = 0
                \/ dx * zoom.num = W * zoom.den \/ dy * zoom.num = H * zoom.den
  BY DEF Fills
<1>1. CASE dx = 0 /\ dy = 0
  <2>1. zoom = NoZoom
    BY <1>1 DEF Zoom
  <2> QED BY <1>1, <2>1 DEF NoZoom
<1>2. CASE dx = 0 /\ dy # 0
  <2>1. zoom.num = H /\ zoom.den = dy
    BY <1>2 DEF Zoom
  <2>2. 0 * H = 0 /\ W * dy >= 0 /\ dy * H = H * dy
    OBVIOUS
  <2> QED BY <1>2, <2>1, <2>2
<1>3. CASE dx # 0 /\ dy = 0
  <2>1. zoom.num = W /\ zoom.den = dx
    BY <1>3 DEF Zoom
  <2>2. 0 * W = 0 /\ H * dx >= 0 /\ dx * W = W * dx
    OBVIOUS
  <2> QED BY <1>3, <2>1, <2>2
<1>4. CASE dx # 0 /\ dy # 0
  <2>1. CASE H * dx < W * dy
    <3>1. zoom.num = H /\ zoom.den = dy
      BY <1>4, <2>1 DEF Zoom
    <3>2. dx * H = H * dx /\ dy * H = H * dy /\ H * dx \in Int /\ W * dy \in Int /\ H * dy \in Int
      OBVIOUS
    <3> QED BY <1>4, <2>1, <3>1, <3>2
  <2>2. CASE ~(H * dx < W * dy)
    <3>1. zoom.num = W /\ zoom.den = dx
      BY <1>4, <2>2 DEF Zoom
    <3>2. dx * W = W * dx /\ dy * W = W * dy /\ H * dx \in Int /\ W * dy \in Int /\ W * dx \in Int
      OBVIOUS
    <3> QED BY <1>4, <2>2, <3>1, <3>2
  <2> QED BY <2>1, <2>2
<1> QED BY <1>1, <1>2, <1>3, <1>4

\* Products of whole numbers.
LEMMA Products ==
  /\ \A a, b, k \in Int : (a - b) * k = a * k - b * k
  /\ \A a, b \in Int : \A k \in Nat : a <= b => a * k <= b * k
  /\ \A a, b \in Int : \A k \in Nat : a < b /\ k > 0 => a * k < b * k
  /\ \A a, b, k \in Int : (a * k) * b = (b * k) * a
  /\ \A a \in Int : \A k \in Nat : a * k \in Int /\ 0 * k = 0
OBVIOUS

LEMMA DrawnTrueToScale ==
  ASSUME NEW U, IsFiniteSet(U), NEW place, place \in [U -> [lat : Int, lng : Int]],
         NEW settings, HasRoom(settings), NEW projector,
         projector = Projector({place[s] : s \in U}, settings),
         NEW at, at = [s \in U |-> Point(projector, place[s])]
  PROVE  IsTrueToScale(at, place, settings)
<1>1. CASE U = {}
  <2>1. DOMAIN at = {}
    BY <1>1
  <2> QED BY <2>1 DEF IsTrueToScale
<1>2. CASE U # {}
  <2> DEFINE places == {place[s] : s \in U}
             lngs == {p.lng : p \in places}
             lats == {p.lat : p \in places}
             left == Min(lngs)
             top == Max(lats)
             dx == Max(lngs) - Min(lngs)
             dy == Max(lats) - Min(lats)
             W == settings.width - 2 * settings.padding
             H == settings.height - 2 * settings.padding
             num == projector.zoom.num
             den == projector.zoom.den
             edge == settings.padding * den
  <2>1. /\ settings.width \in Int /\ settings.height \in Int /\ settings.padding \in Int
        /\ W \in Int /\ H \in Int /\ W > 0 /\ H > 0
    BY DEF HasRoom
  <2>2. \A s \in U : place[s].lng \in Int /\ place[s].lat \in Int /\ place[s] = [lat |-> place[s].lat, lng |-> place[s].lng]
    OBVIOUS
  <2>3. /\ \A x : x \in lngs <=> \E s \in U : x = place[s].lng
        /\ \A y : y \in lats <=> \E s \in U : y = place[s].lat
    OBVIOUS
  <2>4. /\ lngs \subseteq Int /\ IsFiniteSet(lngs) /\ lngs # {}
        /\ lats \subseteq Int /\ IsFiniteSet(lats) /\ lats # {}
    <3> DEFINE f == [s \in U |-> place[s].lng]
               g == [s \in U |-> place[s].lat]
    <3>1. lngs = {f[s] : s \in U} /\ lats = {g[s] : s \in U}
      BY <2>3
    <3>2. f = [s \in U |-> f[s]] /\ g = [s \in U |-> g[s]]
      OBVIOUS
    <3> HIDE DEF f, g, lngs, lats
    <3>3. IsFiniteSet(lngs) /\ IsFiniteSet(lats)
      BY <3>1, <3>2, ValuesAreFinite
    <3> QED BY <1>2, <2>2, <2>3, <3>3
  <2> HIDE DEF places, lngs, lats
  <2>5. /\ Max(lngs) \in lngs /\ Min(lngs) \in lngs /\ \A x \in lngs : x <= Max(lngs) /\ Min(lngs) <= x
        /\ Max(lats) \in lats /\ Min(lats) \in lats /\ \A y \in lats : y <= Max(lats) /\ Min(lats) <= y
    BY <2>4, Extremes
  <2>6. /\ dx \in Nat /\ (Cardinality(lngs) = 1 <=> dx = 0)
        /\ dy \in Nat /\ (Cardinality(lats) = 1 <=> dy = 0)
    BY <2>4, Extent
  <2>7. /\ projector.min_lon = left /\ projector.max_lat = top /\ projector.padding = settings.padding
        /\ projector.zoom = IF Cardinality(lngs) = 1 THEN Zoom(H, dy)
                            ELSE IF Cardinality(lats) = 1 THEN Zoom(W, dx)
                            ELSE IF Zoom(H, dy).num * Zoom(W, dx).den < Zoom(W, dx).num * Zoom(H, dy).den
                            THEN Zoom(H, dy) ELSE Zoom(W, dx)
    BY DEF Projector, places, lngs, lats
  <2> DEFINE zoom == projector.zoom
  <2>8. /\ num \in Nat /\ den \in Nat /\ den > 0
        /\ dx # 0 \/ dy # 0 => num > 0
        /\ dx * num <= W * den /\ dy * num <= H * den
        /\ \/ dx = 0 /\ dy = 0
           \/ dx * num = W * den \/ dy * num = H * den
    <3> HIDE DEF dx, dy, W, H
    <3>1. zoom = ZoomFor(W, H, dx, dy)
      BY <2>6, <2>7 DEF ZoomFor
    <3> HIDE DEF zoom
    <3>2. Fills(zoom, W, H, dx, dy)
      BY <2>1, <2>6, <3>1, ZoomFills
    <3> QED BY <3>2 DEF zoom, Fills
  <2> DEFINE right == (settings.width - settings.padding) * den
             bottom == (settings.height - settings.padding) * den
  <2> HIDE DEF num, den, zoom
  <2>9. edge \in Int /\ right = W * den + edge /\ bottom = H * den + edge
    <3>1. \A a, p \in Int : \A k \in Nat : p * k \in Int /\ (a - p) * k = (a - 2 * p) * k + p * k
      OBVIOUS
    <3> QED BY <2>1, <2>8, <3>1
  <2>10. left \in Int /\ top \in Int
    BY <2>4, <2>5
  <2>11. \A s \in U : /\ at[s].x = (place[s].lng - left) * num + edge
                      /\ at[s].y = (top - place[s].lat) * num + edge
                      /\ at[s].unit = den
    BY <2>7 DEF Point, num, den
  <2>12. \A s \in U : /\ place[s].lng - left \in Nat /\ place[s].lng - left <= dx
                      /\ top - place[s].lat \in Nat /\ top - place[s].lat <= dy
    <3> SUFFICES ASSUME NEW s \in U
                 PROVE  /\ place[s].lng - left \in Nat /\ place[s].lng - left <= dx
                        /\ top - place[s].lat \in Nat /\ top - place[s].lat <= dy
      OBVIOUS
    <3>1. place[s].lng \in lngs /\ place[s].lat \in lats
      BY <2>3
    <3> DEFINE a == Max(lngs)
               b == Min(lngs)
               e == Max(lats)
               g == Min(lats)
               u == place[s].lng
               v == place[s].lat
    <3>2. /\ a \in Int /\ b \in Int /\ e \in Int /\ g \in Int /\ u \in Int /\ v \in Int
          /\ u <= a /\ b <= u /\ v <= e /\ g <= v
      BY <2>2, <2>4, <2>5, <3>1
    <3> HIDE DEF a, b, e, g, u, v
    <3>3. u - b \in Nat /\ u - b <= a - b /\ e - v \in Nat /\ e - v <= e - g
      BY <3>2
    <3> QED BY <3>3 DEF a, b, e, g, u, v
  <2>13. /\ \E s \in U : place[s].lng = left
         /\ \E s \in U : place[s].lng = Max(lngs)
         /\ \E s \in U : place[s].lat = top
         /\ \E s \in U : place[s].lat = Min(lats)
    BY <2>3, <2>5
  <2>14. U = DOMAIN at /\ (CHOOSE p \in {at[s] : s \in DOMAIN at} : TRUE).unit = den
    <3>1. U = DOMAIN at
      OBVIOUS
    <3>2. {at[s] : s \in U} # {}
      BY <1>2
    <3>3. \A p \in {at[s] : s \in U} : p.unit = den
      BY <2>11
    <3> HIDE DEF den
    <3> QED BY <3>1, <3>2, <3>3
  <2> HIDE DEF dx, dy, W, H, edge, left, top
  <2>15. ASSUME NEW s \in U, NEW t \in U
         PROVE  /\ (at[s].x - at[t].x) * (place[t].lat - place[s].lat)
                     = (at[s].y - at[t].y) * (place[s].lng - place[t].lng)
                /\ place[s].lng < place[t].lng => at[s].x < at[t].x
                /\ place[s].lat < place[t].lat => at[s].y > at[t].y
    <3> DEFINE a == place[s].lng - left
               b == place[t].lng - left
               c == top - place[s].lat
               d == top - place[t].lat
    <3>1. /\ a \in Nat /\ b \in Nat /\ c \in Nat /\ d \in Nat
          /\ a <= dx /\ b <= dx /\ c <= dy /\ d <= dy
      BY <2>12
    <3>2. /\ place[t].lat - place[s].lat = c - d
          /\ place[s].lng - place[t].lng = a - b
          /\ place[s].lng < place[t].lng => a < b
          /\ place[s].lat < place[t].lat => d < c
      BY <2>2, <2>10
    <3>3. /\ at[s].x = a * num + edge /\ at[t].x = b * num + edge
          /\ at[s].y = c * num + edge /\ at[t].y = d * num + edge
      BY <2>11
    <3> HIDE DEF a, b, c, d
    <3>4. /\ a * num \in Int /\ b * num \in Int /\ c * num \in Int /\ d * num \in Int
          /\ (a - b) * num = a * num - b * num /\ (c - d) * num = c * num - d * num
          /\ ((a - b) * num) * (c - d) = ((c - d) * num) * (a - b)
      <4>1. a - b \in Int /\ c - d \in Int /\ num \in Nat /\ num \in Int
        BY <2>8, <3>1
      <4> QED BY <3>1, <4>1, Products
    <3>5. at[s].x - at[t].x = (a - b) * num /\ at[s].y - at[t].y = (c - d) * num
      BY <2>9, <3>3, <3>4
    <3>6. a < b => at[s].x < at[t].x
      <4> SUFFICES ASSUME a < b PROVE at[s].x < at[t].x
        OBVIOUS
      <4>1. num > 0
        BY <2>6, <2>8, <3>1
      <4>2. a * num < b * num
        BY <2>8, <3>1, <4>1, Products
      <4> QED BY <2>9, <3>3, <3>4, <4>2
    <3>7. d < c => at[s].y > at[t].y
      <4> SUFFICES ASSUME d < c PROVE at[s].y > at[t].y
        OBVIOUS
      <4>1. num > 0
        BY <2>6, <2>8, <3>1
      <4>2. d * num < c * num
        BY <2>8, <3>1, <4>1, Products
      <4> QED BY <2>9, <3>3, <3>4, <4>2
    <3> QED BY <3>2, <3>4, <3>5, <3>6, <3>7
  <2>16. ASSUME NEW s \in U, NEW t \in U, place[s] = place[t] PROVE at[s] = at[t]
    BY <2>16
  <2>17. ASSUME NEW s \in U
         PROVE  /\ at[s].unit = den /\ at[s].x <= right /\ at[s].y <= bottom
                /\ at[s].x \in Int /\ at[s].y \in Int /\ edge <= at[s].x /\ edge <= at[s].y
    <3> DEFINE a == place[s].lng - left
               c == top - place[s].lat
    <3>1. a \in Nat /\ c \in Nat /\ a <= dx /\ c <= dy
      BY <2>12
    <3>2. at[s].x = a * num + edge /\ at[s].y = c * num + edge /\ at[s].unit = den
      BY <2>11
    <3> HIDE DEF a, c, right, bottom
    <3>3. /\ a * num \in Int /\ c * num \in Int /\ dx * num \in Int /\ dy * num \in Int
          /\ 0 * num = 0 /\ 0 * num <= a * num /\ 0 * num <= c * num
          /\ a * num <= dx * num /\ c * num <= dy * num
      BY <2>6, <2>8, <3>1, Products
    <3>4. W * den \in Int /\ H * den \in Int
      BY <2>1, <2>8, Products
    <3> QED BY <2>8, <2>9, <3>2, <3>3, <3>4
  <2>18. /\ Min({at[s].x : s \in U}) = edge /\ Min({at[s].y : s \in U}) = edge
    <3> DEFINE xs == {at[s].x : s \in U}
               ys == {at[s].y : s \in U}
    <3>1. \A s \in U : /\ place[s].lng = left => at[s].x = edge
                       /\ place[s].lat = top => at[s].y = edge
      <4>1. 0 * num + edge = edge
        BY <2>8, <2>9
      <4>2. left - left = 0 /\ top - top = 0
        BY <2>10
      <4> QED BY <2>11, <4>1, <4>2
    <3>2. edge \in xs /\ edge \in ys
      BY <2>13, <3>1
    <3>3. /\ xs \subseteq Int /\ \A x \in xs : edge <= x
          /\ ys \subseteq Int /\ \A y \in ys : edge <= y
      BY <2>17
    <3> HIDE DEF xs, ys
    <3>4. Min(xs) = edge /\ Min(ys) = edge
      BY <3>2, <3>3, LeastIs
    <3> QED BY <3>4 DEF xs, ys
  <2>19. \/ \A s, t \in U : place[s] = place[t]
         \/ \E s \in U : at[s].x = right \/ at[s].y = bottom
    <3>1. CASE dx = 0 /\ dy = 0
      <4>1. \A s \in U : place[s].lng = left /\ place[s].lat = top
        BY <2>2, <2>10, <2>12, <3>1
      <4> QED BY <2>2, <4>1
    <3>2. CASE dx * num = W * den
      <4>1. PICK s \in U : place[s].lng = Max(lngs)
        BY <2>13
      <4>2. at[s].x = dx * num + edge
        BY <2>11, <4>1 DEF dx, left
      <4> QED BY <2>9, <3>2, <4>2
    <3>3. CASE dy * num = H * den
      <4>1. PICK s \in U : place[s].lat = Min(lats)
        BY <2>13
      <4>2. at[s].y = dy * num + edge
        BY <2>11, <4>1 DEF dy, top
      <4> QED BY <2>9, <3>3, <4>2
    <3> QED BY <2>8, <3>1, <3>2, <3>3
  <2> DEFINE unit == (CHOOSE p \in {at[s] : s \in DOMAIN at} : TRUE).unit
  <2>20. unit = den
    BY <2>14
  <2> HIDE DEF unit
  <2>21. /\ right = (settings.width - settings.padding) * unit
         /\ bottom = (settings.height - settings.padding) * unit
         /\ edge = settings.padding * unit
    BY <2>20 DEF edge
  <2> HIDE DEF right, bottom
  <2>22. /\ \A s, t \in U :
              /\ (at[s].x - at[t].x) * (place[t].lat - place[s].lat)
                   = (at[s].y - at[t].y) * (place[s].lng - place[t].lng)
              /\ place[s].lng < place[t].lng => at[s].x < at[t].x
              /\ place[s].lat < place[t].lat => at[s].y > at[t].y
              /\ place[s] = place[t] => at[s] = at[t]
         /\ \A s \in U : at[s].unit = unit /\ at[s].x <= right /\ at[s].y <= bottom
    BY <2>15, <2>16, <2>17, <2>20
  <2> QED BY <2>14, <2>18, <2>19, <2>21, <2>22 DEF IsTrueToScale, unit
<1> QED BY <1>1, <1>2

(***************************************************************************)
(* The map.                                                                *)
(***************************************************************************)
\* By name, each of the names that have a place in the order.
LEMMA ByNameHolds ==
  ASSUME NameOrder \in Seq(ToSet(NameOrder)), NEW S, S \subseteq ToSet(NameOrder)
  PROVE  ByName(S) \in Seq(S) /\ ToSet(ByName(S)) = S
<1> DEFINE n == Len(NameOrder)
           q == [k \in 1 .. n |-> IF NameOrder[k] \in S THEN <<NameOrder[k]>> ELSE <<>>]
<1>1. n \in Nat /\ DOMAIN NameOrder = 1 .. n
  OBVIOUS
<1>2. ByName(S) = FlattenSeq(q)
  BY <1>1 DEF ByName
<1>3. \A k \in 1 .. n : q[k] \in Seq(S) /\ ToSet(q[k]) = S \cap {NameOrder[k]}
  BY DEF ToSet
<1>4. q \in [1 .. n -> Seq(S)]
  BY <1>3
<1>5. UNION {ToSet(q[k]) : k \in 1 .. n} = S
  <2>1. \A x \in S : \E k \in 1 .. n : x = NameOrder[k]
    BY <1>1 DEF ToSet
  <2>2. \A x \in S : \E k \in 1 .. n : x \in ToSet(q[k])
    BY <1>3, <2>1
  <2>3. \A k \in 1 .. n : ToSet(q[k]) \subseteq S
    BY <1>3
  <2> HIDE DEF q, n
  <2> QED BY <2>2, <2>3
<1> HIDE DEF q, n
<1>6. FlattenSeq(q) \in Seq(S) /\ ToSet(FlattenSeq(q)) = UNION {ToSet(q[k]) : k \in 1 .. n}
  <2>1. n \in Nat
    BY <1>1
  <2> QED BY <1>4, <2>1, FlattenHolds
<1> QED BY <1>2, <1>5, <1>6

\* The last description of a bus.
LastOf(document, b) == document[Max(Named(document, "Bus", b))]

Lines(document) == {b \in NamesOf(document, "Bus") : LastOf(document, b).stops # <<>>}
Called(document) == UNION {CallsOf(LastOf(document, b)) : b \in Lines(document)}

\* The lines that are kept are those of the last descriptions.
LEMMA LinesAreKept ==
  ASSUME NEW document, AreRequests(document), NEW c, HasRead(c, document, LastBuses(document))
  PROVE  /\ DOMAIN c.buses = NamesOf(document, "Bus")
         /\ \A b \in NamesOf(document, "Bus") :
              /\ c.buses[b].stops = BusLine(LastOf(document, b))
              /\ c.buses[b].is_roundtrip = LastOf(document, b).is_roundtrip
              /\ LastOf(document, b).is_roundtrip \in BOOLEAN
              /\ LastOf(document, b).stops \in Seq(CallsOf(LastOf(document, b)))
              /\ ~LastOf(document, b).is_roundtrip => LastOf(document, b).stops # <<>>
              /\ CallsOf(LastOf(document, b)) \subseteq StopNames(document) \cap ToSet(NameOrder)
              /\ b \in ToSet(NameOrder)
<1> DEFINE n == Len(document) + 1
           d == c.distances
<1>1. Tables(c, document, n, n, LastBuses(document)) /\ AreRead(document, n, n, d)
  BY DEF HasRead
<1>2. document \in Seq(ToSet(document))
  BY DEF AreRequests
<1>3. /\ NamesBefore(document, n, "Bus") = NamesOf(document, "Bus")
      /\ \A b : LastBefore(document, n, b) = LastOf(document, b)
  BY <1>2, WholeDocument DEF LastOf
<1>4. c.buses = [b \in NamesOf(document, "Bus") |-> Entry(document, n, LastOf(document, b), d)]
  BY <1>1, <1>3 DEF Tables
<1>5. ASSUME NEW b \in NamesOf(document, "Bus")
      PROVE  /\ c.buses[b].stops = BusLine(LastOf(document, b))
             /\ c.buses[b].is_roundtrip = LastOf(document, b).is_roundtrip
             /\ LastOf(document, b).is_roundtrip \in BOOLEAN
             /\ LastOf(document, b).stops \in Seq(CallsOf(LastOf(document, b)))
             /\ ~LastOf(document, b).is_roundtrip => LastOf(document, b).stops # <<>>
             /\ CallsOf(LastOf(document, b)) \subseteq StopNames(document) \cap ToSet(NameOrder)
             /\ b \in ToSet(NameOrder)
  <2> DEFINE k == Max(Named(document, "Bus", b))
             request == document[k]
  <2>1. /\ k \in Named(document, "Bus", b) /\ request.name = b
        /\ CallsOf(request) \subseteq StopNames(document) /\ IsComplete(request)
        /\ request.is_roundtrip \in BOOLEAN /\ request.stops \in Seq(ToSet(request.stops))
        /\ ~request.is_roundtrip => request.stops # <<>>
    BY <1>1, LastDescription
  <2>2. k \in DOMAIN document /\ request.type = "Bus"
    BY <2>1 DEF Named
  <2>3. request \in ToSet(document)
    BY <2>2 DEF ToSet
  <2> HIDE DEF request
  <2>4. IsRequest(request)
    BY <2>3 DEF AreRequests
  <2>5. b \in ToSet(NameOrder) /\ CallsOf(request) \subseteq ToSet(NameOrder)
    BY <2>1, <2>2, <2>4 DEF IsRequest, CallsOf
  <2>6. LastOf(document, b) = request
    BY DEF LastOf, request
  <2>7. c.buses[b] = Entry(document, n, request, d)
    BY <1>4, <2>6
  <2>8. c.buses[b].stops = BusLine(request) /\ c.buses[b].is_roundtrip = request.is_roundtrip
    BY <2>7 DEF Entry, KeptBus
  <2> QED BY <2>1, <2>5, <2>6, <2>8 DEF CallsOf
<1>6. DOMAIN c.buses = NamesOf(document, "Bus")
  BY <1>4
<1> QED BY <1>5, <1>6

\* A line has stops if its list has.
LEMMA LinesOfLists ==
  ASSUME NEW document, AreRequests(document), NEW c, HasRead(c, document, LastBuses(document)),
         NEW b \in NamesOf(document, "Bus")
  PROVE  /\ BusLine(LastOf(document, b)) \in Seq(CallsOf(LastOf(document, b)))
         /\ ToSet(BusLine(LastOf(document, b))) = CallsOf(LastOf(document, b))
         /\ BusLine(LastOf(document, b)) # <<>> <=> LastOf(document, b).stops # <<>>
<1> DEFINE request == LastOf(document, b)
           list == request.stops
           one_way == ~request.is_roundtrip
           S == CallsOf(request)
<1>1. list \in Seq(S) /\ one_way \in BOOLEAN /\ (one_way => list # <<>>) /\ S = ToSet(list)
  BY LinesAreKept DEF CallsOf
<1>2. BusLine(request) = BusStops(list, one_way)
  BY DEF BusLine
<1> HIDE DEF request, list, one_way, S
<1>3. BusStops(list, one_way) \in Seq(S) /\ \A k \in DOMAIN list : k \in DOMAIN BusStops(list, one_way)
  BY <1>1, ThereAndBack
<1>4. ToSet(BusStops(list, one_way)) = ToSet(list)
  BY <1>1, SameCalls
<1>5. BusStops(list, one_way) # <<>> <=> list # <<>>
  <2> DEFINE kept == BusStops(list, one_way)
  <2>1. kept \in Seq(S) /\ list \in Seq(S) /\ ToSet(kept) = ToSet(list)
    BY <1>1, <1>3, <1>4
  <2> HIDE DEF kept
  <2>2. \A l \in Seq(S) : l = <<>> <=> ToSet(l) = {}
    <3> SUFFICES ASSUME NEW l \in Seq(S), l # <<>> PROVE ToSet(l) # {}
      BY DEF ToSet
    <3>1. l[1] \in ToSet(l)
      BY DEF ToSet
    <3> QED BY <3>1
  <2>3. kept # <<>> <=> list # <<>>
    BY <2>1, <2>2
  <2> QED BY <2>3 DEF kept
<1> QED BY <1>1, <1>2, <1>3, <1>4, <1>5 DEF request, list, S

\* What is drawn are the lines with stops, and the stops that they call at.
LEMMA DrawnIsDescribed ==
  ASSUME NEW document, AreRequests(document), NEW c, HasRead(c, document, LastBuses(document)),
         NameOrder \in Seq(ToSet(NameOrder))
  PROVE  /\ DrawnBuses(c) = ByName(Lines(document))
         /\ DrawnBuses(c) \in Seq(Lines(document)) /\ ToSet(DrawnBuses(c)) = Lines(document)
         /\ DrawnStops(c) = ByName(Called(document))
         /\ DrawnStops(c) \in Seq(Called(document)) /\ ToSet(DrawnStops(c)) = Called(document)
         /\ Called(document) \subseteq StopNames(document)
<1> DEFINE n == Len(document) + 1
<1>1. {b \in DOMAIN c.buses : c.buses[b].stops # <<>>} = Lines(document)
  BY LinesAreKept, LinesOfLists DEF Lines
<1>2. Lines(document) \subseteq ToSet(NameOrder)
  BY LinesAreKept DEF Lines
<1>3. /\ Called(document) \subseteq ToSet(NameOrder)
      /\ Called(document) \subseteq StopNames(document)
  BY LinesAreKept DEF Called, Lines
<1>4. {s \in DOMAIN c.stops : c.stops[s].buses # {}} = Called(document)
  <2>1. document \in Seq(ToSet(document))
    BY DEF AreRequests
  <2>2. StopsBefore(document, n, n) = StopNames(document)
    BY <2>1, WholeDocument
  <2>3. Tables(c, document, n, n, LastBuses(document))
    BY DEF HasRead
  <2>4. /\ DOMAIN c.stops = StopNames(document)
        /\ \A s \in StopNames(document) : c.stops[s].buses = Callers(document, LastBuses(document), s)
    BY <2>2, <2>3 DEF Tables
  <2>5. \A s : Callers(document, LastBuses(document), s)
                 = {b \in NamesOf(document, "Bus") : s \in CallsOf(LastOf(document, b))}
    BY <2>1, LastCallers DEF LastOf
  <2>6. \A b \in NamesOf(document, "Bus") : \A s \in CallsOf(LastOf(document, b)) : b \in Lines(document)
    <3> SUFFICES ASSUME NEW b \in NamesOf(document, "Bus"), NEW s \in CallsOf(LastOf(document, b))
                 PROVE  LastOf(document, b).stops # <<>>
      BY DEF Lines
    <3>1. ToSet(<<>>) = {}
      BY DEF ToSet
    <3> QED BY <3>1 DEF CallsOf
  <2>7. \A s \in StopNames(document) : c.stops[s].buses # {} <=> s \in Called(document)
    BY <2>4, <2>5, <2>6 DEF Called, Lines
  <2> QED BY <1>3, <2>4, <2>7
<1>5. DrawnBuses(c) = ByName(Lines(document)) /\ DrawnStops(c) = ByName(Called(document))
  BY <1>1, <1>4 DEF DrawnBuses, DrawnStops
<1> QED BY <1>2, <1>3, <1>5, ByNameHolds

\* A name is at the ends of the list that a line was made of.
LEMMA LabelsAtTheEnds ==
  ASSUME NEW document, AreRequests(document), NEW c, HasRead(c, document, LastBuses(document)),
         NEW b \in Lines(document)
  PROVE  /\ LabelledStops(c.buses[b]) = EndsOf(LastOf(document, b))
         /\ EndsOf(LastOf(document, b)) \in Seq(CallsOf(LastOf(document, b)))
<1> DEFINE request == LastOf(document, b)
           list == request.stops
           one_way == ~request.is_roundtrip
           kept == c.buses[b].stops
           S == CallsOf(request)
           half == Len(kept) \div 2 + 1
<1>1. b \in NamesOf(document, "Bus") /\ list # <<>>
  BY DEF Lines
<1>2. /\ list \in Seq(S) /\ one_way \in BOOLEAN /\ kept = BusStops(list, one_way)
      /\ c.buses[b].is_roundtrip = request.is_roundtrip /\ request.is_roundtrip \in BOOLEAN
  BY <1>1, LinesAreKept DEF BusLine
<1>3. LabelledStops(c.buses[b]) = IF c.buses[b].is_roundtrip \/ kept[half] = kept[1]
                                  THEN <<kept[1]>> ELSE <<kept[1], kept[half]>>
  BY DEF LabelledStops
<1>4. EndsOf(request) = IF request.is_roundtrip \/ list[1] = list[Len(list)]
                        THEN <<list[1]>> ELSE <<list[1], list[Len(list)]>>
  BY DEF EndsOf
<1> HIDE DEF request, list, one_way, S
<1>5. kept \in Seq(S) /\ \A k \in DOMAIN list : k \in DOMAIN kept /\ kept[k] = list[k]
  BY <1>1, <1>2, ThereAndBack
<1>6. one_way => SubSeq(kept, 1, half) = list
  BY <1>1, <1>2, ThereAndBack
<1> HIDE DEF kept
<1>7. 1 \in DOMAIN list /\ Len(list) \in DOMAIN list /\ kept[1] = list[1]
  BY <1>1, <1>2, <1>5
<1>8. list[1] \in S /\ list[Len(list)] \in S
  BY <1>2, <1>7
<1>9. one_way => kept[half] = list[Len(list)]
  <2> SUFFICES ASSUME one_way PROVE kept[half] = list[Len(list)]
    OBVIOUS
  <2> DEFINE l == Len(kept)
  <2>1. l \in Nat /\ l > 0
    <3>1. 1 \in DOMAIN kept
      BY <1>5, <1>7
    <3> QED BY <1>5, <3>1
  <2>2. half \in 1 .. l
    <3> HIDE DEF l
    <3>1. \A x \in Nat : x > 0 => x \div 2 + 1 \in 1 .. x
      OBVIOUS
    <3> QED BY <2>1, <3>1 DEF l
  <2> HIDE DEF half, l
  <2>3. Len(SubSeq(kept, 1, half)) = half /\ SubSeq(kept, 1, half)[half] = kept[half]
    <3>1. half \in 1 .. Len(kept) /\ half \in Nat
      BY <2>1, <2>2 DEF l
    <3> QED BY <1>5, <3>1
  <2> QED BY <1>6, <2>3
<1>10. one_way <=> ~request.is_roundtrip
  BY DEF one_way
<1> HIDE DEF half
<1>11. EndsOf(request) \in Seq(S)
  BY <1>4, <1>8
<1>12. LabelledStops(c.buses[b]) = EndsOf(request)
  <2>1. CASE request.is_roundtrip
    BY <1>2, <1>3, <1>4, <1>7, <2>1
  <2>2. CASE ~request.is_roundtrip
    BY <1>2, <1>3, <1>4, <1>7, <1>9, <1>10, <2>2
  <2> QED BY <1>2, <2>1, <2>2
<1> QED BY <1>11, <1>12 DEF request, S

\* The places of the stops are those that are described.
LEMMA PlacesAreDescribed ==
  ASSUME NEW document, AreRequests(document), NEW c, HasRead(c, document, LastBuses(document)),
         NEW s \in StopNames(document)
  PROVE  c.stops[s].coordinates = Places(document, s) /\ Places(document, s) \in [lat : Int, lng : Int]
<1> DEFINE n == Len(document) + 1
           said == Named(document, "Stop", s)
           k == Max(said)
<1>1. Tables(c, document, n, n, LastBuses(document)) /\ AreRead(document, n, n, c.distances)
  BY DEF HasRead
<1>2. document \in Seq(ToSet(document))
  BY DEF AreRequests
<1>3. /\ StopsBefore(document, n, n) = StopNames(document)
      /\ PlaceBefore(document, n, s) = Places(document, s)
  BY <1>2, WholeDocument
<1>4. c.stops[s].coordinates = Places(document, s)
  BY <1>1, <1>3 DEF Tables
<1>5. CASE said = {}
  BY <1>4, <1>5 DEF Places, Origin
<1>6. CASE said # {}
  <2>1. said \subseteq DOMAIN document
    BY DEF Named
  <2>2. k \in said
    BY <1>2, <1>6, <2>1, LastOfThem
  <2>3. k \in DOMAIN document /\ document[k].type = "Stop" /\ k < n
    BY <1>2, <2>2 DEF Named
  <2>4. document[k] \in ToSet(document)
    BY <2>3 DEF ToSet
  <2>5. IsRequest(document[k]) /\ IsComplete(document[k])
    BY <1>1, <2>3, <2>4 DEF AreRequests, AreRead
  <2>6. document[k].coordinates \in [lat : Int, lng : Int]
    BY <2>3, <2>5 DEF IsRequest
  <2>7. Places(document, s) = document[k].coordinates
    BY <1>6 DEF Places
  <2> QED BY <1>4, <2>6, <2>7
<1> QED BY <1>5, <1>6

LEMMA TwoInARow ==
  ASSUME NEW S, NEW a \in Seq(S), NEW b \in Seq(S)
  PROVE  /\ a \o b \in Seq(S) /\ Len(a \o b) = Len(a) + Len(b)
         /\ \A j \in 1 .. Len(b) : (a \o b)[Len(a) + j] = b[j]
OBVIOUS

\* Of what is drawn last, each thing is found from the end.
FoundFromTheEnd(all, d, m) ==
  Len(all) >= 3 * m /\ \A k \in 1 .. m : all[Len(all) - 2 * (m - k)] = d[2 * k]

LEMMA DrawnLast ==
  ASSUME NEW S, NEW a \in Seq(S), NEW b \in Seq(S), NEW c \in Seq(S), NEW d \in Seq(S), NEW m \in Nat,
         Len(c) = m, Len(d) = 2 * m
  PROVE  FoundFromTheEnd(a \o b \o c \o d, d, m)
<1> DEFINE ab == a \o b
           abc == ab \o c
           all == abc \o d
<1>1. ab \in Seq(S) /\ Len(ab) = Len(a) + Len(b) /\ Len(ab) \in Nat
  OBVIOUS
<1> HIDE DEF ab
<1>2. abc \in Seq(S) /\ Len(abc) = Len(ab) + m /\ Len(abc) \in Nat
  <2>1. abc \in Seq(S) /\ Len(abc) = Len(ab) + Len(c)
    BY <1>1, TwoInARow
  <2> QED BY <1>1, <2>1
<1> HIDE DEF abc
<1>3. all \in Seq(S) /\ Len(all) = Len(abc) + 2 * m
  <2>1. all \in Seq(S) /\ Len(all) = Len(abc) + Len(d)
    BY <1>2, TwoInARow
  <2> QED BY <1>2, <2>1
<1>4. ASSUME NEW j \in 1 .. 2 * m PROVE all[Len(abc) + j] = d[j]
  <2>1. \A i \in 1 .. Len(d) : all[Len(abc) + i] = d[i]
    BY <1>2, TwoInARow
  <2> QED BY <2>1
<1> HIDE DEF all
<1>5. ASSUME NEW k \in 1 .. m PROVE all[Len(all) - 2 * (m - k)] = d[2 * k]
  <2>1. 2 * k \in 1 .. 2 * m /\ Len(all) - 2 * (m - k) = Len(abc) + 2 * k
    BY <1>2, <1>3
  <2> QED BY <1>4, <2>1
<1>6. Len(all) >= 3 * m
  BY <1>1, <1>2, <1>3
<1>7. all = a \o b \o c \o d
  BY DEF ab, abc, all
<1>8. FoundFromTheEnd(all, d, m)
  BY <1>5, <1>6 DEF FoundFromTheEnd
<1> QED BY <1>7, <1>8

\* The names that are drawn.
Labels(c, settings, places) ==
  {[kind |-> kind, name |-> name, point |-> StopPoint(c, settings, s),
    offset |-> Offset(kind, settings), color |-> color] :
     kind \in {"bus", "stop"}, name \in ToSet(NameOrder), s \in places,
     color \in {settings.underlayer_color, String("black")}
                 \cup {ColorOf(settings, k) : k \in DOMAIN DrawnBuses(c)}}

LEMMA TwoLabels ==
  ASSUME NEW c, NEW settings, NEW places, NEW kind \in {"bus", "stop"}, NEW name \in ToSet(NameOrder),
         NEW s \in places,
         NEW color \in {String("black")} \cup {ColorOf(settings, k) : k \in DOMAIN DrawnBuses(c)}
  PROVE  LET label == Label(kind, name, StopPoint(c, settings, s), settings, color)
         IN  /\ label \in Seq(Labels(c, settings, places)) /\ Len(label) = 2
             /\ label[2].point = StopPoint(c, settings, s)
<1> DEFINE p == StopPoint(c, settings, s)
           text(x) == [kind |-> kind, name |-> name, point |-> p,
                       offset |-> Offset(kind, settings), color |-> x]
           back == text(settings.underlayer_color)
           front == text(color)
           L == Labels(c, settings, places)
<1>1. back \in L /\ front \in L
  <2> DEFINE C == {settings.underlayer_color, String("black")}
                    \cup {ColorOf(settings, k) : k \in DOMAIN DrawnBuses(c)}
             F(k, n, t, x) == [kind |-> k, name |-> n, point |-> StopPoint(c, settings, t),
                               offset |-> Offset(k, settings), color |-> x]
             N == ToSet(NameOrder)
  <2>1. L = {F(k, n, t, x) : k \in {"bus", "stop"}, n \in N, t \in places, x \in C}
    BY DEF Labels
  <2>2. back = F(kind, name, s, settings.underlayer_color) /\ front = F(kind, name, s, color)
    OBVIOUS
  <2>3. settings.underlayer_color \in C /\ color \in C /\ name \in N
    OBVIOUS
  <2> HIDE DEF C, F, L, N, back, front
  <2> QED BY <2>1, <2>2, <2>3
<1>2. Label(kind, name, p, settings, color) = <<back, front>> /\ front.point = p
  BY DEF Label
<1> HIDE DEF back, front, L, p
<1>3. <<back, front>> \in Seq(L) /\ Len(<<back, front>>) = 2 /\ <<back, front>>[2] = front
  BY <1>1
<1> QED BY <1>2, <1>3 DEF L, p

\* The names of the stops are drawn last, and each is where its stop is.
LEMMA StopNamesAreDrawn ==
  ASSUME NEW document, AreRequests(document), NEW c, HasRead(c, document, LastBuses(document)),
         NameOrder \in Seq(ToSet(NameOrder)), NEW settings
  PROVE  LET stops == DrawnStops(c)
             names == AddStopNames(c, settings)
         IN  /\ names \in Seq(Labels(c, settings, Called(document)))
             /\ Len(stops) \in Nat /\ DOMAIN stops = 1 .. Len(stops)
             /\ Len(names) = 2 * Len(stops)
             /\ \A k \in 1 .. Len(stops) : names[2 * k].point = StopPoint(c, settings, stops[k])
<1> DEFINE stops == DrawnStops(c)
           m == Len(stops)
           U == Called(document)
           S == Labels(c, settings, U)
           label(k) == Label("stop", stops[k], StopPoint(c, settings, stops[k]), settings, String("black"))
           q == [k \in 1 .. m |-> label(k)]
<1>1. stops \in Seq(U) /\ U \subseteq ToSet(NameOrder)
  <2>1. U \subseteq ToSet(NameOrder)
    BY LinesAreKept DEF Called, Lines
  <2> QED BY <2>1, DrawnIsDescribed
<1>2. m \in Nat /\ DOMAIN stops = 1 .. m /\ \A k \in 1 .. m : stops[k] \in U
  BY <1>1
<1>3. AddStopNames(c, settings) = FlattenSeq(q)
  BY <1>2 DEF AddStopNames
<1> HIDE DEF U
<1>4. ASSUME NEW k \in 1 .. m
      PROVE  label(k) \in Seq(S) /\ Len(label(k)) = 2 /\ label(k)[2].point = StopPoint(c, settings, stops[k])
  <2>1. stops[k] \in U /\ stops[k] \in ToSet(NameOrder) /\ "stop" \in {"bus", "stop"}
        /\ String("black") \in {String("black")} \cup {ColorOf(settings, j) : j \in DOMAIN DrawnBuses(c)}
    BY <1>1, <1>2
  <2> HIDE DEF stops
  <2> QED BY <2>1, TwoLabels
<1> HIDE DEF label, S
<1>5. q \in [1 .. m -> Seq(S)] /\ \A k \in 1 .. m : q[k] = label(k)
  BY <1>4
<1> HIDE DEF q, m
<1>6. \A k \in 1 .. m : Len(q[k]) = 2
  BY <1>4, <1>5
<1>7. FlattenSeq(q) \in Seq(S)
  BY <1>2, <1>5, FlattenHolds
<1>8. Len(FlattenSeq(q)) = 2 * m /\ \A k \in 1 .. m : FlattenSeq(q)[2 * k] = q[k][2]
  BY <1>2, <1>5, <1>6, FlattenPairs
<1>9. \A k \in 1 .. m : FlattenSeq(q)[2 * k].point = StopPoint(c, settings, stops[k])
  BY <1>4, <1>5, <1>8
<1> QED BY <1>2, <1>3, <1>7, <1>8, <1>9 DEF m, S, U

\* So are the names of the lines, each at its ends.
LEMMA RouteNamesAreDrawn ==
  ASSUME NEW document, AreRequests(document), NEW c, HasRead(c, document, LastBuses(document)),
         NameOrder \in Seq(ToSet(NameOrder)), NEW settings
  PROVE  AddRouteNames(c, settings) \in Seq(Labels(c, settings, Called(document)))
<1> DEFINE buses == DrawnBuses(c)
           m == Len(buses)
           U == Called(document)
           S == Labels(c, settings, U)
           stops(k) == LabelledStops(c.buses[buses[k]])
           label(k, i) == Label("bus", buses[k], StopPoint(c, settings, stops(k)[i]), settings, ColorOf(settings, k))
           r(k) == [i \in DOMAIN stops(k) |-> label(k, i)]
           q == [k \in 1 .. m |-> FlattenSeq(r(k))]
<1>1. buses \in Seq(Lines(document)) /\ Lines(document) \subseteq ToSet(NameOrder)
  <2>1. Lines(document) \subseteq ToSet(NameOrder)
    BY LinesAreKept DEF Lines
  <2> QED BY <2>1, DrawnIsDescribed
<1>2. m \in Nat /\ DOMAIN buses = 1 .. m /\ \A k \in 1 .. m : buses[k] \in Lines(document)
  BY <1>1
<1>3. AddRouteNames(c, settings) = FlattenSeq(q)
  BY <1>2 DEF AddRouteNames
<1>4. ASSUME NEW k \in 1 .. m PROVE FlattenSeq(r(k)) \in Seq(S)
  <2>1. buses[k] \in Lines(document) /\ buses[k] \in ToSet(NameOrder) /\ "bus" \in {"bus", "stop"}
        /\ ColorOf(settings, k) \in {String("black")} \cup {ColorOf(settings, j) : j \in DOMAIN buses}
    BY <1>1, <1>2
  <2>2. stops(k) \in Seq(CallsOf(LastOf(document, buses[k]))) /\ CallsOf(LastOf(document, buses[k])) \subseteq U
    BY <2>1, LabelsAtTheEnds DEF Called
  <2> DEFINE l == Len(stops(k))
  <2> HIDE DEF U, stops
  <2>3. l \in Nat /\ DOMAIN stops(k) = 1 .. l /\ \A i \in 1 .. l : stops(k)[i] \in U
    BY <2>2
  <2> HIDE DEF buses, l
  <2>4. ASSUME NEW i \in 1 .. l PROVE label(k, i) \in Seq(S)
    <3>1. stops(k)[i] \in U /\ ColorOf(settings, k) \in {String("black")} \cup {ColorOf(settings, j) : j \in DOMAIN DrawnBuses(c)}
      BY <2>1, <2>3 DEF buses
    <3> QED BY <2>1, <3>1, TwoLabels
  <2> HIDE DEF label, S
  <2>5. r(k) \in [1 .. l -> Seq(S)]
    BY <2>3, <2>4
  <2> HIDE DEF r
  <2> QED BY <2>3, <2>5, FlattenHolds
<1> HIDE DEF S, r
<1>5. q \in [1 .. m -> Seq(S)]
  BY <1>4
<1> HIDE DEF q, m
<1>6. FlattenSeq(q) \in Seq(S)
  BY <1>2, <1>5, FlattenHolds
<1> QED BY <1>3, <1>6 DEF S, U

\* A function on an initial segment of the numbers is a sequence of its values.
LEMMA ValuesInARow ==
  ASSUME NEW m \in Nat, NEW f, f = [k \in 1 .. m |-> f[k]]
  PROVE  f \in Seq({f[k] : k \in 1 .. m}) /\ Len(f) = m
OBVIOUS

\* Each stop is found at its name, which are the last things that are drawn.
LEMMA PointsAreFound ==
  ASSUME NEW document, AreRequests(document), NEW c, HasRead(c, document, LastBuses(document)),
         NameOrder \in Seq(ToSet(NameOrder)), NEW settings
  PROVE  LET stops == DrawnStops(c)
             map == GetMapSVG(c, settings)
         IN  /\ Len(map) >= 3 * Len(stops)
             /\ \A k \in DOMAIN stops : map[Len(map) - 2 * (Len(stops) - k)].point = StopPoint(c, settings, stops[k])
<1> DEFINE stops == DrawnStops(c)
           buses == DrawnBuses(c)
           m == Len(stops)
           n == Len(buses)
           pa == AddLinesBetweenStops(c, settings)
           pb == AddRouteNames(c, settings)
           pc == AddStopSymbols(c, settings)
           pd == AddStopNames(c, settings)
           L == Labels(c, settings, Called(document))
           A == {pa[k] : k \in 1 .. n}
           C == {pc[k] : k \in 1 .. m}
           S == A \cup C \cup L
           map == GetMapSVG(c, settings)
<1>1. /\ pd \in Seq(L) /\ m \in Nat /\ DOMAIN stops = 1 .. m
      /\ Len(pd) = 2 * m
      /\ \A k \in 1 .. m : pd[2 * k].point = StopPoint(c, settings, stops[k])
  BY StopNamesAreDrawn
<1>2. pb \in Seq(L)
  BY RouteNamesAreDrawn
<1>3. n \in Nat /\ DOMAIN buses = 1 .. n
  BY DrawnIsDescribed
<1>4. pa = [k \in 1 .. n |-> pa[k]]
  BY <1>3 DEF AddLinesBetweenStops
<1>5. pc = [k \in 1 .. m |-> pc[k]]
  BY <1>1 DEF AddStopSymbols
<1>6. map = pa \o pb \o pc \o pd
  BY DEF GetMapSVG
<1> HIDE DEF stops, buses, m, n, pa, pb, pc, pd, L, map
<1>7. pa \in Seq(A)
  BY <1>3, <1>4, ValuesInARow
<1>8. pc \in Seq(C) /\ Len(pc) = m
  BY <1>1, <1>5, ValuesInARow
<1> HIDE DEF A, C
<1>9. pa \in Seq(S) /\ pb \in Seq(S) /\ pc \in Seq(S) /\ pd \in Seq(S)
  BY <1>1, <1>2, <1>7, <1>8
<1> HIDE DEF S
<1>10. Len(map) >= 3 * m /\ \A k \in 1 .. m : map[Len(map) - 2 * (m - k)] = pd[2 * k]
  <2> DEFINE all == pa \o pb \o pc \o pd
  <2>1. FoundFromTheEnd(all, pd, m)
    BY <1>1, <1>8, <1>9, DrawnLast
  <2>2. map = all
    BY <1>6
  <2> HIDE DEF all
  <2> QED BY <2>1, <2>2 DEF FoundFromTheEnd
<1> QED BY <1>1, <1>10 DEF m, stops, map

\* The map of a catalogue is that of the base requests that it has read.
LEMMA MapIsDrawn ==
  ASSUME NEW document, AreRequests(document), NEW c, HasRead(c, document, LastBuses(document)),
         NameOrder \in Seq(ToSet(NameOrder)), NEW settings
  PROVE  IsMapOf(document, settings, GetMapSVG(c, settings))
<1> DEFINE described(b) == document[Max(Named(document, "Bus", b))]
           lines == ByName({b \in NamesOf(document, "Bus") : described(b).stops # <<>>})
           stops == ByName(UNION {CallsOf(described(b)) : b \in ToSet(lines)})
           color(k) == settings.color_palette[((k - 1) % Len(settings.color_palette)) + 1]
           map == GetMapSVG(c, settings)
           point(k) == map[Len(map) - 2 * (Len(stops) - k)].point
           at == [s \in ToSet(stops) |-> point(CHOOSE k \in DOMAIN stops : stops[k] = s)]
           texts(kind, name, place, front) ==
             LET text(shade) ==
                   [kind |-> kind, name |-> name, point |-> place, offset |-> Offset(kind, settings),
                    color |-> shade]
             IN  <<text(settings.underlayer_color), text(front)>>
           U == Called(document)
           P(s) == StopPoint(c, settings, s)
<1>1. /\ lines = DrawnBuses(c)
      /\ ToSet(lines) = Lines(document)
      /\ DOMAIN lines = 1 .. Len(lines) /\ \A k \in DOMAIN lines : lines[k] \in Lines(document)
  <2>1. {b \in NamesOf(document, "Bus") : described(b).stops # <<>>} = Lines(document)
    BY DEF Lines, LastOf
  <2>2. lines = ByName(Lines(document))
    BY <2>1
  <2> HIDE DEF lines
  <2>3. lines = DrawnBuses(c) /\ lines \in Seq(Lines(document)) /\ ToSet(lines) = Lines(document)
    BY <2>2, DrawnIsDescribed
  <2> QED BY <2>3
<1> HIDE DEF lines
<1>2. /\ stops = DrawnStops(c)
      /\ ToSet(stops) = U
      /\ DOMAIN stops = 1 .. Len(stops) /\ Len(stops) \in Nat /\ \A k \in DOMAIN stops : stops[k] \in U
  <2>1. UNION {CallsOf(described(b)) : b \in ToSet(lines)} = Called(document)
    BY <1>1 DEF Called, LastOf
  <2>2. stops = ByName(U)
    BY <2>1
  <2> HIDE DEF stops
  <2>3. stops = DrawnStops(c) /\ stops \in Seq(U) /\ ToSet(stops) = U
    BY <2>2, DrawnIsDescribed
  <2> HIDE DEF U
  <2> QED BY <2>3
<1> HIDE DEF stops, map, U
<1>3. Len(map) >= 3 * Len(stops) /\ \A k \in DOMAIN stops : point(k) = P(stops[k])
  BY <1>2, PointsAreFound DEF map
<1> HIDE DEF point, P
<1>4. at = [s \in U |-> P(s)]
  <2>1. \A s \in U : \E k \in DOMAIN stops : stops[k] = s
    BY <1>2 DEF ToSet
  <2>2. ASSUME NEW s \in U PROVE point(CHOOSE k \in DOMAIN stops : stops[k] = s) = P(s)
    <3> DEFINE i == CHOOSE k \in DOMAIN stops : stops[k] = s
    <3>1. i \in DOMAIN stops /\ stops[i] = s
      BY <2>1
    <3> HIDE DEF i
    <3>2. point(i) = P(s)
      BY <1>3, <3>1
    <3> QED BY <3>2 DEF i
  <2> QED BY <1>2, <2>2
<1> HIDE DEF at
<1>5. \A s \in U : at[s] = P(s)
  BY <1>4
<1>6. \A k : color(k) = ColorOf(settings, k)
  BY DEF ColorOf
<1> HIDE DEF color
<1>7. \A kind, name, place, front : texts(kind, name, place, front) = Label(kind, name, place, settings, front)
  BY DEF Label
<1> HIDE DEF texts
<1> DEFINE drawn(k) == LET line == BusLine(described(lines[k]))
                       IN  [kind |-> "line", color |-> color(k), points |-> [i \in DOMAIN line |-> at[line[i]]]]
           named(k) == LET ends == EndsOf(described(lines[k]))
                       IN  FlattenSeq([i \in DOMAIN ends |-> texts("bus", lines[k], at[ends[i]], color(k))])
           symbol(k) == [kind |-> "symbol", point |-> at[stops[k]], color |-> String("white")]
           text(k) == texts("stop", stops[k], at[stops[k]], String("black"))
<1>8. ASSUME NEW k \in DOMAIN lines
      PROVE  /\ lines[k] \in NamesOf(document, "Bus") /\ lines[k] \in Lines(document)
             /\ described(lines[k]) = LastOf(document, lines[k])
             /\ CallsOf(described(lines[k])) \subseteq U
  <2>1. lines[k] \in Lines(document)
    BY <1>1
  <2> QED BY <2>1 DEF Lines, U, Called, LastOf
<1>9. AddLinesBetweenStops(c, settings) = [k \in DOMAIN lines |-> drawn(k)]
  <2>1. ASSUME NEW k \in DOMAIN lines
        PROVE  [kind |-> "line", color |-> ColorOf(settings, k),
                points |-> [i \in DOMAIN c.buses[lines[k]].stops |-> P(c.buses[lines[k]].stops[i])]] = drawn(k)
    <3> DEFINE line == BusLine(described(lines[k]))
    <3>1. c.buses[lines[k]].stops = line
      BY <1>8, LinesAreKept
    <3>2. line \in Seq(U)
      <4>1. line \in Seq(CallsOf(described(lines[k])))
        BY <1>8, LinesOfLists
      <4> HIDE DEF line, described
      <4> QED BY <1>8, <4>1
    <3> HIDE DEF line
    <3>3. [i \in DOMAIN line |-> P(line[i])] = [i \in DOMAIN line |-> at[line[i]]]
      BY <1>5, <3>2
    <3>4. drawn(k) = [kind |-> "line", color |-> color(k), points |-> [i \in DOMAIN line |-> at[line[i]]]]
      BY DEF line
    <3> HIDE DEF drawn
    <3> QED BY <1>6, <3>1, <3>3, <3>4
  <2> HIDE DEF drawn, described
  <2>2. AddLinesBetweenStops(c, settings)
          = [k \in DOMAIN lines |->
              [kind |-> "line", color |-> ColorOf(settings, k),
               points |-> [i \in DOMAIN c.buses[lines[k]].stops |-> P(c.buses[lines[k]].stops[i])]]]
    BY <1>1 DEF AddLinesBetweenStops, P
  <2> QED BY <2>1, <2>2
<1>10. AddRouteNames(c, settings) = FlattenSeq([k \in DOMAIN lines |-> named(k)])
  <2> DEFINE kept(k) == FlattenSeq([i \in DOMAIN LabelledStops(c.buses[lines[k]]) |->
                          Label("bus", lines[k], P(LabelledStops(c.buses[lines[k]])[i]), settings, ColorOf(settings, k))])
  <2>1. ASSUME NEW k \in DOMAIN lines PROVE kept(k) = named(k)
    <3> DEFINE ends == EndsOf(described(lines[k]))
    <3>1. LabelledStops(c.buses[lines[k]]) = ends
      BY <1>8, LabelsAtTheEnds
    <3>2. ends \in Seq(U)
      <4>1. ends \in Seq(CallsOf(described(lines[k])))
        BY <1>8, LabelsAtTheEnds
      <4> HIDE DEF ends, described
      <4> QED BY <1>8, <4>1
    <3>3. named(k) = FlattenSeq([i \in DOMAIN ends |-> texts("bus", lines[k], at[ends[i]], color(k))])
      OBVIOUS
    <3> HIDE DEF ends, named
    <3>4. [i \in DOMAIN ends |-> Label("bus", lines[k], P(ends[i]), settings, ColorOf(settings, k))]
            = [i \in DOMAIN ends |-> texts("bus", lines[k], at[ends[i]], color(k))]
      BY <1>5, <1>6, <1>7, <3>2
    <3> QED BY <3>1, <3>3, <3>4
  <2> HIDE DEF named
  <2>2. AddRouteNames(c, settings) = FlattenSeq([k \in DOMAIN lines |-> kept(k)])
    BY <1>1 DEF AddRouteNames, P
  <2> HIDE DEF kept
  <2>3. [k \in DOMAIN lines |-> kept(k)] = [k \in DOMAIN lines |-> named(k)]
    BY <2>1
  <2> QED BY <2>2, <2>3
<1>11. AddStopSymbols(c, settings) = [k \in DOMAIN stops |-> symbol(k)]
  <2>1. AddStopSymbols(c, settings)
          = [k \in DOMAIN stops |-> [kind |-> "symbol", point |-> P(stops[k]), color |-> String("white")]]
    BY <1>2 DEF AddStopSymbols, P
  <2> QED BY <1>2, <1>5, <2>1
<1>12. AddStopNames(c, settings) = FlattenSeq([k \in DOMAIN stops |-> text(k)])
  <2>1. AddStopNames(c, settings)
          = FlattenSeq([k \in DOMAIN stops |-> Label("stop", stops[k], P(stops[k]), settings, String("black"))])
    BY <1>2 DEF AddStopNames, P
  <2>2. [k \in DOMAIN stops |-> Label("stop", stops[k], P(stops[k]), settings, String("black"))]
          = [k \in DOMAIN stops |-> text(k)]
    BY <1>2, <1>5, <1>7
  <2> QED BY <2>1, <2>2
<1>13. HasRoom(settings) => IsTrueToScale(at, [s \in DOMAIN at |-> Places(document, s)], settings)
  <2> SUFFICES ASSUME HasRoom(settings)
               PROVE  IsTrueToScale(at, [s \in DOMAIN at |-> Places(document, s)], settings)
    OBVIOUS
  <2> DEFINE place == [s \in U |-> Places(document, s)]
             places == {c.stops[s].coordinates : s \in ToSet(DrawnStops(c))}
             projector == Projector(places, settings)
  <2>1. \A s \in U : c.stops[s].coordinates = Places(document, s) /\ Places(document, s) \in [lat : Int, lng : Int]
    BY PlacesAreDescribed, DrawnIsDescribed DEF U
  <2>2. places = {place[s] : s \in U}
    BY <1>2, <2>1
  <2>3. \A s \in U : P(s) = Point(projector, place[s])
    BY <2>1 DEF P, StopPoint
  <2>4. place \in [U -> [lat : Int, lng : Int]]
    BY <2>1
  <2>5. IsFiniteSet(U)
    <3> DEFINE m == Len(stops)
    <3>1. U = {stops[k] : k \in 1 .. m} /\ IsFiniteSet(1 .. m) /\ stops = [k \in 1 .. m |-> stops[k]]
      <4>1. IsFiniteSet(1 .. m)
        BY <1>2, FS_Interval
      <4>2. stops \in Seq(U)
        BY <1>2, DrawnIsDescribed DEF U
      <4> QED BY <1>2, <4>1, <4>2 DEF ToSet
    <3> HIDE DEF m
    <3> QED BY <3>1, ValuesAreFinite
  <2>6. projector = Projector({place[s] : s \in U}, settings)
    BY <2>2
  <2> HIDE DEF projector, place
  <2>7. at = [s \in U |-> Point(projector, place[s])]
    BY <1>4, <2>3
  <2>8. IsTrueToScale(at, place, settings)
    BY <2>4, <2>5, <2>6, <2>7, DrawnTrueToScale
  <2>9. DOMAIN at = U
    BY <1>4
  <2> QED BY <2>8, <2>9 DEF place
<1>14. map = AddLinesBetweenStops(c, settings) \o AddRouteNames(c, settings)
               \o AddStopSymbols(c, settings) \o AddStopNames(c, settings)
  BY DEF map, GetMapSVG
<1> HIDE DEF drawn, named, symbol, text
<1>15. map = [k \in DOMAIN lines |-> drawn(k)] \o FlattenSeq([k \in DOMAIN lines |-> named(k)])
               \o [k \in DOMAIN stops |-> symbol(k)] \o FlattenSeq([k \in DOMAIN stops |-> text(k)])
  BY <1>9, <1>10, <1>11, <1>12, <1>14
<1> QED BY <1>3, <1>13, <1>15 DEF IsMapOf, described, lines, stops, color, map, point, at, texts,
                                 drawn, named, symbol, text

(***************************************************************************)
(* The answers of a run.                                                   *)
(***************************************************************************)
\* A question is answered from the document of the run.
LEMMA QuestionIsAnswered ==
  ASSUME ProgramInv, DistanceInv, AnswerInv, stage \in {"print", "answer"}, NEW request,
         request.type = "Map" => Run.mode # "text" /\ map_settings.color_palette # <<>> /\ stage = "answer"
  PROVE  /\ Run.mode # "text" => IsAnswer(Response(request), request, run)
         /\ Run.mode = "text" /\ request.type \in {"Bus", "Stop"}
              => IsAnswer(PrintedAnswer(request), request, run)
<1> DEFINE document == DocumentOf(run)
           K == CallsKnown(Run.mode, document)
<1>1. /\ AreRequests(document) /\ SaidIn(document, catalogue.distances)
      /\ HasRead(catalogue, document, K)
  BY RequestsAreRead DEF DistanceInv, AnswerInv
<1>2. CallsAreOfTheDocument(run) => K = LastBuses(document)
  <2>1. CASE Run.mode = "process_requests"
    BY <2>1 DEF CallsKnown
  <2>2. CASE Run.mode # "process_requests"
    <3>1. document \in Seq(ToSet(document))
      BY <1>1 DEF AreRequests
    <3>2. CallsAreOfTheDocument(run) => DescribedOnce(document)
      BY <2>2 DEF CallsAreOfTheDocument, Run
    <3> HIDE DEF document
    <3> QED BY <2>2, <3>1, <3>2, OnceIsLast DEF CallsKnown
  <2> QED BY <2>1, <2>2
<1> HIDE DEF document, K
<1>3. request.type = "Bus" =>
        /\ Response(request) = WithRouteLength(BusAnswer(document, request.name))
        /\ PrintedAnswer(request) = BusAnswer(document, request.name)
  <2>1. GetBusInfo(catalogue, request.name) = BusAnswer(document, request.name)
    BY <1>1, BusIsAnswered
  <2> QED BY <2>1 DEF Response, PrintedAnswer
<1>4. request.type = "Stop" /\ CallsAreOfTheDocument(run) =>
        /\ Response(request) = StopAnswer(document, request.name)
        /\ PrintedAnswer(request) = StopAnswer(document, request.name)
  <2>1. CallsAreOfTheDocument(run) => GetBusesByStop(catalogue, request.name) = StopAnswer(document, request.name)
    BY <1>1, <1>2, StopIsAnswered
  <2> QED BY <2>1 DEF Response, PrintedAnswer
<1>5. request.type = "Map" /\ CallsAreOfTheDocument(run)
        => \E settings \in MapSettings(runs[Source(run)].render_settings) :
             IsMapOf(document, settings, Response(request))
  <2> SUFFICES ASSUME request.type = "Map", CallsAreOfTheDocument(run)
               PROVE  \E settings \in MapSettings(runs[Source(run)].render_settings) :
                        IsMapOf(document, settings, Response(request))
    OBVIOUS
  <2>1. map_settings \in SettingsFrom(Source(run)) /\ map_settings.color_palette # <<>>
    BY DEF AnswerInv
  <2>2. Source(run) # 0
    BY <2>1 DEF SettingsFrom, NoSettings
  <2>3. map_settings \in MapSettings(runs[Source(run)].render_settings)
    BY <2>1, <2>2 DEF SettingsFrom
  <2>4. HasRead(catalogue, document, LastBuses(document)) /\ AreRequests(document)
    BY <1>1, <1>2
  <2>5. NameOrder \in Seq(ToSet(NameOrder))
    BY ProgramAssumption
  <2>6. IsMapOf(document, map_settings, GetMapSVG(catalogue, map_settings))
    BY <2>4, <2>5, MapIsDrawn
  <2>7. Response(request) = GetMapSVG(catalogue, map_settings)
    BY DEF Response
  <2> QED BY <2>3, <2>6, <2>7
<1>6. Run.mode # "text" => IsAnswer(Response(request), request, run)
  BY <1>3, <1>4, <1>5 DEF IsAnswer, document, Run
<1>7. Run.mode = "text" /\ request.type \in {"Bus", "Stop"} => IsAnswer(PrintedAnswer(request), request, run)
  BY <1>3, <1>4 DEF IsAnswer, document, Run
<1> QED BY <1>6, <1>7

\* A run that ends as it should has answered.
LEMMA EndHasAnswered ==
  ASSUME GoodInv, NEW outcome, End(outcome),
         outcome = "ok" /\ Run.mode # "make_base" =>
           /\ made' = made
           /\ \A n \in DOMAIN Run.stat_requests :
                /\ IsAnswer(responses'[n].answer, Run.stat_requests[n], run)
                /\ Run.mode # "text" => responses'[n].request_id = Run.stat_requests[n].id
  PROVE  AnswersAreOfTheDocument'
<1>1. outcomes' = Append(outcomes, outcome) /\ runs' = runs
  BY DEF End
<1>2. PICK S : outcomes \in Seq(S)
  BY DEF GoodInv
<1>3. Len(outcomes') = run /\ outcomes'[run] = outcome
  BY <1>1, <1>2 DEF GoodInv
<1> SUFFICES ASSUME outcome = "ok", Run.mode # "make_base", NEW n \in DOMAIN Run.stat_requests
             PROVE  IsAnswer(responses[n].answer, runs[Len(outcomes)].stat_requests[n], Len(outcomes))'
  BY <1>1, <1>3 DEF AnswersAreOfTheDocument, Run
<1>4. made' = made /\ IsAnswer(responses'[n].answer, Run.stat_requests[n], run)
  OBVIOUS
<1>5. /\ Source(Len(outcomes))' = Source(run)
      /\ DocumentOf(Len(outcomes))' = DocumentOf(run)
  BY <1>1, <1>3, <1>4 DEF Source, DocumentOf
<1>6. CallsAreOfTheDocument(Len(outcomes))' <=> CallsAreOfTheDocument(run)
  BY <1>1, <1>3, <1>5 DEF CallsAreOfTheDocument
<1> QED BY <1>1, <1>3, <1>4, <1>5, <1>6 DEF IsAnswer, Run

\* As long as no run ends, the ended runs have answered.
LEMMA StaysSaid ==
  ASSUME UNCHANGED <<runs, made, outcomes, responses>>, AnswersAreOfTheDocument
  PROVE  AnswersAreOfTheDocument'
<1>1. runs' = runs /\ made' = made /\ outcomes' = outcomes /\ responses' = responses
  OBVIOUS
<1> DEFINE k == Len(outcomes)
<1>2. Source(k)' = Source(k) /\ DocumentOf(k)' = DocumentOf(k)
  BY <1>1 DEF Source, DocumentOf
<1>3. CallsAreOfTheDocument(k)' <=> CallsAreOfTheDocument(k)
  BY <1>1, <1>2 DEF CallsAreOfTheDocument
<1>4. \A n : IsAnswer(responses[n].answer, runs[k].stat_requests[n], k)'
                <=> IsAnswer(responses[n].answer, runs[k].stat_requests[n], k)
  BY <1>1, <1>2, <1>3 DEF IsAnswer
<1> QED BY <1>1, <1>4 DEF AnswersAreOfTheDocument

\* Answers are printed of text alone.
PrintsText == stage = "print" => Run.mode = "text"

LEMMA OnlyTextIsPrinted ==
  ASSUME ProgramInv, PrintsText, [ProgramNext]_allVars
  PROVE  PrintsText'
<1>1. CASE stage' # "print"
  BY <1>1 DEF PrintsText
<1>2. CASE EndOfAdd
  <2>1. stage = "add" /\ Run' = Run /\ Run.mode # "process_requests"
    BY <1>2 DEF EndOfAdd, Run, ProgramInv
  <2>2. Run.mode \in {"make_base", "ReadJSON", "text"}
    BY <2>1, RunIsInput DEF IsInput
  <2>3. stage' = "print" => Run.mode = "text"
    BY <1>2, <2>2 DEF EndOfAdd
  <2> QED BY <2>1, <2>3 DEF PrintsText
<1>3. CASE Start \/ Restore \/ MakeRouter
  BY <1>3 DEF Start, Restore, MakeRouter, PrintsText
<1>4. CASE \E outcome : End(outcome)
  BY <1>4 DEF End, PrintsText
<1>5. CASE UNCHANGED <<runs, run, stage>>
  BY <1>5 DEF PrintsText, Run
<1>6. QueueBus \/ AddNextStop \/ RouterStep \/ UNCHANGED allVars => UNCHANGED <<runs, run, stage>>
  BY DEF QueueBus, AddNextStop, RouterStep, allVars, programVars
<1>7. RefuseSettings \/ RefuseNext \/ Store \/ RouterFails \/ Answer \/ PrintAnswers => \E outcome : End(outcome)
  BY DEF RefuseSettings, RefuseNext, Store, RouterFails, Answer, PrintAnswers
<1>8. AddQueuedBus => UNCHANGED <<runs, run, stage>> \/ \E outcome : End(outcome)
  BY DEF AddQueuedBus, HandleAddBus
<1> QED BY <1>2, <1>3, <1>4, <1>5, <1>6, <1>7, <1>8 DEF ProgramNext

LEMMA RefusedRunsSayNothing ==
  ASSUME ProgramInv, DistanceInv, GoodInv, RefuseSettings \/ RefuseNext \/ RouterFails \/ Store
  PROVE  AnswersAreOfTheDocument'
<1>1. CASE RefuseSettings \/ RefuseNext \/ RouterFails
  <2>1. \E outcome : End(outcome) /\ outcome # "ok"
    BY <1>1 DEF RefuseSettings, RefuseNext, RouterFails, Failure
  <2> QED BY <2>1, EndHasAnswered
<1>2. CASE Store
  <2>1. Run.mode = "make_base" /\ \E outcome : End(outcome)
    BY <1>2 DEF Store, DistanceInv
  <2> QED BY <2>1, EndHasAnswered
<1> QED BY <1>1, <1>2

LEMMA AddedBusesStaySaid ==
  ASSUME GoodInv, AnswersAreOfTheDocument, AddQueuedBus
  PROVE  AnswersAreOfTheDocument'
<1>1. UNCHANGED <<runs, made, outcomes, responses>> \/ \E outcome : End(outcome) /\ outcome # "ok"
  BY DEF AddQueuedBus, HandleAddBus
<1> QED BY <1>1, StaysSaid, EndHasAnswered

LEMMA AnswersAreSaid ==
  ASSUME ProgramInv, DistanceInv, GoodInv, AnswerInv, Answer
  PROVE  AnswersAreOfTheDocument'
<1> DEFINE requests == Run.stat_requests
           failing == {k \in DOMAIN requests : ResponseOutcome(requests[k]) # "ok"}
<1>1. stage = "answer" /\ made' = made /\ Run.mode # "text"
  BY DEF Answer, GoodInv
<1>2. requests \in Seq(ToSet(requests))
  BY <1>1, RunIsInput DEF IsInput
<1>3. CASE failing = {}
  <2>1. /\ responses' = [k \in DOMAIN requests |->
                           [request_id |-> requests[k].id, answer |-> Response(requests[k])]]
        /\ End("ok")
    BY <1>3 DEF Answer
  <2>2. ASSUME NEW n \in DOMAIN requests
        PROVE  IsAnswer(responses'[n].answer, requests[n], run) /\ responses'[n].request_id = requests[n].id
    <3> DEFINE request == requests[n]
    <3>1. ResponseOutcome(request) = "ok"
      BY <1>3
    <3>2. responses'[n].answer = Response(request) /\ responses'[n].request_id = request.id
      BY <2>1
    <3> HIDE DEF request, requests
    <3>3. request.type = "Map" => map_settings.color_palette # <<>>
      BY <3>1 DEF ResponseOutcome, MapOutcome
    <3>4. IsAnswer(Response(request), request, run)
      BY <1>1, <3>3, QuestionIsAnswered
    <3> QED BY <3>2, <3>4 DEF request
  <2> QED BY <1>1, <2>1, <2>2, EndHasAnswered
<1>4. CASE failing # {}
  <2>1. failing \subseteq Nat
    BY <1>2
  <2>2. Min(failing) \in failing
    <3> HIDE DEF failing
    <3>1. \E k \in failing : \A d \in failing : k <= d
      BY <1>4, <2>1, LeastNatural
    <3> QED BY <3>1 DEF Min
  <2>3. End(ResponseOutcome(requests[Min(failing)]))
    BY <1>4 DEF Answer
  <2> DEFINE outcome == ResponseOutcome(requests[Min(failing)])
  <2>4. outcome # "ok" /\ End(outcome)
    BY <2>2, <2>3
  <2> HIDE DEF outcome
  <2> QED BY <2>4, EndHasAnswered
<1> QED BY <1>3, <1>4

LEMMA PrintedAnswersAreSaid ==
  ASSUME ProgramInv, DistanceInv, GoodInv, AnswerInv, PrintsText, PrintAnswers
  PROVE  AnswersAreOfTheDocument'
<1> DEFINE lines == Run.stat_lines
<1> DEFINE failing == {k \in DOMAIN lines : ~HasName(lines[k])}
           outcome == IF failing = {} THEN "ok" ELSE "out_of_range"
<1>1. /\ stage = "print" /\ made' = made /\ Run.mode = "text" /\ End(outcome)
      /\ outcome = "ok" =>
           responses' = [k \in DOMAIN lines |-> [answer |-> PrintedAnswer(ProcessedQuestion(lines[k]))]]
  BY DEF PrintAnswers, PrintsText
<1> HIDE DEF outcome
<1>2. Run.stat_requests = [k \in DOMAIN lines |-> ProcessedQuestion(lines[k])]
  BY <1>1, RunIsInput DEF IsInput
<1> HIDE DEF lines
<1>3. ASSUME outcome = "ok", NEW n \in DOMAIN Run.stat_requests
      PROVE  IsAnswer(responses'[n].answer, Run.stat_requests[n], run)
  <2> DEFINE request == ProcessedQuestion(lines[n])
  <2>1. responses'[n].answer = PrintedAnswer(request) /\ Run.stat_requests[n] = request
    BY <1>1, <1>2, <1>3
  <2>2. request.type \in {"Stop", "Bus"}
    BY DEF ProcessedQuestion, RequestType
  <2> HIDE DEF request
  <2>3. IsAnswer(PrintedAnswer(request), request, run)
    BY <1>1, <2>2, QuestionIsAnswered
  <2> QED BY <2>1, <2>3
<1> QED BY <1>1, <1>3, EndHasAnswered

LEMMA ProgramSaysAnswers ==
  ASSUME ProgramInv, DistanceInv, GoodInv, AnswerInv, PrintsText, AnswersAreOfTheDocument,
         [ProgramNext]_allVars
  PROVE  AnswersAreOfTheDocument'
<1>1. \/ Start \/ QueueBus \/ AddNextStop \/ EndOfAdd \/ Restore \/ MakeRouter \/ RouterStep
      \/ UNCHANGED allVars
      => UNCHANGED <<runs, made, outcomes, responses>>
  BY DEF Start, QueueBus, AddNextStop, EndOfAdd, Restore, MakeRouter, RouterStep, allVars, programVars
<1> QED BY <1>1, StaysSaid, RefusedRunsSayNothing, AddedBusesStaySaid, AnswersAreSaid, PrintedAnswersAreSaid
           DEF ProgramNext

\* For all base requests, questions and runs, and in whatever orders the base requests
\* are read and come back from the file: every answer about a bus or a stop, and every
\* map, is that of the base requests, read at once.
THEOREM AnswersStayOfTheDocument ==
  ASSUME OrdersEnumerate
  PROVE  ProgramSpec => []AnswersAreOfTheDocument
<1>1. ProgramInit => DistanceInv /\ AnswerInv
  BY NothingIsStored, NothingIsAnswered
<1>2. ProgramInit => GoodInv /\ GoodDocumentsAreAnswered /\ PrintsText /\ AnswersAreOfTheDocument
  <2>1. ProgramInit => GoodDocumentsAreAnswered /\ PrintsText /\ AnswersAreOfTheDocument
    BY DEF ProgramInit, GoodDocumentsAreAnswered, PrintsText, AnswersAreOfTheDocument
  <2> QED BY <2>1, NothingHasEnded
<1>3. ProgramInv /\ DistanceInv /\ [ProgramNext]_allVars => DistanceInv'
  BY ProgramKeepsDistances
<1>4. ProgramInv /\ RouterInv /\ DistanceInv /\ GoodInv /\ GoodDocumentsAreAnswered /\ [ProgramNext]_allVars
        => GoodInv' /\ GoodDocumentsAreAnswered'
  BY ProgramKeepsGood
<1>5. ProgramInv /\ DistanceInv /\ AnswerInv /\ [ProgramNext]_allVars => AnswerInv'
  BY ProgramKeepsAnswers
<1>6. ProgramInv /\ PrintsText /\ [ProgramNext]_allVars => PrintsText'
  BY OnlyTextIsPrinted
<1>7. ProgramInv /\ DistanceInv /\ GoodInv /\ AnswerInv /\ PrintsText /\ AnswersAreOfTheDocument
        /\ [ProgramNext]_allVars => AnswersAreOfTheDocument'
  BY ProgramSaysAnswers
<1> QED BY <1>1, <1>2, <1>3, <1>4, <1>5, <1>6, <1>7, ProgramInvariant, PTL DEF ProgramSpec
=============================================================================
