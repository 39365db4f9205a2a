---------------------------- MODULE RouterProofs ----------------------------
(***************************************************************************)
(* Theorems about Router: for every graph, when the table is made no way   *)
(* through any vertex, and no edge, is shorter than the route it has       *)
(* (RouterInv), and each route can be followed back along one edge of each *)
(* entry to where it starts, and weighs what its edges weigh (LinkInv).    *)
(***************************************************************************)
EXTENDS Router, FiniteSetTheorems, NaturalsInduction, WellFoundedInduction, TLAPS

\* What the edges are, whatever else they carry.
IsGraph ==
  \E n \in Nat :
    /\ DOMAIN edges = 1 .. n
    /\ \A e \in 1 .. n : edges[e].from \in Nat /\ edges[e].to \in Nat /\ edges[e].weight \in Int

(***************************************************************************)
(* What a table knows.                                                     *)
(***************************************************************************)
Table == [Vertex -> [Vertex -> Route \cup {NoRoute}]]

\* The table t has a route from i to j that takes no longer than w.
Within(t, i, j, w) == t[i][j] # NoRoute /\ t[i][j].weight <= w

\* Every vertex gets to itself for nothing.
StaysForNothing(t) == \A v \in Vertex : t[v][v] # NoRoute /\ t[v][v].weight = 0

\* No way through k is shorter.
Closed(t, k) ==
  \A i, j \in Vertex :
    t[i][k] # NoRoute /\ t[k][j] # NoRoute => Within(t, i, j, t[i][k].weight + t[k][j].weight)

\* What is known of the edge e: its ends are in the table, and no route is
\* longer than it.
EdgeIsIn(t, e) ==
  /\ edges[e].from \in Vertex /\ edges[e].to \in Vertex
  /\ Within(t, edges[e].from, edges[e].to, edges[e].weight)

(***************************************************************************)
(* One pass through the vertex v, from the table s to the table t.         *)
(***************************************************************************)
\* An entry is as it was, or is the way through v.
OldOrThrough(s, t, v, i, j) ==
  \/ t[i][j] = s[i][j]
  \/ /\ s[i][v] # NoRoute /\ s[v][j] # NoRoute /\ t[i][j] # NoRoute
     /\ t[i][j].weight = s[i][v].weight + s[v][j].weight

NotLonger(s, t, i, j) == s[i][j] # NoRoute => Within(t, i, j, s[i][j].weight)

\* The entry has been looked at.
Relaxed(s, t, v, i, j) ==
  s[i][v] # NoRoute /\ s[v][j] # NoRoute => Within(t, i, j, s[i][v].weight + s[v][j].weight)

Pass(s, t, v) ==
  \A i, j \in Vertex : OldOrThrough(s, t, v, i, j) /\ NotLonger(s, t, i, j)

(***************************************************************************)
(* The inductive invariant.  While the first loop runs, the rows below     *)
(* vertex know their edges.  While the second one runs, the table in which *)
(* the pass started is closed under the vertices before; the entries that  *)
(* the pass has reached are relaxed, and no entry of the row or the column *)
(* of vertex_through has changed its weight, which is why the table can be *)
(* overwritten while it is read.                                           *)
(***************************************************************************)
RowKnows(v, rest) ==
  /\ v \in Sources
  /\ routes[v][v] # NoRoute /\ routes[v][v].weight = 0
  /\ \A e \in IncidentEdges(v) \ rest : EdgeIsIn(routes, e)

Reached(i, j) == i < from \/ (i = from /\ j < to)

InitializeInv ==
  /\ vertex \in 0 .. VertexCount
  /\ \A v \in Vertex : v < vertex => RowKnows(v, {})
  /\ step = "edges" => /\ vertex \in Vertex
                       /\ pending \subseteq IncidentEdges(vertex)
                       /\ RowKnows(vertex, pending)

RelaxInv ==
  /\ vertex \in Vertex /\ from \in Vertex /\ to \in Vertex
  /\ StaysForNothing(started)
  /\ \A k \in Vertex : k < vertex => Closed(started, k)
  /\ Pass(started, routes, vertex)
  /\ \A i, j \in Vertex : Reached(i, j) => Relaxed(started, routes, vertex, i, j)
  /\ \A e \in DOMAIN edges : EdgeIsIn(routes, e)

RouterInv ==
  /\ IsGraph
  /\ routes \in Table /\ started \in Table
  /\ step \in {"initialize", "edges", "relax", "ready"} \cup Failure
  /\ vertex \in 0 .. VertexCount
  /\ pending \subseteq DOMAIN edges
  /\ from \in Nat /\ to \in Nat
  /\ VertexCount > 0 => from \in Vertex /\ to \in Vertex
  /\ step \in {"initialize", "edges"} => InitializeInv /\ from = 0 /\ to = 0
  /\ step = "relax" => RelaxInv
  /\ step = "ready" => /\ StaysForNothing(routes)
                       /\ \A k \in Vertex : Closed(routes, k)
                       /\ \A e \in DOMAIN edges : EdgeIsIn(routes, e)

(***************************************************************************)
(* Lemmas.                                                                 *)
(***************************************************************************)
LEMMA EdgeFacts ==
  ASSUME IsGraph
  PROVE  /\ IsFiniteSet(Sources) /\ VertexCount \in Nat
         /\ \A e \in DOMAIN edges :
              /\ edges[e].from \in Nat /\ edges[e].to \in Nat /\ edges[e].weight \in Int
              /\ e \in Nat /\ e # NoEdge
<1>0. PICK n \in Nat :
        /\ DOMAIN edges = 1 .. n
        /\ \A e \in 1 .. n : edges[e].from \in Nat /\ edges[e].to \in Nat /\ edges[e].weight \in Int
  BY DEF IsGraph
<1>1. IsFiniteSet(DOMAIN edges)
  BY <1>0, FS_Interval
<1>2. IsFiniteSet(Sources)
  <2> DEFINE f == [e \in DOMAIN edges |-> edges[e].from]
  <2>1. f \in Surjection(DOMAIN edges, Sources)
    BY DEF Sources, Surjection
  <2> QED BY <2>1, <1>1, FS_Surjection
<1>3. VertexCount \in Nat
  BY <1>2, FS_CardinalityType DEF VertexCount
<1>4. \A e \in DOMAIN edges : e \in Nat /\ e # NoEdge
  BY <1>0 DEF NoEdge
<1> QED BY <1>0, <1>2, <1>3, <1>4

\* When each vertex has an edge that leaves it, no other vertex has one.
LEMMA SourcesAreVertices ==
  ASSUME IsGraph, Vertex \subseteq Sources
  PROVE  Sources = Vertex
<1>1. IsFiniteSet(Sources) /\ VertexCount \in Nat
  BY EdgeFacts
<1>2. Cardinality(Vertex) = VertexCount
  <2>1. CASE VertexCount = 0
    BY <2>1, FS_EmptySet DEF Vertex
  <2>2. CASE VertexCount > 0
    <3>1. VertexCount - 1 \in Int /\ 0 <= VertexCount - 1
      BY <1>1, <2>2
    <3>2. Cardinality(0 .. VertexCount - 1) = (VertexCount - 1) - 0 + 1
      BY <3>1, <1>1, <2>2, FS_Interval
    <3> QED BY <3>2, <1>1 DEF Vertex
  <2> QED BY <2>1, <2>2, <1>1
<1> QED BY <1>1, <1>2, FS_Subset DEF VertexCount

\* The arithmetic of a pass: a table that was closed under the vertices before
\* v is closed under these and v once every entry has been looked at.
LEMMA PassCloses ==
  ASSUME NEW s \in Table, NEW t \in Table, NEW v \in Vertex, NEW k \in Vertex,
         StaysForNothing(s), Pass(s, t, v), k = v \/ Closed(s, k),
         \A i, j \in Vertex : Relaxed(s, t, v, i, j)
  PROVE  Closed(t, k)
<1> SUFFICES ASSUME NEW i \in Vertex, NEW j \in Vertex,
                    t[i][k] # NoRoute, t[k][j] # NoRoute
             PROVE  Within(t, i, j, t[i][k].weight + t[k][j].weight)
  BY DEF Closed
<1>1. \A a, b \in Vertex : /\ s[a][b] # NoRoute => s[a][b].weight \in Nat
                           /\ t[a][b] # NoRoute => t[a][b].weight \in Nat
  BY DEF Table, Route
<1>2. OldOrThrough(s, t, v, i, k) /\ OldOrThrough(s, t, v, k, j)
  BY DEF Pass
<1>3. Relaxed(s, t, v, i, j) /\ NotLonger(s, t, i, j)
  BY DEF Pass
<1>4. s[v][v] # NoRoute /\ s[v][v].weight = 0
  BY DEF StaysForNothing
<1>5. CASE k = v
  <2>1. s[i][v] # NoRoute /\ t[i][v].weight = s[i][v].weight
    <3>1. CASE t[i][v] = s[i][v]
      BY <3>1, <1>5
    <3>2. CASE s[i][v] # NoRoute /\ t[i][v].weight = s[i][v].weight + s[v][v].weight
      <4>1. s[i][v].weight \in Nat
        BY <3>2, <1>1
      <4> QED BY <4>1, <3>2, <1>4
    <3> QED BY <3>1, <3>2, <1>2, <1>5 DEF OldOrThrough
  <2>2. s[v][j] # NoRoute /\ t[v][j].weight = s[v][j].weight
    <3>1. CASE t[v][j] = s[v][j]
      BY <3>1, <1>5
    <3>2. CASE s[v][j] # NoRoute /\ t[v][j].weight = s[v][v].weight + s[v][j].weight
      <4>1. s[v][j].weight \in Nat
        BY <3>2, <1>1
      <4> QED BY <4>1, <3>2, <1>4
    <3> QED BY <3>1, <3>2, <1>2, <1>5 DEF OldOrThrough
  <2> QED BY <2>1, <2>2, <1>3, <1>5 DEF Relaxed
<1>6. CASE Closed(s, k)
  <2>1. \A a, b \in Vertex : s[a][k] # NoRoute /\ s[k][b] # NoRoute =>
          s[a][b] # NoRoute /\ s[a][b].weight <= s[a][k].weight + s[k][b].weight
    BY <1>6 DEF Closed, Within
  <2>2. CASE t[i][k] = s[i][k] /\ t[k][j] = s[k][j]
    BY <2>1, <2>2, <1>1, <1>3 DEF NotLonger, Within
  <2>3. CASE /\ s[i][v] # NoRoute /\ s[v][k] # NoRoute
             /\ t[i][k].weight = s[i][v].weight + s[v][k].weight
             /\ t[k][j] = s[k][j]
    <3>1. s[v][j] # NoRoute /\ s[v][j].weight <= s[v][k].weight + s[k][j].weight
      BY <2>1, <2>3
    <3>2. t[i][j] # NoRoute /\ t[i][j].weight <= s[i][v].weight + s[v][j].weight
      BY <3>1, <2>3, <1>3 DEF Relaxed, Within
    <3> QED BY <3>1, <3>2, <2>3, <1>1 DEF Within
  <2>4. CASE /\ s[k][v] # NoRoute /\ s[v][j] # NoRoute
             /\ t[k][j].weight = s[k][v].weight + s[v][j].weight
             /\ t[i][k] = s[i][k]
    <3>1. s[i][v] # NoRoute /\ s[i][v].weight <= s[i][k].weight + s[k][v].weight
      BY <2>1, <2>4
    <3>2. t[i][j] # NoRoute /\ t[i][j].weight <= s[i][v].weight + s[v][j].weight
      BY <3>1, <2>4, <1>3 DEF Relaxed, Within
    <3> QED BY <3>1, <3>2, <2>4, <1>1 DEF Within
  <2>5. CASE /\ s[i][v] # NoRoute /\ s[v][k] # NoRoute
             /\ t[i][k].weight = s[i][v].weight + s[v][k].weight
             /\ s[k][v] # NoRoute /\ s[v][j] # NoRoute
             /\ t[k][j].weight = s[k][v].weight + s[v][j].weight
    <3>1. t[i][j] # NoRoute /\ t[i][j].weight <= s[i][v].weight + s[v][j].weight
      BY <2>5, <1>3 DEF Relaxed, Within
    <3> QED BY <3>1, <2>5, <1>1 DEF Within
  <2> QED BY <1>2, <2>2, <2>3, <2>4, <2>5 DEF OldOrThrough
<1> QED BY <1>5, <1>6

(***************************************************************************)
(* The steps.                                                              *)
(***************************************************************************)
\* No step changes the graph, so the vertices stay what they are.
LEMMA GraphStays ==
  ASSUME edges' = edges
  PROVE  /\ Sources' = Sources /\ VertexCount' = VertexCount /\ Vertex' = Vertex
         /\ Table' = Table /\ (IsGraph => IsGraph')
         /\ \A v : IncidentEdges(v)' = IncidentEdges(v)
BY DEF Sources, VertexCount, Vertex, Table, IncidentEdges, IsGraph

LEMMA InitIsGraph == ASSUME edges \in Seq(Edge) PROVE IsGraph
<1>1. DOMAIN edges = 1 .. Len(edges) /\ Len(edges) \in Nat /\ \A e \in 1 .. Len(edges) : edges[e] \in Edge
  OBVIOUS
<1> QED BY <1>1, RouterAssumption DEF IsGraph

LEMMA InitKeeps == IsGraph /\ Constructing => RouterInv
<1> SUFFICES ASSUME IsGraph, Constructing PROVE RouterInv
  OBVIOUS
<1>1. VertexCount \in Nat
  BY EdgeFacts
<1>2. routes \in Table /\ started \in Table
  BY DEF Constructing, Table
<1>3. InitializeInv
  BY <1>1 DEF Constructing, InitializeInv, Vertex
<1>4. VertexCount > 0 => 0 \in Vertex
  BY <1>1 DEF Vertex
<1> QED BY <1>1, <1>2, <1>3, <1>4 DEF Constructing, RouterInv

LEMMA StopKeeps ==
  ASSUME RouterInv, NEW f \in Failure, Stop(f)
  PROVE  RouterInv'
<1>1. edges' = edges
  BY DEF Stop
<1> QED BY <1>1, GraphStays DEF RouterInv, Stop, Failure

LEMMA InitializeVertexKeeps ==
  ASSUME RouterInv, InitializeVertex
  PROVE  RouterInv'
<1>0. IsGraph /\ VertexCount \in Nat /\ InitializeInv /\ step = "initialize"
  BY EdgeFacts DEF RouterInv, InitializeVertex
<1>1. CASE IncidentEdges(vertex) = {}
  BY <1>1, StopKeeps DEF InitializeVertex, Failure
<1>2. CASE IncidentEdges(vertex) # {}
  <2> DEFINE here == [weight |-> 0, prev_edge |-> NoEdge]
  <2>1. /\ edges' = edges /\ vertex' = vertex /\ from' = from /\ to' = to
        /\ started' = started /\ step' = "edges" /\ pending' = IncidentEdges(vertex)
        /\ routes' = [routes EXCEPT ![vertex][vertex] = here]
        /\ vertex \in Vertex
    BY <1>2 DEF InitializeVertex
  <2>2. here \in Route
    BY DEF Route, NoEdge
  <2>3. routes' \in Table
    BY <2>1, <2>2 DEF RouterInv, Table
  <2>4. routes'[vertex][vertex] = here /\ here # NoRoute
    BY <2>1, <2>2, RouterAssumption DEF RouterInv, Table
  <2>5. \A v, w \in Vertex : v # vertex => routes'[v][w] = routes[v][w]
    BY <2>1 DEF RouterInv, Table
  <2>6. vertex \in Sources
    BY <1>2 DEF IncidentEdges, Sources
  <2>7. RowKnows(vertex, pending)'
    BY <2>1, <2>4, <2>6, GraphStays DEF RowKnows
  <2>8. ASSUME NEW v \in Vertex, v < vertex PROVE RowKnows(v, {})'
    <3>1. RowKnows(v, {}) /\ v # vertex
      BY <1>0, <2>8, <2>1 DEF InitializeInv, Vertex
    <3>2. \A e \in IncidentEdges(v) : edges[e].from = v
      BY DEF IncidentEdges
    <3>3. \A e \in IncidentEdges(v) : EdgeIsIn(routes, e)'
      BY <3>1, <3>2, <2>1, <2>5, GraphStays DEF RowKnows, EdgeIsIn, Within
    <3> QED BY <3>1, <3>3, <2>1, <2>5, GraphStays DEF RowKnows
  <2>9. InitializeInv'
    BY <2>1, <2>7, <2>8, <1>0, GraphStays DEF InitializeInv
  <2>10. pending' \subseteq DOMAIN edges
    BY <2>1 DEF IncidentEdges
  <2>11. from' = 0 /\ to' = 0
    BY <1>0, <2>1 DEF RouterInv
  <2> QED BY <2>1, <2>3, <2>9, <2>10, <2>11, <1>0, GraphStays DEF RouterInv
<1> QED BY <1>1, <1>2

\* The entry of an edge gets no worse, the others stay.
LEMMA InitializeEdgeKeeps ==
  ASSUME RouterInv, NEW e \in pending, InitializeEdge(e)
  PROVE  RouterInv'
<1>0. /\ IsGraph /\ VertexCount \in Nat /\ InitializeInv /\ step = "edges"
      /\ from = 0 /\ to = 0
  BY EdgeFacts DEF RouterInv, InitializeEdge
<1>1. CASE \E f \in Failure : Stop(f)
  BY <1>1, StopKeeps
<1>2. CASE /\ edges[e].weight >= 0 /\ edges[e].to \in Vertex
           /\ UNCHANGED <<edges, from, to, started>>
           /\ pending' = pending \ {e}
           /\ IF pending' = {}
              THEN step' = "initialize" /\ vertex' = vertex + 1
              ELSE UNCHANGED <<step, vertex>>
           /\ routes' = IF IsCheaper(e)
                        THEN [routes EXCEPT ![vertex][edges[e].to] =
                                [weight |-> edges[e].weight, prev_edge |-> e]]
                        ELSE routes
  <2> DEFINE here == [weight |-> edges[e].weight, prev_edge |-> e]
             w == edges[e].to
  <2>1. /\ vertex \in Vertex /\ pending \subseteq IncidentEdges(vertex)
        /\ RowKnows(vertex, pending) /\ w \in Vertex
    BY <1>0, <1>2 DEF InitializeInv
  <2>2. e \in DOMAIN edges /\ edges[e].from = vertex /\ edges[e].weight \in Nat /\ e \in Nat
    BY <2>1, <1>0, <1>2, EdgeFacts DEF IncidentEdges
  <2>3. here \in Route /\ here # NoRoute
    BY <2>2, RouterAssumption DEF Route
  <2>4. routes' \in Table
    BY <1>2, <2>1, <2>3 DEF RouterInv, Table
  <2>5. \A a, b \in Vertex : ~(a = vertex /\ b = w) => routes'[a][b] = routes[a][b]
    BY <1>2, <2>1 DEF RouterInv, Table
  <2>6. routes'[vertex][w] = IF IsCheaper(e) THEN here ELSE routes[vertex][w]
    BY <1>2, <2>1 DEF RouterInv, Table
  <2>7. \A b \in Vertex : routes[vertex][b] # NoRoute => routes[vertex][b].weight \in Nat
    BY <2>1 DEF RouterInv, Table, Route
  <2>8. Within(routes', vertex, w, edges[e].weight)
    <3>1. CASE IsCheaper(e)
      BY <3>1, <2>6, <2>3, <2>2 DEF Within
    <3>2. CASE ~IsCheaper(e)
      BY <3>2, <2>6, <2>2, <2>7, <2>1 DEF Within, IsCheaper
    <3> QED BY <3>1, <3>2
  <2>9. \A b \in Vertex : routes[vertex][b] # NoRoute =>
          Within(routes', vertex, b, routes[vertex][b].weight)
    <3>1. ASSUME routes[vertex][w] # NoRoute
          PROVE  Within(routes', vertex, w, routes[vertex][w].weight)
      <4>1. CASE IsCheaper(e)
        BY <4>1, <3>1, <2>6, <2>3, <2>2, <2>7, <2>1 DEF Within, IsCheaper
      <4>2. CASE ~IsCheaper(e)
        BY <4>2, <3>1, <2>6, <2>7, <2>1 DEF Within
      <4> QED BY <4>1, <4>2
    <3>2. ASSUME NEW b \in Vertex, b # w, routes[vertex][b] # NoRoute
          PROVE  Within(routes', vertex, b, routes[vertex][b].weight)
      BY <3>2, <2>1, <2>5, <2>7 DEF Within
    <3> QED BY <3>1, <3>2
  <2>10. routes'[vertex][vertex] # NoRoute /\ routes'[vertex][vertex].weight = 0
    <3>1. routes[vertex][vertex] # NoRoute /\ routes[vertex][vertex].weight = 0
      BY <2>1 DEF RowKnows
    <3>2. CASE w = vertex
      BY <3>1, <3>2, <2>2, <2>6 DEF IsCheaper
    <3>3. CASE w # vertex
      BY <3>1, <3>3, <2>1, <2>5
    <3> QED BY <3>2, <3>3
  <2>11. \A f \in IncidentEdges(vertex) \ pending' : EdgeIsIn(routes, f)'
    <3>1. EdgeIsIn(routes, e)'
      BY <2>8, <2>1, <2>2, <1>2, GraphStays DEF EdgeIsIn
    <3>2. ASSUME NEW f \in IncidentEdges(vertex) \ pending PROVE EdgeIsIn(routes, f)'
      <4>1. EdgeIsIn(routes, f) /\ edges[f].from = vertex
        BY <2>1 DEF RowKnows, IncidentEdges
      <4>2. edges[f].weight \in Int
        BY <1>0, EdgeFacts DEF IncidentEdges
      <4>3. Within(routes', vertex, edges[f].to, routes[vertex][edges[f].to].weight)
        BY <4>1, <2>9 DEF EdgeIsIn, Within
      <4>4. /\ routes[vertex][edges[f].to].weight \in Nat
            /\ routes'[vertex][edges[f].to].weight \in Nat
        BY <4>1, <4>3, <2>1, <2>4, <2>7 DEF EdgeIsIn, Within, Table, Route
      <4>5. Within(routes', vertex, edges[f].to, edges[f].weight)
        BY <4>1, <4>2, <4>3, <4>4 DEF EdgeIsIn, Within
      <4> QED BY <4>1, <4>5, <1>2, GraphStays DEF EdgeIsIn
    <3> QED BY <3>1, <3>2, <1>2
  <2>12. ASSUME NEW v \in Vertex, v < vertex PROVE RowKnows(v, {})'
    <3>1. RowKnows(v, {}) /\ v # vertex
      BY <1>0, <2>12, <2>1 DEF InitializeInv, Vertex
    <3>2. \A f \in IncidentEdges(v) : edges[f].from = v
      BY DEF IncidentEdges
    <3>3. \A f \in IncidentEdges(v) : EdgeIsIn(routes, f)'
      BY <3>1, <3>2, <1>2, <2>5, GraphStays DEF RowKnows, EdgeIsIn, Within
    <3> QED BY <3>1, <3>3, <1>2, <2>5, GraphStays DEF RowKnows
  <2>13. vertex \in Sources
    BY <2>1 DEF RowKnows
  <2>14. InitializeInv'
    <3>1. CASE pending' = {}
      <4>1. step' = "initialize" /\ vertex' = vertex + 1
        BY <1>2, <3>1
      <4>2. ASSUME NEW v \in Vertex, v < vertex + 1 PROVE RowKnows(v, {})'
        <5>1. CASE v = vertex
          BY <5>1, <2>10, <2>11, <2>13, <3>1, <1>2, GraphStays DEF RowKnows
        <5>2. CASE v < vertex
          BY <5>2, <2>12
        <5> QED BY <5>1, <5>2, <4>2, <2>1, <1>0 DEF Vertex
      <4>3. vertex' \in 0 .. VertexCount
        BY <4>1, <2>1, <1>0 DEF Vertex
      <4> QED BY <4>1, <4>2, <4>3, <1>2, GraphStays DEF InitializeInv
    <3>2. CASE pending' # {}
      <4>1. step' = step /\ vertex' = vertex
        BY <1>2, <3>2
      <4>2. RowKnows(vertex, pending)'
        BY <4>1, <2>10, <2>11, <2>13, <1>2, GraphStays DEF RowKnows
      <4> QED BY <4>1, <4>2, <2>1, <2>12, <1>0, <1>2, GraphStays DEF InitializeInv
    <3> QED BY <3>1, <3>2
  <2>15. step' \in {"initialize", "edges"}
    BY <1>0, <1>2
  <2> QED BY <1>0, <1>2, <2>4, <2>14, <2>15, GraphStays DEF RouterInv, InitializeInv
<1> QED BY <1>1, <1>2 DEF InitializeEdge, Failure

LEMMA EndOfInitializeKeeps ==
  ASSUME RouterInv, EndOfInitialize
  PROVE  RouterInv'
<1>0. IsGraph /\ VertexCount \in Nat /\ InitializeInv /\ from = 0 /\ to = 0
  BY EdgeFacts DEF RouterInv, EndOfInitialize
<1>1. /\ edges' = edges /\ routes' = routes /\ pending' = pending /\ from' = from /\ to' = to
      /\ vertex' = 0 /\ started' = routes /\ vertex = VertexCount
      /\ step' = IF VertexCount = 0 THEN "ready" ELSE "relax"
  BY DEF EndOfInitialize
<1>2. \A v \in Vertex : RowKnows(v, {})
  BY <1>0, <1>1 DEF InitializeInv, Vertex
<1>3. Sources = Vertex
  BY <1>0, <1>2, SourcesAreVertices DEF RowKnows
<1>4. \A e \in DOMAIN edges : EdgeIsIn(routes, e)
  BY <1>2, <1>3 DEF RowKnows, Sources, IncidentEdges
<1>5. StaysForNothing(routes)
  BY <1>2 DEF RowKnows, StaysForNothing
<1>6. (\A e \in DOMAIN edges : EdgeIsIn(routes, e))' /\ StaysForNothing(routes)'
  BY <1>1, <1>4, <1>5, GraphStays DEF EdgeIsIn, StaysForNothing
<1>7. CASE VertexCount = 0
  <2>1. Vertex = {}
    BY <1>7 DEF Vertex
  <2>2. (\A k \in Vertex : Closed(routes, k))'
    BY <2>1, <1>1, GraphStays
  <2> QED BY <1>0, <1>1, <1>6, <1>7, <2>2, GraphStays DEF RouterInv
<1>8. CASE VertexCount > 0
  <2>1. 0 \in Vertex /\ \A i \in Vertex : i \in Nat
    BY <1>0, <1>8 DEF Vertex
  <2>2. Pass(started, routes, vertex)'
    <3>1. \A i, j \in Vertex : routes[i][j] # NoRoute => routes[i][j].weight \in Nat
      BY DEF RouterInv, Table, Route
    <3> QED BY <3>1, <1>1, GraphStays DEF Pass, OldOrThrough, NotLonger, Within
  <2>3. \A i, j \in Vertex : ~Reached(i, j)'
    BY <2>1, <1>0, <1>1 DEF Reached
  <2>4. \A k \in Vertex : ~(k < vertex')
    BY <2>1, <1>1
  <2>5. RelaxInv'
    BY <2>1, <2>2, <2>3, <2>4, <1>0, <1>1, <1>6, GraphStays DEF RelaxInv, StaysForNothing
  <2> QED BY <2>5, <2>1, <1>0, <1>1, <1>8, GraphStays DEF RouterInv
<1> QED BY <1>0, <1>7, <1>8

\* What the body of the three loops does to the entry it looks at, and to what
\* is known of the table, before the loops go on.
LEMMA RelaxEntryKeeps ==
  ASSUME RouterInv, Relax
  PROVE  /\ routes' \in Table
         /\ Pass(started, routes', vertex)
         /\ \A i, j \in Vertex : Reached(i, j) \/ (i = from /\ j = to) =>
              Relaxed(started, routes', vertex, i, j)
         /\ \A e \in DOMAIN edges : EdgeIsIn(routes', e)
<1> DEFINE s == started
           t == routes
           v == vertex
           way == Through(from, v, to)
           taken == /\ t[from][v] # NoRoute /\ t[v][to] # NoRoute
                    /\ t[from][to] = NoRoute \/ way.weight < t[from][to].weight
<1>0. /\ IsGraph /\ t \in Table /\ s \in Table /\ RelaxInv
      /\ v \in Vertex /\ from \in Vertex /\ to \in Vertex
  BY DEF RouterInv, Relax, RelaxInv
<1>1. \A a, b \in Vertex : /\ s[a][b] # NoRoute => s[a][b].weight \in Nat
                           /\ t[a][b] # NoRoute => t[a][b].weight \in Nat /\ t[a][b].prev_edge \in Nat
  BY <1>0 DEF Table, Route
<1>2. s[v][v] # NoRoute /\ s[v][v].weight = 0
  BY <1>0 DEF RelaxInv, StaysForNothing
<1>3. ASSUME NEW i \in Vertex, t[i][v] # NoRoute
      PROVE  s[i][v] # NoRoute /\ t[i][v].weight = s[i][v].weight
  <2>1. CASE t[i][v] = s[i][v]
    BY <2>1, <1>3
  <2>2. CASE s[i][v] # NoRoute /\ t[i][v].weight = s[i][v].weight + s[v][v].weight
    <3>1. s[i][v].weight \in Nat
      BY <2>2, <1>1, <1>0
    <3> QED BY <3>1, <2>2, <1>2
  <2> QED BY <2>1, <2>2, <1>0 DEF RelaxInv, Pass, OldOrThrough
<1>4. ASSUME NEW j \in Vertex, t[v][j] # NoRoute
      PROVE  s[v][j] # NoRoute /\ t[v][j].weight = s[v][j].weight
  <2>1. CASE t[v][j] = s[v][j]
    BY <2>1, <1>4
  <2>2. CASE s[v][j] # NoRoute /\ t[v][j].weight = s[v][v].weight + s[v][j].weight
    <3>1. s[v][j].weight \in Nat
      BY <2>2, <1>1, <1>0
    <3> QED BY <3>1, <2>2, <1>2
  <2> QED BY <2>1, <2>2, <1>0 DEF RelaxInv, Pass, OldOrThrough
<1>5. \A a, b \in Vertex : NotLonger(s, t, a, b)
  BY <1>0 DEF RelaxInv, Pass
<1>6. routes' = IF taken THEN [t EXCEPT ![from][to] = way] ELSE t
  BY DEF Relax, RelaxRoute
<1>7. taken => /\ way \in Route /\ way # NoRoute
               /\ way.weight = s[from][v].weight + s[v][to].weight
               /\ s[from][v] # NoRoute /\ s[v][to] # NoRoute
  <2> SUFFICES ASSUME taken
               PROVE  /\ way \in Route /\ way # NoRoute
                      /\ way.weight = s[from][v].weight + s[v][to].weight
                      /\ s[from][v] # NoRoute /\ s[v][to] # NoRoute
    OBVIOUS
  <2>1. way.weight = t[from][v].weight + t[v][to].weight /\ way.prev_edge \in Nat
    BY <1>0, <1>1 DEF Through
  <2>2. way.weight \in Nat
    BY <2>1, <1>0, <1>1
  <2>3. way \in Route
    BY <2>1, <2>2 DEF Through, Route
  <2> QED BY <2>1, <2>3, <1>0, <1>3, <1>4, RouterAssumption
<1>8. /\ routes' \in Table
      /\ \A a, b \in Vertex : ~(a = from /\ b = to) => routes'[a][b] = t[a][b]
      /\ routes'[from][to] = IF taken THEN way ELSE t[from][to]
  <2>1. CASE taken
    <3> HIDE DEF way, taken
    <3> QED BY <2>1, <1>0, <1>6, <1>7 DEF Table
  <2>2. CASE ~taken
    <3> HIDE DEF way, taken
    <3> QED BY <2>2, <1>0, <1>6
  <2> QED BY <2>1, <2>2
\* Every weight that is there stays or gets smaller.
<1>9. ASSUME NEW a \in Vertex, NEW b \in Vertex, t[a][b] # NoRoute
      PROVE  Within(routes', a, b, t[a][b].weight)
  <2>1. t[a][b].weight \in Nat
    BY <1>9, <1>1
  <2>2. CASE taken /\ a = from /\ b = to
    BY <2>1, <2>2, <1>7, <1>8, <1>9 DEF Within, Route
  <2>3. CASE ~(taken /\ a = from /\ b = to)
    BY <2>1, <2>3, <1>8, <1>9 DEF Within
  <2> QED BY <2>2, <2>3
<1>10. ASSUME NEW a \in Vertex, NEW b \in Vertex, NEW w \in Int, Within(t, a, b, w)
       PROVE  Within(routes', a, b, w)
  <2>1. t[a][b] # NoRoute /\ t[a][b].weight <= w
    BY <1>10 DEF Within
  <2>2. Within(routes', a, b, t[a][b].weight)
    BY <2>1, <1>9
  <2>3. routes'[a][b].weight \in Nat /\ t[a][b].weight \in Nat
    BY <2>1, <2>2, <1>1, <1>8 DEF Within, Table, Route
  <2> QED BY <2>1, <2>2, <2>3 DEF Within
<1>11. Pass(started, routes', vertex)
  <2> SUFFICES ASSUME NEW a \in Vertex, NEW b \in Vertex
               PROVE  OldOrThrough(s, routes', v, a, b) /\ NotLonger(s, routes', a, b)
    BY DEF Pass
  <2>1. NotLonger(s, routes', a, b)
    BY <1>1, <1>5, <1>10 DEF NotLonger
  <2>2. OldOrThrough(s, t, v, a, b)
    BY <1>0 DEF RelaxInv, Pass
  <2>3. CASE taken /\ a = from /\ b = to
    <3>1. routes'[a][b] = way
      BY <2>3, <1>8
    <3>2. way # NoRoute /\ way.weight = s[a][v].weight + s[v][b].weight
      BY <2>3, <1>7
    <3>3. OldOrThrough(s, routes', v, a, b)
      BY <3>1, <3>2, <2>3, <1>7 DEF OldOrThrough
    <3> QED BY <3>3, <2>1
  <2>4. CASE ~(taken /\ a = from /\ b = to)
    <3>1. routes'[a][b] = t[a][b]
      BY <2>4, <1>8
    <3> QED BY <3>1, <2>1, <2>2 DEF OldOrThrough
  <2> QED BY <2>1, <2>3, <2>4
<1>12. ASSUME NEW i \in Vertex, NEW j \in Vertex, Reached(i, j)
       PROVE  Relaxed(s, routes', v, i, j)
  <2>1. Relaxed(s, t, v, i, j)
    BY <1>0, <1>12 DEF RelaxInv
  <2> SUFFICES ASSUME s[i][v] # NoRoute, s[v][j] # NoRoute
               PROVE  Within(routes', i, j, s[i][v].weight + s[v][j].weight)
    BY DEF Relaxed
  <2>2. s[i][v].weight + s[v][j].weight \in Int
    BY <1>0, <1>1
  <2> QED BY <2>1, <2>2, <1>10 DEF Relaxed
<1>13. Relaxed(s, routes', v, from, to)
  <2> SUFFICES ASSUME s[from][v] # NoRoute, s[v][to] # NoRoute
               PROVE  Within(routes', from, to, s[from][v].weight + s[v][to].weight)
    BY DEF Relaxed
  <2>1. t[from][v] # NoRoute /\ t[v][to] # NoRoute
    BY <1>0, <1>5 DEF NotLonger, Within
  <2>2. t[from][v].weight = s[from][v].weight /\ t[v][to].weight = s[v][to].weight
    BY <2>1, <1>0, <1>3, <1>4
  <2>3. s[from][v].weight \in Nat /\ s[v][to].weight \in Nat
    BY <1>0, <1>1
  <2>4. way.weight = s[from][v].weight + s[v][to].weight
    BY <2>2 DEF Through
  <2>5. CASE taken
    BY <2>3, <2>4, <2>5, <1>7, <1>8 DEF Within
  <2>6. CASE ~taken
    <3>1. t[from][to] # NoRoute /\ ~(way.weight < t[from][to].weight) /\ t[from][to].weight \in Nat
      BY <2>1, <2>6, <1>0, <1>1
    <3> HIDE DEF way, taken
    <3> QED BY <3>1, <2>3, <2>4, <2>6, <1>8 DEF Within
  <2> QED BY <2>5, <2>6
<1>14. \A e \in DOMAIN edges : EdgeIsIn(routes', e)
  <2> SUFFICES ASSUME NEW e \in DOMAIN edges
               PROVE  EdgeIsIn(routes', e)
    OBVIOUS
  <2>1. EdgeIsIn(t, e) /\ edges[e].weight \in Int
    BY <1>0, EdgeFacts DEF RelaxInv
  <2> QED BY <2>1, <1>10 DEF EdgeIsIn
<1> HIDE DEF s, t, v
<1> QED BY <1>8, <1>11, <1>12, <1>13, <1>14 DEF s, t, v

LEMMA RelaxKeeps ==
  ASSUME RouterInv, Relax
  PROVE  RouterInv'
<1> DEFINE last == VertexCount - 1
<1>0. /\ IsGraph /\ VertexCount \in Nat /\ RelaxInv /\ started \in Table
      /\ edges' = edges /\ pending' = pending /\ pending \subseteq DOMAIN edges
  BY EdgeFacts DEF RouterInv, Relax
<1>1. /\ vertex \in Nat /\ from \in Nat /\ to \in Nat
      /\ vertex <= last /\ from <= last /\ to <= last
      /\ last \in Nat /\ VertexCount > 0
      /\ \A v : v \in Vertex <=> v \in Nat /\ v <= last
  BY <1>0 DEF RelaxInv, Vertex
<1>2. Vertex' = Vertex /\ VertexCount' = VertexCount /\ Table' = Table
  BY <1>0, GraphStays
<1>3. /\ routes' \in Table
      /\ Pass(started, routes', vertex)
      /\ \A i, j \in Vertex : Reached(i, j) \/ (i = from /\ j = to) =>
           Relaxed(started, routes', vertex, i, j)
      /\ \A e \in DOMAIN edges : EdgeIsIn(routes', e)
  BY RelaxEntryKeeps
<1>4. Advance
  BY DEF Relax
\* The parts of the invariant that hold wherever the loops go on.
<1>5. /\ IsGraph' /\ routes' \in Table' /\ pending' \subseteq DOMAIN edges'
      /\ (\A e \in DOMAIN edges : EdgeIsIn(routes, e))'
  <2>1. IsGraph'
    BY <1>0, GraphStays
  <2> QED BY <2>1, <1>0, <1>2, <1>3 DEF EdgeIsIn, Within
<1>6. CASE ~(from = last /\ to = last)
  <2>1. /\ vertex' = vertex /\ step' = "relax" /\ started' = started
        /\ from' \in Vertex /\ to' \in Vertex
        /\ \A i, j \in Vertex : Reached(i, j)' => Reached(i, j) \/ (i = from /\ j = to)
    <3>1. CASE to < last
      <4>1. to' = to + 1 /\ from' = from /\ vertex' = vertex /\ step' = "relax" /\ started' = started
        BY <3>1, <1>1, <1>4 DEF Advance, Relax
      <4>2. \A i, j \in Vertex : Reached(i, j)' => Reached(i, j) \/ (i = from /\ j = to)
        BY <4>1, <1>1 DEF Reached
      <4> QED BY <4>1, <4>2, <3>1, <1>1
    <3>2. CASE to = last /\ from < last
      <4>1. to' = 0 /\ from' = from + 1 /\ vertex' = vertex /\ step' = "relax" /\ started' = started
        BY <3>2, <1>1, <1>4 DEF Advance, Relax
      <4>2. \A i, j \in Vertex : Reached(i, j)' => Reached(i, j) \/ (i = from /\ j = to)
        BY <4>1, <3>2, <1>1 DEF Reached
      <4> QED BY <4>1, <4>2, <3>2, <1>1
    <3> QED BY <3>1, <3>2, <1>1, <1>6
  <2>2. RelaxInv'
    <3>1. (StaysForNothing(started) /\ \A k \in Vertex : k < vertex => Closed(started, k))'
      BY <2>1, <1>0, <1>2 DEF RelaxInv, StaysForNothing, Closed, Within
    <3>2. Pass(started, routes, vertex)'
      BY <2>1, <1>2, <1>3 DEF Pass, OldOrThrough, NotLonger, Within
    <3>3. (\A i, j \in Vertex : Reached(i, j) => Relaxed(started, routes, vertex, i, j))'
      BY <2>1, <1>2, <1>3 DEF Relaxed, Within
    <3> QED BY <3>1, <3>2, <3>3, <2>1, <1>0, <1>2, <1>5 DEF RelaxInv
  <2> QED BY <2>1, <2>2, <1>0, <1>1, <1>2, <1>5 DEF RouterInv
<1>7. CASE from = last /\ to = last
  <2>1. \A i, j \in Vertex : Relaxed(started, routes', vertex, i, j)
    BY <1>3, <1>1, <1>7 DEF Reached
  <2>2. from' = 0 /\ to' = 0 /\ started' = routes'
    BY <1>1, <1>4, <1>7 DEF Advance
  <2>3. \A k \in Vertex : k <= vertex => Closed(routes', k)
    <3> SUFFICES ASSUME NEW k \in Vertex, k <= vertex PROVE Closed(routes', k)
      OBVIOUS
    <3>1. k = vertex \/ Closed(started, k)
      BY <1>0, <1>1 DEF RelaxInv
    <3>2. StaysForNothing(started) /\ vertex \in Vertex
      BY <1>0 DEF RelaxInv
    <3> QED BY <3>1, <3>2, <2>1, <1>0, <1>3, PassCloses
  <2>4. StaysForNothing(routes')
    <3> SUFFICES ASSUME NEW v \in Vertex
                 PROVE  routes'[v][v] # NoRoute /\ routes'[v][v].weight = 0
      BY DEF StaysForNothing
    <3>1. started[v][v] # NoRoute /\ started[v][v].weight = 0
      BY <1>0 DEF RelaxInv, StaysForNothing
    <3>2. routes'[v][v] # NoRoute /\ routes'[v][v].weight <= 0
      BY <3>1, <1>3 DEF Pass, NotLonger, Within
    <3>3. routes'[v][v].weight \in Nat
      BY <3>2, <1>3 DEF Table, Route
    <3> QED BY <3>2, <3>3
  <2>5. CASE vertex < last
    <3>1. vertex' = vertex + 1 /\ step' = "relax"
      BY <2>5, <1>1, <1>4, <1>7 DEF Advance, Relax
    <3>2. vertex' \in Vertex /\ from' \in Vertex /\ to' \in Vertex
      BY <3>1, <2>2, <2>5, <1>1
    <3>3. (StaysForNothing(started) /\ \A k \in Vertex : k < vertex => Closed(started, k))'
      BY <3>1, <2>2, <2>3, <2>4, <1>1, <1>2 DEF StaysForNothing, Closed, Within
    <3>4. Pass(started, routes, vertex)'
      <4>1. \A i, j \in Vertex : routes'[i][j] # NoRoute => routes'[i][j].weight \in Nat
        BY <1>3 DEF Table, Route
      <4> QED BY <4>1, <2>2, <1>2 DEF Pass, OldOrThrough, NotLonger, Within
    <3>5. \A i, j \in Vertex : ~Reached(i, j)'
      BY <2>2, <1>1 DEF Reached
    <3>6. RelaxInv'
      BY <3>2, <3>3, <3>4, <3>5, <1>2, <1>5 DEF RelaxInv
    <3> QED BY <3>1, <3>2, <3>6, <2>2, <1>0, <1>1, <1>2, <1>5 DEF RouterInv
  <2>6. CASE vertex = last
    <3>1. vertex' = vertex /\ step' = "ready"
      BY <2>6, <1>1, <1>4, <1>7 DEF Advance
    <3>2. (StaysForNothing(routes) /\ \A k \in Vertex : Closed(routes, k))'
      BY <2>3, <2>4, <2>6, <1>1, <1>2 DEF StaysForNothing, Closed, Within
    <3> QED BY <3>1, <3>2, <2>2, <1>0, <1>1, <1>2, <1>5 DEF RouterInv
  <2> QED BY <2>5, <2>6, <1>1
<1> QED BY <1>6, <1>7

(***************************************************************************)
(* The edges of the routes.  The table holds the last edge of a route and  *)
(* not the others; they are those of the route to where that edge starts.  *)
(* For the other edges to be there, and to lead back to where the route    *)
(* starts and not in a circle of edges that weigh nothing, the last edge   *)
(* of an entry has to be kept with its weight, whatever order the entries  *)
(* are overwritten in.                                                     *)
(***************************************************************************)
Stay == [weight |-> 0, prev_edge |-> NoEdge]

\* Where the last edge of the route from i to j starts.
Before(t, i, j) == edges[t[i][j].prev_edge].from

IsLastEdge(t, i, j) ==
  LET e == t[i][j].prev_edge
  IN  /\ e \in DOMAIN edges /\ edges[e].to = j
      /\ edges[e].weight >= 0 /\ edges[e].from \in Vertex

\* The table of the first loop: each route is one edge, or stays.
Direct(t) ==
  \A i, j \in Vertex : t[i][j] # NoRoute =>
    /\ t[i][i] = Stay
    /\ i # j => /\ IsLastEdge(t, i, j) /\ Before(t, i, j) = i
                /\ edges[t[i][j].prev_edge].weight = t[i][j].weight

\* The route to where the last edge starts takes no longer than what is left.
LinkedAt(t, i, j) ==
  IF i = j THEN t[i][j] = Stay
  ELSE /\ IsLastEdge(t, i, j)
       /\ Within(t, i, Before(t, i, j), t[i][j].weight - edges[t[i][j].prev_edge].weight)

Linked(t) == \A i, j \in Vertex : t[i][j] # NoRoute => LinkedAt(t, i, j)

\* No vertices are each before the other: following the table from any of them
\* leads out of them.
IsRing(t, i, S) ==
  /\ S # {}
  /\ \A j \in S : j # i /\ t[i][j] # NoRoute /\ Before(t, i, j) \in S

Founded(t) == \A i \in Vertex, S \in SUBSET Vertex : ~IsRing(t, i, S)

WayThrough(s, v, i, j) ==
  [weight |-> s[i][v].weight + s[v][j].weight,
   prev_edge |-> IF s[v][j].prev_edge # NoEdge THEN s[v][j].prev_edge ELSE s[i][v].prev_edge]

\* An entry is as it was, or is the way through v, which was shorter.
OldOrShorter(s, t, v, i, j) ==
  \/ t[i][j] = s[i][j]
  \/ /\ s[i][v] # NoRoute /\ s[v][j] # NoRoute /\ t[i][j] = WayThrough(s, v, i, j)
     /\ s[i][j] = NoRoute \/ WayThrough(s, v, i, j).weight < s[i][j].weight

Rewritten(s, t, v) == \A i, j \in Vertex : OldOrShorter(s, t, v, i, j)

LinkInv ==
  /\ step \in {"initialize", "edges"} => Direct(routes)
  /\ step = "relax" => Linked(started) /\ Founded(started) /\ Rewritten(started, routes, vertex)
  /\ step = "ready" => Linked(routes) /\ Founded(routes)

\* There is a least number.
LEMMA LeastNatural ==
  ASSUME NEW Q, Q \subseteq Nat, Q # {}
  PROVE  \E n \in Q : \A d \in Q : n <= d
<1> DEFINE R == OpToRel(<, Nat)
<1>1. IsWellFoundedOn(R, Nat)
  BY NatLessThanWellFounded
<1>2. \A d, n \in Nat : d < n => <<d, n>> \in R
  BY DEF OpToRel
<1> HIDE DEF R
<1>3. PICK n \in Q : \A d \in Q : ~(<<d, n>> \in R)
  BY <1>1, WFMin
<1>4. \A d \in Q : ~(d < n)
  BY <1>2, <1>3
<1> QED BY <1>4

LEMMA WeightsOf ==
  ASSUME NEW s \in Table
  PROVE  \A a, b \in Vertex : s[a][b] # NoRoute => s[a][b].weight \in Nat /\ s[a][b].prev_edge \in Nat
BY DEF Table, Route

\* No pass changes the diagonal, or the row or the column of the vertex it goes
\* through.
LEMMA RowAndColumnStay ==
  ASSUME NEW s \in Table, NEW t, NEW v \in Vertex, Linked(s), StaysForNothing(s), Rewritten(s, t, v),
         NEW i \in Vertex
  PROVE  t[i][v] = s[i][v] /\ t[v][i] = s[v][i] /\ t[i][i] = Stay
<1>1. s[v][v] = Stay /\ s[i][i] = Stay
  BY DEF Linked, LinkedAt, StaysForNothing
<1>2. \A a, b \in Vertex : s[a][b] # NoRoute => s[a][b].weight \in Nat
  BY WeightsOf
<1>3. ASSUME NEW a \in Vertex, NEW b \in Vertex, t[a][b] # s[a][b]
      PROVE  /\ s[a][v] # NoRoute /\ s[v][b] # NoRoute
             /\ s[a][b] = NoRoute \/ s[a][v].weight + s[v][b].weight < s[a][b].weight
  BY <1>3 DEF Rewritten, OldOrShorter, WayThrough
<1>4. t[i][v] = s[i][v]
  BY <1>1, <1>2, <1>3 DEF Stay
<1>5. t[v][i] = s[v][i]
  BY <1>1, <1>2, <1>3 DEF Stay
<1>6. t[i][i] = s[i][i]
  <2>1. SUFFICES ASSUME t[i][i] # s[i][i] PROVE FALSE
    OBVIOUS
  <2>2. s[i][v].weight \in Nat /\ s[v][i].weight \in Nat
    BY <2>1, <1>2, <1>3
  <2>3. s[i][v].weight + s[v][i].weight < 0
    BY <2>1, <1>3, <1>1, StaysForNothing(s) DEF StaysForNothing
  <2> QED BY <2>2, <2>3
<1> QED BY <1>1, <1>4, <1>5, <1>6

\* An entry that a pass has changed: its last edge is that of the second part.
LEMMA ChangedEntry ==
  ASSUME IsGraph, NEW s \in Table, NEW t \in Table, NEW v \in Vertex,
         Linked(s), StaysForNothing(s), Rewritten(s, t, v),
         NEW i \in Vertex, NEW j \in Vertex, t[i][j] # s[i][j]
  PROVE  /\ i # v /\ j # v /\ i # j
         /\ s[i][v] # NoRoute /\ s[v][j] # NoRoute /\ t[i][j] # NoRoute
         /\ t[i][j].weight = s[i][v].weight + s[v][j].weight
         /\ t[i][j].prev_edge = s[v][j].prev_edge
         /\ s[i][j] # NoRoute => t[i][j].weight < s[i][j].weight
<1>1. /\ s[i][v] # NoRoute /\ s[v][j] # NoRoute /\ t[i][j] = WayThrough(s, v, i, j)
      /\ s[i][j] = NoRoute \/ WayThrough(s, v, i, j).weight < s[i][j].weight
  BY DEF Rewritten, OldOrShorter
<1>2. i # v /\ j # v /\ i # j
  <2>1. s[i][i] = Stay
    BY DEF Linked, LinkedAt, StaysForNothing
  <2> QED BY <2>1, RowAndColumnStay
<1>3. IsLastEdge(s, v, j)
  BY <1>1, <1>2 DEF Linked, LinkedAt
<1>4. s[v][j].prev_edge # NoEdge
  BY <1>3, EdgeFacts DEF IsLastEdge
<1>5. WayThrough(s, v, i, j) \in Route
  BY <1>1, WeightsOf DEF WayThrough, Route
<1>6. t[i][j] # NoRoute
  BY <1>1, <1>5, RouterAssumption
<1> QED BY <1>1, <1>2, <1>4, <1>6 DEF WayThrough

LEMMA PassLinks ==
  ASSUME IsGraph, NEW s \in Table, NEW t \in Table, NEW v \in Vertex,
         Linked(s), StaysForNothing(s), Rewritten(s, t, v), Pass(s, t, v),
         \A i, j \in Vertex : Relaxed(s, t, v, i, j)
  PROVE  Linked(t)
<1> SUFFICES ASSUME NEW i \in Vertex, NEW j \in Vertex, t[i][j] # NoRoute PROVE LinkedAt(t, i, j)
  BY DEF Linked
<1>1. \A e \in DOMAIN edges : edges[e].weight \in Int
  BY EdgeFacts
<1>2. \A a, b \in Vertex : /\ s[a][b] # NoRoute => s[a][b].weight \in Nat
                           /\ t[a][b] # NoRoute => t[a][b].weight \in Nat
  BY WeightsOf
<1>3. CASE i = j
  BY <1>3, RowAndColumnStay DEF LinkedAt
<1>4. CASE i # j /\ t[i][j] = s[i][j]
  <2> DEFINE e == s[i][j].prev_edge
             u == edges[e].from
  <2>1. IsLastEdge(s, i, j) /\ Within(s, i, u, s[i][j].weight - edges[e].weight)
    BY <1>4 DEF Linked, LinkedAt, Before
  <2>2. IsLastEdge(t, i, j) /\ Before(t, i, j) = u
    BY <2>1, <1>4 DEF IsLastEdge, Before
  <2>3. u \in Vertex /\ edges[e].weight \in Int
    BY <2>1, <1>1 DEF IsLastEdge
  <2>4. NotLonger(s, t, i, u)
    BY <2>3 DEF Pass
  <2>5. Within(t, i, u, t[i][j].weight - edges[e].weight)
    <3> HIDE DEF e, u
    <3> QED BY <2>1, <2>3, <2>4, <1>2, <1>4 DEF NotLonger, Within
  <2> QED BY <2>2, <2>5, <1>4 DEF LinkedAt
<1>5. CASE i # j /\ t[i][j] # s[i][j]
  <2> DEFINE e == s[v][j].prev_edge
             u == edges[e].from
  <2>1. /\ v # j /\ s[i][v] # NoRoute /\ s[v][j] # NoRoute
        /\ t[i][j].weight = s[i][v].weight + s[v][j].weight
        /\ t[i][j].prev_edge = e
    BY <1>5, ChangedEntry
  <2>2. IsLastEdge(s, v, j) /\ Within(s, v, u, s[v][j].weight - edges[e].weight)
    BY <2>1 DEF Linked, LinkedAt, Before
  <2>3. IsLastEdge(t, i, j) /\ Before(t, i, j) = u
    BY <2>1, <2>2 DEF IsLastEdge, Before
  <2>4. u \in Vertex /\ edges[e].weight \in Int
    BY <2>2, <1>1 DEF IsLastEdge
  <2>5. Relaxed(s, t, v, i, u)
    BY <2>4
  <2>6. Within(t, i, u, t[i][j].weight - edges[e].weight)
    <3> HIDE DEF e, u
    <3>1. Within(t, i, u, s[i][v].weight + s[v][u].weight)
      BY <2>1, <2>2, <2>5 DEF Relaxed, Within
    <3>2. s[v][u].weight <= s[v][j].weight - edges[e].weight /\ s[v][u].weight \in Nat
      BY <2>2, <2>4, <1>2 DEF Within
    <3>3. s[i][v].weight \in Nat /\ s[v][j].weight \in Nat
      BY <2>1, <1>2
    <3>4. t[i][u] # NoRoute /\ t[i][u].weight \in Nat
      BY <3>1, <2>4, <1>2 DEF Within
    <3> QED BY <3>1, <3>2, <3>3, <3>4, <2>1, <2>4 DEF Within
  <2> QED BY <1>5, <2>1, <2>3, <2>6 DEF LinkedAt
<1> QED BY <1>3, <1>4, <1>5

\* A ring would lie among the vertices that are nearest to where the routes
\* start.  Those among them whose entries the pass has changed would be a ring
\* of the row of v, and if one of them has not changed, the others that have not
\* would be one of the old row.
LEMMA PassFounds ==
  ASSUME IsGraph, NEW s \in Table, NEW t \in Table, NEW v \in Vertex,
         Linked(s), StaysForNothing(s), Rewritten(s, t, v), Linked(t), Founded(s)
  PROVE  Founded(t)
<1> SUFFICES ASSUME NEW i \in Vertex, NEW S \in SUBSET Vertex, IsRing(t, i, S) PROVE FALSE
  BY DEF Founded
<1>0. \A e \in DOMAIN edges : edges[e].weight \in Int
  BY EdgeFacts
<1>1. S # {} /\ \A j \in S : j \in Vertex /\ j # i /\ t[i][j] # NoRoute /\ Before(t, i, j) \in S
  BY DEF IsRing
<1>2. \A a, b \in Vertex : /\ s[a][b] # NoRoute => s[a][b].weight \in Nat
                           /\ t[a][b] # NoRoute => t[a][b].weight \in Nat
  BY WeightsOf
<1> DEFINE Weights == {t[i][j].weight : j \in S}
<1>3. PICK m \in Weights : \A d \in Weights : m <= d
  <2>1. Weights \subseteq Nat /\ Weights # {}
    BY <1>1, <1>2
  <2> HIDE DEF Weights
  <2> QED BY <2>1, LeastNatural
<1> DEFINE Nearest == {j \in S : t[i][j].weight = m}
<1>4. m \in Nat /\ Nearest # {} /\ \A j \in S : m <= t[i][j].weight
  BY <1>1, <1>2, <1>3
<1>5. ASSUME NEW j \in Nearest PROVE Before(t, i, j) \in Nearest
  <2>1. LinkedAt(t, i, j) /\ j \in S /\ j # i
    BY <1>1 DEF Linked
  <2>2. /\ IsLastEdge(t, i, j)
        /\ Within(t, i, Before(t, i, j), m - edges[t[i][j].prev_edge].weight)
    BY <2>1 DEF LinkedAt
  <2>3. edges[t[i][j].prev_edge].weight \in Nat
    BY <2>2, <1>0 DEF IsLastEdge
  <2>4. Before(t, i, j) \in S
    BY <2>1, <1>1
  <2>5. t[i][Before(t, i, j)].weight \in Nat
    BY <2>4, <1>1, <1>2
  <2>6. t[i][Before(t, i, j)].weight <= m
    BY <2>2, <2>3, <2>5, <1>4 DEF Within
  <2>7. t[i][Before(t, i, j)].weight = m
    BY <2>4, <2>5, <2>6, <1>4
  <2> QED BY <2>4, <2>7
<1> DEFINE Kept == {j \in Nearest : t[i][j] = s[i][j]}
<1>6. Nearest \subseteq S /\ \A j \in Nearest : t[i][j].weight = m
  OBVIOUS
<1> HIDE DEF Nearest
<1>7. CASE Kept # {}
  <2>1. ASSUME NEW j \in Kept PROVE j # i /\ s[i][j] # NoRoute /\ Before(s, i, j) \in Kept
    <3>1. j \in Nearest /\ j \in S /\ t[i][j] = s[i][j]
      BY <1>6
    <3>2. j \in Vertex /\ j # i /\ s[i][j] # NoRoute /\ s[i][j].weight = m
      BY <3>1, <1>1, <1>6
    <3> DEFINE p == Before(t, i, j)
    <3>3. p = Before(s, i, j) /\ p \in Nearest /\ p \in Vertex /\ t[i][p].weight = m
      BY <3>1, <1>1, <1>5, <1>6 DEF Before
    <3>4. IsLastEdge(s, i, j) /\ Within(s, i, p, m - edges[s[i][j].prev_edge].weight)
      BY <3>2, <3>3 DEF Linked, LinkedAt
    <3>5. edges[s[i][j].prev_edge].weight \in Nat
      BY <3>4, <1>0 DEF IsLastEdge
    <3>6. s[i][p] # NoRoute /\ s[i][p].weight \in Nat /\ s[i][p].weight <= m
      BY <3>3, <3>4, <3>5, <1>2, <1>4 DEF Within
    <3>7. t[i][p] = s[i][p]
      <4>1. SUFFICES ASSUME t[i][p] # s[i][p] PROVE FALSE
        OBVIOUS
      <4>2. t[i][p].weight < s[i][p].weight
        BY <4>1, <3>3, <3>6, ChangedEntry
      <4> HIDE DEF p
      <4> QED BY <4>2, <3>3, <3>6, <1>4
    <3> QED BY <3>2, <3>3, <3>7
  <2>2. IsRing(s, i, Kept)
    BY <2>1, <1>7 DEF IsRing
  <2>3. Kept \in SUBSET Vertex
    BY <1>1, <1>6
  <2> QED BY <2>2, <2>3 DEF Founded
<1>8. CASE Kept = {}
  <2>1. ASSUME NEW j \in Nearest PROVE j # v /\ s[v][j] # NoRoute /\ Before(s, v, j) \in Nearest
    <3>1. j \in Vertex /\ t[i][j] # s[i][j]
      BY <1>1, <1>6, <1>8
    <3>2. j # v /\ s[v][j] # NoRoute /\ t[i][j].prev_edge = s[v][j].prev_edge
      BY <3>1, ChangedEntry
    <3> QED BY <3>2, <1>5 DEF Before
  <2>2. IsRing(s, v, Nearest)
    BY <2>1, <1>4 DEF IsRing
  <2>3. Nearest \in SUBSET Vertex
    BY <1>1, <1>6
  <2> QED BY <2>2, <2>3 DEF Founded
<1> QED BY <1>7, <1>8

(***************************************************************************)
(* The steps.                                                              *)
(***************************************************************************)
\* Neither the invariant nor its parts speak of more than the graph, the tables,
\* the step and the vertex.
LEMMA LinksStay ==
  ASSUME edges' = edges
  PROVE  /\ (Direct(routes)' <=> Direct(routes'))
         /\ (Linked(routes)' <=> Linked(routes')) /\ (Linked(started)' <=> Linked(started'))
         /\ (Founded(routes)' <=> Founded(routes')) /\ (Founded(started)' <=> Founded(started'))
         /\ (Rewritten(started, routes, vertex)' <=> Rewritten(started', routes', vertex'))
<1>1. Vertex' = Vertex
  BY GraphStays
<1>2. Direct(routes)' <=> Direct(routes')
  BY <1>1 DEF Direct, IsLastEdge, Before, Stay
<1>3. (Linked(routes)' <=> Linked(routes')) /\ (Linked(started)' <=> Linked(started'))
  BY <1>1 DEF Linked, LinkedAt, IsLastEdge, Before, Stay, Within
<1>4. (Founded(routes)' <=> Founded(routes')) /\ (Founded(started)' <=> Founded(started'))
  BY <1>1 DEF Founded, IsRing, Before
<1>5. Rewritten(started, routes, vertex)' <=> Rewritten(started', routes', vertex')
  BY <1>1 DEF Rewritten, OldOrShorter, WayThrough
<1> QED BY <1>2, <1>3, <1>4, <1>5

\* At the start of a pass nothing is rewritten.
LEMMA NothingRewritten == ASSUME NEW t, NEW v PROVE Rewritten(t, t, v)
BY DEF Rewritten, OldOrShorter

LEMMA InitLinks == Constructing => LinkInv
BY DEF Constructing, LinkInv, Direct

LEMMA InitializeVertexLinks ==
  ASSUME RouterInv, LinkInv, InitializeVertex
  PROVE  LinkInv'
<1>1. edges' = edges /\ step = "initialize" /\ vertex \in Vertex
  BY DEF InitializeVertex, Stop
<1>2. CASE IncidentEdges(vertex) = {}
  BY <1>2 DEF InitializeVertex, Stop, LinkInv
<1>3. CASE IncidentEdges(vertex) # {}
  <2>1. routes' = [routes EXCEPT ![vertex][vertex] = Stay] /\ step' = "edges"
    BY <1>3 DEF InitializeVertex, Stay
  <2>2. Direct(routes)
    BY <1>1 DEF LinkInv
  <2>3. \A i, j \in Vertex : routes'[i][j] = IF i = vertex /\ j = vertex THEN Stay ELSE routes[i][j]
    BY <2>1, <1>1 DEF RouterInv, Table
  <2>4. Direct(routes')
    BY <2>2, <2>3 DEF Direct, IsLastEdge, Before
  <2> QED BY <2>1, <2>4, <1>1, LinksStay DEF LinkInv
<1> QED BY <1>2, <1>3

LEMMA InitializeEdgeLinks ==
  ASSUME RouterInv, LinkInv, NEW e \in pending, InitializeEdge(e)
  PROVE  LinkInv'
<1>0. edges' = edges /\ step = "edges" /\ Direct(routes)
  BY DEF InitializeEdge, Stop, LinkInv
<1>1. CASE \E f \in Failure : Stop(f)
  BY <1>1 DEF Stop, Failure, LinkInv
<1>2. CASE /\ edges[e].weight >= 0 /\ edges[e].to \in Vertex
           /\ pending' = pending \ {e}
           /\ IF pending' = {}
              THEN step' = "initialize" /\ vertex' = vertex + 1
              ELSE UNCHANGED <<step, vertex>>
           /\ routes' = IF IsCheaper(e)
                        THEN [routes EXCEPT ![vertex][edges[e].to] =
                                [weight |-> edges[e].weight, prev_edge |-> e]]
                        ELSE routes
  <2> DEFINE here == [weight |-> edges[e].weight, prev_edge |-> e]
             w == edges[e].to
  <2>1. /\ vertex \in Vertex /\ w \in Vertex /\ e \in DOMAIN edges /\ edges[e].from = vertex
        /\ routes[vertex][vertex] # NoRoute /\ edges[e].weight \in Int
    BY <1>0, <1>2, EdgeFacts DEF RouterInv, InitializeInv, RowKnows, IncidentEdges
  <2>2. routes[vertex][vertex] = Stay
    BY <2>1, <1>0 DEF Direct
  <2>3. CASE ~IsCheaper(e)
    BY <2>3, <1>0, <1>2, LinksStay DEF LinkInv
  <2>4. CASE IsCheaper(e)
    <3>1. w # vertex
      BY <2>1, <2>2, <2>4, <1>2, RouterAssumption DEF IsCheaper, Stay
    <3>2. \A i, j \in Vertex : routes'[i][j] = IF i = vertex /\ j = w THEN here ELSE routes[i][j]
      BY <2>1, <2>4, <1>2 DEF RouterInv, Table
    <3>3. Direct(routes')
      <4> SUFFICES ASSUME NEW i \in Vertex, NEW j \in Vertex, routes'[i][j] # NoRoute
                   PROVE  /\ routes'[i][i] = Stay
                          /\ i # j => /\ IsLastEdge(routes', i, j) /\ Before(routes', i, j) = i
                                      /\ edges[routes'[i][j].prev_edge].weight = routes'[i][j].weight
        BY DEF Direct
      <4>1. CASE i = vertex /\ j = w
        <5>1. routes'[i][j] = here /\ routes'[i][i] = Stay
          BY <4>1, <3>1, <3>2, <2>2
        <5>2. IsLastEdge(routes', i, j) /\ Before(routes', i, j) = i
          BY <5>1, <4>1, <2>1, <1>2 DEF IsLastEdge, Before
        <5> QED BY <5>1, <5>2
      <4>2. CASE ~(i = vertex /\ j = w)
        <5>1. routes'[i][j] = routes[i][j]
          BY <4>2, <3>2
        <5>2. routes[i][i] = Stay
          BY <5>1, <1>0 DEF Direct
        <5>3. routes'[i][i] = Stay
          BY <5>2, <3>1, <3>2
        <5>4. i # j => /\ IsLastEdge(routes, i, j) /\ Before(routes, i, j) = i
                       /\ edges[routes[i][j].prev_edge].weight = routes[i][j].weight
          BY <5>1, <1>0 DEF Direct
        <5> QED BY <5>1, <5>3, <5>4 DEF IsLastEdge, Before
      <4> QED BY <4>1, <4>2
    <3> QED BY <3>3, <1>0, <1>2, LinksStay DEF LinkInv
  <2> QED BY <2>3, <2>4
<1> QED BY <1>1, <1>2 DEF InitializeEdge, Failure

\* A table of single edges is linked, and all its routes lead back to their start.
LEMMA DirectIsLinked ==
  ASSUME IsGraph, NEW t \in Table, Direct(t)
  PROVE  Linked(t) /\ Founded(t)
<1>1. ASSUME NEW i \in Vertex, NEW j \in Vertex, t[i][j] # NoRoute PROVE LinkedAt(t, i, j)
  <2>1. CASE i = j
    BY <2>1, <1>1 DEF Direct, LinkedAt
  <2>2. CASE i # j
    <3>1. /\ IsLastEdge(t, i, j) /\ Before(t, i, j) = i /\ t[i][i] = Stay
          /\ edges[t[i][j].prev_edge].weight = t[i][j].weight
      BY <2>2, <1>1 DEF Direct
    <3>2. t[i][j].weight \in Nat
      BY <1>1, WeightsOf
    <3>3. Stay # NoRoute
      BY RouterAssumption DEF Stay, NoEdge, Route
    <3>4. Within(t, i, i, t[i][j].weight - edges[t[i][j].prev_edge].weight)
      BY <3>1, <3>2, <3>3 DEF Within, Stay
    <3> QED BY <3>1, <3>4, <2>2 DEF LinkedAt
  <2> QED BY <2>1, <2>2
<1>2. Linked(t)
  BY <1>1 DEF Linked
<1>3. ASSUME NEW i \in Vertex, NEW S \in SUBSET Vertex, IsRing(t, i, S) PROVE FALSE
  <2>1. PICK j \in S : TRUE
    BY <1>3 DEF IsRing
  <2>2. j \in Vertex /\ j # i /\ t[i][j] # NoRoute /\ Before(t, i, j) \in S /\ i \notin S
    BY <1>3 DEF IsRing
  <2>3. Before(t, i, j) = i
    BY <2>2 DEF Direct
  <2> QED BY <2>2, <2>3
<1> QED BY <1>2, <1>3 DEF Founded

LEMMA EndOfInitializeLinks ==
  ASSUME RouterInv, LinkInv, EndOfInitialize
  PROVE  LinkInv'
<1>1. edges' = edges /\ routes' = routes /\ started' = routes /\ step' \in {"ready", "relax"}
  BY DEF EndOfInitialize
<1>2. Linked(routes) /\ Founded(routes)
  BY DirectIsLinked DEF LinkInv, EndOfInitialize, RouterInv
<1>3. Rewritten(started', routes', vertex')
  BY <1>1, NothingRewritten
<1> QED BY <1>1, <1>2, <1>3, LinksStay DEF LinkInv

\* What the body of the loops writes is the way that the pass started with.
LEMMA RelaxRewrites ==
  ASSUME RouterInv, LinkInv, Relax
  PROVE  Rewritten(started, routes', vertex)
<1>0. /\ IsGraph /\ started \in Table /\ routes \in Table
      /\ vertex \in Vertex /\ from \in Vertex /\ to \in Vertex
      /\ StaysForNothing(started) /\ Linked(started) /\ Rewritten(started, routes, vertex)
      /\ Pass(started, routes, vertex)
  BY DEF RouterInv, RelaxInv, LinkInv, Relax
<1>1. routes[from][vertex] = started[from][vertex] /\ routes[vertex][to] = started[vertex][to]
  BY <1>0, RowAndColumnStay
<1>2. Through(from, vertex, to) = WayThrough(started, vertex, from, to)
  BY <1>1 DEF Through, WayThrough
<1> SUFFICES ASSUME NEW i \in Vertex, NEW j \in Vertex PROVE OldOrShorter(started, routes', vertex, i, j)
  BY DEF Rewritten
<1>3. OldOrShorter(started, routes, vertex, i, j)
  BY <1>0 DEF Rewritten
<1>4. CASE routes'[i][j] = routes[i][j]
  BY <1>3, <1>4 DEF OldOrShorter
<1>5. CASE routes'[i][j] # routes[i][j]
  <2>1. /\ i = from /\ j = to /\ routes'[i][j] = Through(from, vertex, to)
        /\ routes[from][vertex] # NoRoute /\ routes[vertex][to] # NoRoute
        /\ routes[i][j] = NoRoute \/ Through(from, vertex, to).weight < routes[i][j].weight
    BY <1>5, <1>0 DEF Relax, RelaxRoute, Table
  <2>2. started[i][j] # NoRoute =>
          /\ routes[i][j] # NoRoute /\ routes[i][j].weight <= started[i][j].weight
          /\ routes[i][j].weight \in Nat /\ started[i][j].weight \in Nat
    BY <1>0, WeightsOf DEF Pass, NotLonger, Within
  <2>3. WayThrough(started, vertex, i, j).weight \in Int
    BY <2>1, <1>0, <1>1, WeightsOf DEF WayThrough
  <2> QED BY <2>1, <2>2, <2>3, <1>1, <1>2 DEF OldOrShorter
<1> QED BY <1>4, <1>5

LEMMA RelaxLinks ==
  ASSUME RouterInv, LinkInv, Relax
  PROVE  LinkInv'
<1> DEFINE last == VertexCount - 1
<1>0. /\ IsGraph /\ VertexCount \in Nat /\ RelaxInv /\ started \in Table /\ edges' = edges
      /\ Linked(started) /\ Founded(started)
  BY EdgeFacts DEF RouterInv, LinkInv, Relax
<1>1. /\ from \in Nat /\ to \in Nat /\ from <= last /\ to <= last
      /\ \A v : v \in Vertex <=> v \in Nat /\ v <= last
      /\ vertex \in Vertex /\ StaysForNothing(started)
  BY <1>0 DEF RelaxInv, Vertex
<1>2. /\ routes' \in Table /\ Pass(started, routes', vertex)
      /\ \A i, j \in Vertex : Reached(i, j) \/ (i = from /\ j = to) =>
           Relaxed(started, routes', vertex, i, j)
  BY RelaxEntryKeeps
<1>3. Rewritten(started, routes', vertex) /\ Advance
  BY RelaxRewrites DEF Relax
<1>4. CASE ~(from = last /\ to = last)
  <2>1. vertex' = vertex /\ started' = started /\ step' = "relax"
    BY <1>3, <1>4 DEF Advance, Relax
  <2> QED BY <2>1, <1>0, <1>3, LinksStay DEF LinkInv
<1>5. CASE from = last /\ to = last
  <2>1. \A i, j \in Vertex : Relaxed(started, routes', vertex, i, j)
    BY <1>1, <1>2, <1>5 DEF Reached
  <2>2. Linked(routes')
    BY <2>1, <1>0, <1>1, <1>2, <1>3, PassLinks
  <2>3. Founded(routes')
    BY <2>2, <1>0, <1>1, <1>2, <1>3, PassFounds
  <2>4. started' = routes' /\ step' \in {"relax", "ready"}
    BY <1>3, <1>5 DEF Advance, Relax
  <2>5. Rewritten(started', routes', vertex')
    BY <2>4, NothingRewritten
  <2> QED BY <2>2, <2>3, <2>4, <2>5, <1>0, LinksStay DEF LinkInv
<1> QED BY <1>4, <1>5

(***************************************************************************)
(* BuildRoute.                                                             *)
(***************************************************************************)
\* The m different vertices that the route from i goes over, each before the next.
IsTrail(t, i, p, m) ==
  /\ p \in [1 .. m -> Vertex] /\ p[1] = i
  /\ \A k \in 1 .. m : t[i][p[k]] # NoRoute
  /\ \A k \in 1 .. m - 1 : p[k + 1] # i /\ Before(t, i, p[k + 1]) = p[k]
  /\ \A k, l \in 1 .. m : p[k] = p[l] => k = l

LEMMA TrailExists ==
  ASSUME NEW t \in Table, Linked(t), Founded(t), StaysForNothing(t),
         NEW i \in Vertex, NEW j \in Vertex, t[i][j] # NoRoute
  PROVE  \E m \in Nat \ {0} : \E p : IsTrail(t, i, p, m) /\ p[m] = j
<1> DEFINE Found(x) == \E m \in Nat \ {0} : \E p : IsTrail(t, i, p, m) /\ p[m] = x
           S == {x \in Vertex : t[i][x] # NoRoute /\ ~Found(x)}
<1>1. Found(i)
  <2> DEFINE p == [k \in 1 .. 1 |-> i]
  <2>1. IsTrail(t, i, p, 1) /\ p[1] = i
    BY DEF IsTrail, StaysForNothing
  <2> QED BY <2>1
<1>2. ASSUME NEW x \in S PROVE x # i /\ t[i][x] # NoRoute /\ Before(t, i, x) \in S
  <2>1. x \in Vertex /\ t[i][x] # NoRoute /\ ~Found(x) /\ x # i
    BY <1>1
  <2> DEFINE b == Before(t, i, x)
  <2>2. b \in Vertex /\ t[i][b] # NoRoute
    BY <2>1 DEF Linked, LinkedAt, IsLastEdge, Within, Before
  <2>3. ~Found(b)
    <3>1. SUFFICES ASSUME NEW m \in Nat \ {0}, NEW p, IsTrail(t, i, p, m), p[m] = b PROVE FALSE
      OBVIOUS
    <3>2. CASE \E k \in 1 .. m : p[k] = x
      <4>1. PICK k \in 1 .. m : p[k] = x
        BY <3>2
      <4> DEFINE q == [n \in 1 .. k |-> p[n]]
      <4>2. IsTrail(t, i, q, k) /\ q[k] = x
        BY <3>1, <4>1 DEF IsTrail
      <4>3. k \in Nat \ {0}
        OBVIOUS
      <4> QED BY <4>2, <4>3, <2>1
    <3>3. CASE \A k \in 1 .. m : p[k] # x
      <4> DEFINE q == [n \in 1 .. m + 1 |-> IF n = m + 1 THEN x ELSE p[n]]
      <4>1. q \in [1 .. m + 1 -> Vertex] /\ q[1] = i
        BY <3>1, <2>1 DEF IsTrail
      <4>2. \A k \in 1 .. m + 1 : q[k] = IF k = m + 1 THEN x ELSE p[k]
        OBVIOUS
      <4> HIDE DEF q
      <4>3. \A k \in 1 .. m + 1 : t[i][q[k]] # NoRoute
        BY <4>2, <3>1, <2>1 DEF IsTrail
      <4>4. ASSUME NEW k \in 1 .. (m + 1) - 1 PROVE q[k + 1] # i /\ Before(t, i, q[k + 1]) = q[k]
        <5>1. CASE k = m
          BY <5>1, <4>2, <3>1, <2>1
        <5>2. CASE k \in 1 .. m - 1
          BY <5>2, <4>2, <3>1 DEF IsTrail
        <5> QED BY <5>1, <5>2
      <4>5. \A k, l \in 1 .. m + 1 : q[k] = q[l] => k = l
        BY <4>2, <3>1, <3>3 DEF IsTrail
      <4>6. IsTrail(t, i, q, m + 1) /\ q[m + 1] = x
        BY <4>1, <4>2, <4>3, <4>4, <4>5 DEF IsTrail
      <4>7. m + 1 \in Nat \ {0}
        OBVIOUS
      <4> QED BY <4>6, <4>7, <2>1
    <3> QED BY <3>2, <3>3
  <2> QED BY <2>1, <2>2, <2>3
<1>3. S = {}
  <2> HIDE DEF S
  <2>1. S # {} => IsRing(t, i, S)
    BY <1>2 DEF IsRing
  <2>2. S \in SUBSET Vertex
    BY DEF S
  <2> QED BY <2>1, <2>2 DEF Founded
<1> QED BY <1>3

\* A trail is no longer than there are vertices.
LEMMA TrailFits ==
  ASSUME IsGraph, NEW t, NEW i, NEW m \in Nat, NEW p, IsTrail(t, i, p, m)
  PROVE  m <= VertexCount
<1>1. VertexCount \in Nat
  BY EdgeFacts
<1>2. IsFiniteSet(Vertex) /\ Cardinality(Vertex) = VertexCount
  <2>1. CASE VertexCount = 0
    BY <2>1, FS_EmptySet DEF Vertex
  <2>2. CASE VertexCount > 0
    <3>1. VertexCount - 1 \in Int /\ 0 <= VertexCount - 1
      BY <1>1, <2>2
    <3>2. /\ IsFiniteSet(0 .. VertexCount - 1)
          /\ Cardinality(0 .. VertexCount - 1) = (VertexCount - 1) - 0 + 1
      BY <3>1, <1>1, <2>2, FS_Interval
    <3> QED BY <3>2, <1>1 DEF Vertex
  <2> QED BY <2>1, <2>2, <1>1
<1>3. CASE m = 0
  BY <1>1, <1>3
<1>4. CASE m > 0
  <2>1. IsFiniteSet(1 .. m) /\ Cardinality(1 .. m) = m - 1 + 1
    BY <1>4, FS_Interval
  <2>2. p \in Injection(1 .. m, Vertex)
    BY DEF IsTrail, Injection, IsInjective
  <2>3. Cardinality(1 .. m) <= Cardinality(Vertex)
    BY <2>1, <2>2, <1>2, FS_Injection
  <2> QED BY <2>1, <2>3, <1>2
<1> QED BY <1>3, <1>4

\* The recursion of BuildRoute has a value.
Followed(i, f, n) ==
  [v \in {w \in Vertex : HasRoute(i, w)} |->
     IF n = 0 \/ routes[i][v].prev_edge = NoEdge THEN <<>>
     ELSE Append(f[n - 1][edges[routes[i][v].prev_edge].from], routes[i][v].prev_edge)]

IsWay(i, f) == f = [n \in 0 .. VertexCount |-> Followed(i, f, n)]

LEMMA WayExists ==
  ASSUME NEW i, VertexCount \in Nat
  PROVE  \E f : IsWay(i, f)
<1> DEFINE Upto(n, f) == \A k \in 0 .. n : f[k] = Followed(i, f, k)
           Bad == {n \in Nat : ~\E f : Upto(n, f)}
\* Only the value before the last one is looked at.
<1>1. ASSUME NEW f, NEW g, NEW n, n # 0 => f[n - 1] = g[n - 1] PROVE Followed(i, f, n) = Followed(i, g, n)
  BY <1>1 DEF Followed
<1>2. 0 \notin Bad
  <2> DEFINE f == [k \in 0 .. 0 |-> Followed(i, <<>>, 0)]
  <2>1. f[0] = Followed(i, <<>>, 0)
    OBVIOUS
  <2>2. Followed(i, <<>>, 0) = Followed(i, f, 0)
    BY <1>1
  <2> HIDE DEF f
  <2>3. Upto(0, f)
    BY <2>1, <2>2
  <2> HIDE DEF Upto
  <2> QED BY <2>3
<1>3. ASSUME NEW n \in Nat, n \notin Bad PROVE n + 1 \notin Bad
  <2>1. PICK f : Upto(n, f)
    BY <1>3
  <2> DEFINE g == [k \in 0 .. n + 1 |-> IF k <= n THEN f[k] ELSE Followed(i, f, n + 1)]
  <2>2. (\A k \in 0 .. n : g[k] = f[k]) /\ g[n + 1] = Followed(i, f, n + 1)
    OBVIOUS
  <2> HIDE DEF g
  <2>3. ASSUME NEW k \in 0 .. n + 1 PROVE Followed(i, g, k) = Followed(i, f, k)
    <3>1. k # 0 => k - 1 \in 0 .. n
      OBVIOUS
    <3> QED BY <3>1, <2>2, <1>1
  <2>4. ASSUME NEW k \in 0 .. n + 1 PROVE g[k] = Followed(i, g, k)
    <3>1. CASE k \in 0 .. n
      BY <3>1, <2>1, <2>2, <2>3
    <3>2. CASE k = n + 1
      BY <3>2, <2>2, <2>3
    <3> QED BY <3>1, <3>2
  <2>5. Upto(n + 1, g)
    BY <2>4
  <2> HIDE DEF Upto
  <2> QED BY <2>5
<1>4. Bad = {}
  <2> SUFFICES ASSUME Bad # {} PROVE FALSE
    OBVIOUS
  <2>1. Bad \subseteq Nat
    OBVIOUS
  <2> HIDE DEF Bad
  <2>2. PICK n \in Bad : \A d \in Bad : n <= d
    BY <2>1, LeastNatural
  <2>3. n \in Nat /\ n # 0 /\ n - 1 \in Nat
    BY <1>2, <2>1
  <2>4. n - 1 \notin Bad
    BY <2>2, <2>3
  <2>5. (n - 1) + 1 \notin Bad
    BY <1>3, <2>3, <2>4
  <2> QED BY <2>3, <2>5
<1>5. PICK f : Upto(VertexCount, f)
  BY <1>4
<1> DEFINE h == [k \in 0 .. VertexCount |-> f[k]]
<1>6. ASSUME NEW k \in 0 .. VertexCount PROVE f[k] = Followed(i, h, k)
  <2>1. k # 0 => k - 1 \in 0 .. VertexCount
    OBVIOUS
  <2>2. k # 0 => h[k - 1] = f[k - 1]
    BY <2>1
  <2> HIDE DEF h
  <2>3. Followed(i, h, k) = Followed(i, f, k)
    BY <2>2, <1>1
  <2> QED BY <2>3, <1>5
<1>7. IsWay(i, h)
  <2> DEFINE g == [k \in 0 .. VertexCount |-> Followed(i, h, k)]
  <2>1. h = g
    BY <1>6
  <2> HIDE DEF h
  <2> QED BY <2>1 DEF IsWay
<1> QED BY <1>7

LEMMA BuildRouteIsAWay ==
  ASSUME NEW i, NEW j, VertexCount \in Nat
  PROVE  \E f : IsWay(i, f) /\ BuildRoute(i, j) = f[VertexCount][j]
<1> DEFINE way == CHOOSE f : IsWay(i, f)
<1>1. IsWay(i, way)
  BY WayExists
<1>2. BuildRoute(i, j) = way[VertexCount][j]
  BY DEF BuildRoute, IsWay, Followed
<1> QED BY <1>1, <1>2

\* The edges between the first k vertices of a trail.
TrailEdges(i, p, k) == [l \in 1 .. k - 1 |-> routes[i][p[l + 1]].prev_edge]

LEMMA WayOfTrail ==
  ASSUME IsGraph, routes \in Table, Linked(routes),
         NEW i \in Vertex, NEW m \in Nat, NEW p, IsTrail(routes, i, p, m), NEW f, IsWay(i, f),
         NEW k \in 1 .. m, NEW n \in k - 1 .. VertexCount
  PROVE  f[n][p[k]] = TrailEdges(i, p, k)
<1>0. VertexCount \in Nat
  BY EdgeFacts
<1> DEFINE Bad == {a \in Nat : a \in 1 .. m /\ \E b \in a - 1 .. VertexCount : f[b][p[a]] # TrailEdges(i, p, a)}
<1>1. ASSUME NEW a \in 1 .. m, NEW b \in 0 .. VertexCount
      PROVE  f[b][p[a]] = IF b = 0 \/ routes[i][p[a]].prev_edge = NoEdge THEN <<>>
                          ELSE Append(f[b - 1][edges[routes[i][p[a]].prev_edge].from],
                                      routes[i][p[a]].prev_edge)
  <2>1. p[a] \in {w \in Vertex : HasRoute(i, w)}
    BY DEF IsTrail, HasRoute
  <2>2. f[b] = Followed(i, f, b)
    BY DEF IsWay
  <2> QED BY <2>1, <2>2 DEF Followed
<1>2. ASSUME Bad # {} PROVE FALSE
  <2>1. Bad \subseteq Nat
    OBVIOUS
  <2> HIDE DEF Bad
  <2>2. PICK a \in Bad : \A d \in Bad : a <= d
    BY <1>2, <2>1, LeastNatural
  <2> USE DEF Bad
  <2>3. a \in 1 .. m
    BY <2>2
  <2>4. PICK b \in a - 1 .. VertexCount : f[b][p[a]] # TrailEdges(i, p, a)
    BY <2>2
  <2>5. b \in 0 .. VertexCount
    BY <2>3, <2>4, <1>0
  <2>6. CASE a = 1
    <3>1. routes[i][p[a]] = Stay
      BY <2>6, <2>3 DEF IsTrail, Linked, LinkedAt
    <3>2. f[b][p[a]] = <<>>
      BY <3>1, <2>3, <2>5, <1>1 DEF Stay
    <3>3. TrailEdges(i, p, a) = <<>>
      BY <2>6 DEF TrailEdges
    <3> QED BY <3>2, <3>3, <2>4
  <2>7. CASE a > 1
    <3>1. a - 1 \in 1 .. m /\ a - 1 \in Nat /\ (a - 1) + 1 = a /\ a - 1 \in 1 .. m - 1
      BY <2>3, <2>7
    <3>2. p[a] # i /\ Before(routes, i, p[a]) = p[a - 1] /\ p[a] \in Vertex /\ HasRoute(i, p[a])
      BY <3>1, <2>3 DEF IsTrail, HasRoute
    <3>3. IsLastEdge(routes, i, p[a])
      BY <3>2 DEF Linked, LinkedAt, HasRoute
    <3>4. routes[i][p[a]].prev_edge # NoEdge
      BY <3>3, EdgeFacts DEF IsLastEdge
    <3>5. a - 1 \notin Bad
      <4> HIDE DEF Bad
      <4> QED BY <2>2, <3>1
    <3>6. b - 1 \in (a - 1) - 1 .. VertexCount /\ b # 0
      BY <2>3, <2>4, <2>7, <1>0
    <3>7. f[b - 1][p[a - 1]] = TrailEdges(i, p, a - 1)
      BY <3>1, <3>5, <3>6
    <3>8. f[b][p[a]] = Append(TrailEdges(i, p, a - 1), routes[i][p[a]].prev_edge)
      BY <2>3, <2>5, <3>2, <3>4, <3>6, <3>7, <1>1 DEF Before
    <3>9. Append(TrailEdges(i, p, a - 1), routes[i][p[a]].prev_edge) = TrailEdges(i, p, a)
      <4>1. TrailEdges(i, p, a - 1) = [l \in 1 .. a - 2 |-> routes[i][p[l + 1]].prev_edge]
        BY <3>1 DEF TrailEdges
      <4>2. TrailEdges(i, p, a) = [l \in 1 .. (a - 2) + 1 |-> routes[i][p[l + 1]].prev_edge]
        BY <3>1 DEF TrailEdges
      <4>3. a - 2 \in Nat /\ (a - 2) + 1 + 1 = a
        BY <3>1
      <4> QED BY <4>1, <4>2, <4>3
    <3> QED BY <2>4, <3>8, <3>9
  <2> QED BY <2>3, <2>6, <2>7
<1>3. k \notin Bad
  BY <1>2
<1> QED BY <1>3

\* The sum of WeightOf is what adds up like it.
LEMMA WeightAddsUp ==
  ASSUME NEW q, Len(q) \in Nat, NEW g, g[0] = 0,
         \A n \in 1 .. Len(q) : g[n] = g[n - 1] + edges[q[n]].weight
  PROVE  WeightOf(q) = g[Len(q)]
<1> DEFINE IsSum(f) == f = [n \in 0 .. Len(q) |-> IF n = 0 THEN 0 ELSE f[n - 1] + edges[q[n]].weight]
           h == [n \in 0 .. Len(q) |-> g[n]]
           sum == CHOOSE f : IsSum(f)
<1>1. IsSum(h)
  <2> DEFINE k == [n \in 0 .. Len(q) |-> IF n = 0 THEN 0 ELSE h[n - 1] + edges[q[n]].weight]
  <2>1. ASSUME NEW n \in 0 .. Len(q)
        PROVE  h[n] = IF n = 0 THEN 0 ELSE h[n - 1] + edges[q[n]].weight
    <3>1. CASE n = 0
      BY <3>1
    <3>2. CASE n # 0
      <4>1. n \in 1 .. Len(q) /\ n - 1 \in 0 .. Len(q)
        BY <3>2
      <4>2. h[n] = g[n] /\ h[n - 1] = g[n - 1]
        BY <4>1
      <4> HIDE DEF h
      <4> QED BY <3>2, <4>1, <4>2
    <3> QED BY <3>1, <3>2
  <2>2. h = k
    BY <2>1
  <2> HIDE DEF h
  <2> QED BY <2>2
<1>2. IsSum(sum)
  BY <1>1
<1>3. WeightOf(q) = sum[Len(q)]
  BY DEF WeightOf
<1> HIDE DEF sum
<1>4. \A n \in 0 .. Len(q) : sum[n] = IF n = 0 THEN 0 ELSE sum[n - 1] + edges[q[n]].weight
  BY <1>2
<1> DEFINE Bad == {n \in Nat : n \in 0 .. Len(q) /\ sum[n] # g[n]}
<1>5. ASSUME Bad # {} PROVE FALSE
  <2>1. Bad \subseteq Nat
    OBVIOUS
  <2> HIDE DEF Bad
  <2>2. PICK n \in Bad : \A d \in Bad : n <= d
    BY <1>5, <2>1, LeastNatural
  <2> USE DEF Bad
  <2>3. n \in 0 .. Len(q) /\ sum[n] # g[n] /\ n # 0
    BY <1>4
  <2>4. n \in 1 .. Len(q) /\ n - 1 \in 0 .. Len(q) /\ n - 1 \in Nat /\ n - 1 < n
    BY <2>3
  <2>5. n - 1 \notin Bad
    <3> HIDE DEF Bad
    <3> QED BY <2>2, <2>4
  <2>6. sum[n - 1] = g[n - 1]
    BY <2>4, <2>5
  <2>7. sum[n] = sum[n - 1] + edges[q[n]].weight
    BY <2>3, <1>4
  <2> QED BY <2>3, <2>4, <2>6, <2>7
<1>6. Len(q) \notin Bad
  BY <1>5
<1>7. sum[Len(q)] = g[Len(q)]
  BY <1>6
<1> QED BY <1>3, <1>7

\* When the table is done, what the last edge of a route leaves is exactly the
\* weight of the route to where the edge starts: Linked says that it is no less,
\* and that no way through that vertex is shorter, that it is no more.
LEMMA LastEdgeWeighs ==
  ASSUME RouterInv, LinkInv, step = "ready", NEW i \in Vertex, NEW j \in Vertex,
         routes[i][j] # NoRoute, i # j
  PROVE  /\ IsLastEdge(routes, i, j)
         /\ routes[i][j].weight
              = routes[i][Before(routes, i, j)].weight + edges[routes[i][j].prev_edge].weight
<1> DEFINE e == routes[i][j].prev_edge
           u == edges[e].from
<1>1. /\ IsLastEdge(routes, i, j)
      /\ Within(routes, i, u, routes[i][j].weight - edges[e].weight)
  BY DEF LinkInv, Linked, LinkedAt, Before
<1>2. u \in Vertex /\ e \in DOMAIN edges /\ edges[e].to = j
  BY <1>1 DEF IsLastEdge
<1>3. edges[e].weight \in Int
  BY <1>2, EdgeFacts DEF RouterInv
<1>4. Within(routes, u, j, edges[e].weight)
  BY <1>2 DEF RouterInv, EdgeIsIn
<1>5. Closed(routes, u)
  BY <1>2 DEF RouterInv
<1>6. u = Before(routes, i, j)
  BY DEF Before
<1>7. \A a, b \in Vertex : routes[a][b] # NoRoute => routes[a][b].weight \in Nat
  BY WeightsOf DEF RouterInv
<1> HIDE DEF e, u
<1>8. routes[i][u] # NoRoute /\ routes[i][u].weight <= routes[i][j].weight - edges[e].weight
  BY <1>1 DEF Within
<1>9. routes[u][j] # NoRoute /\ routes[u][j].weight <= edges[e].weight
  BY <1>4 DEF Within
<1>10. routes[i][j].weight <= routes[i][u].weight + routes[u][j].weight
  BY <1>2, <1>5, <1>8, <1>9 DEF Closed, Within
<1>11. routes[i][j].weight = routes[i][u].weight + edges[e].weight
  BY <1>2, <1>3, <1>7, <1>8, <1>9, <1>10
<1> QED BY <1>1, <1>6, <1>11 DEF e

LEMMA ReadyTableHoldsWays ==
  ASSUME RouterInv, LinkInv
  PROVE  RoutesAreWays
<1> SUFFICES ASSUME step = "ready", NEW i \in Vertex, NEW j \in Vertex, HasRoute(i, j)
             PROVE  /\ Leads(BuildRoute(i, j), i, j)
                    /\ WeightOf(BuildRoute(i, j)) = routes[i][j].weight
                    /\ Len(BuildRoute(i, j)) < VertexCount
  BY DEF RoutesAreWays
<1>0. /\ IsGraph /\ VertexCount \in Nat /\ routes \in Table
      /\ Linked(routes) /\ Founded(routes) /\ StaysForNothing(routes) /\ routes[i][j] # NoRoute
  BY EdgeFacts DEF RouterInv, LinkInv, HasRoute
<1>1. PICK m \in Nat \ {0} : \E p : IsTrail(routes, i, p, m) /\ p[m] = j
  BY <1>0, TrailExists
<1>2. PICK p : IsTrail(routes, i, p, m) /\ p[m] = j
  BY <1>1
<1>3. m <= VertexCount
  BY <1>0, <1>2, TrailFits
<1>4. PICK f : IsWay(i, f) /\ BuildRoute(i, j) = f[VertexCount][j]
  BY <1>0, BuildRouteIsAWay
<1> DEFINE way == TrailEdges(i, p, m)
<1>5. BuildRoute(i, j) = way
  <2>1. m \in 1 .. m /\ VertexCount \in m - 1 .. VertexCount
    BY <1>0, <1>1, <1>3
  <2> QED BY <2>1, <1>0, <1>2, <1>4, WayOfTrail
<1>6. Len(way) = m - 1 /\ \A l \in 1 .. m - 1 : way[l] = routes[i][p[l + 1]].prev_edge
  BY DEF TrailEdges
\* The edges of the trail.
<1>7. ASSUME NEW l \in 1 .. m - 1
      PROVE  /\ edges[way[l]].from = p[l] /\ edges[way[l]].to = p[l + 1]
             /\ routes[i][p[l + 1]].weight = routes[i][p[l]].weight + edges[way[l]].weight
  <2>1. l \in 1 .. m /\ l + 1 \in 1 .. m
    OBVIOUS
  <2>2. /\ p[l + 1] \in Vertex /\ routes[i][p[l + 1]] # NoRoute /\ p[l + 1] # i
        /\ Before(routes, i, p[l + 1]) = p[l]
    BY <2>1, <1>2 DEF IsTrail
  <2>3. /\ IsLastEdge(routes, i, p[l + 1])
        /\ routes[i][p[l + 1]].weight
             = routes[i][p[l]].weight + edges[routes[i][p[l + 1]].prev_edge].weight
    BY <2>2, LastEdgeWeighs
  <2> QED BY <2>2, <2>3, <1>6 DEF IsLastEdge, Before
<1>8. p[1] = i
  BY <1>2 DEF IsTrail
<1> HIDE DEF way
<1>9. Leads(way, i, j)
  <2>1. CASE m = 1
    BY <2>1, <1>2, <1>6, <1>8 DEF Leads, way, TrailEdges
  <2>2. CASE m > 1
    <3>1. 1 \in 1 .. m - 1 /\ m - 1 \in 1 .. m - 1 /\ (m - 1) + 1 = m
      BY <2>2
    <3>2. way # <<>>
      BY <3>1, <1>6
    <3>3. edges[way[1]].from = i /\ edges[way[Len(way)]].to = j
      BY <3>1, <1>2, <1>6, <1>7, <1>8
    <3>4. \A n \in 1 .. Len(way) - 1 : edges[way[n]].to = edges[way[n + 1]].from
      <4> SUFFICES ASSUME NEW n \in 1 .. Len(way) - 1 PROVE edges[way[n]].to = edges[way[n + 1]].from
        OBVIOUS
      <4>1. n \in 1 .. m - 1 /\ n + 1 \in 1 .. m - 1
        BY <1>6
      <4> QED BY <4>1, <1>7
    <3> QED BY <3>2, <3>3, <3>4 DEF Leads
  <2> QED BY <2>1, <2>2, <1>1
<1>10. WeightOf(way) = routes[i][j].weight
  <2> DEFINE g == [n \in 0 .. m - 1 |-> routes[i][p[n + 1]].weight]
  <2>1. g[0] = 0
    BY <1>0, <1>1, <1>8 DEF StaysForNothing
  <2>2. g[m - 1] = routes[i][j].weight
    BY <1>1, <1>2
  <2>3. ASSUME NEW n \in 1 .. Len(way) PROVE g[n] = g[n - 1] + edges[way[n]].weight
    <3>1. n \in 1 .. m - 1 /\ n \in 0 .. m - 1 /\ n - 1 \in 0 .. m - 1 /\ (n - 1) + 1 = n
      BY <1>6
    <3>2. g[n] = routes[i][p[n + 1]].weight /\ g[n - 1] = routes[i][p[n]].weight
      BY <3>1
    <3> HIDE DEF g
    <3> QED BY <3>1, <3>2, <1>7
  <2> HIDE DEF g
  <2>4. WeightOf(way) = g[Len(way)]
    BY <2>1, <2>3, <1>1, <1>6, WeightAddsUp
  <2> QED BY <2>2, <2>4, <1>6
<1>11. Len(way) < VertexCount
  BY <1>0, <1>1, <1>3, <1>6
<1> QED BY <1>5, <1>9, <1>10, <1>11

LEMMA StepsKeep == RouterInv /\ [Next]_vars => RouterInv'
<1> SUFFICES ASSUME RouterInv, [Next]_vars PROVE RouterInv'
  OBVIOUS
<1>1. CASE InitializeVertex
  BY <1>1, InitializeVertexKeeps
<1>2. ASSUME NEW e \in pending, InitializeEdge(e) PROVE RouterInv'
  BY <1>2, InitializeEdgeKeeps
<1>3. CASE EndOfInitialize
  BY <1>3, EndOfInitializeKeeps
<1>4. CASE Relax
  BY <1>4, RelaxKeeps
<1>5. CASE UNCHANGED vars
  <2>1. edges' = edges
    BY <1>5 DEF vars
  <2> QED BY <2>1, <1>5, GraphStays DEF vars, RouterInv, InitializeInv, RelaxInv, RowKnows,
            Reached, Relaxed, Pass, OldOrThrough, NotLonger, Within, StaysForNothing, Closed,
            EdgeIsIn
<1> QED BY <1>1, <1>2, <1>3, <1>4, <1>5 DEF Next

LEMMA StepsLink == RouterInv /\ LinkInv /\ [Next]_vars => LinkInv'
<1> SUFFICES ASSUME RouterInv, LinkInv, [Next]_vars PROVE LinkInv'
  OBVIOUS
<1>1. CASE UNCHANGED vars
  <2>1. /\ edges' = edges /\ routes' = routes /\ started' = started
        /\ step' = step /\ vertex' = vertex
    BY <1>1 DEF vars
  <2> QED BY <2>1, LinksStay DEF LinkInv
<1> QED BY <1>1, InitializeVertexLinks, InitializeEdgeLinks, EndOfInitializeLinks, RelaxLinks DEF Next

\* A step fails only on such graphs.
LEMMA StepsFail ==
  RouterInv /\ FailsOnBadGraphsOnly /\ [Next]_vars => FailsOnBadGraphsOnly'
<1> DEFINE Bad == \/ ~EveryVertexIsLeft \/ ~VerticesAreNumbered
                  \/ \E e \in DOMAIN edges : edges[e].weight < 0
<1> SUFFICES ASSUME RouterInv, FailsOnBadGraphsOnly, [Next]_vars
             PROVE  FailsOnBadGraphsOnly'
  OBVIOUS
<1>1. edges' = edges
  BY DEF Next, InitializeVertex, InitializeEdge, EndOfInitialize, Relax, Stop, vars
<1>2. Bad' <=> Bad
  BY <1>1, GraphStays DEF EveryVertexIsLeft, VerticesAreNumbered
<1>3. Sources = 0 .. Cardinality(Sources) - 1 <=> Sources = Vertex
  BY DEF Vertex, VertexCount
<1>4. CASE InitializeVertex
  <2>1. IncidentEdges(vertex) = {} => vertex \notin Sources
    BY DEF IncidentEdges, Sources
  <2>2. IncidentEdges(vertex) = {} => Bad
    BY <2>1, <1>3, <1>4 DEF InitializeVertex, VerticesAreNumbered
  <2>3. IncidentEdges(vertex) # {} => step' \notin Failure
    BY <1>4 DEF InitializeVertex, Failure
  <2> QED BY <2>2, <2>3, <1>2 DEF FailsOnBadGraphsOnly
<1>5. ASSUME NEW e \in pending, InitializeEdge(e) PROVE FailsOnBadGraphsOnly'
  <2>1. e \in DOMAIN edges
    BY DEF RouterInv
  <2>2. edges[e].to \notin Vertex => Bad
    BY <2>1, <1>3 DEF EveryVertexIsLeft, VerticesAreNumbered
  <2>3. edges[e].weight < 0 => Bad
    BY <2>1
  <2>4. CASE edges[e].weight < 0 \/ edges[e].to \notin Vertex
    BY <2>2, <2>3, <2>4, <1>2 DEF FailsOnBadGraphsOnly
  <2>5. CASE ~(edges[e].weight < 0 \/ edges[e].to \notin Vertex)
    <3>1. step' = "initialize" \/ step' = "edges"
      BY <2>5, <1>5 DEF InitializeEdge
    <3> QED BY <3>1 DEF FailsOnBadGraphsOnly, Failure
  <2> QED BY <2>4, <2>5
<1>6. CASE EndOfInitialize
  BY <1>6 DEF EndOfInitialize, FailsOnBadGraphsOnly, Failure
<1>7. CASE Relax
  BY <1>7 DEF Relax, Advance, FailsOnBadGraphsOnly, Failure
<1>8. CASE UNCHANGED vars
  BY <1>2, <1>8 DEF FailsOnBadGraphsOnly, vars
<1> QED BY <1>4, <1>5, <1>6, <1>7, <1>8 DEF Next

(***************************************************************************)
(* Theorems.                                                               *)
(***************************************************************************)
\* The invariant holds in every state that the constructor goes through.
THEOREM RouterInvariant == Spec => []RouterInv
<1>1. Init => RouterInv
  BY InitKeeps, InitIsGraph DEF Init
<1> QED BY <1>1, StepsKeep, PTL DEF Spec

\* The table holds, of each route, its last edge, and following the last edges
\* leads back to where the route starts.
THEOREM LinkInvariant == Spec => []LinkInv
<1>1. Init => LinkInv
  BY InitLinks DEF Init
<1> QED BY <1>1, StepsLink, RouterInvariant, PTL DEF Spec

\* Each variable of the constructor keeps its type, whatever the graph: the loops
\* never look at an entry that the table does not have.
THEOREM RouterTypeOK == Spec => []TypeOK
<1>1. RouterInv /\ edges \in Seq(Edge) => TypeOK
  BY DEF RouterInv, TypeOK, Table
<1>2. Init => edges \in Seq(Edge)
  BY DEF Init
<1>3. edges \in Seq(Edge) /\ [Next]_vars => (edges \in Seq(Edge))'
  BY DEF Next, InitializeVertex, InitializeEdge, EndOfInitialize, Relax, Stop, vars
<1> QED BY <1>1, <1>2, <1>3, RouterInvariant, PTL DEF Spec

\* For every graph: when the constructor ends, every edge and every way through
\* any vertex has a route that is no longer, though the table was overwritten
\* while it was read.
THEOREM NoWayIsShorter == Spec => []NoShorterWay
<1>1. RouterInv => NoShorterWay
  BY DEF RouterInv, NoShorterWay, ClosedThrough, HasRoute, StaysForNothing, Closed, EdgeIsIn, Within
<1> QED BY <1>1, RouterInvariant, PTL

\* For every graph: when the constructor ends, BuildRoute gives, for every two
\* vertices between which the table has a route, edges that follow on each other
\* from the one to the other and weigh what the table says; there are fewer of
\* them than vertices, so that the loop of BuildRoute ends.
THEOREM RoutesLeadThere == Spec => []RoutesAreWays
<1>1. RouterInv /\ LinkInv => RoutesAreWays
  BY ReadyTableHoldsWays
<1> QED BY <1>1, RouterInvariant, LinkInvariant, PTL

\* The constructor throws, or writes behind the table, only on a graph that has a
\* negative weight, or a vertex that edges enter and none leaves.
THEOREM BadGraphsFail == Spec => []FailsOnBadGraphsOnly
<1>1. Init => FailsOnBadGraphsOnly
  BY DEF Init, Constructing, FailsOnBadGraphsOnly, Failure
<1> QED BY <1>1, StepsFail, RouterInvariant, PTL DEF Spec
=============================================================================
