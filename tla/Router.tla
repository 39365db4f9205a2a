------------------------------- MODULE Router -------------------------------
(***************************************************************************)
(* Router (transport_catalogue/router.h) over DirectedWeightedGraph        *)
(* (transport_catalogue/graph.h): the constructor that fills the table of  *)
(* routes between all vertices, in place, one RelaxRoute at a time, and    *)
(* BuildRoute, which follows the table back.                               *)
(*                                                                         *)
(* A definition marked "Slip" is not the code: it is the definition after  *)
(* it with a mistake that the checks are shown to notice.                  *)
(***************************************************************************)
EXTENDS Integers, FiniteSets, Sequences

CONSTANTS
  Edge,     \* the edges there may be, with a from, a to and a weight
  NoRoute   \* std::optional<RouteInternalData> without a value

NoEdge == 0  \* std::optional<EdgeId> without a value; the first edge is 1
Route == [weight : Nat, prev_edge : Nat]

ASSUME RouterAssumption ==
  /\ NoRoute \notin Route
  /\ \A e \in Edge : e.from \in Nat /\ e.to \in Nat /\ e.weight \in Int

VARIABLES
  edges,    \* edges_ of the graph
  routes,   \* routes_internal_data_
  step,     \* the loop that the constructor is in, "ready", or how it failed
  vertex,   \* vertex of the first loop, vertex_through of the second
  pending,  \* the edges that GetIncidentEdges(vertex) has left
  from, to, \* vertex_from and vertex_to
  started   \* for the properties: the table when vertex_through was last moved

vars == <<edges, routes, step, vertex, pending, from, to, started>>

\* GetVertexCount: the size of the map of incidence lists, which AddEdge makes
\* for the vertices that edges leave.
Sources == {edges[e].from : e \in DOMAIN edges}
VertexCount == Cardinality(Sources)
Vertex == 0 .. VertexCount - 1

IncidentEdges(v) == {e \in DOMAIN edges : edges[e].from = v}

\* The constructor of Router, on whatever graph there is.
Constructing ==
  /\ routes = [v \in Vertex |-> [w \in Vertex |-> NoRoute]]
  /\ step = "initialize"
  /\ vertex = 0 /\ from = 0 /\ to = 0
  /\ pending = {}
  /\ started = routes

Init == edges \in Seq(Edge) /\ Constructing

\* The same of another graph.
Construct(graph) ==
  /\ edges' = graph
  /\ routes' = [v \in Vertex' |-> [w \in Vertex' |-> NoRoute]]
  /\ step' = "initialize"
  /\ vertex' = 0 /\ from' = 0 /\ to' = 0
  /\ pending' = {}
  /\ started' = routes'

Stop(failure) ==
  /\ step' = failure
  /\ UNCHANGED <<edges, routes, vertex, pending, from, to, started>>

(***************************************************************************)
(* InitializeRoutesInternalData.                                           *)
(***************************************************************************)
\* A vertex gets to itself for nothing; its list is found with at().
InitializeVertex ==
  /\ step = "initialize" /\ vertex \in Vertex
  /\ IF IncidentEdges(vertex) = {}
     THEN Stop("out_of_range")
     ELSE /\ routes' = [routes EXCEPT ![vertex][vertex] = [weight |-> 0, prev_edge |-> NoEdge]]
          /\ pending' = IncidentEdges(vertex)
          /\ step' = "edges"
          /\ UNCHANGED <<edges, vertex, from, to, started>>

IsCheaper(e) ==
  LET known == routes[vertex][edges[e].to]
  IN  known = NoRoute \/ known.weight > edges[e].weight

\* An edge to a vertex that is not counted writes behind the table.
InitializeEdge(e) ==
  /\ step = "edges" /\ e \in pending /\ \A f \in pending : e <= f
  /\ \/ edges[e].weight < 0 /\ Stop("domain_error")
     \/ edges[e].weight >= 0 /\ edges[e].to \notin Vertex /\ Stop("undefined")
     \/ /\ edges[e].weight >= 0 /\ edges[e].to \in Vertex
        /\ routes' = IF IsCheaper(e)
                     THEN [routes EXCEPT ![vertex][edges[e].to] =
                             [weight |-> edges[e].weight, prev_edge |-> e]]
                     ELSE routes
        /\ pending' = pending \ {e}
        /\ IF pending' = {}
           THEN step' = "initialize" /\ vertex' = vertex + 1
           ELSE UNCHANGED <<step, vertex>>
        /\ UNCHANGED <<edges, from, to, started>>

EndOfInitialize ==
  /\ step = "initialize" /\ vertex = VertexCount
  /\ step' = IF VertexCount = 0 THEN "ready" ELSE "relax"
  /\ vertex' = 0
  /\ started' = routes
  /\ UNCHANGED <<edges, routes, pending, from, to>>

(***************************************************************************)
(* RelaxRoutesInternalDataThroughVertex, for each vertex.                  *)
(***************************************************************************)
Through(i, k, j) ==
  [weight |-> routes[i][k].weight + routes[k][j].weight,
   prev_edge |-> IF routes[k][j].prev_edge # NoEdge
                 THEN routes[k][j].prev_edge ELSE routes[i][k].prev_edge]

\* Slip: the edge before the last one is kept.
RelaxRouteWithFirstEdge(i, k, j) ==
  LET w == routes[i][k].weight + routes[k][j].weight
  IN  IF routes[i][j] = NoRoute \/ w < routes[i][j].weight
      THEN [routes EXCEPT ![i][j] = [weight |-> w, prev_edge |-> routes[i][k].prev_edge]]
      ELSE routes

RelaxRoute(i, k, j) ==
  IF routes[i][j] = NoRoute \/ Through(i, k, j).weight < routes[i][j].weight
  THEN [routes EXCEPT ![i][j] = Through(i, k, j)]
  ELSE routes

\* Slip: the vertex on the way is in the innermost loop.
AdvanceThroughFirst ==
  /\ step' = IF vertex = VertexCount - 1 /\ from = VertexCount - 1 /\ to = VertexCount - 1
             THEN "ready" ELSE step
  /\ vertex' = (vertex + 1) % VertexCount
  /\ to' = IF vertex < VertexCount - 1 THEN to ELSE (to + 1) % VertexCount
  /\ from' = IF vertex < VertexCount - 1 \/ to < VertexCount - 1
             THEN from ELSE (from + 1) % VertexCount
  /\ started' = routes'

\* The innermost loop is over vertex_to, the outermost over vertex_through.
Advance ==
  LET last == VertexCount - 1
      pass == from = last /\ to = last
  IN  /\ to' = IF to < last THEN to + 1 ELSE 0
      /\ from' = IF to < last THEN from ELSE IF from < last THEN from + 1 ELSE 0
      /\ vertex' = IF pass /\ vertex < last THEN vertex + 1 ELSE vertex
      /\ step' = IF pass /\ vertex = last THEN "ready" ELSE step
      /\ started' = IF pass THEN routes' ELSE started

Relax ==
  /\ step = "relax"
  /\ routes' = IF routes[from][vertex] # NoRoute /\ routes[vertex][to] # NoRoute
               THEN RelaxRoute(from, vertex, to)
               ELSE routes
  /\ Advance
  /\ UNCHANGED <<edges, pending>>

Next ==
  \/ InitializeVertex
  \/ \E e \in pending : InitializeEdge(e)
  \/ EndOfInitialize
  \/ Relax

Spec == Init /\ [][Next]_vars

(***************************************************************************)
(* BuildRoute: the edges from i to j, found from the last to the first.    *)
(* The loop of the code has no bound; here it gives up after as many edges *)
(* as there are vertices, which RoutesAreWays shows to be enough.          *)
(***************************************************************************)
HasRoute(i, j) == routes[i][j] # NoRoute

BuildRoute(i, j) ==
  LET last(v) == routes[i][v].prev_edge
      way[n \in 0 .. VertexCount] ==
        [v \in {w \in Vertex : HasRoute(i, w)} |->
           IF n = 0 \/ last(v) = NoEdge THEN <<>>
           ELSE Append(way[n - 1][edges[last(v)].from], last(v))]
  IN  way[VertexCount][j]

(***************************************************************************)
(* Properties.                                                             *)
(***************************************************************************)
Failure == {"out_of_range", "domain_error", "undefined"}

TypeOK ==
  /\ edges \in Seq(Edge)
  /\ routes \in [Vertex -> [Vertex -> Route \cup {NoRoute}]]
  /\ started \in [Vertex -> [Vertex -> Route \cup {NoRoute}]]
  /\ step \in {"initialize", "edges", "relax", "ready"} \cup Failure
  /\ vertex \in 0 .. VertexCount
  /\ pending \subseteq DOMAIN edges
  /\ VertexCount > 0 => from \in Vertex /\ to \in Vertex

\* When a table is made, no way through any vertex and no edge is shorter than
\* the route the table has: that the loops go over vertex_through outermost,
\* and that a table which is overwritten while it is read comes out right.
\* Every walk of edges is then at least as long as the route, edge by edge.
ClosedThrough(k) ==
  \A i, j \in Vertex : HasRoute(i, k) /\ HasRoute(k, j) =>
    HasRoute(i, j) /\ routes[i][j].weight <= routes[i][k].weight + routes[k][j].weight

NoShorterWay ==
  step = "ready" =>
    /\ \A k \in Vertex : ClosedThrough(k) /\ HasRoute(k, k) /\ routes[k][k].weight = 0
    /\ \A e \in DOMAIN edges :
         LET i == edges[e].from
             j == edges[e].to
         IN  /\ i \in Vertex /\ j \in Vertex /\ HasRoute(i, j)
             /\ routes[i][j].weight <= edges[e].weight

\* BuildRoute gives edges that lead from i to j, each from where the one before
\* has gone to, whose weights add up to that of the route.  The table does not
\* hold the edges of a route but one edge of it: the others are those of other
\* routes, which were found at other times.
Leads(way, i, j) ==
  IF way = <<>> THEN i = j
  ELSE /\ edges[way[1]].from = i /\ edges[way[Len(way)]].to = j
       /\ \A n \in 1 .. Len(way) - 1 : edges[way[n]].to = edges[way[n + 1]].from

WeightOf(way) ==
  LET sum[n \in 0 .. Len(way)] == IF n = 0 THEN 0 ELSE sum[n - 1] + edges[way[n]].weight
  IN  sum[Len(way)]

RoutesAreWays ==
  step = "ready" =>
    \A i, j \in Vertex : HasRoute(i, j) =>
      LET way == BuildRoute(i, j)
      IN  /\ Leads(way, i, j) /\ WeightOf(way) = routes[i][j].weight
          /\ Len(way) < VertexCount  \* it turns back nowhere, so the loop ends

\* The constructor fails, or writes where it must not, only on a graph with a
\* negative weight, or with a vertex that edges enter and none leaves.
EveryVertexIsLeft == \A e \in DOMAIN edges : edges[e].to \in Sources
VerticesAreNumbered == Sources = 0 .. Cardinality(Sources) - 1
FailsOnBadGraphsOnly ==
  step \in Failure =>
    \/ ~EveryVertexIsLeft \/ ~VerticesAreNumbered
    \/ \E e \in DOMAIN edges : edges[e].weight < 0
=============================================================================
