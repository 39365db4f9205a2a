--------------------------- MODULE TransportRouter ---------------------------
(***************************************************************************)
(* TransportRouter (transport_catalogue/transport_router.cpp): the graph   *)
(* it makes of the buses of a catalogue, the Router it builds on it, and   *)
(* the routes it answers with.  A unit of distance takes a unit of time.   *)
(*                                                                         *)
(* A definition marked "Slip" is not the code: it is the definition after  *)
(* it with a mistake that the checks are shown to notice.                  *)
(***************************************************************************)
EXTENDS Router, TransportCatalogue

VARIABLES
  catalogue,
  bus_wait_time,
  all_buses,      \* the names of the buses in the order of GetAllBuses
  stop_to_vertex  \* the numbers of the stops

routerVars == <<edges, routes, step, vertex, pending, from, to, started>>
transportVars == <<catalogue, bus_wait_time, all_buses, stop_to_vertex>>

(***************************************************************************)
(* GetCreatedGraph: an edge for each two stops of a bus, one after the     *)
(* other, if the leg to the second has a distance.                         *)
(***************************************************************************)
Leg(c, s, t) == IF Known(c, s, t) THEN c.distances[<<s, t>>] ELSE 0

\* The wait for the bus, and the time from its i-th stop to its j-th.
Time(c, wait, stops, i, j) ==
  LET time[n \in i .. j] ==
        IF n = i THEN wait ELSE time[n - 1] + Leg(c, stops[n - 1], stops[n])
  IN  time[j]

RidesFrom(c, wait, b, i) ==
  LET stops == c.buses[b].stops
      ride(j) ==
        [start |-> stops[i], end |-> stops[j], weight |-> Time(c, wait, stops, i, j),
         name |-> b, span_count |-> j - i]
  IN  FlattenSeq([n \in 1 .. Len(stops) - i |->
        IF Known(c, stops[i + n - 1], stops[i + n]) THEN <<ride(i + n)>> ELSE <<>>])

AllRides(c, wait, order) ==
  FlattenSeq([k \in DOMAIN order |->
    FlattenSeq([i \in DOMAIN c.buses[order[k]].stops |-> RidesFrom(c, wait, order[k], i)])])

\* GetOrCreateVertexId: stops are numbered as the edges come to them.
VertexIds(rides) ==
  LET ends == FlattenSeq([k \in DOMAIN rides |-> <<rides[k].start, rides[k].end>>])
      first(s) == CHOOSE n \in DOMAIN ends : ends[n] = s /\ \A m \in 1 .. n - 1 : ends[m] # s
  IN  [s \in ToSet(ends) |-> Cardinality({ends[m] : m \in 1 .. first(s) - 1})]

CreatedGraph(rides, id) ==
  [k \in DOMAIN rides |->
    [from |-> id[rides[k].start], to |-> id[rides[k].end], weight |-> rides[k].weight,
     name |-> rides[k].name, span_count |-> rides[k].span_count]]

\* The constructor, up to that of its Router, which then goes on (Next).
MakeTransportRouter(order) ==
  LET rides == AllRides(catalogue, bus_wait_time, order)
      id == VertexIds(rides)
  IN  /\ all_buses' = order
      /\ stop_to_vertex' = id
      /\ Construct(CreatedGraph(rides, id))
      /\ UNCHANGED <<catalogue, bus_wait_time>>

(***************************************************************************)
(* GetRouteInfo.  Vertices outside the table are refused by at().          *)
(***************************************************************************)
GetStopNameByVertexId(v) == CHOOSE s \in DOMAIN stop_to_vertex : stop_to_vertex[s] = v

Nullopt == [found |-> FALSE]

GetRouteInfo(s, t) ==
  IF ~({s, t} \subseteq DOMAIN stop_to_vertex) THEN Nullopt
  ELSE LET i == stop_to_vertex[s]
           j == stop_to_vertex[t]
       IN  IF ~HasRoute(i, j) THEN Nullopt
           ELSE [found |-> TRUE, total_weight |-> routes[i][j].weight,
                 edges |-> BuildRoute(i, j)]

(***************************************************************************)
(* Properties.                                                             *)
(***************************************************************************)
Served == DOMAIN stop_to_vertex

\* What a ride takes by the clock of a bus that starts at its first stop.
Clock(b) ==
  LET stops == catalogue.buses[b].stops
      clock[n \in DOMAIN stops] ==
        IF n = 1 THEN 0 ELSE clock[n - 1] + Leg(catalogue, stops[n - 1], stops[n])
  IN  clock
RideTime(b, i, j) == bus_wait_time + Clock(b)[j] - Clock(b)[i]

\* No ride gets a traveller anywhere before the answers do: who follows an
\* answer, then waits for any bus and gets off at any of its next stops, is
\* not there earlier than the answer for that stop says.  With the next two,
\* the answers are the fastest there are, from the lines of the catalogue over
\* the edges, the numbers of the vertices and the table back to the stops.
AnswersAreFastest ==
  step = "ready" =>
    \A s \in Served :
      LET answer == [t \in Served |-> GetRouteInfo(s, t)]
      IN  /\ answer[s].found /\ answer[s].total_weight = 0
          /\ \A b \in DOMAIN catalogue.buses :
               LET stops == catalogue.buses[b].stops
               IN  \A i, j \in DOMAIN stops :
                     i < j /\ answer[stops[i]].found =>
                       /\ answer[stops[j]].found
                       /\ answer[stops[j]].total_weight
                            <= answer[stops[i]].total_weight + RideTime(b, i, j)

\* The answers can be travelled: the bus of each ride goes from its start to its
\* end in as many stops and as much time as the answer says.  (That the rides
\* follow on each other and that their times add up is RoutesAreWays.)
AnswersCanBeTravelled ==
  step = "ready" =>
    \A s, t \in Served :
      LET answer == GetRouteInfo(s, t)
      IN  answer.found =>
            \A n \in DOMAIN answer.edges :
                 LET ride == edges[answer.edges[n]]
                     stops == catalogue.buses[ride.name].stops
                 IN  \E i, j \in DOMAIN stops :
                       /\ stops[i] = GetStopNameByVertexId(ride.from)
                       /\ stops[j] = GetStopNameByVertexId(ride.to)
                       /\ j = i + ride.span_count
                       /\ ride.weight = RideTime(ride.name, i, j)
\* All of these: an answer is a journey, and there is no faster one.
AnswersAreFastestJourneys == AnswersAreFastest /\ AnswersCanBeTravelled /\ RoutesAreWays
=============================================================================
