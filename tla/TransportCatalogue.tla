------------------------- MODULE TransportCatalogue -------------------------
(***************************************************************************)
(* TransportCatalogue (transport_catalogue/transport_catalogue.cpp): stops *)
(* with the buses that call there, buses with their stops and what was     *)
(* counted of them when they were added, and the distances between stops.  *)
(* The names are the strings that stop_names_ and bus_names_ own.          *)
(*                                                                         *)
(* A definition marked "Slip" is not the code: it is the definition after  *)
(* it with a mistake that the checks are shown to notice.                  *)
(***************************************************************************)
EXTENDS Integers, SequencesExt, Maps

CONSTANT
  DistanceSize   \* bound: the values of a DistanceType, 2^64 in the code

ASSUME DistanceAssumption == DistanceSize \in Nat \ {0}

\* The coordinates of a stop that was only named, by a bus.
Origin == [lat |-> 0, lng |-> 0]

EmptyCatalogue == [stops |-> Empty, buses |-> Empty, distances |-> Empty]

StopOf(c, s) == At(c.stops, s, [coordinates |-> Origin, buses |-> {}])

AddStop(c, name, coordinates) ==
  [c EXCEPT !.stops = With(@, name, [StopOf(c, name) EXCEPT !.coordinates = coordinates])]

(***************************************************************************)
(* SetDistances.  A distance holds for the way back as well, until the way *)
(* back has one.                                                           *)
(***************************************************************************)
\* Slip: what is there already is kept.
SetDistanceOnce(c, from, to, distance) ==
  LET there == With(c.distances, <<from, to>>, At(c.distances, <<from, to>>, distance))
  IN  [c EXCEPT !.distances = With(there, <<to, from>>, At(there, <<to, from>>, distance))]

SetDistance(c, from, to, distance) ==
  LET there == With(c.distances, <<from, to>>, distance)
  IN  [c EXCEPT !.distances = With(there, <<to, from>>, At(there, <<to, from>>, distance))]

\* distances: a sequence of records with a from, a to and a distance.
SetDistances(c, distances) ==
  LET set[n \in 0 .. Len(distances)] ==
        IF n = 0 THEN c
        ELSE SetDistance(set[n - 1], distances[n].from, distances[n].to, distances[n].distance)
  IN  set[Len(distances)]

Known(c, s, t) == <<s, t>> \in DOMAIN c.distances

(***************************************************************************)
(* AddBus.                                                                 *)
(***************************************************************************)
\* A line that is served one way after the other is kept there and back.
BusStops(stops, is_one_way) == IF is_one_way THEN stops \o Tail(Reverse(stops)) ELSE stops

Legs(stops) == {<<stops[i], stops[i + 1]>> : i \in 1 .. Len(stops) - 1}

Total(lengths) == FoldFunction(+, 0, lengths)
\* A sum of DistanceType.
RoadDistance(c, stops) ==
  Total([i \in 1 .. Len(stops) - 1 |-> c.distances[<<stops[i], stops[i + 1]>>]]) % DistanceSize

\* The euclidean distance is the places it is measured along.
CalculateBusInfo(c, stops) ==
  [stops_count |-> Len(stops), unique_stops_count |-> Cardinality(ToSet(stops)),
   places |-> [i \in DOMAIN stops |-> c.stops[stops[i]].coordinates],
   road_distance |-> RoadDistance(c, stops)]

\* How AddBus ends: with nothing to reverse, it starts behind the end of the
\* list; the distance of a leg is looked up with at().
AddBusOutcome(c, stops, is_one_way) ==
  IF is_one_way /\ stops = <<>> THEN "undefined"
  ELSE IF \E leg \in Legs(BusStops(stops, is_one_way)) : leg \notin DOMAIN c.distances
  THEN "out_of_range" ELSE "ok"

\* The bus calls at its stops; it stays at those it called at before.
CalledAt(c, name, stops) ==
  [c EXCEPT !.stops =
    [s \in DOMAIN c.stops \cup ToSet(stops) |->
      IF s \in ToSet(stops) THEN [StopOf(c, s) EXCEPT !.buses = @ \cup {name}] ELSE c.stops[s]]]

AddBus(c, name, stops, is_one_way) ==
  LET list == BusStops(stops, is_one_way)
      called == CalledAt(c, name, list)
  IN  [called EXCEPT !.buses =
        With(@, name, [stops |-> list, info |-> CalculateBusInfo(called, list),
                       is_roundtrip |-> ~is_one_way])]

(***************************************************************************)
(* Questions.                                                              *)
(***************************************************************************)
NotFound == [error_message |-> "not found"]

GetBusInfo(c, name) == IF name \in DOMAIN c.buses THEN c.buses[name].info ELSE NotFound
GetBusesByStop(c, name) == IF name \in DOMAIN c.stops THEN c.stops[name].buses ELSE NotFound
=============================================================================
