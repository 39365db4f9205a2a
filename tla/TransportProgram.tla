-------------------------- MODULE TransportProgram --------------------------
(***************************************************************************)
(* The program of transport_catalogue, run after run: make_base reads base *)
(* requests into a catalogue and stores it in a file, process_requests     *)
(* restores it, makes the router and answers (json_reader.cpp,             *)
(* serialization.cpp, main.cpp).  ReadJSON does both without the file, and *)
(* so do the readers of text.  An exception ends the process, and only the *)
(* file outlives it.                                                       *)
(*                                                                         *)
(* A definition marked "Slip" is not the code: it is the definition after  *)
(* it with a mistake that the checks are shown to notice.                  *)
(***************************************************************************)
EXTENDS TransportRouter, MapRenderer, TextReader

CONSTANTS
  Program,   \* sequences of runs, the last of which answers
  Orders(_), \* the orders in which an unordered container may give a set
  IntSize    \* bound: the values of an int, 2^32 in the code

VARIABLES
  runs,         \* the program's inputs, a record for each run
  run,          \* the number of the run
  stage,        \* how far the run is
  next,         \* the base request that comes next
  buses_queue,  \* the requests about buses that wait
  map_settings, \* the settings of the map
  base,         \* the file at db_path
  responses,    \* what was printed
  outcomes,     \* how the runs have ended
  made          \* for the properties: the run that base was made by, or 0

programVars == <<runs, run, stage, next, buses_queue, map_settings, base, responses, outcomes, made>>
allVars == <<routerVars, transportVars, programVars>>

Run == runs[run]

\* What ParseFromIstream leaves of a file that is not there or is empty: it
\* returns false, which nobody reads, and a message without anything.
EmptyBase ==
  [stops |-> Empty, buses |-> Empty, distances |-> Empty, bus_wait_time |-> 0,
   render_settings |-> GetProtoMapSettings(NoSettings)]

ProgramInit ==
  /\ runs \in Program
  /\ run = 1 /\ stage = "start" /\ next = 1
  /\ buses_queue = <<>> /\ map_settings = NoSettings /\ responses = <<>> /\ outcomes = <<>>
  /\ base = EmptyBase /\ made = 0
  /\ catalogue = EmptyCatalogue /\ bus_wait_time = 0
  /\ all_buses = <<>> /\ stop_to_vertex = Empty
  /\ edges = <<>> /\ Constructing

\* The process returns from main, or ends in another way.
End(outcome) ==
  /\ outcomes' = Append(outcomes, outcome)
  /\ run' = run + 1 /\ stage' = "start"
  /\ UNCHANGED <<runs, next, buses_queue, map_settings, routerVars, transportVars>>

\* The settings are read before anything else.
ReadsSettings == Run.mode \in {"make_base", "ReadJSON"}

Start ==
  /\ stage = "start" /\ run <= Len(runs)
  /\ ReadsSettings => MapSettingsOutcome(Run.render_settings) = "ok"
  /\ stage' = IF Run.mode = "process_requests" THEN "restore" ELSE "add"
  /\ catalogue' = EmptyCatalogue
  /\ map_settings' \in IF ReadsSettings THEN MapSettings(Run.render_settings) ELSE {NoSettings}
  /\ bus_wait_time' \in IF "bus_wait_time" \in DOMAIN Run THEN {Run.bus_wait_time} ELSE Indeterminate
  /\ next' = 1 /\ buses_queue' = <<>>
  /\ all_buses' = <<>> /\ stop_to_vertex' = Empty /\ Construct(<<>>)
  /\ UNCHANGED <<runs, run, base, responses, outcomes, made>>

RefuseSettings ==
  /\ stage = "start" /\ run <= Len(runs)
  /\ ReadsSettings /\ MapSettingsOutcome(Run.render_settings) # "ok"
  /\ End(MapSettingsOutcome(Run.render_settings))
  /\ UNCHANGED <<base, responses, made>>

(***************************************************************************)
(* AddDataJSONHandler and the reader of text: stops as they come, then the *)
(* buses.                                                                  *)
(***************************************************************************)
Incoming == IF Run.mode = "text" THEN Run.lines ELSE Run.base_requests
IncomingRequest ==
  IF Run.mode = "text" THEN ProcessedRequest(Run.lines[next]) ELSE Run.base_requests[next]

KeysOf(type) ==
  {"type", "name"} \cup
    IF type = "Stop" THEN {"coordinates", "road_distances"} ELSE {"stops", "is_roundtrip"}
IsComplete(request) == "type" \in DOMAIN request /\ KeysOf(request.type) \subseteq DOMAIN request

\* The lists and numbers that a run reads are lists and whole numbers; its names
\* have their places in the order of all names.
IsRequest(request) ==
  IsComplete(request) =>
    /\ request.name \in ToSet(NameOrder)
    /\ IF request.type = "Stop"
       THEN /\ request.coordinates \in [lat : Int, lng : Int]
            /\ IsFiniteSet(DOMAIN request.road_distances)
            /\ \A t \in DOMAIN request.road_distances : request.road_distances[t] \in Int
       ELSE /\ request.stops \in Seq(ToSet(request.stops)) /\ request.is_roundtrip \in BOOLEAN
            /\ ToSet(request.stops) \subseteq ToSet(NameOrder)

\* A list of distances gives those of a table.
Gives(distances, table) ==
  /\ distances \in Seq(ToSet(distances))
  /\ {distances[k].to : k \in DOMAIN distances} = DOMAIN table
  /\ \A k \in DOMAIN distances : distances[k].distance = table[distances[k].to]

\* A line says what a request says.  No line is refused that names two stops or a latitude without a minus.
CanBeText(request) ==
  IF request.type = "Stop" THEN request.coordinates.lat >= 0 ELSE Len(request.stops) > 1

MeansTheSame(line, request) ==
  LET said == ProcessedRequest(line)
  IN  /\ IsComplete(request) /\ request.type \in {"Stop", "Bus"} /\ CanBeText(request)
           => LineOutcome(line) = "ok"
      /\ LineOutcome(line) = "ok" =>
           /\ IsComplete(request) /\ said.type = request.type
           /\ request.type = "Bus" => said = request
           /\ request.type = "Stop" =>
                /\ said.name = request.name /\ said.coordinates = request.coordinates
                /\ Gives(said.distances, request.road_distances)

\* A run that reads text has requests for the properties alone: they are what its
\* lines say.
IsInput(input) ==
  /\ input.mode \in {"make_base", "process_requests", "ReadJSON", "text"}
  /\ "bus_wait_time" \in DOMAIN input => input.bus_wait_time \in Int
  /\ input.base_requests \in Seq(ToSet(input.base_requests))
  /\ \A request \in ToSet(input.base_requests) : IsRequest(request)
  /\ input.stat_requests \in Seq(ToSet(input.stat_requests))
  /\ input.mode = "text" =>
       /\ Len(input.lines) = Len(input.base_requests)
       /\ \A k \in DOMAIN input.base_requests : MeansTheSame(input.lines[k], input.base_requests[k])
       /\ input.stat_requests =
            [k \in DOMAIN input.stat_lines |-> ProcessedQuestion(input.stat_lines[k])]

ASSUME ProgramAssumption ==
  /\ IntSize \in Nat \ {0}
  /\ Indeterminate \subseteq Int /\ NameOrder \in Seq(ToSet(NameOrder))
  /\ \A p \in Program : p \in Seq(ToSet(p)) /\ \A input \in ToSet(p) : IsInput(input)

\* A key is looked up with at().  What a bus lacks is missed when it is added.
IncomingOutcome ==
  LET request == IncomingRequest
  IN  IF Run.mode = "text" THEN LineOutcome(Run.lines[next])
      ELSE IF "type" \notin DOMAIN request THEN "out_of_range"
      ELSE IF request.type = "Stop" /\ ~IsComplete(request) THEN "out_of_range"
      ELSE IF request.type \in {"Bus", "Stop"} THEN "ok" ELSE "logic_error"

\* An int, or a double of an int, becomes a DistanceType: the builds do to a
\* negative double what the language says of an int.
AsDistance(n) == n % DistanceSize

RoadDistances(request) ==
  [t \in DOMAIN request.road_distances |-> AsDistance(request.road_distances[t])]

DistancesFrom(request) ==
  IF Run.mode = "text"
  THEN [k \in DOMAIN request.distances |->
         [to |-> request.distances[k].to, distance |-> AsDistance(request.distances[k].distance)]]
  ELSE LET table == RoadDistances(request)
           names == SetToSeq(DOMAIN table)
       IN  [k \in DOMAIN names |-> [to |-> names[k], distance |-> table[names[k]]]]

HandleAddStop(c, request) ==
  LET distances == DistancesFrom(request)
  IN  SetDistances(AddStop(c, request.name, request.coordinates),
        [k \in DOMAIN distances |->
          [from |-> request.name, to |-> distances[k].to, distance |-> distances[k].distance]])

HandleAddBus(request) ==
  LET outcome == IF ~IsComplete(request) THEN "out_of_range"
                 ELSE AddBusOutcome(catalogue, request.stops, ~request.is_roundtrip)
  IN  \/ /\ outcome = "ok"
         /\ catalogue' = AddBus(catalogue, request.name, request.stops, ~request.is_roundtrip)
         /\ buses_queue' = Tail(buses_queue)
         /\ UNCHANGED <<runs, run, stage, next, map_settings, base, responses, outcomes, made,
                        routerVars, bus_wait_time, all_buses, stop_to_vertex>>
      \/ outcome # "ok" /\ End(outcome) /\ UNCHANGED <<base, responses, made>>

Comes == stage = "add" /\ next <= Len(Incoming)
IsNext(type) == Comes /\ IncomingOutcome = "ok" /\ IncomingRequest.type = type

QueueBus ==
  /\ IsNext("Bus")
  /\ buses_queue' = Append(buses_queue, IncomingRequest)
  /\ next' = next + 1
  /\ UNCHANGED <<runs, run, stage, map_settings, base, responses, outcomes, made, routerVars,
                 transportVars>>

AddNextStop ==
  /\ IsNext("Stop")
  /\ catalogue' = HandleAddStop(catalogue, IncomingRequest)
  /\ next' = next + 1
  /\ UNCHANGED <<runs, run, stage, buses_queue, map_settings, base, responses, outcomes, made,
                 routerVars, bus_wait_time, all_buses, stop_to_vertex>>

RefuseNext ==
  /\ Comes /\ IncomingOutcome # "ok"
  /\ End(IncomingOutcome)
  /\ UNCHANGED <<base, responses, made>>

\* Slip: the buses do not wait for all the stops.
AddQueuedBusAtOnce ==
  /\ stage = "add" /\ buses_queue # <<>>
  /\ HandleAddBus(Head(buses_queue))

AddQueuedBus ==
  /\ stage = "add" /\ next > Len(Incoming) /\ buses_queue # <<>>
  /\ HandleAddBus(Head(buses_queue))

EndOfAdd ==
  /\ stage = "add" /\ next > Len(Incoming) /\ buses_queue = <<>>
  /\ stage' = CASE Run.mode = "make_base" -> "store"
                [] Run.mode = "ReadJSON" -> "route"
                [] Run.mode = "text" -> "print"
  /\ UNCHANGED <<runs, run, next, buses_queue, map_settings, base, responses, outcomes, made,
                 routerVars, transportVars>>

(***************************************************************************)
(* SerializeTCatalogue and DeserializeTCatalogue.                          *)
(***************************************************************************)
\* Slip: the list of a bus that is served both ways is stored as it is kept.
ProtoBusWithTheWayBack(bus) == [stops |-> bus.stops, is_roundtrip |-> bus.is_roundtrip]

\* GetProtoBus: of a line that is kept there and back, the way there.
ProtoBus(bus) ==
  [stops |-> IF bus.is_roundtrip THEN bus.stops ELSE SubSeq(bus.stops, 1, Len(bus.stops) \div 2 + 1),
   is_roundtrip |-> bus.is_roundtrip]

ProtoCatalogue ==
  [stops |-> [s \in DOMAIN catalogue.stops |-> catalogue.stops[s].coordinates],
   buses |-> [b \in DOMAIN catalogue.buses |-> ProtoBus(catalogue.buses[b])],
   distances |-> catalogue.distances, bus_wait_time |-> bus_wait_time,
   render_settings |-> GetProtoMapSettings(map_settings)]

\* The file is opened, and emptied, before the message is made; making it asks
\* for the number of every stop that a distance names.
Store ==
  /\ stage = "store"
  /\ IF \A leg \in DOMAIN catalogue.distances : {leg[1], leg[2]} \subseteq DOMAIN catalogue.stops
     THEN base' = ProtoCatalogue /\ made' = run /\ End("ok")
     ELSE base' = EmptyBase /\ made' = 0 /\ End("out_of_range")
  /\ UNCHANGED responses

RestoredBuses(c, proto_buses, order) ==
  LET added[n \in 0 .. Len(order)] ==
        IF n = 0 THEN c
        ELSE LET bus == proto_buses[order[n]]
             IN  AddBus(added[n - 1], order[n], bus.stops, ~bus.is_roundtrip)
  IN  added[Len(order)]

\* Stops, distances and buses, in the orders in which they were stored.
Restored(order) ==
  LET stops == [EmptyCatalogue EXCEPT !.stops =
                 [s \in DOMAIN base.stops |-> [coordinates |-> base.stops[s], buses |-> {}]]]
      distances == SetDistances(stops,
        [k \in DOMAIN order |-> [from |-> order[k][1], to |-> order[k][2],
                                 distance |-> base.distances[order[k]]]])
  IN  RestoredBuses(distances, base.buses, SetToSeq(DOMAIN base.buses))

Restore ==
  /\ stage = "restore"
  /\ \E order \in Orders(DOMAIN base.distances) : catalogue' = Restored(order)
  /\ map_settings' = DeserializeMapSettings(base.render_settings)
  /\ bus_wait_time' = base.bus_wait_time
  /\ stage' = "route"
  /\ UNCHANGED <<runs, run, next, buses_queue, base, responses, outcomes, made, routerVars,
                 all_buses, stop_to_vertex>>

(***************************************************************************)
(* The router, and GetDataJSONHandler.                                     *)
(***************************************************************************)
MakeRouter ==
  /\ stage = "route"
  /\ \E order \in Orders(DOMAIN catalogue.buses) : MakeTransportRouter(order)
  /\ stage' = "answer"
  /\ UNCHANGED <<runs, run, next, buses_queue, map_settings, base, responses, outcomes, made>>

RouterStep == stage = "answer" /\ Next /\ UNCHANGED <<transportVars, programVars>>

RouterFails ==
  /\ stage = "answer" /\ step \in Failure
  /\ End(step)
  /\ UNCHANGED <<base, responses, made>>

GetRouteInfoResponse(s, t) ==
  LET info == GetRouteInfo(s, t)
      ride(k) == edges[info.edges[k]]
  IN  IF ~info.found THEN NotFound
      ELSE [total_time |-> info.total_weight,
            items |-> FlattenSeq([k \in DOMAIN info.edges |->
              <<[type |-> "Wait", stop_name |-> GetStopNameByVertexId(ride(k).from),
                 time |-> bus_wait_time],
                [type |-> "Bus", bus |-> ride(k).name, span_count |-> ride(k).span_count,
                 time |-> ride(k).weight - bus_wait_time]>>])]

\* A DistanceType becomes an int.
AsInt(n) == ((n + IntSize \div 2) % IntSize) - IntSize \div 2

\* What JSON says of a bus.
WithRouteLength(info) ==
  IF info = NotFound THEN NotFound ELSE [info EXCEPT !.road_distance = AsInt(@)]

Response(request) ==
  CASE request.type = "Bus" -> WithRouteLength(GetBusInfo(catalogue, request.name))
    [] request.type = "Stop" -> GetBusesByStop(catalogue, request.name)
    [] request.type = "Map" -> GetMapSVG(catalogue, map_settings)
    [] request.type = "Route" -> GetRouteInfoResponse(request.from, request.to)

\* The keys of a question.  A map is drawn before its id is looked up.
QuestionKeys ==
  [Bus |-> {"id", "name"}, Stop |-> {"id", "name"}, Map |-> {"id"}, Route |-> {"id", "from", "to"}]
ResponseOutcome(request) ==
  IF "type" \notin DOMAIN request THEN "out_of_range"
  ELSE IF request.type \notin DOMAIN QuestionKeys THEN "logic_error"
  ELSE IF request.type = "Map" /\ MapOutcome(catalogue, map_settings) # "ok"
  THEN MapOutcome(catalogue, map_settings)
  ELSE IF ~(QuestionKeys[request.type] \subseteq DOMAIN request) THEN "out_of_range" ELSE "ok"

\* Nothing is printed before every request has its response.
Answer ==
  /\ stage = "answer" /\ step = "ready"
  /\ LET requests == Run.stat_requests
         failing == {k \in DOMAIN requests : ResponseOutcome(requests[k]) # "ok"}
     IN  IF failing = {}
         THEN /\ responses' = [k \in DOMAIN requests |->
                               [request_id |-> requests[k].id, answer |-> Response(requests[k])]]
              /\ End("ok")
         ELSE responses' = responses /\ End(ResponseOutcome(requests[Min(failing)]))
  /\ UNCHANGED <<base, made>>

\* The reader of text knows two questions, and no router.  It prints as it reads,
\* and ends at a line without a name.
PrintedAnswer(request) ==
  IF request.type = "Bus" THEN GetBusInfo(catalogue, request.name)
  ELSE GetBusesByStop(catalogue, request.name)

PrintAnswers ==
  /\ stage = "print"
  /\ LET lines == Run.stat_lines
         failing == {k \in DOMAIN lines : ~HasName(lines[k])}
         read == IF failing = {} THEN lines ELSE SubSeq(lines, 1, Min(failing) - 1)
     IN  /\ responses' = [k \in DOMAIN read |-> [answer |-> PrintedAnswer(ProcessedQuestion(read[k]))]]
         /\ End(IF failing = {} THEN "ok" ELSE "out_of_range")
  /\ UNCHANGED <<base, made>>

ProgramNext ==
  \/ Start \/ RefuseSettings
  \/ QueueBus \/ AddNextStop \/ RefuseNext \/ AddQueuedBus \/ EndOfAdd
  \/ Store \/ Restore
  \/ MakeRouter \/ RouterStep \/ RouterFails \/ Answer \/ PrintAnswers

ProgramSpec == ProgramInit /\ [][ProgramNext]_allVars

(***************************************************************************)
(* What base requests describe, read at once.                              *)
(***************************************************************************)
Named(requests, type, name) ==
  {k \in DOMAIN requests : requests[k].type = type /\ requests[k].name = name}
NamesOf(requests, type) ==
  {requests[k].name : k \in {n \in DOMAIN requests : requests[n].type = type}}
CallsOf(request) == ToSet(request.stops)

\* The stops that are described, and those that buses call at.
StopNames(requests) ==
  NamesOf(requests, "Stop")
    \cup UNION {CallsOf(requests[k]) : k \in {n \in DOMAIN requests : requests[n].type = "Bus"}}

Places(requests, name) ==
  LET said == Named(requests, "Stop", name)
  IN  IF said = {} THEN Origin ELSE requests[Max(said)].coordinates

\* Where a distance from s to t is given.
Given(requests, s, t) ==
  {k \in Named(requests, "Stop", s) : t \in DOMAIN requests[k].road_distances}
Described(requests, s, t) == Given(requests, s, t) \cup Given(requests, t, s) # {}

\* The last distance that is given from s to t; if there is none, the first one
\* that is given from t to s.
DistanceIn(requests, s, t) ==
  IF Given(requests, s, t) # {}
  THEN RoadDistances(requests[Max(Given(requests, s, t))])[t]
  ELSE RoadDistances(requests[Min(Given(requests, t, s))])[s]

BusLine(request) == BusStops(request.stops, ~request.is_roundtrip)

\* The last description of a bus holds.
BusAnswer(requests, name) ==
  LET said == Named(requests, "Bus", name)
  IN  IF said = {} THEN NotFound
      ELSE LET line == BusLine(requests[Max(said)])
           IN  [stops_count |-> Len(line), unique_stops_count |-> Cardinality(ToSet(line)),
                places |-> [k \in DOMAIN line |-> Places(requests, line[k])],
                road_distance |-> Total([k \in 1 .. Len(line) - 1 |->
                                    DistanceIn(requests, line[k], line[k + 1])]) % DistanceSize]

StopAnswer(requests, name) ==
  IF name \notin StopNames(requests) THEN NotFound
  ELSE {b \in NamesOf(requests, "Bus") : name \in CallsOf(requests[Max(Named(requests, "Bus", b))])}

\* The ends of a line, where its name is; the line ends where it turns.
EndsOf(request) ==
  LET first == request.stops[1]
      last == request.stops[Len(request.stops)]
  IN  IF request.is_roundtrip \/ first = last THEN <<first>> ELSE <<first, last>>

\* A drawing that is true to the places, with north above, in the frame and as
\* large as the frame allows.
IsTrueToScale(at, place, settings) ==
  LET stops == DOMAIN at
      unit == (CHOOSE p \in {at[s] : s \in stops} : TRUE).unit
      right == (settings.width - settings.padding) * unit
      bottom == (settings.height - settings.padding) * unit
  IN  /\ \A s, t \in stops :
           /\ (at[s].x - at[t].x) * (place[t].lat - place[s].lat)
                = (at[s].y - at[t].y) * (place[s].lng - place[t].lng)
           /\ place[s].lng < place[t].lng => at[s].x < at[t].x
           /\ place[s].lat < place[t].lat => at[s].y > at[t].y
           /\ place[s] = place[t] => at[s] = at[t]
      /\ \A s \in stops : at[s].unit = unit /\ at[s].x <= right /\ at[s].y <= bottom
      /\ stops # {} =>
           /\ Min({at[s].x : s \in stops}) = settings.padding * unit
           /\ Min({at[s].y : s \in stops}) = settings.padding * unit
           /\ \/ \A s, t \in stops : place[s] = place[t]
              \/ \E s \in stops : at[s].x = right \/ at[s].y = bottom

HasRoom(settings) ==
  /\ {settings.width, settings.height, settings.padding} \subseteq Int
  /\ 2 * settings.padding < settings.width /\ 2 * settings.padding < settings.height

\* The lines in the order of their names, each in its color of the palette and
\* with its name in that color at its ends; then the stops that are called at,
\* and their names.  A stop is where its name is.
IsMapOf(requests, settings, map) ==
  LET described(b) == requests[Max(Named(requests, "Bus", b))]
      lines == ByName({b \in NamesOf(requests, "Bus") : described(b).stops # <<>>})
      stops == ByName(UNION {CallsOf(described(b)) : b \in ToSet(lines)})
      color(k) == settings.color_palette[((k - 1) % Len(settings.color_palette)) + 1]
      point(k) == map[Len(map) - 2 * (Len(stops) - k)].point
      at == [s \in ToSet(stops) |-> point(CHOOSE k \in DOMAIN stops : stops[k] = s)]
      texts(kind, name, place, front) ==
        LET text(shade) ==
              [kind |-> kind, name |-> name, point |-> place, offset |-> Offset(kind, settings),
               color |-> shade]
        IN  <<text(settings.underlayer_color), text(front)>>
  IN  /\ Len(map) >= 3 * Len(stops)
      /\ map = [k \in DOMAIN lines |->
                  LET line == BusLine(described(lines[k]))
                  IN  [kind |-> "line", color |-> color(k), points |-> [i \in DOMAIN line |-> at[line[i]]]]]
                \o FlattenSeq([k \in DOMAIN lines |->
                     LET ends == EndsOf(described(lines[k]))
                     IN  FlattenSeq([i \in DOMAIN ends |-> texts("bus", lines[k], at[ends[i]], color(k))])])
                \o [k \in DOMAIN stops |-> [kind |-> "symbol", point |-> at[stops[k]],
                                            color |-> String("white")]]
                \o FlattenSeq([k \in DOMAIN stops |->
                     texts("stop", stops[k], at[stops[k]], String("black"))])
      /\ HasRoom(settings) =>
           IsTrueToScale(at, [s \in DOMAIN at |-> Places(requests, s)], settings)

(***************************************************************************)
(* Properties.                                                             *)
(***************************************************************************)
\* The run whose base requests a run answers from, or 0.
Source(k) == IF runs[k].mode = "process_requests" THEN made ELSE k
DocumentOf(k) == IF Source(k) = 0 THEN <<>> ELSE runs[Source(k)].base_requests

\* When the stops are read, and again when they are restored in another order,
\* each distance is the one that was described: a way that has a distance of its
\* own keeps it, whichever way was described first, and one that has none has the
\* first that was given for the other way (the comment at SetDistances).
DistancesAsDescribed ==
  stage \in {"store", "route", "print"} =>
    LET document == DocumentOf(run)
        names == StopNames(document) \cup {leg[1] : leg \in DOMAIN catalogue.distances}
    IN  \A s, t \in names :
          /\ Known(catalogue, s, t) <=> Described(document, s, t)
          /\ Known(catalogue, s, t) => catalogue.distances[<<s, t>>] = DistanceIn(document, s, t)

\* Whatever was read, as JSON or as text, stored, restored and refused before,
\* the answers about buses and stops and the map are those of the base requests
\* that the file was made of, read at once: the order of the requests has no
\* part in them, a one-way list comes back as it was, and a bus has left the
\* stops of an earlier description.  Without the file, it is still said and drawn
\* to call at these.  A number that the settings do not have may be any.  Said of
\* each run when it has ended: the file is then the one it had.
DescribedOnce(requests) == \A b \in NamesOf(requests, "Bus") : Cardinality(Named(requests, "Bus", b)) = 1
CallsAreOfTheDocument(k) == runs[k].mode = "process_requests" \/ DescribedOnce(DocumentOf(k))

IsAnswer(response, request, k) ==
  /\ request.type = "Bus" =>
       response = LET info == BusAnswer(DocumentOf(k), request.name)
                  IN  IF runs[k].mode = "text" THEN info ELSE WithRouteLength(info)
  /\ request.type = "Stop" /\ CallsAreOfTheDocument(k)
       => response = StopAnswer(DocumentOf(k), request.name)
  /\ request.type = "Map" /\ CallsAreOfTheDocument(k)
       => \E settings \in MapSettings(runs[Source(k)].render_settings) :
            IsMapOf(DocumentOf(k), settings, response)

AnswersAreOfTheDocument ==
  outcomes # <<>> =>
    LET k == Len(outcomes)
    IN  outcomes[k] = "ok" /\ runs[k].mode # "make_base" =>
          \A n \in DOMAIN runs[k].stat_requests :
            LET request == runs[k].stat_requests[n]
            IN  /\ IsAnswer(responses[n].answer, request, k)
                /\ runs[k].mode # "text" => responses[n].request_id = request.id

\* No run fails on base requests in which every leg of a bus has a distance one
\* way or the other, every distance leads to a stop that is described or called
\* at, no time is negative, and every bus has stops and comes back to its first
\* one (domain.h: "stop1, ...stopN-1, stopN, stopN-1, ...stop1"): in whatever order
\* they stand, the distances are there when the buses are added, the numbers of
\* the stops are there when the file is written, and no stop lies beyond the
\* router's table.  As text, a bus needs two stops, a latitude no minus, and a
\* question a name.
IsGood(requests) ==
  /\ \A k \in DOMAIN requests : IsComplete(requests[k])
  /\ \A k \in DOMAIN requests :
       \/ /\ requests[k].type = "Stop"
          /\ DOMAIN requests[k].road_distances \subseteq StopNames(requests)
          /\ \A t \in DOMAIN requests[k].road_distances : requests[k].road_distances[t] >= 0
       \/ /\ requests[k].type = "Bus" /\ requests[k].stops # <<>>
          /\ LET line == BusLine(requests[k])
             IN  /\ line[1] = line[Len(line)]
                 /\ \A leg \in Legs(line) : Described(requests, leg[1], leg[2])

CanDraw(settings) ==
  /\ OffsetKeys \cup {"color_palette"} \subseteq DOMAIN settings
  /\ 1 \in DOMAIN settings.color_palette
  /\ \A key \in OffsetKeys : Len(settings[key]) >= 2

HasGoodSettings(settings) ==
  /\ "bus_wait_time" \in DOMAIN settings /\ settings.bus_wait_time >= 0
  /\ settings.mode # "text" =>
       LET section == settings.render_settings
       IN  MapSettingsOutcome(section) = "ok" /\ CanDraw(section)

IsGoodInput(input) ==
  /\ HasGoodSettings(input) /\ IsGood(input.base_requests)
  /\ input.mode = "text" =>
       \A k \in DOMAIN input.base_requests : CanBeText(input.base_requests[k])

IsGoodQuestion(request) ==
  /\ "type" \in DOMAIN request /\ request.type \in DOMAIN QuestionKeys
  /\ QuestionKeys[request.type] \subseteq DOMAIN request

AsksWell(input) ==
  IF input.mode = "text" THEN \A n \in DOMAIN input.stat_lines : HasName(input.stat_lines[n])
  ELSE \A n \in DOMAIN input.stat_requests : IsGoodQuestion(input.stat_requests[n])

\* A run from good base requests that is asked good questions ends as it should.
GoodDocumentsAreAnswered ==
  outcomes # <<>> =>
    LET k == Len(outcomes)
    IN  Source(k) # 0 /\ IsGoodInput(runs[Source(k)]) /\ AsksWell(runs[k]) => outcomes[k] = "ok"
=============================================================================
