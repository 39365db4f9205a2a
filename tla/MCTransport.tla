---------------------------- MODULE MCTransport ----------------------------
(***************************************************************************)
(* The program of transport_catalogue on small networks, for the router,   *)
(* on all short sequences of base requests, for the catalogue, and on      *)
(* settings of many kinds, for the map.  A behaviour is one of the         *)
(* program, or one of its library for JSON.                                *)
(***************************************************************************)
EXTENDS TransportProgram

CONSTANTS A, B, C, D, NowhereStop

Here == [lat |-> 2, lng |-> 1]
There == [lat |-> 1, lng |-> 1]
FarEast == [lat |-> 1, lng |-> 4]

Near == {A, B, C}
City == {A, B, C, D}

StopRequest(s, at, road_distances) ==
  [type |-> "Stop", name |-> s, coordinates |-> at, road_distances |-> road_distances]
Bus(b, stops, is_roundtrip) ==
  [type |-> "Bus", name |-> b, stops |-> stops, is_roundtrip |-> is_roundtrip]
RouteFrom(s, t) == [type |-> "Route", from |-> s, to |-> t]
Ask(type, name) == [type |-> type, name |-> name]

Numbered(questions) == [k \in DOMAIN questions |-> [id |-> k] @@ questions[k]]
ToAsk ==
  <<Ask("Bus", "1"), Ask("Bus", "2"), Ask("Bus", "3"), Ask("Stop", A), Ask("Stop", B), Ask("Stop", C),
    Ask("Stop", NowhereStop), [type |-> "Map"], RouteFrom(A, B), RouteFrom(B, A),
    RouteFrom(A, NowhereStop)>>
Questions == Numbered(ToAsk)

Red == [kind |-> "string", text |-> "red"]
Array(items) == [kind |-> "array", items |-> items]
Settings(palette) ==
  [width |-> 13, height |-> 9, padding |-> 2, underlayer_color |-> Array(<<255, 256, 300, 1>>),
   bus_label_offset |-> <<7, 15>>, stop_label_offset |-> <<7, -3, 1>>, color_palette |-> palette]
Leaving(settings, keys) == [key \in DOMAIN settings \ keys |-> settings[key]]
TwoColors == Settings(<<Red, Array(<<1, 2, 3>>)>>)
Misspelt == [colour_palette |-> <<Red>>]

MakeBaseWith(requests, wait, settings) ==
  [mode |-> "make_base", base_requests |-> requests, bus_wait_time |-> wait,
   render_settings |-> settings, stat_requests |-> <<>>]
MakeBase(requests, wait) == MakeBaseWith(requests, wait, TwoColors)
Process(questions) ==
  [mode |-> "process_requests", base_requests |-> <<>>, bus_wait_time |-> 0,
   render_settings |-> Empty, stat_requests |-> questions]
Read(requests, wait) ==
  [mode |-> "ReadJSON", base_requests |-> requests, bus_wait_time |-> wait,
   render_settings |-> TwoColors, stat_requests |-> Questions]
ReadWithoutRouting(requests) ==
  [mode |-> "ReadJSON", base_requests |-> requests, render_settings |-> TwoColors,
   stat_requests |-> Questions]

(***************************************************************************)
(* Networks.  Under some distances a way round is shorter than the direct  *)
(* one.                                                                    *)
(***************************************************************************)
Number == [s \in City |-> CASE s = A -> 0 [] s = B -> 1 [] s = C -> 2 [] s = D -> 3]
Direct == [p \in City \X City |-> (Number[p[1]] * 3 + Number[p[2]] * 5) % 7]
Even == [p \in City \X City |-> 1]
Detour == [p \in City \X City |-> IF {p[1], p[2]} = {B, D} THEN 9 ELSE Number[p[2]]]

CityStops(distance) ==
  [k \in 1 .. 4 |->
    LET s == CHOOSE s \in City : Number[s] = k - 1
    IN  StopRequest(s, Here, [t \in City |-> distance[s, t]])]

Lines == UNION {[1 .. n -> Near] : n \in 2 .. 3}
LongLines == {<<A, B, C, D, A>>, <<D, B, A, C, D>>}
ThereAndBack == {<<A, C, D>>, <<B, D>>}

\* The first line goes from B to D and back; others lead round it, and number
\* the stops in many orders.
Shuttles == {<<x, y>> : x, y \in City} \ {<<x, x>> : x \in City}
Rounds ==
  {<<Bus("1", <<B, D>>, FALSE), Bus("2", l[1], FALSE), Bus("3", l[2], FALSE), Bus("4", l[3], FALSE)>> :
     l \in {x \in Shuttles \X Shuttles \X Shuttles : IsInjective(x)}}

Networks ==
  {<<Bus("1", x, TRUE)>> : x \in Lines}
    \cup {<<Bus("1", x, TRUE), Bus("2", y, TRUE)>> : x \in Lines, y \in LongLines}
    \cup {<<Bus("1", x, TRUE), Bus("2", y, FALSE)>> : x \in Lines, y \in ThereAndBack}
    \cup {<<Bus("1", x, TRUE), Bus("2", y, TRUE)>> :
            x \in {<<A, B>>, <<B, C>>, <<C, A, C>>}, y \in Lines}

NetworkRuns ==
  {<<Read(CityStops(d) \o n, w)>> : n \in Networks, d \in {Direct, Even}, w \in {0, 2}}
    \cup {<<Read(CityStops(Detour) \o n, 0)>> : n \in Rounds}
    \cup {<<Read(CityStops(Direct) \o <<Bus("1", <<A, B, A>>, TRUE)>>, -7)>>}

(***************************************************************************)
(* Base requests: stops that are described twice or not at all, distances  *)
(* one way and both, a bus that is described twice, mistakes.              *)
(***************************************************************************)
Request ==
  {StopRequest(A, Here, [t \in {B} |-> 1]), StopRequest(B, There, [t \in {A} |-> 2]),
   StopRequest(A, There, [t \in {B, C} |-> 3]), StopRequest(C, Here, Empty),
   StopRequest(C, Here, [t \in {A} |-> -1]),
   Bus("1", <<A, B>>, FALSE), Bus("1", <<A, C, A>>, TRUE), Bus("2", <<B>>, TRUE), Bus("2", <<>>, FALSE),
   Ask("Metro", A)}

Incomplete ==
  {[type |-> "Stop", name |-> A], [type |-> "Bus", name |-> "1"], [name |-> A],
   StopRequest(C, FarEast, Empty)}

Lists(S, longest) == UNION {{d \in [1 .. n -> S] : IsInjective(d)} : n \in 0 .. longest}
Documents(longest) == Lists(Request, longest)

OneLine == <<Bus("1", <<A, B>>, FALSE), StopRequest(B, There, [t \in {A} |-> 2])>>
Metro == <<Ask("Metro", A)>>

DocumentRuns ==
  {<<MakeBase(d, 1), Process(Questions)>> : d \in Documents(4)}
    \cup {<<MakeBase(OneLine, 1), MakeBase(d, 2), Process(Questions)>> : d \in Documents(2)}
    \cup {<<Read(d, 1)>> : d \in Documents(3) \cup Lists(Incomplete, 2)}
    \cup {<<MakeBase(OneLine, 1), Process(Questions \o q)>> :
            q \in {Numbered(Metro), Numbered(<<Ask("Bus", "1"), [type |-> "Map"], [type |-> "Route"]>>),
                   <<[name |-> A]>>, <<Ask("Stop", A)>>, <<[type |-> "Map"]>>, <<RouteFrom(A, B)>>}}

(***************************************************************************)
(* Settings with every kind of color, mistakes, and none; and larger maps. *)
(***************************************************************************)
SettingsOf ==
  {Settings(<<c>>) : c \in {Red, Array(<<1, 300, 3>>), Array(<<1, 2, 3, 1>>), Array(<<1, 2>>)}}
    \cup {Settings(<<>>), Empty, Misspelt,
          [Settings(<<Red>>) EXCEPT !.underlayer_color = [kind |-> "null"]],
          [Settings(<<Red>>) EXCEPT !.width = 25]}
    \cup {Leaving(TwoColors, {key}) : key \in SettingKeys}
    \cup {[TwoColors EXCEPT ![key] = <<7>>] : key \in OffsetKeys}

ThreeLines ==
  <<StopRequest(A, Here, [t \in {B, C} |-> 1]), StopRequest(B, There, [t \in {C} |-> 1]),
    StopRequest(C, FarEast, [t \in {A} |-> 1]), Bus("3", <<C, A>>, FALSE),
    Bus("1", <<A, B, A>>, FALSE), Bus("2", <<A, B, C, A>>, TRUE)>>

SettingsRuns ==
  {<<MakeBase(OneLine, 1), MakeBaseWith(d, 1, s), Process(Questions)>> :
     d \in {OneLine, ThreeLines}, s \in SettingsOf}
    \cup {<<ReadWithoutRouting(OneLine)>>, <<Read(ThreeLines, 1)>>}

(***************************************************************************)
(* The same base requests as lines of text, with one blank or two.         *)
(***************************************************************************)
NumberAsText(n) == IF n < 0 THEN <<"-", ToString(-n)>> ELSE <<ToString(n)>>
StopAsText(request, gap) ==
  LET names == SetToSeq(DOMAIN request.road_distances)
  IN  gap \o <<"Stop">> \o gap \o <<request.name, ":">> \o gap
        \o NumberAsText(request.coordinates.lat) \o gap \o <<",">> \o gap
        \o NumberAsText(request.coordinates.lng)
        \o FlattenSeq([k \in DOMAIN names |->
             <<",">> \o gap \o NumberAsText(request.road_distances[names[k]])
               \o <<"m">> \o gap \o <<"to">> \o gap \o <<names[k]>>])
BusAsText(request, gap) ==
  gap \o <<"Bus">> \o gap \o <<request.name, ":">>
    \o FlattenSeq([k \in DOMAIN request.stops |->
         (IF k = 1 THEN <<>> ELSE gap \o <<IF request.is_roundtrip THEN ">" ELSE "-">>)
           \o gap \o <<request.stops[k]>>])
AsText(request, gap) ==
  IF request.type = "Stop" THEN StopAsText(request, gap) ELSE BusAsText(request, gap)

QuestionsAsText(gap) ==
  LET questions == SelectSeq(ToAsk, LAMBDA q : q.type \in {"Bus", "Stop"})
  IN  [k \in DOMAIN questions |-> gap \o <<questions[k].type>> \o gap \o <<questions[k].name>>]
ReadLines(requests, lines, stat_lines) ==
  [mode |-> "text", base_requests |-> requests, bus_wait_time |-> 0, render_settings |-> Empty,
   lines |-> lines, stat_lines |-> stat_lines,
   stat_requests |-> [k \in DOMAIN stat_lines |-> ProcessedQuestion(stat_lines[k])]]
ReadText(requests, gap) ==
  ReadLines(requests, [k \in DOMAIN requests |-> AsText(requests[k], gap)], QuestionsAsText(gap))

\* Questions of a type alone, with blanks behind it, and of nothing.
ShortLines == {<<>>, <<" ">>, <<"Stop">>, <<" ", "Bus">>, <<"Bus", " ">>, <<"Stop", " ", ":">>}

\* Lines that describe nothing, cut short before the distance, in it and behind it.
StopToB == AsText(StopRequest(A, Here, [t \in {B} |-> 1]), <<" ">>)
CutLines ==
  {SubSeq(StopToB, 1, n) : n \in 0 .. Len(StopToB) - 1}
    \cup {StopToB \o <<",", " ", ",", "1", "m">>, StopToB \o <<",", "m", "to", A>>}

TextRuns ==
  {<<ReadText(d, gap)>> :
     d \in Lists({r \in Request : r.type # "Metro"}, 3), gap \in {<<" ">>, <<" ", " ">>}}
    \cup {<<ReadText(<<StopRequest(A, [lat |-> n, lng |-> -2], Empty)>>, <<" ">>)>> : n \in {-1, 1}}
    \cup {<<ReadLines(OneLine, [k \in DOMAIN OneLine |-> AsText(OneLine[k], <<" ">>)],
                      <<<<"Bus", " ", "1">>, line, <<"Stop", " ", A>>>>)>> : line \in ShortLines}
    \cup {<<ReadLines(<<Metro[1]>>, <<line>>, <<>>)>> : line \in {l \in CutLines : LineOutcome(l) # "ok"}}

\* Nothing is run in the behaviours of the library alone.
MCProgram == {<<>>} \cup NetworkRuns \cup DocumentRuns \cup SettingsRuns \cup TextRuns

MCOrders(S) == LET order == SetToSeq(S) IN {order, Reverse(order)}

BusNames == {"1", "2", "3", "4"}
MCNameOrder == <<"1", "2", "3", "4", A, B, C, D>>
MCIndeterminate == {-7, 2}

MCEdge ==
  [from : 0 .. 3, to : 0 .. 3, weight : -7 .. 40, name : BusNames, span_count : 1 .. 4]

(***************************************************************************)
(* The library for JSON, of which the program sees the documents only.     *)
(***************************************************************************)
CONSTANT Unset \* of Json

\* What a char without a value may be.
AnyChar == {"[", "]", "{", "}", "\"", "a"}

VARIABLES
  text, at, pc, stack, node, undefined, nodes_stack, root, context, json_outcome,
  written, plain, json_phase, source, doc
json_vars ==
  <<text, at, pc, stack, node, undefined, nodes_stack, root, context, json_outcome,
    written, plain, json_phase, source, doc>>

JSON == INSTANCE MCJson WITH
  outcome <- json_outcome, phase <- json_phase, MaxWritten <- 9, MaxText <- 3

ASSUME JsonAssumptions == JSON!JsonAssumption

NoJson ==
  /\ JSON!BuilderInit /\ JSON!Loads(<<>>)
  /\ written = <<>> /\ plain = TRUE /\ doc = JSON!Null /\ source = "any" /\ json_phase = "none"

ProgramOrJsonInit ==
  \/ ProgramInit /\ NoJson
  \/ ProgramInit /\ runs = <<>> /\ JSON!Init
ProgramOrJsonNext ==
  \/ json_phase = "none" /\ ProgramNext /\ UNCHANGED json_vars
  \/ json_phase # "none" /\ JSON!Next /\ UNCHANGED allVars
ProgramOrJsonSpec ==
  /\ ProgramOrJsonInit /\ [][ProgramOrJsonNext]_<<allVars, json_vars>>
  /\ WF_json_vars(JSON!LoadIt)

\* JsonBuilder: what the compiler lets a chain of calls do, the builder accepts.
ChainsPassTheChecks == JSON!ChainsPassTheChecks
\* Json: what is printed reads as it was.
RereadsTheSame == JSON!RereadsTheSame
\* JsonBuilder: the calls spell the document.
BuildsWhatTheCallsSpell == JSON!BuildsWhatTheCallsSpell
\* JsonBuilder: a refused call leaves the document alone.
RefusalsAreHarmless == JSON!RefusalsAreHarmless
\* Json: every load comes to an end, and no end of the text keeps it waiting.
LoadsEnd == (json_phase \notin {"none", "build"}) ~> JSON!Loaded
=============================================================================
