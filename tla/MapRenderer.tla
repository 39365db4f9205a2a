----------------------------- MODULE MapRenderer -----------------------------
(***************************************************************************)
(* The map of a catalogue (transport_catalogue/map_renderer.cpp): its      *)
(* settings, from JSON to the file and back, and the objects that are      *)
(* drawn, one after the other.  The sizes of letters and the widths of     *)
(* lines are copied like the settings that are here, and left out.         *)
(*                                                                         *)
(* A definition marked "Slip" is not the code: it is the definition after  *)
(* it with a mistake that the checks are shown to notice.                  *)
(***************************************************************************)
EXTENDS TransportCatalogue

CONSTANTS
  NameOrder,     \* the names of stops and buses, in ascending order
  Indeterminate  \* what may be read from a number that was never initialized

(***************************************************************************)
(* MapSettings.  A color in a document is a string, an array or another    *)
(* node; an svg::Color is nothing, a string, or three channels without or  *)
(* with an opacity.                                                        *)
(***************************************************************************)
NoColor == [kind |-> "none"]
String(s) == [kind |-> "string", text |-> s]

\* An int becomes a uint8_t.
Rgb(items) == [i \in 1 .. 3 |-> items[i] % 256]

GetColorFromNode(node) ==
  IF node.kind = "string" THEN String(node.text)
  ELSE IF Len(node.items) = 3 THEN [kind |-> "rgb", rgb |-> Rgb(node.items)]
  ELSE [kind |-> "rgba", rgb |-> Rgb(node.items), opacity |-> node.items[4]]

\* An array of less than three is read behind its end, and another node makes a
\* string of nullptr.
IsColor(node) == node.kind = "string" \/ (node.kind = "array" /\ Len(node.items) >= 3)

NumberKeys == {"width", "height", "padding"}
OffsetKeys == {"bus_label_offset", "stop_label_offset"}
SettingKeys == NumberKeys \cup OffsetKeys \cup {"underlayer_color", "color_palette"}

MatchSettingKeyToHandler(key, node) ==
  CASE key = "underlayer_color" -> GetColorFromNode(node)
    [] key = "color_palette" -> [k \in DOMAIN node |-> GetColorFromNode(node[k])]
    [] OTHER -> node

\* What a message without fields gives.
NoSettings == [width |-> 0, height |-> 0, padding |-> 0,
               bus_label_offset |-> <<>>, stop_label_offset |-> <<>>,
               underlayer_color |-> NoColor, color_palette |-> <<>>]

\* What SetMapSettingsHandler makes of a section with at most one mistake.  The
\* numbers that it does not have are not initialized.
MapSettings(section) ==
  {[key \in SettingKeys |->
     IF key \in DOMAIN section THEN MatchSettingKeyToHandler(key, section[key])
     ELSE IF key \in NumberKeys THEN number[key] ELSE NoSettings[key]] :
   number \in [NumberKeys -> Indeterminate]}

MapSettingsOutcome(section) ==
  IF \/ "underlayer_color" \in DOMAIN section /\ ~IsColor(section.underlayer_color)
     \/ "color_palette" \in DOMAIN section /\ \E k \in DOMAIN section.color_palette :
                                                ~IsColor(section.color_palette[k])
  THEN "undefined"
  ELSE IF DOMAIN section \subseteq SettingKeys THEN "ok" ELSE "logic_error"

\* A message with the fields that are set.
GetProtoColor(color) ==
  CASE color.kind = "none" -> Empty
    [] color.kind = "string" -> [color_string |-> color.text]
    [] color.kind = "rgb" -> [rgb |-> color.rgb]
    [] color.kind = "rgba" -> [rgb |-> color.rgb, opacity |-> color.opacity]

GetSvgColor(proto) ==
  CASE "color_string" \in DOMAIN proto -> String(proto.color_string)
    [] "opacity" \in DOMAIN proto -> [kind |-> "rgba", rgb |-> proto.rgb, opacity |-> proto.opacity]
    [] "rgb" \in DOMAIN proto /\ "opacity" \notin DOMAIN proto -> [kind |-> "rgb", rgb |-> proto.rgb]
    [] OTHER -> NoColor

GetProtoMapSettings(settings) ==
  [settings EXCEPT !.underlayer_color = GetProtoColor(@),
                   !.color_palette = [k \in DOMAIN @ |-> GetProtoColor(@[k])]]
DeserializeMapSettings(proto) ==
  [proto EXCEPT !.underlayer_color = GetSvgColor(@),
                !.color_palette = [k \in DOMAIN @ |-> GetSvgColor(@[k])]]

(***************************************************************************)
(* SphereProjector.  A zoom is a fraction, and so that they stay integers, *)
(* points are given in units of one part of its denominator.               *)
(***************************************************************************)
NoZoom == [num |-> 0, den |-> 1]
Zoom(room, extent) == IF extent = 0 THEN NoZoom ELSE [num |-> room, den |-> extent]

Projector(places, settings) ==
  LET lngs == {p.lng : p \in places}
      lats == {p.lat : p \in places}
      width_zoom == Zoom(settings.width - 2 * settings.padding, Max(lngs) - Min(lngs))
      height_zoom == Zoom(settings.height - 2 * settings.padding, Max(lats) - Min(lats))
  IN  [min_lon |-> Min(lngs), max_lat |-> Max(lats), padding |-> settings.padding,
       zoom |-> IF Cardinality(lngs) = 1 THEN height_zoom
                ELSE IF Cardinality(lats) = 1 THEN width_zoom
                ELSE IF height_zoom.num * width_zoom.den < width_zoom.num * height_zoom.den
                THEN height_zoom ELSE width_zoom]

Point(projector, place) ==
  LET unit == projector.zoom.den
  IN  [x |-> (place.lng - projector.min_lon) * projector.zoom.num + projector.padding * unit,
       y |-> (projector.max_lat - place.lat) * projector.zoom.num + projector.padding * unit,
       unit |-> unit]

(***************************************************************************)
(* GetMapSVG: lines, their names, stops, their names.  What no line has or *)
(* no bus stops at is not drawn.                                           *)
(***************************************************************************)
ByName(S) ==
  FlattenSeq([k \in DOMAIN NameOrder |-> IF NameOrder[k] \in S THEN <<NameOrder[k]>> ELSE <<>>])
DrawnBuses(c) == ByName({b \in DOMAIN c.buses : c.buses[b].stops # <<>>})
DrawnStops(c) == ByName({s \in DOMAIN c.stops : c.stops[s].buses # {}})

StopPoint(c, settings, stop) ==
  Point(Projector({c.stops[s].coordinates : s \in ToSet(DrawnStops(c))}, settings),
        c.stops[stop].coordinates)

\* Of the k-th bus that is drawn: GetNextColorPaletteIdx turns through the palette.
ColorOf(settings, k) == settings.color_palette[((k - 1) % Len(settings.color_palette)) + 1]

Offset(kind, settings) ==
  SubSeq(IF kind = "bus" THEN settings.bus_label_offset ELSE settings.stop_label_offset, 1, 2)

Label(kind, name, point, settings, color) ==
  LET text(shade) ==
        [kind |-> kind, name |-> name, point |-> point, offset |-> Offset(kind, settings), color |-> shade]
  IN  <<text(settings.underlayer_color), text(color)>>

AddLinesBetweenStops(c, settings) ==
  LET buses == DrawnBuses(c)
  IN  [k \in DOMAIN buses |->
        LET stops == c.buses[buses[k]].stops
        IN  [kind |-> "line", color |-> ColorOf(settings, k),
             points |-> [i \in DOMAIN stops |-> StopPoint(c, settings, stops[i])]]]

\* Slip: at the last stop of the list, which is the first one again.
LabelledStopsOfTheList(bus) ==
  LET last == bus.stops[Len(bus.stops)]
  IN  IF bus.is_roundtrip \/ last = bus.stops[1] THEN <<bus.stops[1]>> ELSE <<bus.stops[1], last>>

\* A line that goes there and back has its name at both ends, if there are two.
LabelledStops(bus) ==
  LET last == bus.stops[Len(bus.stops) \div 2 + 1]
  IN  IF bus.is_roundtrip \/ last = bus.stops[1] THEN <<bus.stops[1]>> ELSE <<bus.stops[1], last>>

AddRouteNames(c, settings) ==
  LET buses == DrawnBuses(c)
  IN  FlattenSeq([k \in DOMAIN buses |->
        LET stops == LabelledStops(c.buses[buses[k]])
        IN  FlattenSeq([i \in DOMAIN stops |->
              Label("bus", buses[k], StopPoint(c, settings, stops[i]), settings, ColorOf(settings, k))])])

AddStopSymbols(c, settings) ==
  LET stops == DrawnStops(c)
  IN  [k \in DOMAIN stops |-> [kind |-> "symbol", point |-> StopPoint(c, settings, stops[k]),
                               color |-> String("white")]]

AddStopNames(c, settings) ==
  LET stops == DrawnStops(c)
  IN  FlattenSeq([k \in DOMAIN stops |->
        Label("stop", stops[k], StopPoint(c, settings, stops[k]), settings, String("black"))])

\* The palette is asserted not to be empty, and an offset of less than two numbers
\* is read behind its end.
MapOutcome(c, settings) ==
  IF settings.color_palette = <<>> THEN "abort"
  ELSE IF \/ DrawnBuses(c) # <<>> /\ Len(settings.bus_label_offset) < 2
          \/ DrawnStops(c) # <<>> /\ Len(settings.stop_label_offset) < 2
  THEN "undefined" ELSE "ok"

GetMapSVG(c, settings) ==
  AddLinesBetweenStops(c, settings) \o AddRouteNames(c, settings)
    \o AddStopSymbols(c, settings) \o AddStopNames(c, settings)
=============================================================================
