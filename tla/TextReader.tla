----------------------------- MODULE TextReader -----------------------------
(***************************************************************************)
(* The readers of requests as lines of text (transport_catalogue,          *)
(* input_reader.cpp and stat_reader.cpp).  A line is a sequence of tokens: *)
(* blanks, delimiters, digits and words.  A name or a number is the string *)
(* its tokens make.                                                        *)
(***************************************************************************)
EXTENDS Integers, SequencesExt

Blank == " "
ALL_DELIMITERS == {",", ">", "-"}
ONE_WAY_DELIMITER == "-"

Joined(line) == FoldLeft(LAMBDA text, token : text \o token, "", line)

Without(line, n) == SubSeq(line, n + 1, Len(line))

\* Behind the last position if there is none of them.
FindFirstOf(line, tokens) ==
  IF ToSet(line) \cap tokens = {} THEN Len(line) + 1
  ELSE SelectInSeq(line, LAMBDA token : token \in tokens)
FindFirstNotOf(line, token) == FindFirstOf(line, ToSet(line) \ {token})

FromFirstNonBlank(line) == Without(line, FindFirstNotOf(line, Blank) - 1)
UpTo(line, tokens) == SubSeq(line, 1, FindFirstOf(line, tokens) - 1)

\* remove_prefix(npos + 1) removes nothing.
Behind(line, token) == IF token \in ToSet(line) THEN Without(line, FindFirstOf(line, {token})) ELSE line

(***************************************************************************)
(* GetRequestType and GetObjectName, of both readers, and what they leave. *)
(***************************************************************************)
TypeIn(line) == UpTo(FromFirstNonBlank(line), {Blank})
BehindType(line) == Behind(FromFirstNonBlank(line), Blank)
NameIn(line) == Joined(UpTo(FromFirstNonBlank(BehindType(line)), {":"}))
BehindName(line) == Behind(FromFirstNonBlank(BehindType(line)), ":")

RequestType(line) == IF Joined(TypeIn(line)) = "Stop" THEN "Stop" ELSE "Bus"

\* A blank line, or one with blanks alone behind its type, is cut behind its end;
\* a type without a blank behind it is the name as well.
HasName(line) == FromFirstNonBlank(BehindType(line)) # <<>>

(***************************************************************************)
(* GetData: the parts between the delimiters, without the blanks around    *)
(* them.                                                                   *)
(***************************************************************************)
DataDelimiter(data) == data[FindFirstOf(data, ALL_DELIMITERS)]

Trimmed(part) == Reverse(FromFirstNonBlank(Reverse(FromFirstNonBlank(part))))

Parts(data, delimiter) ==
  LET at == <<0>> \o SelectSeq([k \in DOMAIN data |-> k], LAMBDA k : data[k] = delimiter)
              \o <<Len(data) + 1>>
  IN  [n \in 1 .. Len(at) - 1 |-> Trimmed(SubSeq(data, at[n] + 1, at[n + 1] - 1))]

\* std::stod and std::stoll, of digits.
Digit == {ToString(n) : n \in 0 .. 9}
IsNumber(part) ==
  LET digits == IF part # <<>> /\ part[1] = "-" THEN Tail(part) ELSE part
  IN  digits # <<>> /\ digits[1] \in Digit
NumberIn(part) ==
  LET value(digits) == FoldLeft(LAMBDA n, d : 10 * n + CHOOSE k \in 0 .. 9 : ToString(k) = d, 0, digits)
  IN  IF part[1] = "-" THEN -value(Tail(part)) ELSE value(part)

\* GetProcessedDistances: a number, an m, the word "to", and a name.  Without the
\* word the name begins behind the first character.
BehindTo(part) ==
  LET rest == Behind(part, "m")
  IN  FromFirstNonBlank(IF "to" \in ToSet(rest) THEN Behind(rest, "to") ELSE Tail(part))

DistanceOf(part) ==
  [to |-> Joined(BehindTo(part)), distance |-> NumberIn(UpTo(part, {"m"}))]

\* They are cut before they are made numbers.
DistancesOutcome(parts) ==
  IF \E part \in ToSet(parts) : part = <<>> \/ BehindTo(part) = <<>> THEN "out_of_range"
  ELSE IF \E part \in ToSet(parts) : ~IsNumber(UpTo(part, {"m"})) THEN "invalid_argument" ELSE "ok"

(***************************************************************************)
(* GetProcessedRequest, with the conversions of HandleAddStop.             *)
(***************************************************************************)
\* A line without a delimiter, or with nothing behind one, is cut behind its
\* end; a number must be one.
LineOutcome(line) ==
  LET data == BehindName(line)
  IN  IF ~HasName(line) \/ ToSet(data) \cap ALL_DELIMITERS = {} THEN "out_of_range"
      ELSE LET parts == Parts(data, DataDelimiter(data))
           IN  IF parts[Len(parts)] = <<>> THEN "out_of_range"
               ELSE IF RequestType(line) = "Bus" THEN "ok"
               ELSE IF ~(IsNumber(parts[1]) /\ IsNumber(parts[2])) THEN "invalid_argument"
               ELSE DistancesOutcome(Without(parts, 2))

ProcessedRequest(line) ==
  LET data == BehindName(line)
      delimiter == DataDelimiter(data)
      parts == Parts(data, delimiter)
  IN  IF RequestType(line) = "Bus"
      THEN [type |-> "Bus", name |-> NameIn(line), stops |-> [k \in DOMAIN parts |-> Joined(parts[k])],
            is_roundtrip |-> delimiter # ONE_WAY_DELIMITER]
      ELSE [type |-> "Stop", name |-> NameIn(line),
            coordinates |-> [lat |-> NumberIn(parts[1]), lng |-> NumberIn(parts[2])],
            distances |-> [k \in 1 .. Len(parts) - 2 |-> DistanceOf(parts[k + 2])]]

ProcessedQuestion(line) == [type |-> RequestType(line), name |-> NameIn(line)]
=============================================================================
