------------------------------- MODULE MCJson -------------------------------
(***************************************************************************)
(* JsonProgram with few characters and numbers, all short texts, and texts *)
(* that differ in one character from a document.  MCTransport has these    *)
(* behaviours beside its own.                                              *)
(***************************************************************************)
EXTENDS Integers, Sequences, SequencesExt, TLC

CONSTANTS
  Unset, AnyChar,  \* of Json
  MaxWritten,      \* of JsonProgram
  MaxText          \* the length of the texts that are just characters

VARIABLES
  text, at, pc, stack, node, undefined, nodes_stack, root, context, outcome,
  written, plain, phase, source, doc

JsonNode(kind, value) == <<kind, value>>
JsonNull == JsonNode("null", <<>>)
IntNode(t) == JsonNode("int", t)
DoubleNode(t) == JsonNode("double", t)
MCLiteral == "null" :> JsonNull @@ "true" :> JsonNode("bool", "true")

\* The double 7.0 is printed as 7; 0.1234567 with one digit less; 1e+10 is what
\* is printed of a whole number that no int holds.
MCNumber == "7" :> IntNode("7") @@ "7.0" :> DoubleNode("7.0") @@ "0.5" :> DoubleNode("0.5")
            @@ "0.1234567" :> DoubleNode("0.1234567") @@ "0.123457" :> DoubleNode("0.123457")
            @@ "10000000000" :> DoubleNode("1e+10") @@ "1e+10" :> DoubleNode("1e+10")
MCNumberText(n) ==
  CASE n = DoubleNode("7.0") -> "7"
    [] n = DoubleNode("0.1234567") -> "0.123457"
    [] OTHER -> n[2]

\* A char without a value that closes nothing: what goes wrong is no bad luck.
NoBracket == {"a"}
ShorterFirst(k, m) == Len(k) < Len(m)

MCString == {<<>>, <<"a">>}
MCGiven ==
  {JsonNull, DoubleNode("7.0"), JsonNode("string", <<"\"", "\n">>), JsonNode("array", <<DoubleNode("0.1234567")>>)}

Characters == {"[", "]", "{", "}", ",", ":", "\"", "\\", "n", "7", " "}
Short == UNION {[1 .. n -> Characters] : n \in 0 .. MaxText}

Documents ==
  {<<"{", "\"", "a", "\"", ":", "[", "true", ",", "7.0", "]", ",", "\"", "\"", ":", "null", "}">>,
   <<"[", "\"", "\\", "\\", "\"", ",", "{", "\"", "\\", "\"", "\"", ":", "10000000000", "}", "]">>,
   <<"{", "\"", "a", "\"", ":", "0.5", ",", "\"", "a", "\"", ":", "7", "}">>}
\* A character left out, written twice, or replaced.
Changed(t) ==
  {RemoveAt(t, i) : i \in DOMAIN t} \cup {InsertAt(t, i, t[i]) : i \in DOMAIN t}
    \cup {[t EXCEPT ![i] = c] : i \in DOMAIN t, c \in {"]", "}", ",", "\"", " "}}
\* In a text that is read, a number is not followed by another one, nor a
\* backslash by a character that stands for several.
Whole == DOMAIN MCNumber \cup {"null", "true"}
Readable(t) ==
  \A i \in 1 .. Len(t) - 1 : ~(t[i] \in DOMAIN MCNumber /\ t[i + 1] \in DOMAIN MCNumber)
                             /\ ~(t[i] = "\\" /\ t[i + 1] \in Whole)
MCTexts == {t \in Short \cup Documents \cup UNION {Changed(t) : t \in Documents} : Readable(t)}

INSTANCE JsonProgram WITH
  Literal <- MCLiteral, Number <- MCNumber, NumberText <- MCNumberText, KeyBefore <- ShorterFirst,
  String <- MCString, Given <- MCGiven, Texts <- MCTexts
=============================================================================
