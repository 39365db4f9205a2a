-------------------------------- MODULE Json --------------------------------
(***************************************************************************)
(* json::Load and json::Print (transport_catalogue/json/json.cpp).  A node *)
(* is a pair <<kind, value>>, as in JsonBuilder.                           *)
(*                                                                         *)
(* A text is a sequence of characters, in which a literal and a number are *)
(* one character each.  The calls of LoadNode, LoadArray, LoadDict and     *)
(* LoadString that are not finished are on a stack, each with its local    *)
(* variables, and a step is a turn of a loop or a return.                  *)
(*                                                                         *)
(* A definition marked "Slip" is not the code: it is the definition after  *)
(* it with a mistake that the checks are shown to notice.                  *)
(***************************************************************************)
EXTENDS Integers, Sequences, SequencesExt

Map == INSTANCE Maps

CONSTANTS
  Literal,       \* from "null", "true" and "false" to their nodes
  Number,        \* from the numbers to the nodes that LoadNumber makes
  NumberText(_), \* what an int or a double is printed as
  KeyBefore(_, _), \* the order of std::map<std::string, _>
  AnyChar,       \* the characters that an uninitialized char may hold
  Unset          \* a char without a value

VARIABLES
  text,      \* the stream
  at,        \* how much of it was read, and one
  pc,        \* the function that runs; "return", "done" or "error"
  stack,     \* the calls
  node,      \* what the last one returned
  undefined  \* bound to no code: a char was read that had no value

load_vars == <<text, at, pc, stack, node, undefined>>

Node(kind, value) == <<kind, value>>
Is(kind, n) == n[1] = kind
Null == Node("null", <<>>)
Space == {" ", "\n", "\r", "\t"}

\* Assumed of the constants: a literal or a number is no container, and no bracket
\* is a char without a value.
JsonAssumption ==
  /\ \A c \in DOMAIN Literal : ~Is("array", Literal[c])
  /\ \A c \in DOMAIN Number : ~Is("array", Number[c])
  /\ Unset # "]"

(***************************************************************************)
(* Print.                                                                  *)
(***************************************************************************)
\* Slip: the quote is not escaped.
EscapeNoQuote(c) ==
  CASE c = "\n" -> <<"\\", "n">>
    [] c = "\r" -> <<"\\", "r">>
    [] c = "\t" -> <<"\\", "t">>
    [] OTHER -> <<c>>

\* A backslash is written as one backslash.
Escape(c) ==
  CASE c = "\n" -> <<"\\", "n">>
    [] c = "\r" -> <<"\\", "r">>
    [] c = "\t" -> <<"\\", "t">>
    [] c = "\"" -> <<"\\", "\"">>
    [] OTHER -> <<c>>

Quoted(s) == <<"\"">> \o FlattenSeq([i \in DOMAIN s |-> Escape(s[i])]) \o <<"\"">>

\* Texts with commas between them.
Joined(texts) ==
  FlattenSeq([i \in DOMAIN texts |-> IF i = 1 THEN texts[i] ELSE <<",">> \o texts[i]])

(***************************************************************************)
(* The stream.                                                             *)
(***************************************************************************)
End == Len(text) + 1

\* Where a read that skips spaces finds its character.
Skipped(i) ==
  CHOOSE k \in i .. End : /\ k = End \/ text[k] \notin Space
                          /\ \A j \in i .. k - 1 : text[j] \in Space

Behind(i) == IF i < End THEN i + 1 ELSE End

\* What reading at i leaves in a variable that holds c: it fails at the end,
\* and changes nothing.
Read(i, c) == IF i < End THEN text[i] ELSE c

\* The values a variable can be found with.
Found(c) == IF c = Unset THEN AnyChar ELSE {c}

(***************************************************************************)
(* Load.                                                                   *)
(***************************************************************************)
Loads(t) ==
  /\ text = t /\ at = 1 /\ pc = "LoadNode"
  /\ stack = <<>> /\ node = Null /\ undefined = FALSE

StartsLoading(t) ==
  /\ text' = t /\ at' = 1 /\ pc' = "LoadNode"
  /\ stack' = <<>> /\ node' = Null /\ undefined' = FALSE

Top == Last(stack)
WithTop(frame) == Append(Front(stack), frame)

\* Calls f and reads on at i, with these calls on the stack.
Goes(f, i, frames) ==
  pc' = f /\ at' = i /\ stack' = frames /\ UNCHANGED <<text, node>>

Return(n, i, frames) ==
  /\ pc' = IF frames = <<>> THEN "done" ELSE "return"
  /\ at' = i /\ stack' = frames /\ node' = n /\ UNCHANGED text

ParsingError == pc' = "error" /\ stack' = <<>> /\ UNCHANGED <<text, at, node>>

ArrayFrame(result, c) == [fn |-> "LoadArray", result |-> result, c |-> c]
DictFrame(result, key, c) == [fn |-> "LoadDict", result |-> result, key |-> key, c |-> c]
StringFrame(line, c) == [fn |-> "LoadString", line |-> line, c |-> c]

UsesUnset(c) == undefined' = (undefined \/ c = Unset)

\* LoadBool, LoadNull and LoadNumber read one of these characters, or throw.
LoadNode ==
  LET i == Skipped(at)
      read == Read(i, Unset)
  IN  /\ pc = "LoadNode" /\ UsesUnset(read)
      /\ \E c \in Found(read) :
           CASE c = "[" -> Goes("LoadArray", Behind(i), Append(stack, ArrayFrame(<<>>, Unset)))
             [] c = "{" -> Goes("LoadDict", Behind(i), Append(stack, DictFrame(Map!Empty, Unset, Unset)))
             [] c = "\"" -> Goes("LoadString", Behind(i), Append(stack, StringFrame(<<>>, Unset)))
             [] c \in DOMAIN Literal -> Return(Literal[c], Behind(i), stack)
             [] c \in DOMAIN Number -> Return(Number[c], Behind(i), stack)
             [] OTHER -> ParsingError

\* Slip: the loop waits for a bracket, whether or not the stream has ended.
LoadArrayWaits ==
  LET i == Skipped(at)
  IN  /\ pc = "LoadArray" /\ i < End /\ UNCHANGED undefined
      /\ IF text[i] = "]" THEN Return(Node("array", Top.result), Behind(i), Front(stack))
         ELSE Goes("LoadNode", IF text[i] = "," THEN i + 1 ELSE i,
                   WithTop(ArrayFrame(Top.result, text[i])))

\* A turn of the loop of LoadArray; a comma is skipped, and any other
\* character put back for LoadNode.
LoadArray ==
  LET i == Skipped(at)
      c == Read(i, Top.c)
  IN  /\ pc = "LoadArray"
      /\ \/ /\ i < End /\ c # "]" /\ UNCHANGED undefined
            /\ Goes("LoadNode", IF c = "," THEN i + 1 ELSE i, WithTop(ArrayFrame(Top.result, c)))
         \/ /\ i = End \/ c = "]"
            /\ UsesUnset(c)
            /\ \E last \in Found(c) :
                 IF last = "]" THEN Return(Node("array", Top.result), Behind(i), Front(stack))
                 ELSE ParsingError

ArrayTakes ==
  /\ pc = "return" /\ Top.fn = "LoadArray"
  /\ Goes("LoadArray", at, WithTop([Top EXCEPT !.result = Append(@, node)]))
  /\ UNCHANGED undefined

\* A turn of the loop of LoadDict.  What stands where a key has to begin is
\* taken for its quote.
LoadDict ==
  LET i == Skipped(at)
      c == Read(i, Top.c)
      j == IF c = "," THEN Skipped(Behind(i)) ELSE i
  IN  /\ pc = "LoadDict"
      /\ \/ /\ i < End /\ c # "}" /\ UNCHANGED undefined
            /\ Goes("LoadString", Behind(j),
                    Append(WithTop(DictFrame(Top.result, Unset, Read(j, c))), StringFrame(<<>>, Unset)))
         \/ /\ i = End \/ c = "}"
            /\ UsesUnset(c)
            /\ \E last \in Found(c) :
                 IF last = "}" THEN Return(Node("dict", Top.result), Behind(i), Front(stack))
                 ELSE ParsingError

\* And what stands behind a key, for the colon.
DictTakesKey ==
  LET i == Skipped(at)
  IN  /\ pc = "return" /\ Top.fn = "LoadDict" /\ Top.key = Unset
      /\ Goes("LoadNode", Behind(i), WithTop(DictFrame(Top.result, node[2], Read(i, Top.c))))
      /\ UNCHANGED undefined

\* insert: the first value of a key is the one that stays.
DictTakesValue ==
  /\ pc = "return" /\ Top.fn = "LoadDict" /\ Top.key # Unset
  /\ Goes("LoadDict", at,
          WithTop(DictFrame(Map!With(Top.result, Top.key, Map!At(Top.result, Top.key, node)),
                            Unset, Top.c)))
  /\ UNCHANGED undefined

\* What a character stands for behind a backslash: for nothing, mostly.
Unescaped(c) ==
  CASE c = "n" -> <<"\n">>
    [] c = "r" -> <<"\r">>
    [] c = "t" -> <<"\t">>
    [] c \in {"\"", "\\"} -> <<c>>
    [] OTHER -> <<>>

\* A turn of the loop of LoadString, which skips no spaces.  Behind a backslash
\* get() reads, and at the end of the stream finds no character at all.
LoadString ==
  LET c == Read(at, Top.c)
      escaped == IF at + 1 < End THEN text[at + 1] ELSE "EOF"
  IN  /\ pc = "LoadString"
      /\ \/ /\ at < End /\ c = "\\" /\ UNCHANGED undefined
            /\ Goes("LoadString", Behind(at + 1),
                    WithTop(StringFrame(Top.line \o Unescaped(escaped), escaped)))
         \/ /\ at < End /\ c \notin {"\\", "\""} /\ UNCHANGED undefined
            /\ Goes("LoadString", at + 1, WithTop(StringFrame(Append(Top.line, c), c)))
         \/ /\ at = End \/ c = "\""
            /\ UsesUnset(c)
            /\ \E last \in Found(c) :
                 IF last = "\"" THEN Return(Node("string", Top.line), Behind(at), Front(stack))
                 ELSE ParsingError

LoadStep ==
  \/ LoadNode \/ LoadArray \/ ArrayTakes
  \/ LoadDict \/ DictTakesKey \/ DictTakesValue \/ LoadString

Loaded == pc \in {"done", "error"}
=============================================================================
