----------------------------- MODULE JsonProgram -----------------------------
(***************************************************************************)
(* The library of transport_catalogue/json as its programs use it: a       *)
(* document is put together by a Builder, or read from a text; it is       *)
(* printed, and what was printed is read again.  What the calls of the     *)
(* builder spell, and a text that was cut, are read as well.               *)
(***************************************************************************)
EXTENDS Json, JsonBuilder

CONSTANTS
  Texts,      \* the texts that are read first
  MaxWritten  \* bound: the length of what the calls of the builder spell

VARIABLES
  written,  \* what the calls that were accepted spell
  plain,    \* no key was given twice in a dict, and null not as the root
  phase,    \* "build", "read" or "reread"
  source,   \* where the text comes from
  doc       \* the document that was built or read first

program_vars == <<written, plain, phase, source, doc>>
vars == <<load_vars, builder_vars, program_vars>>

Init ==
  /\ BuilderInit /\ written = <<>> /\ plain = TRUE /\ doc = Null /\ source = "any"
  /\ \/ phase = "build" /\ Loads(<<>>)
     \/ phase = "read" /\ \E t \in Texts : Loads(t)

(***************************************************************************)
(* Print, which calls itself for the nodes in a node.                      *)
(***************************************************************************)
RECURSIVE PrintNode(_)
PrintNode(n) ==
  CASE Is("array", n) ->
         <<"[">> \o Joined([i \in DOMAIN n[2] |-> PrintNode(n[2][i])]) \o <<"]">>
    [] Is("dict", n) ->
         LET keys == SetToSortSeq(DOMAIN n[2], KeyBefore)
         IN  <<"{">> \o Joined([i \in DOMAIN keys |->
                                  Quoted(keys[i]) \o <<":">> \o PrintNode(n[2][keys[i]])])
                     \o <<"}">>
    [] Is("string", n) -> Quoted(n[2])
    [] n[1] \in {"int", "double"} -> <<NumberText(n)>>
    [] OTHER -> <<CHOOSE w \in DOMAIN Literal : Literal[w] = n>>

(***************************************************************************)
(* Building.                                                               *)
(***************************************************************************)
Separator ==
  IF written = <<>> \/ Last(written) \in {"[", "{", ":"} THEN <<>> ELSE <<",">>
Spells(s) ==
  /\ Len(written) < MaxWritten
  /\ written' = IF outcome' = "ok" THEN written \o s ELSE written

CallBuilder ==
  /\ phase = "build"
  /\ UNCHANGED <<load_vars, phase, source, doc>>
  /\ \/ \E on \in Receiver :
          /\ \/ StartArray(on) /\ Spells(Separator \o <<"[">>)
             \/ StartDict(on) /\ Spells(Separator \o <<"{">>)
             \/ EndArray(on) /\ Spells(<<"]">>)
             \/ EndDict(on) /\ Spells(<<"}">>)
          /\ UNCHANGED plain
     \/ \E on \in Receiver, key \in String :
          /\ Key(on, key) /\ Spells(Separator \o Quoted(key) \o <<":">>)
          /\ plain' = (plain /\ key \notin DOMAIN TopOf(nodes_stack)[2])
     \/ \E n \in Given :
          /\ Value(n) \/ ChainedValue(n)
          /\ Spells(Separator \o PrintNode(n))
          /\ plain' = (plain /\ ~(nodes_stack = <<>> /\ n = Null))
     \/ /\ \/ \E on \in Receiver, call \in Call \ {"Value"} : Refused(on, call)
           \/ Refused("Builder", "Value")
        /\ UNCHANGED <<written, plain>>

Rereads(s, t) ==
  phase' = "reread" /\ source' = s /\ StartsLoading(t) /\ UNCHANGED <<written, plain>>

Nested(n) == n[1] \in {"array", "dict", "string"}

\* What is read again of a document: all that is printed, or a part.
RereadsSome(n) ==
  /\ doc' = n
  /\ \/ Rereads("printed", PrintNode(n))
     \/ /\ Nested(n)
        /\ \E k \in 0 .. Len(PrintNode(n)) - 1 : Rereads("cut", SubSeq(PrintNode(n), 1, k))

BuildIt ==
  /\ phase = "build" /\ Build
  /\ RereadsSome(root) \/ (doc' = root /\ Rereads("written", written))

LoadIt == LoadStep /\ phase # "build" /\ UNCHANGED <<builder_vars, program_vars>>

PrintIt ==
  /\ phase = "read" /\ pc = "done"
  /\ RereadsSome(node) /\ UNCHANGED builder_vars

Next == CallBuilder \/ BuildIt \/ LoadIt \/ PrintIt

\* A caller may stop at any call; Load does not.
Spec == Init /\ [][Next]_vars /\ WF_vars(LoadIt)

(***************************************************************************)
(* Properties.                                                             *)
(***************************************************************************)
RECURSIVE HasBackslash(_)
HasBackslash(n) ==
  CASE Is("array", n) -> \E i \in DOMAIN n[2] : HasBackslash(n[2][i])
    [] Is("dict", n) -> \E k \in DOMAIN n[2] : HasBackslash(n[2][k]) \/ HasBackslash(Node("string", k))
    [] OTHER -> Is("string", n) /\ "\\" \in ToSet(n[2])

\* A double is printed with six digits, and without a point if it is whole.
RECURSIVE Reread(_)
Reread(n) ==
  CASE Is("array", n) -> Node("array", [i \in DOMAIN n[2] |-> Reread(n[2][i])])
    [] Is("dict", n) -> Node("dict", [k \in DOMAIN n[2] |-> Reread(n[2][k])])
    [] Is("double", n) -> Number[NumberText(n)]
    [] OTHER -> n

\* Whatever was built or read, printing and reading it gives the same, but for
\* doubles that the text shows as another number and strings with a backslash.
RereadsTheSame ==
  phase = "reread" /\ source = "printed" /\ Loaded /\ ~HasBackslash(doc) =>
    pc = "done" /\ ~undefined /\ node = Reread(doc)

\* Build returns the document that the calls spell, when their text is read by
\* Load: containers are closed where they were opened, values are at their
\* keys.  (Of a key that comes twice the builder takes the last value, Load the
\* first; and a root that is null does not count as one.)
BuildsWhatTheCallsSpell ==
  phase = "reread" /\ source = "written" /\ Loaded /\ plain /\ ~HasBackslash(doc) =>
    pc = "done" /\ ~undefined /\ node = Reread(doc)

\* A text with an open bracket or quote fails to load (json/__tests__/json__tests.cpp:160-166).
\* Two such texts do not: in LoadString an escaped quote that ends the text is
\* still in c, where the closing one is looked for, and in LoadArray and LoadDict
\* a char is looked at that was never read.
CutTextsAreRefused == source = "cut" => pc # "done"

\* Every load comes to an end.
LoadsEnd == (phase # "build") ~> Loaded
=============================================================================
