----------------------------- MODULE JsonBuilder -----------------------------
(***************************************************************************)
(* json::Builder (transport_catalogue/json/json_builder.cpp): a document   *)
(* put together call by call, with the stack of the containers and keys    *)
(* that wait to be completed.                                              *)
(*                                                                         *)
(* A node is a pair <<kind, value>>: an array holds a sequence of nodes, a *)
(* dict a function from strings to nodes.  One step is one call, made on   *)
(* the builder or on the context that the call before it returned.         *)
(*                                                                         *)
(* A definition marked "Slip" is not the code: it is the definition after  *)
(* it with a mistake that the checks are shown to notice.                  *)
(***************************************************************************)
EXTENDS Integers, Sequences, Maps

CONSTANTS
  String,  \* the keys
  Given    \* the nodes that Value is called with

VARIABLES
  nodes_stack,  \* nodes_stack_, with its top at the end
  root,         \* root_
  context,      \* the type of what the last call returned
  outcome       \* of the last call: "ok", or "logic_error"

builder_vars == <<nodes_stack, root, context, outcome>>

NodeOf(kind, value) == <<kind, value>>
IsKind(kind, n) == n[1] = kind
NullNode == NodeOf("null", <<>>)

TopOf(s) == s[Len(s)]
Popped(s) == SubSeq(s, 1, Len(s) - 1)
Pushed(s, n) == Append(s, n)

BuilderInit ==
  /\ nodes_stack = <<>> /\ root = NullNode
  /\ context = "Builder" /\ outcome = "ok"

(***************************************************************************)
(* What may be called: by the type of the object at compile time, and by   *)
(* the state of the builder when it runs.                                  *)
(***************************************************************************)
Call == {"StartArray", "EndArray", "StartDict", "EndDict", "Key", "Value", "Build"}

Offers(c) ==
  CASE c = "Builder" -> Call
    [] c = "ValueOfDictContext" -> {"StartArray", "StartDict", "Value"}
    [] c = "ArrayContext" -> {"StartArray", "StartDict", "Value", "EndArray"}
    [] c = "DictContext" -> {"Key", "EndDict"}

\* The builder can always be called by its name, too.
MayCall(on, call) == on \in {"Builder", context} /\ call \in Offers(on)

TopIs(kinds) == nodes_stack # <<>> /\ \E kind \in kinds : IsKind(kind, TopOf(nodes_stack))

\* Slip: a container may stand where a key has to.
CheckLetsContainersPass(call) ==
  CASE call \in {"StartArray", "StartDict"} -> TRUE
    [] call = "Value" -> nodes_stack = <<>> \/ TopIs({"string", "array"})
    [] call = "EndArray" -> TopIs({"array"})
    [] call \in {"EndDict", "Key"} -> TopIs({"dict"})
    [] call = "Build" -> root # NullNode /\ nodes_stack = <<>>

CheckCallCorrectness(call) ==
  CASE call \in {"StartArray", "StartDict", "Value"} ->
         nodes_stack = <<>> \/ TopIs({"string", "array"})
    [] call = "EndArray" -> TopIs({"array"})
    [] call \in {"EndDict", "Key"} -> TopIs({"dict"})
    [] call = "Build" -> root # NullNode /\ nodes_stack = <<>>

Returns(c, stack, r) ==
  context' = c /\ nodes_stack' = stack /\ root' = r /\ outcome' = "ok"

\* An exception leaves the builder with this stack, and ends the chain.
ThrowWith(stack) ==
  context' = "Builder" /\ nodes_stack' = stack /\ outcome' = "logic_error" /\ UNCHANGED root

(***************************************************************************)
(* The calls.                                                              *)
(***************************************************************************)
\* Slip: the new value comes first.
ArrayValueInFront(s, n) == [s EXCEPT ![Len(s)] = NodeOf("array", <<n>> \o @[2])]

ArrayValue(s, n) == [s EXCEPT ![Len(s)] = NodeOf("array", Append(@[2], n))]

\* Slip: the key stays on the stack.
DictValueKeepsKey(s, n) ==
  [s EXCEPT ![Len(s) - 1] = NodeOf("dict", With(@[2], TopOf(s)[2], n))]

DictValue(s, n) ==
  [Popped(s) EXCEPT ![Len(s) - 1] = NodeOf("dict", With(@[2], TopOf(s)[2], n))]

WithValue(s, n) == IF IsKind("string", TopOf(s)) THEN DictValue(s, n) ELSE ArrayValue(s, n)

\* A finished node goes where s, the stack without it, waits for it.  Through
\* Value, which checks the top once more.
ForwardNode(s, n) ==
  IF root # NullNode \/ (s # <<>> /\ IsKind("dict", TopOf(s))) THEN ThrowWith(s)
  ELSE IF s = <<>> THEN Returns("Builder", s, n)
  ELSE Returns("Builder", WithValue(s, n), root)

Checked(on, call) == MayCall(on, call) /\ CheckCallCorrectness(call)

Refused(on, call) ==
  MayCall(on, call) /\ ~CheckCallCorrectness(call) /\ ThrowWith(nodes_stack)

StartArray(on) ==
  /\ Checked(on, "StartArray")
  /\ Returns("ArrayContext", Pushed(nodes_stack, NodeOf("array", <<>>)), root)

StartDict(on) ==
  /\ Checked(on, "StartDict")
  /\ Returns("DictContext", Pushed(nodes_stack, NodeOf("dict", <<>>)), root)

EndArray(on) ==
  Checked(on, "EndArray") /\ ForwardNode(Popped(nodes_stack), TopOf(nodes_stack))

EndDict(on) ==
  Checked(on, "EndDict") /\ ForwardNode(Popped(nodes_stack), TopOf(nodes_stack))

Key(on, key) ==
  /\ Checked(on, "Key")
  /\ Returns("ValueOfDictContext", Pushed(nodes_stack, NodeOf("string", key)), root)

\* On the builder.
Value(n) ==
  /\ Checked("Builder", "Value")
  /\ IF nodes_stack = <<>> THEN ForwardNode(nodes_stack, n)
     ELSE Returns("Builder", WithValue(nodes_stack, n), root)

\* On a context, which calls ArrayValue or DictValue without a check.
ChainedValue(n) ==
  /\ context # "Builder" /\ "Value" \in Offers(context)
  /\ IF context = "ArrayContext"
     THEN Returns("ArrayContext", ArrayValue(nodes_stack, n), root)
     ELSE Returns("DictContext", DictValue(nodes_stack, n), root)

\* A copy of root_, for the caller.
Build ==
  Checked("Builder", "Build") /\ Returns("Builder", nodes_stack, root)

Receiver == {"Builder", context}

BuilderNext ==
  \/ \E on \in Receiver :
       \/ StartArray(on) \/ StartDict(on) \/ EndArray(on) \/ EndDict(on)
       \/ \E key \in String : Key(on, key)
       \/ \E call \in Call \ {"Value"} : Refused(on, call)
  \/ \E n \in Given : Value(n) \/ ChainedValue(n)
  \/ Refused("Builder", "Value")
  \/ Build

BuilderSpec == BuilderInit /\ [][BuilderNext]_builder_vars

(***************************************************************************)
(* Properties.                                                             *)
(***************************************************************************)
\* As long as the document is not complete, a call that is refused changes
\* nothing: none that has popped a node finds out that it has no place for it.
RefusalsAreHarmless ==
  [][outcome' = "logic_error" /\ root = NullNode => UNCHANGED <<nodes_stack, root>>]_builder_vars

\* What compiles as a chain of calls passes the checks: the methods that the
\* type of a context offers are allowed by the stack it was returned with.
ChainsPassTheChecks ==
  context # "Builder" => \A call \in Offers(context) : CheckCallCorrectness(call)
=============================================================================
