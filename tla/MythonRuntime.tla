--------------------------- MODULE MythonRuntime ----------------------------
(***************************************************************************)
(* The execution of a mython tree (statement.cpp, runtime.cpp).            *)
(*                                                                         *)
(* Execute gives how a node ends: with a value, with the ObjectHolder that *)
(* Return throws, with a runtime_error, or in a way the language of the    *)
(* program leaves undefined (a call through a null pointer, an overflow).  *)
(* A state s has the names of the method that runs, the fields of the      *)
(* instances, and what was printed; the rest of it is for the properties.  *)
(***************************************************************************)
EXTENDS MythonParser

CONSTANT CodeOf(_)   \* the order of the characters of a String

VARIABLE declared_classes   \* the classes of the program

None == <<"None">>
Number(n) == <<"Number", n>>
String(characters) == <<"String", characters>>
Bool(b) == <<"Bool", b>>
Is(value, type) == value[1] = type
Both(lhs, rhs, type) == Is(lhs, type) /\ Is(rhs, type)

EmptyClosure == [name \in {} |-> None]
\* A name that is there is overwritten.
With(closure, name, value) == (name :> value) @@ closure

End(how, value, s) == [how |-> how, value |-> value, s |-> s]
Value(value, s) == End("value", value, s)
RuntimeError(s) == End("runtime_error", None, s)
Undefined(s) == End("undefined", None, s)

\* What follows if r ended with a value.
AndThen(r, Continue(_, _)) == IF r.how = "value" THEN Continue(r.value, r.s) ELSE r

(***************************************************************************)
(* Values.                                                                 *)
(***************************************************************************)
IsTrue(value) ==
  CASE Is(value, "String") -> value[2] # <<>>
    [] Is(value, "Number") -> value[2] # 0
    [] Is(value, "Bool")   -> value[2]
    [] OTHER -> FALSE

StringLess(a, b) ==
  \/ IsStrictPrefix(a, b)
  \/ \E i \in 1 .. Min({Len(a), Len(b)}) :
       CodeOf(a[i]) < CodeOf(b[i]) /\ SubSeq(a, 1, i - 1) = SubSeq(b, 1, i - 1)

Comparable(lhs, rhs) == \E type \in {"String", "Number", "Bool"} : Both(lhs, rhs, type)
LessValue(lhs, rhs) ==
  CASE Is(lhs, "String") -> StringLess(lhs[2], rhs[2])
    [] Is(lhs, "Number") -> lhs[2] < rhs[2]
    [] Is(lhs, "Bool")   -> ~lhs[2] /\ rhs[2]

Truncated(a, b) ==
  LET Abs(n) == IF n < 0 THEN -n ELSE n
  IN  IF (a < 0) = (b < 0) THEN Abs(a) \div Abs(b) ELSE -(Abs(a) \div Abs(b))
Arithmetic(op, a, b) ==
  CASE op = "+" -> a + b [] op = "-" -> a - b [] op = "*" -> a * b [] op = "/" -> Truncated(a, b)
FitsInt(n) == n \in -MaxInt - 1 .. MaxInt

\* Add for what is no instance, Sub, Mult and Div.
Operate(op, lhs, rhs, s) ==
  CASE Both(lhs, rhs, "Number") /\ op = "/" /\ rhs[2] = 0 -> RuntimeError(s)
    [] Both(lhs, rhs, "Number") /\ ~(op = "/" /\ rhs[2] = 0) ->
         LET n == Arithmetic(op, lhs[2], rhs[2])
         IN  IF FitsInt(n) THEN Value(Number(n), s) ELSE Undefined(s)
    [] Both(lhs, rhs, "String") /\ op = "+" -> Value(String(lhs[2] \o rhs[2]), s)
    [] OTHER -> RuntimeError(s)

Word(w) == <<<<"word", w>>>>
\* What Print writes for a value that is no instance.
TextOf(value) ==
  CASE Is(value, "String") -> value[2]
    [] Is(value, "Number") ->
         IF value[2] < 0 THEN <<<<"char", "-">>, <<"number", -value[2]>>>> ELSE <<<<"number", value[2]>>>>
    [] Is(value, "Bool")   -> Word(IF value[2] THEN "True" ELSE "False")
    [] Is(value, "None")   -> Word("None")
    [] Is(value, "Class")  -> Word("Class") \o <<Blank>> \o Word(value[2])
Address(instance) == <<<<"address", instance[2]>>>>

(***************************************************************************)
(* Instances.  One is the place of the NewInstance that holds it, and its  *)
(* class.                                                                  *)
(***************************************************************************)
Instance(at, class) == <<"Instance", at, class>>
Fields(instance, s) ==
  IF instance[2] \in DOMAIN s.fields THEN s.fields[instance[2]] ELSE EmptyClosure

\* GetMethod: the first of that name, in the class or the nearest parent that
\* has one; <<>> if none has.
RECURSIVE GetMethod(_, _)
GetMethod(class, name) ==
  IF class = NoClass THEN <<>>
  ELSE LET methods == declared_classes[class].methods
           named == {i \in DOMAIN methods : methods[i].name = name}
       IN  IF named = {} THEN GetMethod(declared_classes[class].parent, name)
           ELSE <<methods[Min(named)]>>

HasMethod(instance, name, argument_count) ==
  LET found == GetMethod(instance[3], name)
  IN  found # <<>> /\ Len(found[1].formal_params) = argument_count

\* The names of a call: self, then the parameters, which may be called self too.
ClosureOfCall(s, instance, params, args) ==
  FoldLeftDomain(LAMBDA c, i : With(c, params[i], args[i]), "self" :> instance, params)

(***************************************************************************)
(* For the properties: activations are numbered, 0 is the program; log     *)
(* says when their statements begin and end and when they return, and made *)
(* lists the results of NewInstance.                                       *)
(***************************************************************************)
Logged(s, event) == [s EXCEPT !.log = Append(@, <<s.activation, event>>)]
Entered(s, closure) ==
  [s EXCEPT !.closure = closure, !.activation = s.activations + 1, !.activations = @ + 1]
\* Slip: a method has the names of its caller for its own.
LeftWithItsNames(r, caller) ==
  [r EXCEPT !.s.closure = @ @@ caller.closure, !.s.activation = caller.activation]

Left(r, caller) ==
  [r EXCEPT !.s.closure = caller.closure, !.s.activation = caller.activation]
Made(s, at) == [s EXCEPT !.made = Append(@, at)]

\* Slip: a return goes through the method to its caller's.
CaughtByNobody(r) == IF r.how = "value" THEN Value(None, r.s) ELSE r

\* MethodBody: what Return throws is the value, otherwise None.
Caught(r) ==
  CASE r.how = "value"  -> Value(None, r.s)
    [] r.how = "return" -> Value(r.value, r.s)
    [] OTHER -> r

(***************************************************************************)
(* Execute.                                                                *)
(***************************************************************************)
RECURSIVE Execute(_, _), ExecuteAll(_, _), Call(_, _, _, _), ToText(_, _)
RECURSIVE ExecuteStatements(_, _), PrintAll(_, _), Resolve(_, _, _)

\* ClassInstance::Call, with MethodBody.
Call(instance, name, args, s) ==
  IF ~HasMethod(instance, name, Len(args)) THEN RuntimeError(s)
  ELSE LET method == GetMethod(instance[3], name)[1]
           closure == ClosureOfCall(s, instance, method.formal_params, args)
       IN  Left(Caught(Execute(method.body, Entered(s, closure))), s)

\* Print: an instance writes what its __str__ gives, or its address.
ToText(value, s) ==
  CASE ~Is(value, "Instance") -> Value(TextOf(value), s)
    [] Is(value, "Instance") /\ ~HasMethod(value, "__str__", 0) -> Value(Address(value), s)
    [] Is(value, "Instance") /\ HasMethod(value, "__str__", 0) ->
         AndThen(Call(value, "__str__", <<>>, s), LAMBDA text, s1 :
           IF text = None THEN Undefined(s1) ELSE ToText(text, s1))

\* What __eq__ or __lt__ gives is taken for a Bool without a look.
CallComparison(instance, name, rhs, s) ==
  AndThen(Call(instance, name, <<rhs>>, s), LAMBDA result, s1 :
    IF Is(result, "Bool") THEN Value(result, s1) ELSE Undefined(s1))

Equal(lhs, rhs, s) ==
  CASE Is(lhs, "Instance") /\ HasMethod(lhs, "__eq__", 1) -> CallComparison(lhs, "__eq__", rhs, s)
    [] lhs = None /\ rhs = None -> Value(Bool(TRUE), s)
    [] Comparable(lhs, rhs) -> Value(Bool(lhs = rhs), s)
    [] OTHER -> RuntimeError(s)

Less(lhs, rhs, s) ==
  CASE Is(lhs, "Instance") /\ HasMethod(lhs, "__lt__", 1) -> CallComparison(lhs, "__lt__", rhs, s)
    [] Comparable(lhs, rhs) -> Value(Bool(LessValue(lhs, rhs)), s)
    [] OTHER -> RuntimeError(s)

Negated(r) == AndThen(r, LAMBDA b, s : Value(Bool(~b[2]), s))

Compare(op, lhs, rhs, s) ==
  CASE op = "Eq"          -> Equal(lhs, rhs, s)
    [] op = "NotEq"       -> Negated(Equal(lhs, rhs, s))
    [] op = "<"           -> Less(lhs, rhs, s)
    [] op = "GreaterOrEq" -> Negated(Less(lhs, rhs, s))
    [] op = "LessOrEq"    -> AndThen(Less(lhs, rhs, s), LAMBDA b, s1 :
                               IF b[2] THEN Value(b, s1) ELSE Equal(lhs, rhs, s1))
    [] op = ">"           -> AndThen(Less(lhs, rhs, s), LAMBDA b, s1 :
                               IF b[2] THEN Value(Bool(FALSE), s1) ELSE Negated(Equal(lhs, rhs, s1)))

\* Arguments, from the left; the value is the list of values.
ExecuteAll(args, s) ==
  IF args = <<>> THEN Value(<<>>, s)
  ELSE AndThen(Execute(Head(args), s), LAMBDA first, s1 :
         AndThen(ExecuteAll(Tail(args), s1), LAMBDA rest, s2 : Value(<<first>> \o rest, s2)))

\* The ids behind the first of a VariableValue.
Resolve(value, ids, s) ==
  CASE ids = <<>> -> Value(value, s)
    [] ids # <<>> /\ ~Is(value, "Instance") -> Undefined(s)
    [] ids # <<>> /\ Is(value, "Instance") ->
         IF Head(ids) \in DOMAIN Fields(value, s)
         THEN Resolve(Fields(value, s)[Head(ids)], Tail(ids), s) ELSE RuntimeError(s)

VariableValue(ids, s) ==
  IF Head(ids) \in DOMAIN s.closure THEN Resolve(s.closure[Head(ids)], Tail(ids), s)
  ELSE RuntimeError(s)

Assignment(var, rv, s) ==
  AndThen(Execute(rv, s), LAMBDA value, s1 :
    Value(value, [s1 EXCEPT !.closure = With(@, var, value)]))

\* The object is found before the value.
FieldAssignment(ids, field, rv, s) ==
  AndThen(VariableValue(ids, s), LAMBDA object, s1 :
    IF ~Is(object, "Instance") THEN Undefined(s1)
    ELSE AndThen(Execute(rv, s1), LAMBDA value, s2 :
           Value(value, [s2 EXCEPT !.fields = With(@, object[2], With(Fields(object, s2), field, value))])))

Written(s, text) == [s EXCEPT !.output = @ \o text]
PrintAll(args, s) ==
  IF args = <<>> THEN Value(None, Written(s, <<<<"newline">>>>))
  ELSE AndThen(Execute(Head(args), s), LAMBDA value, s1 :
         AndThen(ToText(value, s1), LAMBDA text, s2 :
           PrintAll(Tail(args), Written(s2, IF Len(args) = 1 THEN text ELSE Append(text, Blank)))))

\* What is no instance is called all the same, when the arguments are there.
MethodCall(ids, method, args, s) ==
  AndThen(VariableValue(ids, s), LAMBDA object, s1 :
    AndThen(ExecuteAll(args, s1), LAMBDA values, s2 :
      IF Is(object, "Instance") THEN Call(object, method, values, s2) ELSE Undefined(s2)))

\* The node has an instance from the start and gives it each time.  Without a
\* constructor for them the arguments are not executed.
NewInstance(at, class, args, s) ==
  LET instance == Instance(at, class)
  IN  IF ~HasMethod(instance, "__init__", Len(args)) THEN Value(instance, Made(s, at))
      ELSE AndThen(ExecuteAll(args, s), LAMBDA values, s1 :
             AndThen(Call(instance, "__init__", values, s1), LAMBDA ignored, s2 :
               Value(instance, Made(s2, at))))

Stringify(arg, s) ==
  AndThen(Execute(arg, s), LAMBDA value, s1 :
    AndThen(ToText(value, s1), LAMBDA text, s2 : Value(String(text), s2)))

Add(lhs, rhs, s) ==
  IF Is(lhs, "Instance") THEN Call(lhs, "__add__", <<rhs>>, s) ELSE Operate("+", lhs, rhs, s)

\* Both operands, then the operation.
BinaryOperation(op, lhs_arg, rhs_arg, s) ==
  AndThen(Execute(lhs_arg, s), LAMBDA lhs, s1 :
    AndThen(Execute(rhs_arg, s1), LAMBDA rhs, s2 :
      CASE op = "+" -> Add(lhs, rhs, s2)
        [] op \in {"-", "*", "/"} -> Operate(op, lhs, rhs, s2)
        [] OTHER -> Compare(op, lhs, rhs, s2)))

\* The second operand only where it decides.
Or(lhs_arg, rhs_arg, s) ==
  AndThen(Execute(lhs_arg, s), LAMBDA lhs, s1 :
    IF IsTrue(lhs) THEN Value(Bool(TRUE), s1)
    ELSE AndThen(Execute(rhs_arg, s1), LAMBDA rhs, s2 : Value(Bool(IsTrue(rhs)), s2)))
And(lhs_arg, rhs_arg, s) ==
  AndThen(Execute(lhs_arg, s), LAMBDA lhs, s1 :
    IF IsTrue(lhs) THEN AndThen(Execute(rhs_arg, s1), LAMBDA rhs, s2 : Value(Bool(IsTrue(rhs)), s2))
    ELSE Value(Bool(FALSE), s1))
Not(arg, s) == AndThen(Execute(arg, s), LAMBDA value, s1 : Value(Bool(~IsTrue(value)), s1))

\* Compound: the value is None.
ExecuteStatement(node, s) ==
  AndThen(Execute(node, Logged(s, "begin")), LAMBDA ignored, s1 : Value(None, Logged(s1, "end")))
ExecuteStatements(statements, s) ==
  IF statements = <<>> THEN Value(None, s)
  ELSE AndThen(ExecuteStatement(Head(statements), s), LAMBDA ignored, s1 :
         ExecuteStatements(Tail(statements), s1))

Return(statement, s) ==
  AndThen(Execute(statement, s), LAMBDA value, s1 : End("return", value, Logged(s1, "return")))

ClassDefinition(name, s) ==
  Value(<<"Class", name>>, [s EXCEPT !.closure = With(@, name, <<"Class", name>>)])

IfElse(condition, if_body, else_body, s) ==
  AndThen(Execute(condition, s), LAMBDA value, s1 :
    IF IsTrue(value) THEN Execute(if_body, s1)
    ELSE IF else_body = Nothing THEN Value(None, s1) ELSE Execute(else_body, s1))

Execute(node, s) ==
  CASE node[1] = "constant" -> Value(node[2], s)
    [] node[1] = "None" -> Value(None, s)
    [] node[1] = "VariableValue" -> VariableValue(node[2], s)
    [] node[1] = "Assignment" -> Assignment(node[2], node[3], s)
    [] node[1] = "FieldAssignment" -> FieldAssignment(node[2], node[3], node[4], s)
    [] node[1] = "Print" -> PrintAll(node[2], s)
    [] node[1] = "MethodCall" -> MethodCall(node[2], node[3], node[4], s)
    [] node[1] = "NewInstance" -> NewInstance(node[2], node[3], node[4], s)
    [] node[1] = "Stringify" -> Stringify(node[2], s)
    [] node[1] = "Or" -> Or(node[2], node[3], s)
    [] node[1] = "And" -> And(node[2], node[3], s)
    [] node[1] = "Not" -> Not(node[2], s)
    [] node[1] = "Compound" -> ExecuteStatements(node[2], s)
    [] node[1] = "Return" -> Return(node[2], s)
    [] node[1] = "ClassDefinition" -> ClassDefinition(node[2], s)
    [] node[1] = "IfElse" -> IfElse(node[2], node[3], node[4], s)
    [] OTHER -> BinaryOperation(node[1], node[2], node[3], s)
=============================================================================
