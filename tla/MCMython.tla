------------------------------ MODULE MCMython ------------------------------
(***************************************************************************)
(* Mython on small programs: lines in every layout, every small            *)
(* expression, methods that call and return in every order, and a few      *)
(* programs with all the rest.                                             *)
(***************************************************************************)
EXTENDS MythonProgram

\* Words before numbers, and the rest before both.
MCCodeOf(c) ==
  CASE c[1] = "number" -> c[2] + 10
    [] c = <<"word", "a">> -> 20
    [] c = <<"word", "b">> -> 21
    [] c[1] = "address" -> 30 + c[2]
    [] OTHER -> 0

Id(x) == <<"Id", x>>
Num(n) == <<"constant", Number(n)>>
Str(c) == <<"constant", String(c)>>
Truth(b) == <<"constant", Bool(b)>>
Var(x) == <<"VariableValue", <<x>>>>
Field(x, f) == <<"VariableValue", <<x, f>>>>
Set(x, e) == <<"Assignment", x, e>>
SetField(x, f, e) == <<"FieldAssignment", <<x>>, f, e>>
PrintOf(args) == <<"Print", args>>
CallOf(x, m, args) == <<"MethodCall", <<x>>, m, args>>
New(class, args) == <<"NewInstance", 0, class, args>>
ReturnOf(e) == <<"Return", e>>
Block(statements) == <<"Compound", statements>>
If(e, statements) == <<"IfElse", e, Block(statements), Nothing>>
IfOr(e, statements, others) == <<"IfElse", e, Block(statements), Block(others)>>
Class(name) == <<"ClassDefinition", name>>
Method(name, params, statements) ==
  [name |-> name, formal_params |-> params, body |-> Block(statements)]
ClassOf(parent, methods) == [parent |-> parent, methods |-> methods]

Spread(lines, gap, remark) ==
  [i \in DOMAIN lines |-> [indent |-> 2 * lines[i].depth, tokens |-> lines[i].tokens,
                           gap |-> gap, remark |-> remark]]
Program(statements, classes) ==
  [lines |-> Spread(SuiteLines(0, Block(statements), classes), 0, <<>>), grammatical |-> TRUE]

(***************************************************************************)
(* Layouts: three lines, each moved in by up to five blanks.               *)
(***************************************************************************)
Remark == <<Blank, Hash, Quote("'"), <<"word", "print">>>>
LineOf(indent, line_tokens, gap, remark) ==
  [indent |-> indent, tokens |-> line_tokens, gap |-> gap, remark |-> remark]
SmallLines ==
  {LineOf(i, <<<<"Print">>>>, 0, <<>>) : i \in 0 .. 5}
    \cup {LineOf(i, <<>>, 0, r) : i \in {0, 2}, r \in {<<>>, <<Blank>>, Remark}}
    \cup {LineOf(2, <<<<"If">>, <<"True">>, Char(":")>>, 1, Remark)}
Layouts == [1 .. 3 -> SmallLines]

OddStrings ==
  {String(<<>>), String(<<Quote("'")>>), String(<<Hash>>), String(<<Quote("\""), <<"word", "print">>>>),
   String(<<<<"newline">>, Blank>>)}
OddTokens ==
  OddStrings \cup {Number(0), Number(MaxInt), Number(MaxInt + 1), Char("="), <<"Eq">>, <<"LessOrEq">>,
                   Char("<"), <<"Not">>, Id("x")}
OddLines ==
  {LineOf(1, <<a, b, c>>, g, r) :
     a, b \in OddTokens, c \in OddStrings \cup {Number(1)}, g \in 0 .. 1, r \in {<<>>, Remark}}
    \cup {LineOf(0, <<Id("x")>>, 0, r) :
            r \in {<<<<"char", "!">>>>, <<Quote("'"), Blank>>, <<Backslash, Hash>>}}

Ungrammatical(lines) == [lines |-> lines, grammatical |-> FALSE]
Texts == {Ungrammatical(l) : l \in Layouts} \cup {Ungrammatical(<<l>>) : l \in OddLines}

(***************************************************************************)
(* Expressions.                                                            *)
(***************************************************************************)
BinaryOps == {"Or", "And", "<", "Eq", "+", "-", "*", "/"}
FewOps == {"Or", "And", "<", "-", "*"}
Unary(e) == {<<"Not", e>>, <<"*", e, MinusOne>>}
Of(ops, ls, rs) == {<<op, l, r>> : op \in ops, l \in ls, r \in rs}
Leaf == {Num(1)}
One == Of(BinaryOps, Leaf, Leaf) \cup UNION {Unary(e) : e \in Leaf}
Two == Of(BinaryOps, One, {Num(0)}) \cup Of(BinaryOps, {Num(2)}, One) \cup UNION {Unary(e) : e \in One}
FewOne == Of(FewOps, Leaf, Leaf) \cup UNION {Unary(e) : e \in Leaf}
FewTwo == Of(FewOps, FewOne, Leaf) \cup Of(FewOps, Leaf, FewOne) \cup UNION {Unary(e) : e \in FewOne}
Three ==
  Of(FewOps, FewTwo, Leaf) \cup Of(FewOps, Leaf, FewTwo) \cup Of(FewOps, FewOne, FewOne)
    \cup UNION {Unary(e) : e \in FewTwo}
Values == {Num(2), Str(<<<<"word", "a">>>>), Str(<<>>), Truth(TRUE), <<"None">>, Var("x"), Var("y")}
Comparisons ==
  Of({"<", ">", "Eq", "NotEq", "LessOrEq", "GreaterOrEq", "+", "/"}, Values, Values)
Expressions ==
  {Program(<<Set("x", Str(<<<<"word", "b">>>>)), PrintOf(<<e>>)>>, EmptyClosure) :
     e \in One \cup Two \cup Three \cup Comparisons}

(***************************************************************************)
(* Methods: f calls g, each of them returns here or there or nowhere, and  *)
(* all use the program's names.                                            *)
(***************************************************************************)
CallG == CallOf("self", "g", <<>>)
BodyOfF ==
  {ReturnOf(Var("x")), If(Var("x"), <<ReturnOf(Num(2))>>), Set("a", CallG), ReturnOf(CallG), CallG,
   IfOr(Var("x"), <<CallG, PrintOf(<<Var("x")>>)>>, <<Set("x", Num(3)), ReturnOf(Var("x"))>>)}
BodyOfG ==
  {<<ReturnOf(Num(1))>>, <<Set("x", Num(0))>>, <<PrintOf(<<Num(0)>>), ReturnOf(Var("self"))>>,
   <<If(Truth(TRUE), <<ReturnOf(<<"None">>), PrintOf(<<>>)>>)>>, <<ReturnOf(Var("x"))>>}
Mains ==
  {<<PrintOf(<<CallOf("a", "f", <<Num(1)>>)>>)>>,
   <<If(Truth(TRUE), <<Set("x", CallOf("a", "f", <<Num(0)>>)), ReturnOf(Var("x"))>>)>>}
Methods ==
  {Program(<<Class("A"), Set("a", New("A", <<>>))>> \o main,
           "A" :> ClassOf(NoClass, <<Method("f", <<"x">>, f), Method("g", <<>>, g)>>)) :
     main \in Mains, g \in BodyOfG,
     f \in {<<x>> : x \in BodyOfF} \cup {<<x, y>> : x, y \in BodyOfF}}

(***************************************************************************)
(* The rest.                                                               *)
(***************************************************************************)
WordA == Str(<<<<"word", "a">>>>)
\* Constructors, fields, parents, operators, texts, a recursion.
Base ==
  ClassOf(NoClass,
    <<Method("__init__", <<"n">>, <<SetField("self", "n", Var("n"))>>),
      Method("down", <<"n">>,
        <<If(<<"Eq", Var("n"), Num(0)>>, <<ReturnOf(WordA)>>),
          ReturnOf(CallOf("self", "down", <<<<"-", Var("n"), Num(1)>>>>))>>),
      Method("__add__", <<"other">>, <<ReturnOf(<<"+", Field("self", "n"), Var("other")>>)>>)>>)
Child ==
  ClassOf("Base",
    <<Method("__str__", <<>>, <<ReturnOf(<<"+", WordA, <<"Stringify", Field("self", "n")>>>>)>>),
      Method("__eq__", <<"other">>, <<ReturnOf(<<"Eq", Field("self", "n"), Var("other")>>)>>),
      Method("__lt__", <<"other">>, <<ReturnOf(Field("self", "n"))>>),
      Method("down", <<>>, <<ReturnOf(<<"None">>)>>)>>)
Family == ("Base" :> Base) @@ ("Child" :> Child)
Uses ==
  {PrintOf(<<Var("c"), Field("c", "n")>>), PrintOf(<<Var("b"), Var("Base")>>),
   PrintOf(<<<<"Eq", Var("c"), Num(1)>>, <<"NotEq", Var("b"), Num(1)>>>>),
   PrintOf(<<<<"<", Var("c"), Num(1)>>>>), PrintOf(<<<<"LessOrEq", Var("c"), Num(2)>>>>),
   Set("n", <<"+", Var("c"), Num(2)>>), Set("n", CallOf("b", "down", <<Num(3)>>)),
   Set("n", CallOf("c", "down", <<Num(1)>>)), CallOf("n", "down", <<New("Base", <<Num(1)>>)>>),
   SetField("c", "b", Var("b")), SetField("c", "n", Truth(FALSE)), SetField("n", "n", Num(1)),
   PrintOf(<<<<"VariableValue", <<"c", "b", "n">>>>>>), If(Var("c"), <<Class("Base")>>)}
Families ==
  {Program(<<Class("Base"), Class("Child"), Set("b", New("Base", <<Num(1)>>)),
             Set("c", New("Child", <<Num(2)>>)), u, v>>, Family) : u, v \in Uses \ {If(Var("c"), <<Class("Base")>>)}}

\* One expression that makes instances, executed twice.
Makers ==
  {Program(<<Class("A"), Class("B"), Set("b", New("B", <<>>)), Set("x", CallOf("b", "make", <<Num(1)>>)),
             Set("y", CallOf("b", "make", <<Num(2)>>)), PrintOf(<<Field("x", "n"), Field("y", "n")>>)>>,
           ("A" :> ClassOf(NoClass, <<Method("__init__", <<"n">>, <<SetField("self", "n", Var("n"))>>)>>))
             @@ ("B" :> ClassOf(NoClass, <<Method("make", <<"n">>, <<ReturnOf(New("A", <<Var("n")>>))>>)>>)))}

\* Programs that the parser refuses.
Refused ==
  {Ungrammatical(Spread(SuiteLines(0, Block(p), Family), 1, <<>>)) :
     p \in {<<Class("Child")>>, <<Class("Base"), Class("Base")>>, <<Set("x", New("Base", <<>>))>>,
            <<PrintOf(<<New("str", <<>>)>>)>>, <<<<"MethodCall", <<>>, "f", <<>>>>>>,
            <<If(Num(1), <<>>)>>}}

MCSource == Texts \cup Expressions \cup Methods \cup Families \cup Makers \cup Refused
=============================================================================
