---------------------------- MODULE MythonParser ----------------------------
(***************************************************************************)
(* Parser of mython (parse.cpp): recursive descent over the tokens of the  *)
(* Lexer.                                                                  *)
(*                                                                         *)
(* A rule is given the place p of the current token and the classes that   *)
(* are declared, and gives a tree, the place behind it and the classes, or *)
(* the exception it ends with.  A tree is a tuple of its operation and its *)
(* parts.  The node of a NewInstance carries its place in the text, which  *)
(* tells it from other nodes.                                              *)
(***************************************************************************)
EXTENDS Lexer

Nothing == <<"nothing">>   \* a branch that is not there
NoClass == "no class"      \* a parent that is not there

\* CurrentToken() after p - 1 calls of NextToken.
At(p) == IF p <= Len(tokens) THEN tokens[p] ELSE Last(tokens)
IsChar(p, c) == At(p) = Char(c)
IsId(p) == At(p)[1] = "Id"

Ok(p, tree, classes) == [ok |-> TRUE, p |-> p, tree |-> tree, classes |-> classes]
\* The exception of the lexer comes first, when it is there to be met.
Fail(p, exception) ==
  [ok |-> FALSE, exception |-> IF IsThrow(At(p)) THEN At(p)[2] ELSE exception]

\* What follows if r did not end with an exception.
Then(r, Continue(_)) == IF r.ok THEN Continue(r) ELSE r
\* Expect: the token that has to stand at p.
Expect(p, token, r) == IF At(p) = token THEN r ELSE Fail(p, "LexerError")
ExpectId(p, r) == IF IsId(p) THEN r ELSE Fail(p, "LexerError")
\* Several of them, one behind the other.
RECURSIVE ExpectAll(_, _, _)
ExpectAll(p, expected, r) ==
  IF expected = <<>> THEN r
  ELSE Expect(p, Head(expected), ExpectAll(p + 1, Tail(expected), r))

\* The ids from p on that are separated by a character; behind a separator
\* something else may stand.
RECURSIVE IdsFrom(_, _)
IdsFrom(p, separator) ==
  IF ~IsId(p) THEN <<>>
  ELSE <<At(p)[2]>> \o (IF IsChar(p + 1, separator) THEN IdsFrom(p + 2, separator) ELSE <<>>)
AfterIds(p, ids) == p + 2 * Len(ids) - 1

\* ParseDottedIds: the tree is the list.
ParseDottedIds(p, classes) ==
  LET ids == IdsFrom(p, ".")
      end == AfterIds(p, ids)
  IN  IF ids = <<>> THEN Fail(p, "LexerError")
      ELSE IF IsChar(end, ".") THEN Fail(end + 1, "LexerError") ELSE Ok(end, ids, classes)

(***************************************************************************)
(* Expressions.                                                            *)
(***************************************************************************)
\* The rules that read operands of the rule below them, as many as there are
\* of their operators between them.
LeftOperators ==
  [ParseTest |-> {<<"Or">>}, ParseAndTest |-> {<<"And">>},
   ParseExpression |-> {Char("+"), Char("-")}, ParseAdder |-> {Char("*"), Char("/")}]
Below ==
  [ParseTest |-> "ParseAndTest", ParseAndTest |-> "ParseNotTest",
   ParseExpression |-> "ParseAdder", ParseAdder |-> "ParseMult"]
Comparators ==
  {Char("<"), Char(">"), <<"Eq">>, <<"NotEq">>, <<"LessOrEq">>, <<"GreaterOrEq">>}

\* The name of an operation: of a token with a character, the character.
Operation(token) == token[Len(token)]

\* Slip: operators of one rank take the nearest operands from the right.
JoinToTheRight(operation, l, r) ==
  IF l[1] = operation THEN <<operation, l[2], <<operation, l[3], r>>>> ELSE <<operation, l, r>>

Join(operation, l, r) == <<operation, l, r>>

Constants == {"Number", "String", "True", "False", "None"}
ConstantNode(token) ==
  CASE token[1] \in {"Number", "String"} -> <<"constant", token>>
    [] token = <<"True">>  -> <<"constant", <<"Bool", TRUE>>>>
    [] token = <<"False">> -> <<"constant", <<"Bool", FALSE>>>>
    [] token = <<"None">>  -> <<"None">>
MinusOne == <<"constant", <<"Number", -1>>>>

\* The nodes that ParseDottedIdsInMultExpr makes of a call; p is behind it.
CallNode(p, at, ids, args, classes) ==
  LET name == Last(ids)
  IN  CASE Len(ids) > 1 -> Ok(p, <<"MethodCall", Front(ids), name, args>>, classes)
        [] Len(ids) = 1 /\ name \in DOMAIN classes -> Ok(p, <<"NewInstance", at, name, args>>, classes)
        [] Len(ids) = 1 /\ name \notin DOMAIN classes /\ name = "str" /\ Len(args) = 1 ->
             Ok(p, <<"Stringify", args[1]>>, classes)
        [] OTHER -> Fail(p, "ParseError")

RECURSIVE Parse(_, _, _), ParseMore(_, _), ParseTestList(_, _), ParseArguments(_, _)

\* The loop of a rule with LeftOperators: r is what it has read.
ParseMore(rule, r) ==
  IF ~r.ok THEN r
  ELSE IF At(r.p) \notin LeftOperators[rule] THEN r
  ELSE LET next == Parse(Below[rule], r.p + 1, r.classes)
       IN  ParseMore(rule, Then(next, LAMBDA n :
             Ok(n.p, Join(Operation(At(r.p)), r.tree, n.tree), n.classes)))

ParseNotTest(p, classes) ==
  IF At(p) # <<"Not">> THEN Parse("ParseComparison", p, classes)
  ELSE Then(Parse("ParseNotTest", p + 1, classes), LAMBDA r : Ok(r.p, <<"Not", r.tree>>, r.classes))

\* One comparator: what it gives is not compared again.
ParseComparison(p, classes) ==
  Then(Parse("ParseExpression", p, classes), LAMBDA l :
    IF At(l.p) \notin Comparators THEN l
    ELSE Then(Parse("ParseExpression", l.p + 1, classes), LAMBDA r :
           Ok(r.p, <<Operation(At(l.p)), l.tree, r.tree>>, classes)))

ParseDottedIdsInMultExpr(p, classes) ==
  Then(ParseDottedIds(p, classes), LAMBDA names :
    IF ~IsChar(names.p, "(") THEN Ok(names.p, <<"VariableValue", names.tree>>, classes)
    ELSE Then(ParseArguments(names.p + 1, classes), LAMBDA args :
           CallNode(args.p, p, names.tree, args.tree, classes)))

ParseMult(p, classes) ==
  CASE IsChar(p, "(") ->
         Then(Parse("ParseTest", p + 1, classes), LAMBDA r :
           Expect(r.p, Char(")"), Ok(r.p + 1, r.tree, classes)))
    [] IsChar(p, "-") ->
         Then(Parse("ParseMult", p + 1, classes), LAMBDA r :
           Ok(r.p, <<"*", r.tree, MinusOne>>, classes))
    [] At(p)[1] \in Constants -> Ok(p + 1, ConstantNode(At(p)), classes)
    [] OTHER -> ParseDottedIdsInMultExpr(p, classes)

Parse(rule, p, classes) ==
  CASE rule \in DOMAIN LeftOperators -> ParseMore(rule, Parse(Below[rule], p, classes))
    [] rule = "ParseNotTest" -> ParseNotTest(p, classes)
    [] rule = "ParseComparison" -> ParseComparison(p, classes)
    [] rule = "ParseMult" -> ParseMult(p, classes)

ParseTest(p, classes) == Parse("ParseTest", p, classes)

\* The tree is the list of trees.
ParseTestList(p, classes) ==
  Then(ParseTest(p, classes), LAMBDA first :
    IF ~IsChar(first.p, ",") THEN Ok(first.p, <<first.tree>>, classes)
    ELSE Then(ParseTestList(first.p + 1, classes), LAMBDA rest :
           Ok(rest.p, <<first.tree>> \o rest.tree, classes)))

\* What stands behind the opening parenthesis of a call, and the closing one.
ParseArguments(p, classes) ==
  IF IsChar(p, ")") THEN Ok(p + 1, <<>>, classes)
  ELSE Then(ParseTestList(p, classes), LAMBDA args :
         Expect(args.p, Char(")"), Ok(args.p + 1, args.tree, classes)))

(***************************************************************************)
(* Statements.                                                             *)
(***************************************************************************)
ParseAssignmentOrCall(p, classes) ==
  Then(ParseDottedIds(p, classes), LAMBDA ids :
    LET name == Last(ids.tree)
        object == Front(ids.tree)
    IN  CASE IsChar(ids.p, "=") ->
               Then(ParseTest(ids.p + 1, classes), LAMBDA r :
                 Ok(r.p, IF object = <<>> THEN <<"Assignment", name, r.tree>>
                         ELSE <<"FieldAssignment", object, name, r.tree>>, classes))
          [] IsChar(ids.p, "(") /\ object = <<>> -> Fail(ids.p + 1, "ParseError")
          [] IsChar(ids.p, "(") /\ object # <<>> ->
               Then(ParseArguments(ids.p + 1, classes), LAMBDA args :
                 Ok(args.p, <<"MethodCall", object, name, args.tree>>, classes))
          [] OTHER -> Fail(ids.p, "LexerError"))

ParseSimpleStatement(p, classes) ==
  CASE At(p) = <<"Return">> ->
         Then(ParseTest(p + 1, classes), LAMBDA r : Ok(r.p, <<"Return", r.tree>>, classes))
    [] At(p) = <<"Print">> /\ At(p + 1) = <<"Newline">> -> Ok(p + 1, <<"Print", <<>>>>, classes)
    [] At(p) = <<"Print">> /\ At(p + 1) # <<"Newline">> ->
         Then(ParseTestList(p + 1, classes), LAMBDA r : Ok(r.p, <<"Print", r.tree>>, classes))
    [] OTHER -> ParseAssignmentOrCall(p, classes)

RECURSIVE ParseStatement(_, _), ParseStatements(_, _, _), ParseMethods(_, _)

\* Statements up to a token, which is taken; the tree is a Compound.
ParseStatements(p, end, classes) ==
  IF At(p) = end THEN Ok(p + 1, <<"Compound", <<>>>>, classes)
  ELSE Then(ParseStatement(p, classes), LAMBDA first :
         Then(ParseStatements(first.p, end, first.classes), LAMBDA rest :
           Ok(rest.p, <<"Compound", <<first.tree>> \o rest.tree[2]>>, rest.classes)))

ParseSuite(p, classes) ==
  ExpectAll(p, <<<<"Newline">>, <<"Indent">>>>, ParseStatements(p + 2, <<"Dedent">>, classes))

ParseCondition(p, classes) ==
  Then(ParseTest(p + 1, classes), LAMBDA condition :
    Expect(condition.p, Char(":"),
      Then(ParseSuite(condition.p + 1, classes), LAMBDA if_body :
        IF At(if_body.p) # <<"Else">>
        THEN Ok(if_body.p, <<"IfElse", condition.tree, if_body.tree, Nothing>>, if_body.classes)
        ELSE Expect(if_body.p + 1, Char(":"),
               Then(ParseSuite(if_body.p + 2, if_body.classes), LAMBDA else_body :
                 Ok(else_body.p, <<"IfElse", condition.tree, if_body.tree, else_body.tree>>,
                    else_body.classes))))))

\* The tree is the list of methods.
ParseMethods(p, classes) ==
  IF At(p) # <<"Def">> THEN Ok(p, <<>>, classes)
  ELSE LET params == IdsFrom(p + 3, ",")
           end == IF params = <<>> THEN p + 3 ELSE AfterIds(p + 3, params)
       IN  ExpectId(p + 1, Expect(p + 2, Char("("),
             IF params # <<>> /\ IsChar(end, ",") THEN Fail(end + 1, "LexerError")
             ELSE ExpectAll(end, <<Char(")"), Char(":")>>,
                    Then(ParseSuite(end + 2, classes), LAMBDA body :
                      Then(ParseMethods(body.p, body.classes), LAMBDA rest :
                        Ok(rest.p,
                           <<[name |-> At(p + 1)[2], formal_params |-> params, body |-> body.tree]>>
                             \o rest.tree,
                           rest.classes))))))

\* Declared behind its methods: they cannot make instances of it.
ClassNode(p, name, parent, methods, classes) ==
  IF name \in DOMAIN classes THEN Fail(p, "ParseError")
  ELSE Ok(p, <<"ClassDefinition", name>>, (name :> [methods |-> methods, parent |-> parent]) @@ classes)

\* A class, from the colon before its methods on.
ParseClassBody(p, name, parent, classes) ==
  ExpectAll(p, <<Char(":"), <<"Newline">>, <<"Indent">>, <<"Def">>>>,
    Then(ParseMethods(p + 3, classes), LAMBDA methods :
      Expect(methods.p, <<"Dedent">>,
        ClassNode(methods.p + 1, name, parent, methods.tree, methods.classes))))

ParseClassDefinition(p, classes) ==
  LET name == At(p)[2]
      base == At(p + 2)[2]
  IN  ExpectId(p,
        IF ~IsChar(p + 1, "(") THEN ParseClassBody(p + 1, name, NoClass, classes)
        ELSE ExpectId(p + 2, Expect(p + 3, Char(")"),
               IF base \in DOMAIN classes THEN ParseClassBody(p + 4, name, base, classes)
               ELSE Fail(p + 4, "ParseError"))))

ParseStatement(p, classes) ==
  CASE At(p) = <<"Class">> -> ParseClassDefinition(p + 1, classes)
    [] At(p) = <<"If">> -> ParseCondition(p, classes)
    [] OTHER -> Then(ParseSimpleStatement(p, classes), LAMBDA r :
                  Expect(r.p, <<"Newline">>, Ok(r.p + 1, r.tree, r.classes)))

ParseProgram == ParseStatements(1, <<"Eof">>, [name \in {} |-> NoClass])
=============================================================================
