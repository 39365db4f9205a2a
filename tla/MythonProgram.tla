--------------------------- MODULE MythonProgram ----------------------------
(***************************************************************************)
(* RunMythonProgram of mython (main.cpp): the lexer, the parser and the    *)
(* execution, one behind the other.  The parser asks the lexer for tokens  *)
(* as it goes; here the lexer gives all of them first, and an exception of *)
(* the lexer waits in its place for the parser to come to it.              *)
(***************************************************************************)
EXTENDS MythonRuntime, Functions

(***************************************************************************)
(* How a program is written: the other direction of the Lexer and the      *)
(* parser, for the inputs and the properties.  No code of the repository   *)
(* does this.  A source is lines of tokens, each with the number of blanks *)
(* in front of it and between its tokens, and a remark behind them.        *)
(***************************************************************************)
\* Tokens as characters.
SpellingOf ==
  [keyword \in {Keywords[w] : w \in DOMAIN Keywords} |->
     CHOOSE w \in DOMAIN Keywords : Keywords[w] = keyword]
Escaped(c) ==
  CASE c = Quote("'") -> <<Backslash, c>>
    [] c = <<"newline">> -> <<Backslash, <<"word", "n">>>>
    [] OTHER -> <<c>>
Spelled(token) ==
  CASE token[1] = "Id" -> <<<<"word", token[2]>>>>
    [] token[1] = "Number" -> <<<<"number", token[2]>>>>
    [] token[1] = "Char" -> <<<<"char", token[2]>>>>
    [] token[1] = "String" ->
         <<Quote("'")>> \o FlattenSeq([i \in DOMAIN token[2] |-> Escaped(token[2][i])]) \o <<Quote("'")>>
    [] token[1] \in {t[2] : t \in TwoCharacters} ->
         <<<<"char", (CHOOSE t \in TwoCharacters : t[2] = token[1])[1]>>, <<"char", "=">>>>
    [] OTHER -> <<<<"word", SpellingOf[token[1]]>>>>

\* Two tokens that would be read as something else without a blank.
NeedBlank(a, b) ==
  LET l == Last(Spelled(a))
      r == Head(Spelled(b))
  IN  (l[1] \in {"word", "number"} /\ r[1] \in {"word", "number"}) \/ r = <<"char", "=">>

Blanks(n) == [k \in 1 .. n |-> Blank]
LineText(line) ==
  Blanks(line.indent) \o
  FlattenSeq([i \in DOMAIN line.tokens |->
    (IF i = 1 THEN <<>>
     ELSE IF NeedBlank(line.tokens[i - 1], line.tokens[i]) THEN Blanks(Max({1, line.gap}))
     ELSE Blanks(line.gap)) \o Spelled(line.tokens[i])]) \o
  line.remark
SourceText(lines) == [i \in DOMAIN lines |-> LineText(lines[i])]

\* Trees as tokens, with the parentheses that the grammar asks for.
Ranks ==
  [Or |-> 1, And |-> 2, Not |-> 3] @@ [c \in {Operation(t) : t \in Comparators} |-> 4]
    @@ [c \in {"+", "-"} |-> 5] @@ [c \in {"*", "/"} |-> 6]
IsSign(tree) == tree[1] = "*" /\ tree[3] = MinusOne
Rank(tree) == IF tree[1] \in DOMAIN Ranks /\ ~IsSign(tree) THEN Ranks[tree[1]] ELSE 7

\* Sequences, with a separator between them.
Separated(sequences, separator) ==
  FlattenSeq([i \in DOMAIN sequences |-> (IF i = 1 THEN <<>> ELSE <<separator>>) \o sequences[i]])
Dotted(ids) == Separated([i \in DOMAIN ids |-> <<<<"Id", ids[i]>>>>], Char("."))
In(s) == <<Char("(")>> \o s \o <<Char(")")>>

RECURSIVE Tokens(_), TokensIn(_, _)
\* In the place of an operand that has to be of a rank.
TokensIn(rank, tree) == IF Rank(tree) < rank THEN In(Tokens(tree)) ELSE Tokens(tree)
ListTokens(trees) == Separated([i \in DOMAIN trees |-> Tokens(trees[i])], Char(","))
Tokens(tree) ==
  LET op == tree[1]
      name == IF op \in {"<", ">", "+", "-", "*", "/"} THEN Char(op) ELSE <<op>>
      rank == Rank(tree)
  IN  CASE op = "constant" -> IF tree[2][1] = "Bool" THEN <<<<IF tree[2][2] THEN "True" ELSE "False">>>>
                              ELSE <<tree[2]>>
        [] op = "None" -> <<tree>>
        [] op = "VariableValue" -> Dotted(tree[2])
        [] op = "MethodCall" -> Dotted(Append(tree[2], tree[3])) \o In(ListTokens(tree[4]))
        [] op = "NewInstance" -> <<<<"Id", tree[3]>>>> \o In(ListTokens(tree[4]))
        [] op = "Stringify" -> <<<<"Id", "str">>>> \o In(Tokens(tree[2]))
        [] op = "Not" -> <<<<"Not">>>> \o TokensIn(3, tree[2])
        [] op = "*" /\ IsSign(tree) -> <<Char("-")>> \o TokensIn(7, tree[2])
        [] rank = 4 -> TokensIn(5, tree[2]) \o <<name>> \o TokensIn(5, tree[3])
        [] OTHER -> TokensIn(rank, tree[2]) \o <<name>> \o TokensIn(rank + 1, tree[3])

\* Statements as lines.
Line(depth, line_tokens) == <<[depth |-> depth, tokens |-> line_tokens]>>
Colon == <<Char(":")>>
RECURSIVE Lines(_, _, _), SuiteLines(_, _, _), MethodLines(_, _, _)
SuiteLines(depth, compound, classes) ==
  FlattenSeq([i \in DOMAIN compound[2] |-> Lines(depth, compound[2][i], classes)])
MethodLines(depth, method, classes) ==
  Line(depth, <<<<"Def">>, <<"Id", method.name>>>> \o
    In(Separated([i \in DOMAIN method.formal_params |-> <<<<"Id", method.formal_params[i]>>>>], Char(",")))
    \o Colon)
  \o SuiteLines(depth + 1, method.body, classes)
Lines(depth, node, classes) ==
  CASE node[1] = "Assignment" ->
         Line(depth, <<<<"Id", node[2]>>, Char("=")>> \o Tokens(node[3]))
    [] node[1] = "FieldAssignment" ->
         Line(depth, Dotted(Append(node[2], node[3])) \o <<Char("=")>> \o Tokens(node[4]))
    [] node[1] = "Print" -> Line(depth, <<<<"Print">>>> \o ListTokens(node[2]))
    [] node[1] = "Return" -> Line(depth, <<<<"Return">>>> \o Tokens(node[2]))
    [] node[1] = "MethodCall" -> Line(depth, Tokens(node))
    [] node[1] = "IfElse" ->
         Line(depth, <<<<"If">>>> \o Tokens(node[2]) \o Colon) \o SuiteLines(depth + 1, node[3], classes)
           \o (IF node[4] = Nothing THEN <<>>
               ELSE Line(depth, <<<<"Else">>>> \o Colon) \o SuiteLines(depth + 1, node[4], classes))
    [] node[1] = "ClassDefinition" ->
         LET class == classes[node[2]]
         IN  Line(depth, <<<<"Class">>, <<"Id", node[2]>>>> \o
                    (IF class.parent = NoClass THEN <<>> ELSE In(<<<<"Id", class.parent>>>>)) \o Colon)
             \o FlattenSeq([i \in DOMAIN class.methods |-> MethodLines(depth + 1, class.methods[i], classes)])

(***************************************************************************)
(* The program.                                                            *)
(***************************************************************************)
CONSTANT Source   \* the programs: lines, and whether they follow the grammar

VARIABLES
  source,    \* the program that runs
  stage,     \* "lex", "execute" or "end"
  program,   \* the statements of the program
  executed,  \* how many of them were executed
  s,         \* what the execution has come to
  outcome    \* how RunMythonProgram ended

programVars == <<source, stage, program, executed, s, outcome>>
vars == <<lexerVars, declared_classes, programVars>>

Init ==
  /\ source \in Source
  /\ LexerInit(SourceText(source.lines))
  /\ stage = "lex" /\ program = <<>> /\ executed = 0 /\ outcome = "running"
  /\ declared_classes = EmptyClosure
  /\ s = [closure |-> EmptyClosure, fields |-> EmptyClosure, output |-> <<>>,
          activation |-> 0, activations |-> 0, log |-> <<>>, made |-> <<>>]

Lex == stage = "lex" /\ NextToken /\ UNCHANGED <<declared_classes, programVars>>

ParseTokensOfText ==
  /\ stage = "lex" /\ AtEnd
  /\ LET r == ParseProgram
     IN  \/ /\ r.ok
            /\ stage' = "execute" /\ program' = r.tree[2] /\ declared_classes' = r.classes
            /\ UNCHANGED outcome
         \/ /\ ~r.ok
            /\ stage' = "end" /\ outcome' = r.exception
            /\ UNCHANGED <<program, declared_classes>>
  /\ UNCHANGED <<lexerVars, source, executed, s>>

\* What main makes of the way a statement ended: nothing catches an ObjectHolder.
OutcomeOf(how) == IF how = "return" THEN "terminate" ELSE how

ExecuteStatementOfProgram ==
  /\ stage = "execute" /\ executed < Len(program)
  /\ LET r == ExecuteStatement(program[executed + 1], s)
     IN  /\ s' = r.s
         /\ executed' = executed + 1
         /\ IF r.how = "value" THEN UNCHANGED <<stage, outcome>>
            ELSE stage' = "end" /\ outcome' = OutcomeOf(r.how)
  /\ UNCHANGED <<lexerVars, declared_classes, source, program>>

EndOfProgram ==
  /\ stage = "execute" /\ executed = Len(program)
  /\ stage' = "end" /\ outcome' = "ok"
  /\ UNCHANGED <<lexerVars, declared_classes, source, program, executed, s>>

Run == Lex \/ ParseTokensOfText \/ ExecuteStatementOfProgram \/ EndOfProgram

Spec == Init /\ [][Run]_vars

(***************************************************************************)
(* The lexer.                                                              *)
(***************************************************************************)
LinesWithTokens == SelectSeq(source.lines, LAMBDA l : l.tokens # <<>>)
DepthAt(i) ==
  LET Moves(token) == Cardinality({j \in 1 .. i : tokens[j] = <<token>>})
  IN  Moves("Indent") - Moves("Dedent")
LineAt(i) == Cardinality({j \in 1 .. i - 1 : tokens[j] = <<"Newline">>}) + 1
IsMove(token) == token \in {<<"Indent">>, <<"Dedent">>}

\* Two shapes that the regular expressions take for something else: an empty
\* string with another string behind it, and an escaped quote in a line with a
\* hash.
IsClear(line) ==
  /\ ~\E i, j \in DOMAIN line.tokens :
        i < j /\ line.tokens[i] = <<"String", <<>>>> /\ line.tokens[j][1] = "String"
  /\ ~(Contains(LineText(line), Backslash) /\ Contains(LineText(line), Hash))
IsRemark(characters) ==
  LET visible == SelectSeq(characters, LAMBDA c : c # Blank)
  IN  visible = <<>> \/ Head(visible) = Hash
FitsTheLexer(line) ==
  IsClear(line) /\ IsRemark(line.remark) /\
                   \A i \in DOMAIN line.tokens :
                      line.tokens[i][1] = "Number" => line.tokens[i][2] <= MaxInt

\* A text gives back the tokens it was written with, whatever blanks, remarks
\* and empty lines stand between them; the tokens of a line come at the depth of
\* the line, with no move in that the next token takes back; and the text ends
\* at the depth it began with (lexer.cpp, NextToken and ParseLine).
TokensFollowTheLines ==
  AtEnd /\ (\A i \in DOMAIN source.lines : FitsTheLexer(source.lines[i])) =>
    LET lines == LinesWithTokens
    IN  /\ SelectSeq(tokens, LAMBDA t : ~IsMove(t)) =
             Append(FlattenSeq([i \in DOMAIN lines |-> Append(lines[i].tokens, <<"Newline">>)]), <<"Eof">>)
        /\ \A i \in DOMAIN tokens :
             ~IsMove(tokens[i]) =>
               DepthAt(i) = IF i = Len(tokens) THEN 0 ELSE lines[LineAt(i)].indent \div 2
        /\ \A i \in 1 .. Len(tokens) - 1 :
             {tokens[i], tokens[i + 1]} # {<<"Indent">>, <<"Dedent">>}

(***************************************************************************)
(* The parser.                                                             *)
(***************************************************************************)
\* A program that follows the grammar is read, and what is read, written down
\* again with the parentheses that its tree asks for, is the text it was read
\* from: no operand has gone to another operator, no statement to another
\* suite, no method to another class (parse.cpp).
ReadsWhatWasWritten ==
  /\ source.grammatical /\ AtEnd /\ ~IsThrow(Last(tokens)) =>
       outcome \notin {"LexerError", "ParseError"}
  /\ stage = "execute" =>
       LET written == SuiteLines(0, <<"Compound", program>>, declared_classes)
           lines == LinesWithTokens
       IN  written = [i \in DOMAIN lines |->
                        [depth |-> lines[i].indent \div 2, tokens |-> lines[i].tokens]]

(***************************************************************************)
(* The execution.                                                          *)
(***************************************************************************)
Count(event) == Cardinality({i \in DOMAIN s.log : s.log[i] = event})

\* Nothing of a method begins when it has returned, however deep in its ifs the
\* return stands; and unless an error has ended the program, a method that did not
\* return, and the program if it did not, has ended each statement it began: no
\* return ends its caller (statement.cpp, Return and MethodBody; statement.h:267).
ReturnEndsItsMethod ==
  \A a \in 0 .. s.activations :
    /\ Count(<<a, "return">>) <= 1
    /\ \A i, j \in DOMAIN s.log :
         s.log[i] = <<a, "return">> /\ s.log[j] = <<a, "begin">> => j < i
    /\ outcome \in {"running", "ok", "terminate"} /\ Count(<<a, "return">>) = 0 =>
         Count(<<a, "begin">>) = Count(<<a, "end">>)

\* The names that a statement of the program gives a value by itself.
RECURSIVE AssignedBy(_)
AssignedBy(node) ==
  CASE node[1] \in {"Assignment", "ClassDefinition"} -> {node[2]}
    [] node[1] = "Compound" -> UNION {AssignedBy(node[2][i]) : i \in DOMAIN node[2]}
    [] node[1] = "IfElse" -> AssignedBy(node[3]) \cup AssignedBy(node[4])
    [] OTHER -> {}

\* A method changes no name of the program, whatever names it uses itself: only
\* the assignments of a statement do (runtime.cpp, ClassInstance::Call).
MethodsKeepOutOfTheProgramsNames ==
  [][\A name \in DOMAIN s.closure \cup DOMAIN s'.closure :
       \/ name \in DOMAIN s.closure /\ name \in DOMAIN s'.closure /\ s'.closure[name] = s.closure[name]
       \/ name \in AssignedBy(program[executed + 1])]_s

\* Each execution of a NewInstance makes an instance of its own (statement.h:115:
\* it "makes a new instance of class class_").
EveryInstanceIsNew == IsInjective(s.made)
=============================================================================
