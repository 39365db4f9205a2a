------------------------------- MODULE Lexer --------------------------------
(***************************************************************************)
(* Lexer of mython (lexer.cpp): the lines of a text become tokens, with    *)
(* Indent and Dedent where the lines are moved in and out.                 *)
(*                                                                         *)
(* A line is a sequence of what the regular expressions tell apart: a      *)
(* blank, a quote of one of two kinds, a hash, a backslash, a word, a      *)
(* number, or a single character.  No word or number stands behind a word, *)
(* and no number behind a number, because the two would be one.            *)
(*                                                                         *)
(* A definition marked "Slip" is not the code: it is the definition after  *)
(* it with a mistake that the checks are shown to notice.                  *)
(***************************************************************************)
EXTENDS Integers, Sequences, FiniteSetsExt, SequencesExt

CONSTANT MaxInt   \* the largest int: std::stoi refuses what is beyond it

VARIABLES
  input,          \* input_: the lines that were not read
  indent_count,   \* indent_count_
  parsed_tokens,  \* parsed_tokens_
  tokens          \* what NextToken has given so far; the last is CurrentToken()

lexerVars == <<input, indent_count, parsed_tokens, tokens>>

Blank == <<"blank">>
Hash == <<"hash">>
Backslash == <<"backslash">>
Quote(kind) == <<"quote", kind>>
IsQuote(c) == c[1] = "quote"

Keywords ==
  [class |-> "Class", return |-> "Return", if |-> "If", else |-> "Else", def |-> "Def",
   print |-> "Print", and |-> "And", or |-> "Or", not |-> "Not", None |-> "None",
   True |-> "True", False |-> "False"]
TwoCharacters == {<<"=", "Eq">>, <<"!", "NotEq">>, <<"<", "LessOrEq">>, <<">", "GreaterOrEq">>}
Characters == {"<", ">", "=", ",", "(", ")", ":", ".", "+", "-", "*", "/"}

Char(c) == <<"Char", c>>
\* An exception takes the place of the tokens it was thrown instead of.
Throw(exception) == <<"Throw", exception>>
IsThrow(token) == token[1] = "Throw"

(***************************************************************************)
(* EraseCommentAndSpacesBefore.                                            *)
(***************************************************************************)
\* Where the match of non_comment_re_ ends: quoted parts are passed over, and a
\* quote without another one of its kind is passed over alone.
NonCommentEnd(line) ==
  LET closing(i) == {j \in i + 1 .. Len(line) : line[j] = line[i]}
      hashes(i) == {j \in i .. Len(line) : line[j] = Hash}
      end[i \in 1 .. Len(line) + 1] ==
        IF i > Len(line) THEN Len(line)
        ELSE IF IsQuote(line[i]) /\ closing(i) # {} THEN end[Min(closing(i)) + 1]
        ELSE IF IsQuote(line[i]) \/ line[i] = Hash
          THEN IF hashes(i) = {} THEN Len(line) ELSE Min(hashes(i)) - 1
        ELSE end[i + 1]
  IN  end[1]

EraseCommentAndSpacesBefore(line) ==
  LET kept == SubSeq(line, 1, NonCommentEnd(line))
  IN  SubSeq(kept, 1, Max({0} \cup {i \in DOMAIN kept : kept[i] # Blank}))

(***************************************************************************)
(* The tokens of a line.                                                   *)
(***************************************************************************)
\* ReplaceOneEscapeSequence: until there is none left, the new ones included; with
\* each of them a character goes.
ReplaceOneEscapeSequence(s, escaped, character) ==
  LET replaced[k \in 0 .. Len(s)] ==
        IF k = 0 THEN s
        ELSE LET r == replaced[k - 1]
                 at == {i \in 1 .. Len(r) - 1 : r[i] = Backslash /\ r[i + 1] = escaped}
             IN  IF at = {} THEN r
                 ELSE SubSeq(r, 1, Min(at) - 1) \o <<character>> \o SubSeq(r, Min(at) + 2, Len(r))
  IN  replaced[Len(s)]

\* A word that stands behind a backslash in quotes is n or t, or begins otherwise.
EraseEscapeSequences(s) ==
  FoldLeft(LAMBDA r, e : ReplaceOneEscapeSequence(r, e[1], e[2]), s,
    <<<<Quote("'"), Quote("'")>>, <<Quote("\""), Quote("\"")>>,
      <<<<"word", "n">>, <<"newline">>>>, <<<<"word", "t">>, <<"tab">>>>>>)

\* '(.*?[^\\])?': the nearest quote with something before it that is no
\* backslash, or the quote that follows at once; 0 if there is neither.
ClosingQuote(line, i) ==
  LET behind == {j \in i + 2 .. Len(line) : line[j] = line[i] /\ line[j - 1] # Backslash}
  IN  IF behind # {} THEN Min(behind)
      ELSE IF i < Len(line) /\ line[i + 1] = line[i] THEN i + 1 ELSE 0

\* The token at position i and the position behind it, or an exception.
TokenAt(line, i) ==
  LET c == line[i]
      pair == {t \in TwoCharacters : /\ i < Len(line)
                                     /\ c = <<"char", t[1]>> /\ line[i + 1] = <<"char", "=">>}
  IN  CASE c[1] = "word" ->
             <<IF c[2] \in DOMAIN Keywords THEN <<Keywords[c[2]]>> ELSE <<"Id", c[2]>>, i + 1>>
        [] c[1] = "number" -> <<IF c[2] > MaxInt THEN Throw("out_of_range") ELSE <<"Number", c[2]>>, i + 1>>
        [] pair # {} -> <<<<(CHOOSE t \in pair : TRUE)[2]>>, i + 2>>
        [] pair = {} /\ c[1] = "char" /\ c[2] \in Characters -> <<Char(c[2]), i + 1>>
        [] IsQuote(c) /\ ClosingQuote(line, i) > 0 ->
             <<<<"String", EraseEscapeSequences(SubSeq(line, i + 1, ClosingQuote(line, i) - 1))>>,
               ClosingQuote(line, i) + 1>>
        [] OTHER -> <<Throw("logic_error"), i>>

\* The tokens of a line, as the loop of ParseLine takes them.
ParseTokens(line) ==
  LET parse[i \in 1 .. Len(line) + 1] ==
        LET next == TokenAt(line, i)
        IN  IF i > Len(line) THEN <<<<"Newline">>>>
            ELSE IF line[i] = Blank THEN parse[i + 1]
            ELSE IF IsThrow(next[1]) THEN <<next[1]>>
            ELSE <<next[1]>> \o parse[next[2]]
  IN  parse[1]

Leading(line) == Min({i \in DOMAIN line : line[i] # Blank}) - 1

\* An even number of spaces counts.
IndentOf(line) == Leading(line) \div 2

ParseIndentDedent(indent) ==
  IF indent_count < indent THEN [k \in 1 .. indent - indent_count |-> <<"Indent">>]
                           ELSE [k \in 1 .. indent_count - indent |-> <<"Dedent">>]

\* Slip: a line with nothing but a comment is moved out like any other.
ParseLineOfNothing(line) ==
  LET rest == EraseCommentAndSpacesBefore(line)
      indent == IF rest = <<>> THEN 0 ELSE IndentOf(rest)
  IN  /\ indent_count' = indent
      /\ parsed_tokens' = ParseIndentDedent(indent) \o
                            (IF rest = <<>> THEN <<>> ELSE ParseTokens(rest))

\* What an exception leaves in the queue is not asked for any more.
ParseLine(line) ==
  LET rest == EraseCommentAndSpacesBefore(line)
      line_tokens == ParseTokens(rest)
  IN  IF rest = <<>> THEN UNCHANGED <<indent_count, parsed_tokens>>
      ELSE /\ indent_count' = IndentOf(rest)
           /\ parsed_tokens' = IF IsThrow(Last(line_tokens)) THEN <<Last(line_tokens)>>
                               ELSE ParseIndentDedent(IndentOf(rest)) \o line_tokens

(***************************************************************************)
(* NextToken, a turn at a time: it calls itself until a token is there.    *)
(***************************************************************************)
LexerInit(text) == input = text /\ indent_count = 0 /\ parsed_tokens = <<>> /\ tokens = <<>>

\* At Eof NextToken gives Eof again; behind an exception it is not called.
AtEnd == tokens # <<>> /\ (Last(tokens) = <<"Eof">> \/ IsThrow(Last(tokens)))

ReadLine ==
  /\ ~AtEnd /\ parsed_tokens = <<>> /\ input # <<>>
  /\ ParseLine(Head(input))
  /\ input' = Tail(input)
  /\ UNCHANGED tokens

AddEOFAndPrecedingDedents ==
  /\ ~AtEnd /\ parsed_tokens = <<>> /\ input = <<>>
  /\ parsed_tokens' = Append([k \in 1 .. indent_count |-> <<"Dedent">>], <<"Eof">>)
  /\ indent_count' = 0
  /\ UNCHANGED <<input, tokens>>

TakeToken ==
  /\ ~AtEnd /\ parsed_tokens # <<>>
  /\ tokens' = Append(tokens, Head(parsed_tokens))
  /\ parsed_tokens' = Tail(parsed_tokens)
  /\ UNCHANGED <<input, indent_count>>

NextToken == ReadLine \/ AddEOFAndPrecedingDedents \/ TakeToken
=============================================================================
