------------------------------ MODULE Position ------------------------------
(***************************************************************************)
(* Positions as text (spreadsheet/structures.cpp): Position::ToString and  *)
(* Position::FromString, one step per turn of their loops.                 *)
(*                                                                         *)
(* A text is a sequence of characters; a character is a capital letter     *)
(* <<"letter", k>>, a digit <<"digit", k>> or another one, <<"other", 0>>. *)
(* The bases are parameters, for small alphabets to show what 26 and 10 do *)
(* on long texts.                                                          *)
(***************************************************************************)
EXTENDS Integers, Sequences, FiniteSets

CONSTANTS
  LETTERS,            \* 26
  DECIMAL,            \* 10
  MAX_ROWS, MAX_COLS,
  IntMin, IntMax,     \* the range of int
  Indefinite,         \* what converting a double outside that range may give:
                      \* IntMin on x86-64, one of the two limits on ARM
  AnyPosition,        \* the positions ToString is called on
  AnyText             \* the texts FromString is called on

Letter == {"letter"} \X (0 .. LETTERS - 1)
Digit == {"digit"} \X (0 .. DECIMAL - 1)
Character == Letter \cup Digit \cup {<<"other", 0>>}

\* Assumed of the constants.
PositionAssumption ==
  /\ {LETTERS, DECIMAL} \subseteq Nat \ {0, 1}
  /\ {IntMin, IntMax} \subseteq Int /\ IntMin < 0 /\ {MAX_ROWS, MAX_COLS} \subseteq 1 .. IntMax
  /\ Indefinite # {} /\ Indefinite \subseteq IntMin .. IntMax
  /\ AnyPosition \subseteq [row : Int, col : Int] /\ AnyText \subseteq Seq(Character)

VARIABLES
  pc,     \* the loop that runs, or "done"
  given,  \* the position ToString was called on
  text,   \* the text it made, or that FromString was called on
  temp,   \* ToString's rest of the column
  i, col, \* FromString's index and its sum
  result  \* what FromString returned

vars == <<pc, given, text, temp, i, col, result>>

NONE == [row |-> -1, col |-> -1]
InTheTable(p) == p.row \in 0 .. MAX_ROWS - 1 /\ p.col \in 0 .. MAX_COLS - 1

\* std::to_string
Digits[n \in Nat] ==
  IF n < DECIMAL THEN <<<<"digit", n>>>>
  ELSE Append(Digits[n \div DECIMAL], <<"digit", n % DECIMAL>>)
MAX_ROWS_LENGTH == Len(Digits[MAX_ROWS])

\* std::stoi, of digits
Stoi(s) ==
  LET value[k \in 0 .. Len(s)] == IF k = 0 THEN 0 ELSE value[k - 1] * DECIMAL + s[k][2]
  IN  value[Len(s)]

\* std::pow(LETTERS, n)
Pow[n \in Nat] == IF n = 0 THEN 1 ELSE LETTERS * Pow[n - 1]

\* COL_ROW_SYMBOLS_RE: letters, then digits of which the first is not zero.
Splits(s, n) ==
  /\ \A k \in 1 .. n : s[k] \in Letter
  /\ \A k \in n + 1 .. Len(s) : s[k] \in Digit
  /\ s[n + 1][2] # 0
Matches(s) == \E n \in 1 .. Len(s) - 1 : Splits(s, n)
\* Its two groups.
Split(s) == CHOOSE n \in 1 .. Len(s) - 1 : Splits(s, n)
LettersOf(s) == SubSeq(s, 1, Split(s))
DigitsOf(s) == SubSeq(s, Split(s) + 1, Len(s))

Init ==
  /\ temp = 0 /\ i = 0 /\ col = 0 /\ result = NONE
  /\ \/ pc = "ToString" /\ given \in AnyPosition /\ text = <<>>
     \/ pc = "FromString" /\ given = NONE /\ text \in AnyText

ToString ==
  /\ pc = "ToString"
  /\ pc' = IF InTheTable(given) THEN "column" ELSE "FromString"
  /\ temp' = given.col
  /\ UNCHANGED <<given, text, i, col, result>>

\* A turn of ToString's loop; after the last one it adds the row.  What it
\* made is given to FromString.
ColumnLetter ==
  /\ pc = "column"
  /\ LET letters == <<<<"letter", temp % LETTERS>>>> \o text
     IN  IF temp \div LETTERS = 0
         THEN text' = letters \o Digits[given.row + 1] /\ pc' = "FromString"
         ELSE text' = letters /\ UNCHANGED pc
  /\ temp' = (temp \div LETTERS) - 1
  /\ UNCHANGED <<given, i, col, result>>

Return(p) == pc' = "done" /\ result' = p /\ UNCHANGED <<given, text, temp>>

FromString ==
  /\ pc = "FromString"
  /\ \/ ~Matches(text) /\ Return(NONE) /\ UNCHANGED <<i, col>>
     \/ /\ Matches(text)
        /\ pc' = "sum" /\ i' = 0 /\ col' = 0
        /\ UNCHANGED <<given, text, temp, result>>

\* The int that a double is converted to.
Converted(x) == IF x \in IntMin .. IntMax THEN {x} ELSE Indefinite

\* Slip: the weights are those of the letters read so far.
SumLetterReversed ==
  /\ pc = "sum" /\ i < Len(LettersOf(text))
  /\ col' \in Converted(col + (LettersOf(text)[i + 1][2] + 1) * Pow[i])
  /\ i' = i + 1
  /\ UNCHANGED <<pc, given, text, temp, result>>

\* A turn of FromString's loop: col += (...) * std::pow(...), where the sum is
\* a double.
SumLetter ==
  /\ pc = "sum" /\ i < Len(LettersOf(text))
  /\ col' \in Converted(col + (LettersOf(text)[i + 1][2] + 1)
                                * Pow[Len(LettersOf(text)) - 1 - i])
  /\ i' = i + 1
  /\ UNCHANGED <<pc, given, text, temp, result>>

\* col - 1 in an int; below IntMin the result is no column whatever it is.
ReturnPosition ==
  /\ pc = "sum" /\ i = Len(LettersOf(text))
  /\ LET p == [row |-> Stoi(DigitsOf(text)) - 1, col |-> col - 1]
     IN  IF Len(DigitsOf(text)) > MAX_ROWS_LENGTH \/ ~InTheTable(p)
         THEN Return(NONE) ELSE Return(p)
  /\ UNCHANGED <<i, col>>

Next == ToString \/ ColumnLetter \/ FromString \/ SumLetter \/ ReturnPosition

Spec == Init /\ [][Next]_vars /\ WF_vars(Next)

(***************************************************************************)
(* Properties.                                                             *)
(***************************************************************************)
Done == pc = "done"

\* The names of columns are the words over the alphabet, the shorter first
\* and then in the order of the dictionary: as many precede the name of a
\* column as there are columns before it.
Precedes(v, w) ==
  \/ Len(v) < Len(w)
  \/ /\ Len(v) = Len(w)
     /\ \E k \in 1 .. Len(v) : v[k][2] < w[k][2] /\ \A m \in 1 .. k - 1 : v[m] = w[m]
WordsUpTo(n) == UNION {[1 .. k -> Letter] : k \in 1 .. n}
ColumnNumber(name) ==
  Cardinality({w \in WordsUpTo(Len(name)) : Precedes(w, name)})

\* Both loops end.  The text of a position gives the position back, that of an
\* invalid one NONE; and what FromString accepts is what ToString would write:
\* a text is parsed to the position whose name it is, and to NONE when it is
\* the name of no position of the table.  (As long as the sum of its letters
\* fits in an int.)
PositionsNamed(s) ==
  {p \in [row : 0 .. MAX_ROWS - 1, col : 0 .. MAX_COLS - 1] :
     /\ Matches(s) /\ DigitsOf(s) = Digits[p.row + 1]
     /\ ColumnNumber(LettersOf(s)) = p.col}
ReadsBackWhatIsWritten ==
  given # NONE => result = IF InTheTable(given) THEN given ELSE NONE
NamesAndPositionsAgree ==
  <>[](/\ Done
       /\ ReadsBackWhatIsWritten
       /\ PositionsNamed(text) = IF result = NONE THEN {} ELSE {result})

\* The name of a column behind the last is refused however long it is, as
\* main.cpp:71 asks of a name of nineteen letters.
NamesBehindTheTableAreRefused ==
  Done /\ Matches(text) /\ ColumnNumber(LettersOf(text)) >= MAX_COLS => result = NONE
=============================================================================
