# Verification of cpp-yandex-practicum

TLA+ models of the programs in this repository, the TLC runs that check them on
small instances, and the theorems about them that TLAPS proves for every
instance. `PROJECT.json` lists the runs, which source lines each definition
stands for, the mutations that show each property to be sensitive to the code,
and the hazards the properties were written for.

## The system

The repository holds independent programs and libraries. None of them shares
state with another; inside each, the parts interact by direct calls. Threads
exist only in `helpers/concurrent_map` and in the parallel overloads of
`search_engine`.

| part | state it keeps | operations | what is hard | what makes it correct |
|---|---|---|---|---|
| `spreadsheet`: `Sheet`, `Cell`, `Formula` | rows of `unique_ptr<Cell>`, the printed size, edges in both directions between cells, a cached result per formula | `SetCell`, `GetCell` (and `Set` through it), `ClearCell`, `GetValue`, `GetPrintableSize`, `PrintValues`, `PrintTexts` | four structures kept in agreement by hand over any order of calls; cache invalidation; cells created in the middle of an evaluation; exceptions half-way | no stale value, no cycle, edges match formulas, the size is the bounding rectangle, a refused formula changes nothing |
| `spreadsheet`: grammar, `ParseASTListener`, `FormulaAST` | the listener's stack, the tree and its cell list | `ParseFormula`, `Evaluate`, `GetExpression`, `GetReferencedCells` | the stack discipline, minimal parentheses | the printed text means what the tree means |
| `spreadsheet`: `Position` | none | `ToString`, `FromString` | base 26 without a zero, overflow on long names | the two are inverse, nonsense is `NONE` |
| `vector` | raw memory, size, capacity | the operations of `std::vector` | constructors that throw between two steps | no leak, no double destruction, the documented exception guarantee |
| `singly_linked_list` | nodes and a size | insertion and removal behind a position, assignment, swap | before-begin and last positions, positions of another list, a copy that throws half-way | no node lost or shared, strong exception safety |
| `helpers` | `SimpleVector`, `ArrayPtr`, `Optional`: memory and flags; `ConcurrentMap`: buckets and a mutex each | container operations; `Access` locks a bucket for its lifetime | moved-from objects, throwing constructors, an element given to its own vector, two threads at one bucket | memory safety, no deadlock, no lost update |
| `search_engine` | documents, two indexes between words and documents, their frequencies; `RequestQueue`'s window | add, remove, find, match; duplicates; paging | the two indexes agree; exceptions half-way; the parallel overloads | queries answer from the documents that are there |
| `transport_catalogue` | stops, buses, distances, their indexes; a routing graph; settings of a map | base requests as JSON or as text, then questions; `serialization` stores and restores the base | names and pointers into containers, shortest routes, what a map shows after the file and back | the routes are shortest, a restored catalogue answers and is drawn alike |
| `transport_catalogue/json` | the builder's stack and its root; a text and the calls that read it | the calls of `Builder` and its contexts, `Load`, `Print` | a check by the top of the stack alone, texts that end too early, escapes | what is built is what the calls spell, printing and loading are inverse, what is no document is refused |
| `mython` | tokens, the tree, objects and closures | lexing, parsing, execution | indentation, object lifetimes, `return` as an exception | the language's semantics |

Tests, test runners, timing helpers and build files are not components.

## The modules

| module | models |
|---|---|
| `SheetContents` | what a caller of `SheetInterface` is promised: a table of contents and the value each determines |
| `Sheet` | `sheet.cpp`, `cell.cpp`, `formula.cpp`: the table as it is kept |
| `FormulaAST` | `Formula.g4`, the tree, its evaluation and its printing (`FormulaAST.cpp`), as operators |
| `ParseASTListener` | `ParseFormulaAST`: the walk of the parse tree, the listener's stack, the constructors |
| `Position` | `Position::ToString` and `FromString` (`structures.cpp`) |
| `VectorContents` | what a caller of `Vector` is promised: a sequence, and which failed calls leave it alone |
| `Vector` | `vector.h`: slots of raw memory and the objects in them |
| `ContainerContents` | what a caller of `SinglyLinkedList` or `SimpleVector` is promised: a sequence, and the exceptions to it |
| `SinglyLinkedList` | `singly_linked_list.h`: nodes on the heap, each with the address of the next |
| `SimpleVector` | `simple_vector.h` and `array_ptr.h`: an array with more room than elements |
| `Optional` | `optional.h`: memory for one object, and the mark that it is there |
| `SearchDocuments` | what a caller of `SearchServer` is promised: documents, and answers from them alone |
| `Maps` | `std::map` as a function: `operator[]`, `erase`, `merge` |
| `SearchServer` | `search_server.cpp` and `.h`: the two indexes and the queries |
| `SearchEngine` | `SearchServer` with `RequestQueue` and `RemoveDuplicates` around it |
| `ConcurrentMap` | `concurrent_map.h`: buckets, mutexes, `Access`, `BuildOrdinaryMap` |
| `ParallelFind` | the parallel overload of `FindAllDocuments`: `ConcurrentMap` and `SearchServer` composed |
| `Router` | `graph.h` and `router.h`: the graph, the table of routes as it is filled, `BuildRoute` |
| `TransportRouter` | `transport_router.cpp`: the graph of a catalogue, the numbers of its stops, `GetRouteInfo`; over `Router` |
| `TransportCatalogue` | `transport_catalogue.cpp`: stops, buses and distances as values |
| `MapRenderer` | `map_renderer.cpp`: the settings of the map, the projection, the objects in the order they are drawn; over `TransportCatalogue` |
| `TextReader` | `input_reader.cpp`, `stat_reader.cpp`: what is read from a line of text |
| `TransportProgram` | `json_reader.cpp`, `serialization.cpp`, `main.cpp`: the program run after run, with its file; over `TransportRouter`, `MapRenderer` and `TextReader` |
| `JsonBuilder` | `json_builder.cpp`: the stack machine behind the chained calls |
| `Json` | `json.cpp`: `Load` with its calls on a stack, and what is printed of one node |
| `JsonProgram` | `Print`, and the library as it is used: built or loaded, printed, loaded again; over `JsonBuilder` and `Json` |
| `Lexer` | `lexer.cpp` of `mython`: lines become tokens |
| `MythonParser` | `parse.cpp`: tokens become trees |
| `MythonRuntime` | `statement.cpp` and `runtime.cpp`: what executing a tree does |
| `MythonProgram` | `main.cpp` of `mython`: the three, one behind the other |
| `MCSheet`, `MCFormula`, `MCContainers`, `MCSearchEngine`, `MCTransport`, `MCJson`, `MCMython` | the instances TLC checks; `MCSheet` has the behaviours of `MCFormula` beside its own, and `MCTransport` those of `MCJson` |
| `SheetProofs` | the theorems about `Sheet`: its invariant, its caches, the contents it implements, the size |
| `RouterProofs`, `LexerProofs`, `PositionProofs` | the theorems about `Router`, `Lexer` and `Position` |
| `JsonProofs` | the theorems about `Json` and `JsonBuilder` |
| `ContainersProofs` | the theorems about `Vector`, `SinglyLinkedList`, `SimpleVector` and `Optional` |
| `SearchProofs` | the theorems about `SearchServer`, `SearchEngine`, `ConcurrentMap` and `ParallelFind` |
| `TransportProofs` | the theorems about `TransportProgram`; over `RouterProofs` |

### Sheet

One step is one call of the interface with every call it makes: the program
has no threads, so nothing can be seen in between. The state is per position:

* `cells` is `cells_`: a position is *outside* its row's vector, *null*, or holds
  a cell with an `EmptyImpl`, `TextImpl` or `FormulaImpl`. The difference between
  outside and null matters: `GetCell` treats them alike, `ClearCell` does not.
* `referenced` and `dependent` are the two edge sets of a cell.
* `cache` is `cache_` of a formula, `size` is `size_`, `outcome` says how the
  last call ended: normally, with one of the exceptions, or not at all
  (`"crash"`, the call through a null pointer in `ClearCell`).
* `cleared` is no part of the code: it remembers whether the last call was a `ClearCell`,
  which can do to the table just what an overwriting with `""` does, and differs from it in
  what it owes to the size.

Texts and formulas are parameters. What the code asks of them are the operators
`Parse`, `ParseOutcome`, `TextOf`, `Refs`, `Exec` and `Reads`; the last says which
cells an evaluation really asks for, because operands after the first error are
skipped, and a cell that was not asked for keeps no cache. `Values` is the value
of every cell as `CellExpr::Evaluate` sees it, through the caches. Recursive
walks are closures (`Reach`): the order in which an `unordered_set` is walked does
not matter to what is visited.

The text of a cell may be a number that no `double` holds. `std::stod` throws `out_of_range`
then (FormulaAST.cpp:278), which is no `FormulaError`: `Formula::Evaluate` does not catch it
(formula.cpp:28-38), no cache is kept on the way up, and `GetValue` or `PrintValues` ends with
it. `Thrown` is the value of such a cell and of all that ask for it; `PrintValues` has kept
the results of the cells it printed before.

`SetThroughCell` models `GetCell(p)->Set(t)`, which the interface allows and which
goes past the checks of `SetCell`. `EvaluateFormula` is the evaluation of a formula
that no cell holds, as the repository's tests do it
(`ParseFormula(text)->Evaluate(*sheet)`): it puts the cells it asks for into the
table.

### FormulaAST and ParseASTListener

A text is a sequence of tokens. `Derivations` is the parse that ANTLR's generated
parser gives (`Formula.g4`: a sign binds tighter than `*`). `PrintFormula` prints a
tree with the parentheses the precedence table asks for, and a literal as a multiple of
`PrintUnit`, which stands for the six digits of an `ostream`. In `ParseASTListener` a
step is one exit event of the walk; `OutcomeOf` and `TreeOf`, which `MCSheet` gives
to `Sheet`, are the reference it is checked against, so the two models meet.

### Position

A step is a turn of one of the two loops. A text is a sequence of letters, digits
and other characters; the bases 26 and 10 are parameters, so that small alphabets
show what happens on texts that are long for them. `col` in `FromString` is an
`int` to which a `double` is added: a sum outside its range becomes one of
`Indefinite`, the values a conversion from `double` gives there (the least `int`
on x86-64, the nearer limit on ARM). The text of each position is given back to `FromString`. `MCFormula` has
the formulas and the names of a spreadsheet, each behaviour about one text.

### Vector

A vector is a sequence of slots, its capacity, and its size; a slot is raw or holds
an object with a value, which may have been moved from. `alive` counts, per vector, the
objects that are constructed and not destroyed, in any memory. A type of elements is a
record of what it can do: whether it moves or copies when it is shifted, and which
of its constructors and assignments may throw. One step is one call with every
throw it may run into, at every element; what was done before the throw stays done,
except what a catch block undoes.

`VectorContents` is a sequence per vector and its operations. A failed call leaves
the sequence alone but in `Disturbs`: a copy assignment in place, `Emplace` in the
middle without a reallocation, `Erase`, and the shift into a new memory of elements that
cannot be copied and whose move may throw. The
README of `vector` promises strong exception safety without these exceptions:
`StrongExceptionSafety` is that promise, and `MCContainersStrong` shows that it is not kept.

### SinglyLinkedList, SimpleVector and Optional

A list is a chain of addresses behind its head; `value` says which addresses hold a
node. An iterator is an address, also of a node in another list or of none, because
nothing stops a caller from passing one. `new` may throw at the allocation or at the
copy of the value. A node that was inserted behind no element of its list is `stray`,
which is bound to no code: it lets `OwnsItsNodes` say that no other node is lost.

A `SimpleVector` is its first `size_` elements, how many its array has, and `capacity_`,
which a failed move separates from the array. What is behind the last element is not
kept; a call that reads it and does not use it ends as `"behind"`, one that writes
behind the array as `"overrun"`, and either ends the behaviour, as what follows is
undefined. `PushBack` assigns the element before it counts it, `Insert` counts it before it
assigns it, also at `end()`: a throw there leaves one element more, whose value is
`Unspecified`. So is an element that was moved from when a later assignment throws, in the
old array of a growing vector or between two neighbours (`HalfOpened`, `HalfClosed`). An
`Unspecified` element compares as it likes. Not modelled: an `Insert` that is given
`std::move` of an element of the same vector.

`ContainerContents` is what both containers promise. With nothing in `Spoilt`, for the list,
a call that throws leaves the sequence alone. With `Unspecified` in it, for the vector, two
things are allowed as the code's own, for which no text of the repository promises more: a
call that throws from an assignment leaves elements on other places or spoilt, and one more
than there were; and a call that is given an element of the same vector may insert another value.
`OnlyFullArraysAreReadBehind` says when an array is read behind its end.

An `Optional` is the memory of one object and `is_initialized_`. A call may use or
destroy an object that is not there: the outcome `"no object"`.

### SearchServer and SearchEngine

The state is the four containers of `SearchServer`, the window of `RequestQueue`
and its count. A text is a sequence of words; a frequency is a multiple of
`1 / Scale`, so that sums are exact, and a logarithm is an integer from a table.
`outcome` says how the last call ended; `"terminate"` is an exception that leaves an
algorithm with an execution policy, and `"crash"` is the dereference of `end()` in
`MatchDocument` or a `std::sort` with a comparator that is no order: the standard leaves open
what follows.

The comparator of `FindTopDocuments` takes relevances that differ by less than `EPS` for equal.
This is not transitive: of three documents the first may be before the second, the second before
the third, and the third before the first. `IsOrder` says whether it orders the documents that
were found. If it does, they are returned in an order that it allows; if not, in any order,
or not at all. The relevances of the run are such that both occur.

`RemoveDuplicates` is its two loops, one turn a step: `unvisited` are the ids that the first has
still to visit, in their order, `document_words_to_id` is the code's map, and `ids_to_remove` is
what the second goes through. No other call comes in between. `before` remembers the words of
the documents for `NoDuplicates`.

`SearchDocuments` has one variable, the documents with their words. `Documents` maps
the server to it, and `Answer` is what a query means there; `AnswersAreTheBest`
compares it with the walk through the index after every call, and with the cut behind
the best results where the comparator is an order. A document without
words is in no index of words, and `RemoveDocument` and `RemoveDuplicates` leave it:
`SearchDocuments` says so.

### ConcurrentMap and ParallelFind

A step is one lock, one read or write of a value, or one unlock. `Load` and `Store`
are the client's `ref_to_value += x`, between the lock in `operator[]` and the unlock
in the destructor of `Access`. `added` and `taken` record, for the properties, what
was added at each key and what `BuildOrdinaryMap` moved out.

`ParallelFind` runs the two algorithms of `FindAllDocuments` on a pool of threads over
these steps: a call per wanted word and document, then the caller alone builds the
map, then a call per excluded word that erases its documents one at a time under
the mutex. The server does not change. `FindAllDocuments` of `SearchServer`, as one
step, is what the result is compared with.

### Router and TransportRouter

A step of `Router` is one turn of a loop of its constructor: a vertex, then each of its
edges, then one entry of the table after the other, through each vertex. The table is
overwritten while it is read, as in the code, so that the order of the three loops
matters; `started` remembers, for the properties, the table with which a pass through
a vertex began. `NoEdge` is an empty `prev_edge`, and edges are numbered from 1.
`GetVertexCount` counts the vertices that an edge leaves: a graph with another vertex
makes the constructor throw from `at()`, or write behind a row (`"undefined"`).

`TransportRouter` makes the graph of a catalogue: an edge for each two stops of a bus,
if the leg that leads to the second has a distance; a leg without one is skipped and
takes no time. Stops are numbered as edges come to them. A unit of distance takes a
unit of time, so that the sums of the code are exact; the velocity (which may be
zero) and the rounding of doubles are left out. The constructor reads
`routing_settings` after it was moved from (line 15): its members are numbers, which a
move leaves as they are.

### TransportCatalogue and TransportProgram

A catalogue is a value: stops with their places and the buses that call there, buses
with their stops and what was counted when they were added, and distances. A stop or
a bus is its name; the sets of strings that own the names are the domains of these
functions. The euclidean length of a line is the sequence of the places it is measured
along.

`TransportProgram` is up to three processes, one after the other, with nothing but the
file between them. `make_base` takes the settings of the map, then the base requests in
their order: stops at once, buses from a queue when all the stops are there; then
`Store`. `process_requests` restores, makes the router step by step and answers;
`ReadJSON` does both without a file; each process begins with an empty router. `text` is the use of the two readers of text, which
know no map and no router. An exception ends the process. A key that a request, a
question or the settings lack is one (`out_of_range` from `at()`), but for a waiting time
that was never given: it stays as the memory was (`Indeterminate`). `Store` opens the file
before it makes the message, so a message that cannot be made leaves an empty file
(`EmptyBase`), which a later run reads without a complaint, because nobody looks at what
`ParseFromIstream` returns; of the settings that come out of it the palette is empty, and
a question for the map is answered by an assertion. An answer repeats the `id` of its question;
a map is drawn before its `id` is looked up, and so fails first in the drawing. A distance is an
`int` or a `double` in the document and a `DistanceType` in the catalogue (`AsDistance`): a
negative one wraps around, which for a `double` is undefined and done all the same by the
builds. The length of a route becomes an `int` again in JSON (`AsInt`), and not in text. The
orders in which an unordered
container gives its elements are an order and its reverse (`Orders`). A one-way list
without stops is reversed from behind its end, which is `"undefined"`.

### MapRenderer and TextReader

A color is nothing, a string, or three channels without or with an opacity; the
settings take a document's node to one, `GetProtoColor` to a message and `GetSvgColor`
back. The numbers of an array become `uint8_t` (`% 256`). Width, height and padding stand
for the other numbers, which are copied alike. One that the section does not have was never
initialized (map_renderer.h:208-210): `MapSettings` is a set, with any of `Indeterminate` in its
place. The two offsets of labels are arrays that nobody measures: one of less than two numbers
is read behind its end when there is a label to draw (`MapOutcome`). The drawing is a sequence
of objects: lines, their names, the symbols of the stops, the names of the stops, each with its
place, offset and color; what is text in SVG is left out. Places are whole numbers and a zoom is
a fraction, so that a point is exact in units of a part of its denominator.

In a line of text, a name, a number, a blank and a delimiter are one token each. The
operators follow the code's `find_first_of` and `remove_prefix`, with what they do at the
end of a line: `npos + 1` is zero, and `substr(npos)` throws. A line of blanks, one with
nothing but blanks behind its type and a distance without a stop end the process so
(`HasName`, `DistancesOutcome`); the answers before it are printed. The first delimiter of a
line decides how it is cut, and so the minus of a latitude cuts it (input_reader.cpp:86); `CanBeText` says what
remains.

### JsonBuilder, Json and JsonProgram

A step of `JsonBuilder` is one call, on the builder or on the context that the call
before it returned. `Offers` is what compiles (the methods of the context's type),
`CheckCallCorrectness` what is checked at run time; `ChainedValue` is the `Value` of a
context, which has no check. A call that throws leaves the stack as it then is, and the
program may go on with the builder.

`Json` keeps the calls of `LoadNode`, `LoadArray`, `LoadDict` and `LoadString` that are not
finished on a stack, each with its local variables; a step is a turn of a loop. A
`char` that was never read into is `Unset`, and looking at it is a choice over `AnyChar`
(`undefined` remembers it). A literal and a number are one character.

`JsonProgram` puts a document together, or reads one, prints it and reads that again, whole
or cut anywhere. `written` is the text that the calls of the builder spell, which `Load`
reads too: so the builder is compared with the reader, and not with a second builder.

### Lexer, MythonParser, MythonRuntime and MythonProgram

A line is a sequence of what the regular expressions tell apart: blanks, quotes,
hashes, backslashes, words, numbers, single characters. A step of the lexer is a line
that is read or a token that is given. The parser asks for tokens as it goes; in
`MythonProgram` the lexer gives all of them first, and an exception of the lexer stands
as a token in its place, where the parser meets it as it would in the code. A rule of
the parser is an operator from a place in the tokens to a tree, the place behind it and
the classes declared so far, or to the exception it ends with.

`Execute` takes a tree and a state to the way it ends: with a value, with the object
that `return` throws, with a `runtime_error`, or `"undefined"` where the code follows a
null pointer or an `int` overflows. One step of `MythonProgram` is one statement of the
program with all it calls: there are no threads and no other process. An instance is
the place of the `NewInstance` that holds it, because the code keeps one instance in
each such node. The state also carries a log of which activation begins, ends and
returns where, and the list of instances made; these are for the properties only. The
model's `int` goes to `MaxInt`, and the call stack has no end.

Two shapes of a line are read in another way than they were meant, and
`TokensFollowTheLines` leaves them out by name (`IsClear`): `''` with another string
behind it in the line, whose nearest closing quote is that of the other string; and an
escaped quote in a line with a hash, which `EraseCommentAndSpacesBefore` takes for the
end of a string. The same module has them in its operators (`ClosingQuote`,
`NonCommentEnd`), and programs with both are among those the run executes.

## The runs

| run | asks | instance |
|---|---|---|
| `MCSheet` | caches, no cycle, the printed size through overwriting and through clearing, refinement of `SheetContents`; the listener's result, the cell list, termination, printing; `ToString` and `FromString` are inverse, and `FromString` accepts the names of positions and nothing else | 2x2, texts `""`, a digit, a number too long for a `double`, `=(B1)`, `=A2/B2`, and three formula texts that are refused; every order of calls. All sequences of up to five of nine tokens, and all expressions of up to three operators, each leaf a cell of its own; values in the field of five elements. Names of two letters and three digits, all texts of up to five characters, a table of 3x9 and the positions around it |
| `MCSheetPrinted` | a promise of `common.h` that the code breaks | 2x2, one formula, one text |
| `MCSheetAlike` | another promise of `common.h` that the code breaks | 2x2, two literals that are printed alike |
| `MCFormulaSign` | a promise about `GetExpression` that the code breaks | the expressions |
| `MCPositionLong` | a test of `Position` that passes by luck | names of up to six characters, an `int` of five bits |
| `MCContainers` | ownership of objects and nodes, what a throw loses, refinements of `VectorContents` and (twice) `ContainerContents`, when a `SimpleVector` overruns its array or reads behind it, when an `Optional` lies | two of each; vectors of capacity up to three of all types of elements, at most one lost object; four nodes; two values |
| `MCContainersStrong` | the promise of `vector/README.md` | as `MCContainers` |
| `MCSearchEngine` | agreement of the indexes, the best answers, duplicates, the window, `MatchDocument`, refinement of `SearchDocuments`; of the threads: no lost update, the result of the sequential algorithm, termination | ids 1 to 3 and a negative one, two words and a stop word, six submissions, queries with plus and minus words, two predicates, two results, a day of two requests, an `EPS` between the differences of relevances. Three threads, two buckets, three documents, two corpora, three queries |
| `MCTransport` | the table, the routes followed back and the fastest journeys; what was described, stored, restored, answered and drawn; which documents are refused; of JSON: the builder's checks and what a refused call leaves; building, printing and reading agree; reading ends | networks of up to four stops and four lines of up to five stops, one-way and back, with distances that differ by direction, all equal, and with a detour that is shorter, a wait of 0 or 2, one that is negative and one that was not given; all sequences of up to four of nine base requests (described twice, out of order, not at all, of no known type), with keys missing, and as text with one blank or two; settings with every kind of color, an empty palette, short offsets, missing numbers, none, and misspelt; one to three runs of the program. Calls that spell up to nine characters over four values and two keys; all texts of up to three of eleven characters, and all that differ in one character from one of three documents |
| `MCJsonCut` | a test of the JSON parser that passes by the choice of its text | as above, and a `char` without a value holds no bracket |
| `MCMython` | the tokens and their depth, the tree, `return`, the names of the program | all layouts of three of thirteen lines; lines of three odd tokens; expressions of up to three operators; a method `f` that calls `g`, each with every small body; pairs of statements over two classes; programs the parser refuses; an `int` up to 7 |
| `MCMythonInstances` | a promise of `statement.h` that the code breaks | two classes, one method that makes an instance, called twice |

A run may be about several parts that share nothing. A behaviour is then about one of them,
chosen with its first state, and leaves the variables of the others as they are: the sheet or
one text (`SheetOrTextsSpec`), one of four containers, the search engine or a parallel search
(`EngineOrFindSpec`), the program or a text in JSON (`ProgramOrJsonSpec`). `MCFormula` and
`MCJson` are instances of their own for the violations, and `MCSheet` and `MCTransport` take
them with their parameters.

Bounds. Two rows and two columns give every relation two positions can have
(same row to the left, same row to the right, below), and cycles through one formula
and through two; the proofs remove the bound. Numbers are integers up to two, with
infinity beyond, enough for a sum or a quotient that overflows into `#DIV/0!`. In
the runs about printing the numbers form a field, so that the laws of the reals
hold exactly and only a wrong grouping can change a value; three operators are
what the wrong grouping needs. A vector of three elements has a first, a middle and a
last, and grows through the capacities zero, one and two; two vectors are what
assignment and swap need. Four nodes are two lists that are copied into one another. Three
documents give chains of duplicates, and more
results than are returned; a day of two requests lets three pass. Three threads
are one that works on a bucket and two that wait for it. Four stops are what a route
of three edges needs, the shortest that shows a pass of the table which misses the
ways through two vertices. Four base requests are two stops, a bus and one that
disturbs them; three runs are a good file, a bad one over it and a question. Three lines
are a line, one that is moved, and what lies between; three operators are what two
groupings of an expression need, of which one is behind a sign or a `not`. Nine characters
are a dict with a key, an array in it and a value in that. `DistanceSize` (256) and `IntSize`
(64) stand for 2^64 and 2^32: a negative distance wraps around in the one, and what it leaves
does not fit the other. A name of two letters of five in
an `int` of five bits is to them what a name of letters of 26 is to 32 bits: the sum goes
beyond the type before the name ends.

`CHECK_DEADLOCK FALSE` is used where the program may stop: after the crash in
`ClearCell` or `MatchDocument` or what is undefined in `SimpleVector`, when `ParseFormula`,
`FromString`, `FindAllDocuments`, the last run of `TransportProgram` or a `mython` program has
ended, in `MCContainers` also when a vector has lost `MaxLost` objects, and for JSON when a
text has been read again or the calls have spelled all that the bound lets them.

Fairness: none in `Sheet`, the containers and `SearchEngine`, passive objects that wait for
calls, and none in `TransportProgram` and `MythonProgram`, whose properties are about
what was done and not about getting there. `ParseASTListener` and `Position` have weak
fairness of their next step, because a call that has begun runs until it returns or
throws; nothing else runs in between. For the same reason `JsonProgram` has weak fairness of
the steps of `Load`, and only of these: nobody has to call the builder. In `ParallelFind`
each thread that has begun a call goes on with it, and the caller takes part in its
algorithms: the standard requires both of a parallel algorithm. No thread of the pool but
the caller has to begin a call, and no mutex is assumed to be fair.

### What the violations show

1. `MCSheetPrinted`. `SetCell` updates the size only for a cell that was not there.
   Let `A1` be `=B2`, which creates an empty `B2`; then `SetCell(B2, "x")` is not
   printed. The same after `ClearCell(B2)`. `SizeStaysExact` shows that overwriting
   is the only call that does this, and `BorderClearMakesSizeExact` that a `ClearCell` at the
   border repairs it.
2. `MCFormulaSign`. `A1/-(B1*C1)` prints as `A1/-B1*C1`, which means `(A1/-B1)*C1`.
   `PrintedTextMeansTheSame` shows that a division by a signed product or quotient
   is the only shape this happens to.
3. `MCMythonInstances`. With `def make(n): return A(n)` in a class, `x = b.make(1)` and
   `y = b.make(2)` give one object: `x.n` is 2. A node of the tree makes its instance
   once, when the program is parsed, and runs the constructor on it each time.
4. `MCPositionLong`. The sum of a column name is not bounded: beyond the range of `int`
   its conversion is undefined, and on x86-64 it is the least `int`, from which the next
   letters count up again. `AFXSHRXY1` becomes `A1`. The test with a name of nineteen
   letters passes because its sum stays negative. `NamesAndPositionsAgree` shows that
   `FromString` is right as long as the sum fits.
5. `MCSheetAlike`. A number is shown with six digits. After `SetCell(A1, "=1.0000001")` the cell
   shows `=1`, and `SetCell(A1, "=1")` returns early (sheet.cpp:25): the cell keeps 1.0000001.
   In the run the literals 2 and 3 are both shown as 2 (`PrintUnit`).
6. `MCContainersStrong`. `vector/README.md:3` says "Provides strong exception safety". An
   assignment of an element that throws in a copy assignment, in `Emplace` or in `Erase` leaves
   the elements that were assigned before. `ImplementsContents` shows that no other call does
   it, and that the number of elements stays.
7. `MCJsonCut`. The tests say that a text with an open bracket or quote fails to load
   (json/__tests__/json__tests.cpp:160-166). `"\"`, a string that is cut behind an escaped quote, is
   loaded, because `LoadString` finds this quote in `c` when the text has ended; and `[` may be
   loaded, because `LoadArray` looks at a `c` that was never read into. The run leaves the second
   out, which depends on what the memory holds, and finds the first.

Some facts are in the models, and no run asks whether they should be; the properties
that name them show that nothing else of their kind happens.

* After `SetCell(B1, "x")`, `ClearCell(A1)` calls `Set` through a null `unique_ptr`: `Sheet`
  has it as an outcome, and `ImplementsContents` allows it only where there is nothing to
  clear.
* A `SimpleVector` whose `Erase` finds no room behind the last element reads there, as does
  `==` with a shorter vector, and a growing insertion of an element of its own
  (`OnlyFullArraysAreReadBehind`); one whose assignment by move could not allocate writes
  behind its array (`OnlyFailedMovesOverrun`). No text of the repository denies it.
* An `Optional` whose `Emplace` threw says that it holds an object (`OnlyEmplaceLies`).
* A backslash does not survive printing and reading JSON (`RereadsTheSame` excepts it).
* A number that no `double` holds throws through `GetValue` whoever asks for its cell, and where
  the relevances of three documents differ by less than `EPS` and by more, `std::sort` has a
  comparator that is no order.
* After a `make_base` that failed at the file, `process_requests` answers from an empty
  base, and aborts when it is asked for a map.

## What is proved

### Sheet

For every size of the table, every set of texts and every language of formulas
that satisfy `SheetAssumption`, `FormulaAssumption` and `ExecReadsOnly` (TLC
evaluates all three on each instance):

* `TableInvariant`: `TypeOK`, `EdgesMatch` and `NoCircularDependency` hold always.
* `CachesNeverStale`: `CachesCurrent` holds always.
* `SheetImplementsContents`: `Sheet` implements `SheetContents`.
* `OnlyOverwritingLosesTheSize` (`SizeStaysExact`), `BorderClearRepairsTheSize`
  (`BorderClearMakesSizeExact`): the two facts about the size.

The inductive invariant is `SheetInv`: the table's part (`Table`: slots, rows
without gaps, edges, no cycle), the type of the size and the outcome, and
`Current`. None is inductive alone. `CachesCurrent` needs `EdgesMatch`, because
`ClearCaches` follows `dependent_cells_`; it needs its own second half (a cached
formula's operands are cached), because the walk stops at a formula without a
cache; and it needs the absence of cycles, because a value is defined by
recursion. That recursion is over the dependencies and not over numbers: that
`Values` is a function at all is `ValuesDefined`, proved from `NoCircularDependency`
by taking a largest closed set of positions on which the equations have a
solution. `CachesAreTransparent` (values through current caches are the values
without caches) carries the refinement. What is said of results is said of `Thrown` as well: a
formula that throws is not cached, nor is one that asks for it.

### Vector

`VectorOwnsItsObjects`: for any number of vectors, any values and any capacity,
`OwnsExactlyItsObjects` holds always. The inductive invariant is `VectorInv`: every slot
below the size holds an object; and if the type of elements can be assigned by move
without a throw, every other slot is raw and `alive` is the size. Without
that condition `EmplaceBetween` may leave an object behind the last element when an
assignment throws; `VectorLosesOnlyBetween` (`OnlyEmplaceBetweenLoses`) shows that nothing
else does, whatever the elements may do. The proofs have one lemma per operation, over the
ways a call ends (`ReturnKeeps`, `ThrowKeeps`, `PlainThrowKeeps`).

`VectorImplementsContents`: for elements of any type, also those that throw at every
assignment, `Vector` implements `VectorContents` with `Contents` as the refinement mapping:
the objects below the size, read as a sequence (`Listed`). `VectorInv` supplies that they are
objects, before and after each step; `InsertedSequence`, `RemovedSequence` and
`FrontSequence` say element by element what a call does to a sequence. A shift into new memory that
throws is `Reserve` of the specification, also when `Emplace` was called: it changes as
little. That `None` is neither a memory nor a sequence is assumed (`NoneAssumption`,
`ContentsAssumption`), and evaluated by TLC.

### SearchServer

`SearchIndexesAgree`: for any documents, stop words, queries and predicates,
`IndexesAgree` holds always. It is inductive as it stands. Its weight is in
`EnterKeeps`: `AddDocument` adds to entries that may exist, and that they do not is
what the invariant says of an id that is not in `document_ratings_status_`.

`QueriesStayPossible` (`MatchStaysPossible`): a word that is in the index stays there,
also when its last document leaves, so that `MatchDocument` keeps finding it.

`TheLastDayIsCounted` (`CountsTheLastDay`): for a day of any length the count of
`RequestQueue` is that of the last day. The strengthening `QueueInv` says that
`requests_` is the end of everything asked, as long as a day or as long as what was
asked, and that the counter is the number of requests without result in it; that a
refused request leaves all three alone is a case of its own.

`AnswersAreBest` (`AnswersAreTheBest`): for any documents, queries and predicates, what
`FindTopDocuments` returns has the relevances that the documents themselves give, and wherever
the comparator is an order nothing that is left out has a better claim. `DocumentsAreKept` says what the walk
through the indexes relies on: the ids are finitely many natural numbers, and what is kept
of a document is its rating and status. The sum over the words of a query, taken from the
index of words, and the sum taken from the words of the document are the same fold, which
needs that the result of `FoldSet` does not depend on what it chooses (`SumOver`).

`SearchImplementsDocuments` (`ImplementsDocuments`): the server implements
`SearchDocuments`, with `Documents` as the mapping. The invariant adds that no document of
the index is without words (`WordsAreKept`): so a document without an entry is one without
words, which neither `RemoveDocument` nor `RemoveDuplicates` finds.

`DuplicatesAreRemoved` (`NoDuplicates`): when the two loops are through, no two documents have
the same words but those that have none, no set of words is gone, and of each the document with
the least id is there. The invariant `RemovingInv` has a part about both loops (`FirstIsKept`):
each document that was visited has one in `document_words_to_id` with its words and no higher
id, which is not to be removed, and is itself that one, is to be removed, is gone or has no
words. The first loop visits the lower ids first (`DocumentsAsBefore`). The ids are natural numbers (`IdsAreNatural`: `AddDocument`
refuses the others), so that there is a least one.

### ConcurrentMap and ParallelFind

`MapExcludes` and `MapLosesNothing`: for any threads, keys, amounts and number of
buckets, with any of the threads building maps at any time, `MutualExclusion` and
`NoLostUpdate` hold always. This is more than the run shows, where the one map is
built when all additions are done. The inductive invariant `MapInv` adds that a
thread works on a bucket exactly when it holds its mutex (`HeldWhenWorking`), that a
value that was read is still there (`ReadIsCurrent`), and that a key is in its own
bucket only, without which a merge could count it twice.

`FindsTheSame` (`SameAsSequential`): for any documents, query and threads and every
interleaving, the parallel `FindAllDocuments` returns what the sequential one returns. The
invariant `FindInv` has a part per phase. While relevances are added, what was added at a
document is the sum over the words whose calls have stored theirs, and a call that is
between its lock and its unlock is in one place only; when the map is built, every call has
stored; then the erased documents are those of the excluded words that were passed. Sums
over sets are taken one element at a time, in whatever order the threads come.
`FindLosesNothing`: `NoLostUpdate` holds through the two algorithms as well. What these theorems
assume of the constants (`MapAssumption`, `FindAssumption`) stands in them as a hypothesis, as
`MCSearchEngine` has the two modules as an instance; it gives them to TLC as an `ASSUME` of its
own.

### Router

For every graph with any edges, `NoWayIsShorter`: when the constructor ends, every edge
and every way through any vertex has a route that is no longer; so, edge by edge, has
every walk. `RouterTypeOK`: the loops stay inside the table. `BadGraphsFail`: the
constructor fails, or writes where it must not, only when a weight is negative or a
vertex is entered and never left. 
`RoutesLeadThere`: `BuildRoute`, which follows `prev_edge` of one entry after the other,
finds an edge at every step, comes to the start of its route, and the weights of what it
has found add up to the weight in the table.

The inductive invariant `RouterInv` speaks of two tables: the one with which the pass
through `vertex` started, which is closed under the vertices before (no way through
them is shorter), and the present one, whose entries are those of the first or ways
through `vertex`. In the row and the column of `vertex` no weight has changed, because a
vertex gets to itself for nothing and no weight is negative; this is why overwriting
the table in place does no harm. Entries that the loops have reached are relaxed, and
`PassCloses` is the arithmetic of the end of a pass. That no vertex is missing when the
first loop ends is counting: as many vertices as are counted have an edge, so no other
has one (`SourcesAreVertices`).

The second invariant, `LinkInv`, is about the edge that each entry keeps, the last of its
route. It says that the route to where that edge starts takes no longer than what is left
(`Linked`; it may have become shorter since the edge was written), and that no vertices are each
before another of them (`Founded`), as they could be on a cycle of edges without weight. Both
are of the table with which a pass starts; that they are again of the table with which it ends
is `PassLinks` and `PassFounds`: an entry is rewritten only when the way through `vertex` is
shorter. `TrailExists` and `WayExists` are the induction, over numbers and by a least
counterexample, that the walk backwards ends. That no edge is shorter than the route between
its ends (`RouterInv`) makes what is left exactly what the route before takes.

### TransportProgram

`ProgramInvariant`: for any sequence of runs with any base requests, whatever file an earlier
run left, and any order in which the unordered containers give their elements, `ProgramInv`
holds always, and so do `RouterInv` and `LinkInv`: every step of the program is a step of
`Router`, leaves its variables alone, or begins with a new graph. `ProgramInv` says that a
catalogue has a distance for every leg of its lines, also between `Store` and `Restore`, when
it is a message (`BaseInv`); that a line is what `BusStops` makes of the list in its request,
or of the half of it that is stored (`ThereAndBack`); and that the graph of the router holds
the rides of the lines and no others, with numbers of stops that tell them apart (`GraphInv`).

`FastestJourneys` (`AnswersAreFastestJourneys`) follows: the answer of `GetRouteInfo` is a
journey on lines of the catalogue that can be travelled minute by minute, and no journey
on them is faster. A leg without a distance would take no time and yet not be an edge, so that
the sums of `RidesFrom` would go wrong without the first part of the invariant
(`TimeByTheClock`).

`DistancesStayAsDescribed` (`DistancesAsDescribed`): each distance of a catalogue is the one
that its base requests describe, and there are no others. `DistanceInv` says it of the
requests that have been read so far, of the file with the requests of the run that made it, and
of a catalogue that comes back from the file. `SetDistancesSay` is what `SetDistances` does in
one go, if no way is given twice with two lengths: a way has its own length, and one that has
none keeps what it had or else has that of the way back. A stop gives each way once
(`HandleAddStopSays`), so `StopsSayMore` is the step from `next - 1` requests to `next`: the
last length given for a way, or else the first for the way back. In the file every way is
there with its way back, both as keys of their own; so the order in which they come
back does not matter (`RestoreKeepsDistances`).

`GoodDocumentsStayAnswered` (`GoodDocumentsAreAnswered`): no run fails that answers good
questions from good base requests. For each way in which a run can fail, an invariant says why
this one does not: the distance of every leg of a bus is there when the bus is added, because
the buses wait (`GoodBusFits`, from `DistanceInv`); the stops that distances lead to are there
when the file is made, because a request that was read has its stops in the catalogue or waits
(`AreKept`); a line that comes back to its first stop does so as well when it was stored and
restored, so that every vertex of the graph has an edge that leaves it, and no weight is
negative (`LinesAreClosed`, `GoodGraph`), for which `BadGraphsFail` has the rest; and a palette
that is not empty comes out of the file as one (`PalettesStay`). `GoodInv` joins them. A run
is spoken of when it ends, and not later: a run of `process_requests` has its base requests
from the file, and the file may be another one by then.

`AnswersStayOfTheDocument` (`AnswersAreOfTheDocument`): whatever ran before, the answers about
buses and stops and the map are those of the base requests that the file was made of, read at
once. The invariant `AnswerInv` says what the catalogue is at every point: while the requests
are read (`IsReading`), a stop is where its last description before `next` puts it and is
called at by the buses that were added; a bus has the line of the last of its descriptions that
was added; and the others wait in the queue, in their order (`AreWaiting`). When all are read (`HasRead`) nothing
waits; the file holds the last descriptions (`HasStored`), and the settings that
`GetProtoMapSettings` made of those of its run; and what comes back has the same tables but for
the calls of a bus at the stops of earlier descriptions (`CallsKnown`), which only the catalogue that was not
stored still knows. This is why the property asks for one description of each bus where the run did
not restore. `OnceIsLast`, `BusIsAnswered` and `StopIsAnswered` take the tables to the answers. For
the drawing, `DrawnIsDescribed` finds the lines, their names and their stops in the order of names
(`ByNameHolds`, `LinesAreKept`), `LabelsAtTheEnds` a name at one end of a line or two at both,
and `PointsAreFound` and `MapIsDrawn` put the objects at the indexes where the property looks for them:
the last texts of the drawing tell where each stop is. `DrawnTrueToScale` is about the
projection: one zoom for both directions, the smaller, nothing outside of the padding, and the
right or the lower edge reached, if width and height are more than twice the padding (`HasRoom`).
They need not be: then the zoom is negative or zero, and the drawing is upside down or a point. The
property is said of each run when it ends. `QuestionIsAnswered` is about one answer;
`AnswersAreSaid` and `PrintedAnswersAreSaid` are about the two steps that give them, for questions
that come as JSON and as text.

The theorems have one hypothesis, `OrdersEnumerate`: `Orders(S)` are sequences of the
elements of `S`, for any finite `S`. It is no `ASSUME` of the module because it speaks of
all finite sets, which TLC cannot go through; the orders of `MCTransport` are sequences of that
kind by their definition. `ProgramAssumption`, which says of the inputs what the JSON reader
guarantees (numbers are numbers, arrays are sequences; the places of stops are whole numbers here, and
every name has its place in `NameOrder`), is evaluated by TLC; so is its part about
runs that read text, whose `base_requests` are there for the properties only and are what
their lines say, places included, and whose questions are those of their lines, if these are understood, which they are when a bus has two stops and a
latitude no minus (`MeansTheSame`, `CanBeText`): what tokens make of a name or a number is
checked by TLC and not proved.

### SinglyLinkedList, SimpleVector and Optional

`ListsOwnTheirs` (`ListsOwnTheirNodes`): for any lists and any memory, a list is the chain
that its `size_` tells, no node is in two, and every other node was inserted behind no
element of its list. `ListInv` states it with the chains as sequences without repetition;
one lemma per call says which chains it makes of which (`ChainsAreTheNodes`: there are no
others, so the walk of the specification, a recursion, is the chain).
`ListsAreAsPromised` (`ListsAreSequences`): the lists implement `ContainerContents` with
nothing `Spoilt`, so a call that throws changes no list.

`OnlyTheOverfullOverrun` (`OnlyFailedMovesOverrun`), `OnlyTheCrowdedAreReadBehind`
(`OnlyFullArraysAreReadBehind`) and `SimpleVectorsAreAsPromised` (`SimpleVectorsAreSequences`):
the room of an array is `capacity_`, or `capacity_` is zero after a move that failed
(`SimpleInv`); so an array is written behind only then, and read behind only where it is full or
shorter than a vector, and a vector is a sequence but for the two exceptions that
`ContainerContents` lists. `MayBecome` says call by call what may be made of a vector by a call
that returns, throws, or is given an element of its own; the throws are those of the
allocation, of each move and of each assignment, with the count that the code has by then.

`OnlyEmplaceMakesTheMarkLie` (`OnlyEmplaceLies`): for any optionals and any values (none of
which is the raw memory), a call on optionals whose marks are true leaves them true, and uses
no object that is not there, unless an `Emplace` throws. `OptionalInv` is the type.

### Json and JsonBuilder

`LoadsComeToAnEnd`: for every text, the measure `WorkLeft` is at most six for each character
and three when `Load` begins, and every step of `Load` makes it smaller. It counts six for a
character that is not read, two for a call on the stack, and what the function that runs
may still do without reading (`StepsWithoutReading`): an array that was opened at the end of
the text returns to a dict, which fails for want of a quote. This is the safety half of
`LoadsEnd`, and a bound; the other half is that a step is possible and taken, which is
`ENABLED` and fairness and stays with TLC. The invariant is `LoadInv`: the calls on the stack
are nested as functions call each other (a string is only on top, a dict that waits for a
key has a string above it), no array on it has read its bracket, and the function that
runs fits the top.

`ArraysEndWithBrackets` (`OpenArraysAreRefused`): an array that was loaded ended with the
bracket that was read last, or the loop was left by a `char` that nothing was read into. There
is no such theorem about dicts, because it would be false: line 188 reads whatever stands in
place of the colon, and at the end of the text the `c` of `LoadDict` still holds it. With a
`}` there, `{"a"}1` is a dict of one key.

The steps of `JsonProgram` that read are steps of `Json` (`LoadStep`). What is assumed of the
characters is `JsonAssumption` (no literal is an array, what was never read is not the
bracket), which TLC evaluates for the instance of `MCTransport`, and `UnsetIsNoText`: an object
that has no value is not a sequence. The latter speaks of all sets, which TLC cannot enumerate.
Both are hypotheses of the two theorems.

`ChainsThatCompilePass` and `RefusedCallsAreHarmless`: for all keys and values, in any order of
calls and refusals. The inductive invariant `BuilderInv` says that the stack is `Nested`
(containers and keys only, each key on its dict and nothing but a key on a dict) and
that its top is what the type of the last context stands for. The first theorem follows
from the second half. For the second theorem, `EndArray` and `EndDict` have popped a node
before `ForwardNode` may throw: under a container the top is an array or a key, or there
is none, so that only a root that is there already makes it throw.

### Position

For alphabets and tables of any size (`PositionAssumption`, a hypothesis of the
theorems, which TLC evaluates on the instance of `MCSheet`: two letters and two digits at least, and limits of the table that an `int` can hold):

* `PositionsReadBack`: what `ToString` writes of a position of the table, `FromString` reads
  as that position (`ReadsBackWhatIsWritten`), and no sum leaves the range of `int` on the way.
* `TextsAreReadAsTheyAreNamed`: of any text, `FromString` makes the one position of the table
  that it names, if there is one; and if it makes a position, the text names it or the number
  of its letters is greater than an `int`. What such a text becomes is the finding of
  `MCPositionLong`.

The inductive invariant `PosInv` has a sum for each loop. After `n` letters of a column,
`col + 1` is what these are worth and `temp + 1` times the `n`-th power of the base; that is
why `ToString` subtracts one at each turn. In `FromString` the sum and what the letters
behind `i` are worth are the number of the word, and since no part of it is negative the sum
stays in the range of `int` when that number does. For the row it needs that `std::stoi`
undoes `std::to_string` and the reverse (`NumbersAreReadBack`, `DigitsAreWrittenBack`), and
that no number of the table is written with more digits than `MAX_ROWS` (`NumbersGrow`).
What a word of letters is worth (`Weighs`) is a number with digits from 1; that this numbers
the columns in the order of `NamesAndPositionsAgree`, short names first, is checked by TLC.

### Lexer

`IndentsMatchDedents` (`MovesMatch`): for every text, the tokens given so far have at least as
many indents as dedents, at `Eof` they have as many, and no indent is next to a dedent. The
parser counts on this: each suite it opens at an indent ends at a dedent.
`TokensHaveTheDepthOfTheirLine` (`TokensStandAtTheirDepth`): a token other than these two is
given when as many levels are open as `indent_count_` says, that is, as its line is deep.
Between the two, an exception is the last token and what was open stays open.

The inductive invariant `LexerInv` counts what is still in the queue: first `n` moves in one
direction, then none, and the depth of the tokens given is `indent_count_` less or plus the
`n`; a move is not the last token that was given (`MovesLead`), so that the queue is not
empty between the moves of a line and its first token. Without the last, two lines could
each end in moves, one in and one out. What it needs of a line is that a rest that is not
empty begins somewhere (`RestBegins`: what is erased leaves no blank at the end) and has
tokens, none of them a move or `Eof` (`LineHasTokens`). `NonCommentEnd` and `ParseTokens` are
recursive functions from the end of a line; `BackToFront` and `FromTheEnd` are the
recursion and the induction that these lemmas use.

### Properties that are proved and not run

`TypeOK` and `EdgesMatch` of `Sheet`, `MutualExclusion` of
`ConcurrentMap`, `TypeOK` and `FailsOnBadGraphsOnly` of `Router` hold for every value of the
constants; no run repeats them.

### What is only model-checked

* Liveness: `EndsAsTheTextSays`, `NamesAndPositionsAgree`, `LoadsEnd` and `Terminates`. The
  provers know nothing of `ENABLED`, and so nothing of fairness. Of the second, what holds
  when the call returns is proved.
* `PrintedTextMeansTheSame`, `RereadsTheSame`, `BuildsWhatTheCallsSpell`
  and the four properties of `MCMython`: `FormulaAST`, `JsonProgram`, `MythonParser` and
  `MythonRuntime` are recursive over texts, trees and documents. The provers lose what they
  know of arithmetic in a module that declares a recursive operator, and the library's
  theorems of induction take an operator as a parameter, which none of them can give. An
  induction over numbers can be had, as a least counterexample (`LeastNatural`); the
  proofs about lists, sums, routes and files are made so.

## Not modelled, and the plan

What is left out of the modelled parts: the spelling of formulas,
the wording of errors, `PrintTexts` (it changes nothing), `Print` and `PrintCells`
(debug dumps), the depth of the call stack, and rounding: `A1+(B1-C1)` is printed as
`A1+B1-C1`, which is the same number for reals and may differ in its last digit, or
by an overflow, for doubles.

Also left out: `Paginator` (it divides a result), `ProcessQueries` (it asks the server,
which it does not change), the spelling of SVG and of numbers and the formula for the
distance of two places (no state and no choice), documents that lack a whole section other than the settings, and the helpers for timing
and tests. `__eq__` and `__lt__` of `mython` that return something other than a `Bool` are
outcomes of `MythonRuntime`; no property says what they should be, because no text of the
repository does.

What could be proved next: the stack of `ParseASTListener`, as that of `JsonBuilder`.
