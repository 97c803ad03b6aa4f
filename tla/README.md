# C99Mettle, modelled in TLA+

C99Mettle compiles C99 to Windows executables. It is two programs in one
repository: a compiler in Haskell (`src/C99/*.hs`, `app/Main.hs`) that parses,
checks and lowers C to the instructions of the vendored `libmtlc`, and a C
runtime of its own (`rt/*.c`) that every executable carries in place of a C
library. This directory holds models of both, the TLC runs that check them and
the proofs TLAPS checks.

Nothing in the repository runs in two threads. What is hard is elsewhere:

- **state that several operations share and each must leave consistent**: the
  one buffer of a stream, which holds pending writes or read-ahead;
- **the world outside**: a device that fails in the middle of a flush, a memory
  allocation that is refused, child processes that read, write and end when they
  like, and a process killed with bytes still in its buffers;
- **algorithms whose edges no test reaches**: a quoting rule, a carry in the
  rounding of a decimal, an interval of the sort that does not shrink, two areas of
  memory that overlap;
- **compiler passes that must agree with each other and with C**: one pass
  collects what another emits, a flag says where control can go, and the program
  they produce runs every path, not the one somebody tested.

## The parts of the system

| Part | Source | State it keeps | Operations | What makes it correct |
|---|---|---|---|---|
| Runtime streams | `rt/rt_stdio.c` | `FILE`: handle, mode, direction, buffer, position in it, push-back, indicators | open, read, write, seek, push back, flush, set buffering, close; exit | the caller cannot tell the stream from an unbuffered file, and bytes are lost only with the error flag or a kill |
| Child processes | `rt/rt_stdio.c`, `rt/rt_start.c` | pipes, which process holds which end, the list of open files | `_popen`, reads and writes that block, `_pclose`, exit | no byte lost, no call hangs, children end |
| Statement checks | `src/C99/Sema.hs` | scopes, loop and switch depth | check, warn | warnings are true |
| Statement lowering | `src/C99/Lower.hs` | label counter, stacks of break, continue and case labels, `lsEmittedReturn` | one case per statement | the instructions do what C99 says |
| Static objects | `src/C99/Lower.hs` | string table, `lsFnStrEnsured`, `lsGlobalInits`; at run time, pointer globals | intern, check, initialize | one live object per literal; initializers first |
| Names | `src/C99/StaticRename.hs`, `src/C99/Sema.hs`, `app/Main.hs` | renames per unit, scopes, symbol table | merge, rename, declare, look up | a name means what C says, over all units |
| Preprocessor | `src/C99/Preprocess.hs` | macro table, conditional stack, include stack, line map | directives, expansion | blue paint, balanced conditionals, true positions |
| Lexer, parser | `src/C99/Lexer.hs`, `Parser.hs` | position; tag and typedef scopes | tokens, declarations, recovery | the grammar, recovery that terminates |
| Types | `src/C99/CType.hs` | the tag table | size, alignment, conversions | the ABI's layout |
| Expressions | `Sema.hs`, `Lower.hs`, `Runtime.hs` | symbol table, temporaries | type, lower | C99's values at each width |
| Diagnostics, driver | `Diag.hs`, `Explain.hs`, `app/Main.hs` | messages, counts | report, decide the exit status | a failing phase stops the build |
| Formatted I/O | `rt/rt_format.c`, `rt/rt_scan.c` | a sink that counts and copies, a position in a text and in a format | `printf`, `scanf` families, `strtod` | bounds and counts; each field is what C99 describes; what is printed is read back |
| Start | `rt/rt_start.c` | the walk over the command line; `rt_envp`, a copy of the environment | split, `getenv`, `_putenv` | the rules of quoting, within what was allocated; answers that are current |
| Utilities | `rt/rt_stdlib.c`, `rt_alloc.c`, `rt_jmp.c`, `rt_os.c` | errno, random seed; the intervals of a sort | parse integers, sort, search | edges of each width; a sorted permutation, a short stack |
| Strings | `rt/rt_string.c`, `rt_wstring.c`, `rt_ctype.c` | `rt_strtok_state` | copy, compare, search, split | C99's memory after, whatever overlaps |
| Mathematics | `rt/rt_math.c` | none | pure functions of a double | the exact ones are exact |
| Builder binding | `src/Mtlc.hs`, `src/Mtlc/FFI.hs`, `cbits/blob.c` | the builder's handle | calls into `libmtlc` | external |

The driver runs the compiler's parts once each, in the order of the table from
the preprocessor to the lowering: every unit is preprocessed, parsed and its file
statics renamed, the units and the runtime are merged into one program, which
is checked as a whole and then lowered. The compiled program calls the runtime,
and the runtime only the system.

## The modules

### Streams: `ByteFile`, `Stdio`, `MCStdio`, `StdioProofs`

`Stdio` is one `FILE` on a disk file. The state `s` is a record: `data`, `at` and
`up` are the file, the handle's offset and whether the device answers; the other
fields are those of `struct _C99MTLC_FILE`, with `len` the length of `buf`. The
functions of `rt_stdio.c` are operators of the same name that map a stream to the
stream they leave; where a function also returns something a second operator says
what (`put_ok`, `got_byte`, `seek_ok`). One action is one library call, or
`Device`, which takes the device away or brings it back between two calls. A full
device cuts a write short; a refused allocation leaves a stream without a buffer
or no stream. `Killed` ends the program with nothing flushed.

The caller is a C program that keeps to two rules of the standard: one byte of
push-back at a time, and `setvbuf` before anything else (7.19.5.6p2). It does
*not* have to put a seek between a read and a write, as 7.19.5.3p6 asks, because
the code says it handles that itself.

`ByteFile` is what a stream promises: a file, a position, an optional pushed-back
byte and two indicators, with no buffer. `durable` is what the system holds
already; every action says what becomes of it. `Stdio` implements it under

    content <- the file with the pending bytes written at the handle's offset
    durable <- the file
    pos     <- ftell

Because a line-buffered or full stream may flush early, `ByteFile!Put` allows
any part of the content to have been written back, and nothing else.

### Child processes: `Pipes`, `PipesProofs`

`Pipes` is the process graph of `_popen`: who holds which end of which pipe,
which ends are inheritable, what is in each pipe and each buffer. Bytes are
counted. A library call that may block is a job: `todo` is what remains to be
flushed, a `FlushPipe` step moves one byte, and children run between the steps.
A pipe breaks for one side when no process holds the other end, which is what
makes inheritance matter: one handle too many and end-of-file never comes.
Children are external: one run for writing reads until the end of its input, one
run for reading writes `Traffic` bytes, and any child may quit at any time.

### Statements: `CStmt`, `LowerStmt`, `Flow`, `MCFlow`

`CStmt` has the statements of `Ast.hs` and the meaning C99 6.8 gives them: an
execution is a sequence of evaluations, each condition and switch value open.
`LowerStmt` is the lowering to labels and jumps with the part of `LowerState` it
uses, and what those instructions do. `Flow` has the checker's control-flow
analysis; it takes a body the checker accepts and runs C99 and the instructions in
step, giving both the same outcomes.

`MCFlow` builds the bodies: each construct around each nested statement around
each jump, with or without a label after it, and switches whose cases lie inside
a loop (Duff's device).

### Static objects: `Statics`, `MCStatics`, `StaticsProofs`

The builder has no address of data, so a string literal is a pointer global that
starts null and is filled in, behind a check, from the heap; so is an object whose
address is taken; and a file-scope pointer is stored by a constructor that `main`
calls. `Statics` compiles a small program as `Lower.hs` does and then runs it with
every branch open. A function's body is given as what its statements are lowered to
in turn, and the compiler takes one of them a step: `genFunction` begins a function,
with the constructor's call and the literals to check (`stringsIn`) before its body;
`prepareString` and `genString` emit a literal's check once in a function
(`lsFnStrEnsured`), `genIdent` an object's before every use. Then each instruction of
the compiled code is an action.

The properties hold of two kinds of programs only, which have names: `StraightInits`,
no file-scope initializer branches, and `NobodyCallsMain`. Without the first
`PointersAreLive` fails (`MCCondInit`), without the second `InitializersRunFirst`
(`MCRecursive`).

### Names: `Names`, `MCNames`

The units of a program are parsed one at a time, their file statics renamed, and
all of them merged with the runtime into one program with one file scope. `Names`
has that merge (`Merge`, `keep`, `program` with the parser's hoisting of
enumerators), the renaming (`Statics`, `ShadowedAt`), and then walks the merged
program as `Sema.hs` does: one `Declare` per item in the first pass, one action per
token of a body in the second, on a state `st` that has the scopes, the symbols
and the uses of `SemaState`, until `Lower` chooses the declarations to emit.

Beside it `c` walks the units the way C99 6.2 reads them: each block a scope, each
declaration an entity with its linkage, and what makes the program wrong. `meant`
collects, at each declaration and use, the symbol the compiler chose and the entity
C99 names, so that the property can ask that the one stands for the other exactly.

`MCNames` has 6264 programs of two units and a runtime, whose names are nearly all
`x`: seven ways to declare an object at file scope in each unit, four for a
function, a parameter or none, and two nested blocks with a declaration of either
kind or none and a use before, inside and after.

### Preprocessor: `Macros`, `CPreprocess`, `Preprocess`, `MCPreprocess`

`Preprocess.hs` works on lines of text. `Preprocess` has its state (the buffers
being read, the macro table, `stIfStack`, `stDisabled`, the messages) and one
action per thing that `ppLines` and `directive` do with a logical line: text of a
dead branch, text nothing on it can expand, text that is expanded with the lines
its call takes along, each directive, and the three outcomes of an `#include`.
`EndOfBuffer` goes back to the includer. Output is a sequence of chunks: text,
newlines that keep the line count, and line markers.

`Macros` is the table, expansion and the value of a condition. A text is a sequence
of *pieces*, an identifier, digits, a literal, one character of punctuation or a
blank, because that is what the code's scanners tell apart, and because whether two
pieces that meet lex as one token is the point of `fuses`, `splice` and
`Written`. `Lex` puts pieces together the way `Lexer.hs` does.

`CPreprocess` says what the standard makes of the same files, by other
means throughout: comments are removed from the file as a whole, a group of lines
is taken or left after matching its `#if` with its arms and `#endif`, macros are
replaced token by token with hide sets and an `#if` is split at its loosest operator.
So `OutputIsC` compares two preprocessors, not one with itself.

What the code keeps of an open file is the text of its path, and `joinPath` and
`dirOf` only ever add to it: `"./k"` included from `./h` is `././k`. Paths are such
texts in the model (`Candidates`), and only the system knows that two of them are one
file (`File`). C99 leaves to the implementation which file a name means, so
`CPreprocess` takes the same candidates; that including ends is a property of its own.

`MCPreprocess` has 14055 programs in nine families: nested conditionals whose
arms define and undefine the name they test; arms without an `#if`; object and
function-like macros that use each other, with `#`, `##` and variable arguments,
in all combinations with calls; names that a paste spells; calls, comments
and directives that run over several lines, with an `#include` or a `#line` on the
way; expressions of each two operators; three files that include each other; and the same
by names with and without a `./`, next to the includer and through a directory.

### Expressions: `Layout`, `LayoutProofs`, `CType`, `SemaExpr`, `LowerExpr`, `CExpr`, `Expr`, `MCExpr`

`Layout` is the walk of `CType.layout` over the members of a struct, one step a
member on a record that holds the next byte, the maxima and the open unit of
bit-fields; `CType` has the types, their sizes (LLP64), the tag table and the
conversions. `SemaExpr` is the checker's walk over an expression, which writes a
type on every node, and `LowerExpr` the lowering of the checked tree. Where the
code emits an instruction, `LowerExpr` carries it out on a machine of its own: a
value is a temporary or *the handle of a variable*, which is read when it is used
and not when it is named, so that forgetting to copy one out shows.

A variable has one of three homes, as `genVarDecl` and `declareVar` give them: a
handle of its own (a plain local or a plain global), or bytes in memory (an
aggregate, a volatile local, a global whose address is taken). `Expr` runs a
function's expression statements one by one, each checked, lowered and carried out
(`Execute`), in step with `CExpr`, an evaluator written from C99 6.3 and 6.5 over
objects that have values and no bytes, with types of its own rules. A statement
whose behaviour C99 leaves undefined ends the comparison.

A byte has two bits (`ByteBits`), so `char` counts to 4, `short` to 16, `int` and
`long` to 256 and `long long` to 65536, and the unit of bit-fields has 8 bits. All
else is as it is at 8: the same sizes in bytes, the same ranks, the same formulas.
Left out: floating and complex types, `__int128`, calls, literals of strings,
variable length arrays and initializers. `libmtlc` is taken to keep every value
canonical for its type, as the comment at `Lower.hs:1383` says it does, and to make
a conversion to Bool a comparison with 0.

`MCExpr` has 64325 programs: every binary operator on every two integer types at
their edges; the same with assignment; conversions between all types, homes and by
cast; `++` and `--`; sequence points and conditionals; structs and unions of up to
three members of eleven kinds, with and without a flexible array; bit-fields
written in turn beside others; a pointer walking over an array; an array of structs
with an anonymous struct inside.

### Arguments and environment: `Args`, `Start`, `MCStart`, `StartProofs`

`Args` is the walk of `rt_parse_cmdline`, one action per turn of its loops: the
program name, quoted or not, the gaps, the runs of backslashes, the quotes. It
writes the arguments to `pool` and where they begin to `argv`, and keeps the sizes
of the two allocations beside them. `Start` adds the system's variables, the block
that `rt_parse_env` takes of them when it is first needed, and `getenv`'s and
`_putenv`'s use of it; a name is compared by the system without its case (`Fold`)
and cut by `_putenv` at its buffer (`NameCap`). The environment holds the system's
hidden variables too, whose names begin with `=`; a program asks for neither those
nor for the empty name. `Start` puts walk and environment in the order of
`__getmainargs`, and says what the comment above the parser says of the arguments, of
positions in the command line and with no walk: which quotes toggle, which blanks
separate, what each character leaves. Of the program name it says two things. `NameText`
is the code's rule: a quote that begins the name is ended by the next, and any other
stands. `SaidName` is the comment's: quotes toggle, everything else is literal. They are
not the same (`NameFollowsTheComment` is refuted, below), but agree on a `TidyName`, with quotes around the whole
of it or none.

### Sort and search: `Sort`, `SortProofs`

`Sort` is `qsort` and `bsearch` with the calls of `rt_qsort` that wait as a stack of
intervals: one action per decision of the code (return to the caller, insertion
below eight elements, the choice of a pivot, one element of the partition, the
split). An element is its key and the place it was passed in, so that elements that
compare equal are still told apart. `bsearch` then looks for every key.

### Text: `Chars`, `Floats`, `Sink`, `Format`, `Scan`, `Text`, `MCText`

`Sink` is what every function of the `printf` family writes to, the C type of that
name: a memory of `cap` bytes or a stream that takes only so many, handed one piece of
text after the other. `Format` decides which pieces: a step per directive, on the
position in the format and the list of arguments, and each step of it is one of the
sink's. That it keeps to the sink's protocol is checked (`PrintsToASink`), so what is
proved of every `SinkSpec` holds of it. `Scan` is the `scanf` family in the same way, over a text, on
top of `rt_strtox` and the functions that clamp what it read. `Floats` has the exact
digits of a double, in limbs as the code has them (`BnCap` of them), and their rounding, and `strtod`,
whose long division gives one bit at a time. `Chars` has
characters, which have codes, and widths: a `long long` has 8 bits, a `long` and an
`int` 6, a `short` 4 and a `char` 3.

`Text` lets a program print and then read back with another format what it
printed, or read a text from elsewhere. Its properties say C99's side from outside:
the subject of `strtol` is the longest prefix there is a reading for, a field is a
text that can be split into padding, sign, prefix and digits that denote the value.
What a directive of `scanf` takes is the longest text that is, or begins, a numeral
(`Item`), and where that is no numeral nothing is stored; a text that ends before the
first conversion is `EOF`. On those two the code differs, below, and no text of the
passing run has them.

### Strings: `Strings`, `StringsProofs`

`Strings` has the functions of `rt_string.c` on one memory of cells, and calls each
of them, over every pair of places and every count that C99 allows (no read or write
outside the memory, no overlap where `restrict` forbids it, a terminator where a text
is needed). `memcpy` and `memset` go a word at a time (`Word` cells, eight in the
code), and the wide functions are the same on units. `strtok` keeps its state
between two calls. Its second part states what C99 says each leaves, from the memory
before and after. `Text` has these calls beside `printf` and `scanf`; they share no state.

### Numbers: `Numbers`, `MCNumbers`

A double has `FracBits` bits of fraction and `ExpBits` of exponent. `Numbers` begins
with what is external, the processor's arithmetic, each operation the double nearest
to the exact result, and has those functions of `rt_math.c` that work on the bits or are
exact, with `sqrt` on numbers of two words as the code has them. A run of it calls one
function on every double, or prints it and reads it back, or reads a text. A double
whose digits take more limbs than there are is printed no further (`Overrun`): the code
writes past the array, and what then happens is not the program's to say. Its
properties are said of whole numbers of the least double, with no rounding of
their own.

## The runs

| Run | Checks | Bounds |
|---|---|---|
| `Stdio` | `TypeOK`, `BufferHonest`, `ImplementsFile`, `ReadOnlyKeepsFile` | two byte values (newline and not), a buffer of 2, a device of 3 bytes, writes of 0 to 3 bytes, reads of 0 to 3, seeks of -1 and 1 from three origins |
| `Flow` | `SameExecution`, `WarningsAreTrue` | 8563 bodies of nesting depth 4; an execution longer than 40 silent steps counts as endless |
| `Pipes` | `EndsAreWhereTheyBelong`, `NothingLost`, `StartsBehind`, `CallsReturn`, `ChildrenEnd` | two children, a buffer of 2, a pipe of 2, 3 bytes a side |
| `Statics` | `PointersAreLive`, `InitializersRunFirst` | two literals, an object, two pointers, two functions in either order, with and without a constructor, loops and early returns, two calls |
| `Names` | `MeansWhatCSays`, `DiagnosticsAreTrue`, `DefinedOnce` | 6264 programs: two units and a runtime, two nested blocks |
| `Preprocess` | `OutputIsC`, `ErrorsAreC`, `LinesAreTrue`, `IncludingEnds` | 14055 programs of up to 12 lines and 3 files; integers of 8 bits |
| `Expr` | `ObjectsHoldWhatCSays`, `ValueIsC`, `TypeIsC`, `LayoutIsSound` | 64325 programs of up to 3 statements; bytes of 2 bits; arrays of 3 |
| `Start` | `FitsAllocation`, `ArgvFollowsTheRules`, `GetenvIsCurrent`, `WalkEnds` | every command line of up to 6 characters of five kinds; three variables, one of them hidden, five names, ten assignments |
| `Sort` | `SortsWhatItWasGiven`, `StackIsLogarithmic`, `SearchFinds`, `SortEnds` | every array of up to 6 elements of 3 keys; insertion below 3 |
| `Text` | `OutputFits`, `PrintsToASink`, `PrintfIsC`, `ScansAsC`, `StringsAreC` | each directive with every set of four flags, widths to 5 and precisions to 3; memories of 0, 1, 4 and 30 bytes and a stream that fails; numerals of up to 4 characters; every memory of 4 cells of three values, and six longer ones |
| `Numbers` | `PrintsNearest`, `ReadsNearest`, `MathIsExact` | all 512 doubles of 4 bits of fraction and 4 of exponent; up to 3 places; 5 limbs of 2 digits; powers of two from -40 to 40; 1500 texts around the middles between doubles |
| `ExprShift` | `ObjectsHoldWhatCSays` is violated | `<<=` and `>>=` by an unsigned count |

A property of several parts names them: `PrintfIsC` is `TypeOK /\
FieldIsC`, `ScansAsC` is `RoundTrip /\ NumeralsAreC`, `WarningsAreTrue` is `DeadUnlessDo
/\ FallOffIsWarned`, and the type invariants of the other modules are the first parts of
`EndsAreWhereTheyBelong`, `PointersAreLive`, `MeansWhatCSays`, `IncludingEnds` and
`ObjectsHoldWhatCSays`. Those of `Args` and `Sort` are parts of what is proved.

Why the bounds are enough. A buffer of two bytes has an empty, a part-full and a
full state, writes of up to three bytes fit, fill and pass it, and a block read of
three takes the direct path of `fread` while shorter ones refill. A file of three
bytes outgrows the buffer by one, and the device fills up. Two pipes are what it
takes for one child to inherit another's end; a pipe that still holds one byte
blocks a flush of two in the middle, and three bytes fill the buffer and go past
it. A jump is lost or sent astray between a construct, the one inside it
and the one around it, which depth 4 has for every pair. A literal needs two
functions and two arms to be ensured on one path and used on another. Two units are
what it takes for statics to meet, a third for the runtime's prefix, and two nested
blocks for a name to be shadowed, used again after the inner block, and hidden by a
parameter; one name is the worst case, since different names never meet.
A conditional can go wrong with the one around it and with the arms before it,
two levels and three arms; a replacement with the call it stands in, what it is
made of and what follows, three macros; two operators are what precedence is
about. Integers of 8 bits wrap in the same places as those of 64 (`Width`), and no
value reaches the edge by accident. The caps on lines a directive or a call may
absorb (`DirectiveLines`, `CallLines`, 4096 and 512 in the code, 8 here) are never
reached. Two bits are the least that give a signed `char` a value on each side of
both 0 and -1, and with them each integer type still differs from the next in
width; the edge values of each type meet in every pair. Three members are what it
takes for a bit-field to follow a closed unit that follows a bit-field.
Six characters are two arguments with a run of backslashes and a quote between
them, and one more; for the allocation the bound does not matter, since it is
proved. Six elements, with insertion below three, are partitioned twice and leave
sides of no, one and more elements; that what qsort leaves is sorted is proved for
every array. A memory of 4 bytes cuts most fields and one of 30 none; with words of
8, 6, 4 and 3 bits every modifier cuts some of the eight words printed. Memories of
four cells hold two texts that meet, overlap or are one, and a word of two cells
leaves a tail. With 4 bits of fraction a decimal of three digits still tells every
double from the next, as one of 17 does for 53 bits, and all the cases of rounding
(down, up, tie to even, a tie with more behind it, a carry into the next power) are
among the texts. The least double needs 12 digits on the way to its own, and 5 limbs
have room for 10, as 1090 digits meet 100 limbs of 9 in the code; the limbs of `Text`
(`BnCap` 4) are enough for what it prints, which an assumption checks. Powers of two of 40 take `ldexp` several steps up and down.

Deadlock is not checked where the system may stop: an execution of a body ends
(`Flow`), the program need not make another call and its children end (`Pipes`),
a compiled program ends (`Statics`), and so do a function's statements (`Expr`,
`ExprShift`), the checker's walk (`Names`), the last buffer (`Preprocess`), the walk
over a command line that needs no more (`Start`), a search (`Sort`), a scan (`Text`)
and a function (`Numbers`). A stream can
always do something, so `Stdio` checks it.

## Fairness

`Pipes`, `Start` and `Sort` have liveness. The last two are of one program running
its own loops: weak fairness of the walk (`SplitArguments`) and of the sort (`Next`)
says no more than that the processor goes on. In `Pipes`, `WF(CallStep)`: a library call that can go on does,
which is a running process; and `WF(ChildStep(c))`: so does each child. Nothing is
assumed of the program, which may stop calling, nor of children quitting. So
`CallsReturn` and `ChildrenEnd` hold because no process waits on a pipe whose
other end nobody will use, and fail as soon as a handle is in the wrong hands.

## What is proved

`StdioProofs` proves for every set of bytes, buffer size, device size, set of
payloads and of offsets:

- `TypeCorrect`: `Spec => []TypeOK`, which includes that no stream overfills its
  buffer, whatever is written in whatever buffering mode;
- `BufferIsHonest`: `Spec => []BufferHonest`;
- `ReadOnlyStreamKeepsFile`: no call on a stream without write permission changes
  the file;
- `StreamImplementsFile`: `Spec => ImplementsFile`, the refinement. Each call is one call of `ByteFile`, and `Device` nothing.

`PipesProofs` proves for every set of children, buffer, pipe and amount of traffic:

- `EndsStay`: pipe ends are held by those they belong to;
- `NoByteIsLost`: end of file means that the writer is gone and all it wrote was read;
- `NothingOvertakes`: `_popen` starts a child only with nothing pending.

`StartProofs` proves for every command line, every environment and
all assignments and names asked for:

- `WalkFitsAllocation`, of the walk alone, and `StartFitsAllocation`, of the whole
  startup: the walk stays inside its `len + 2` characters and `len / 2 + 3` slots;
- `ArgvIsRight`: `argv` holds what the rules of quoting say, whose statement has no
  walk and no counters; and its first string is the name the comment describes, if
  that is a `TidyName`;
- `EnvironmentIsCurrent`: `getenv` gives what the system holds under that name, and
  the value last put.

`SortProofs` proves for every length, set of integer keys and cut-off:

- `QsortSorts`: what `qsort` leaves is in order and has the elements it was given;
- `IntervalsSettled`: two elements out of order always lie in one interval that a
  call still has to sort;
- `BsearchFinds`: a key is found exactly when the array has it;
- `StackStaysShort`: never more intervals wait than the length has binary digits.

`LayoutProofs` proves for every list of members, struct or union, and every width
of a byte:

- `EveryLayoutIsSound`: each member is aligned and inside the whole, no bit-field
  crosses its unit, no two members of a struct share a bit, and a flexible array
  begins after all others.

`StaticsProofs` proves for every program, with any number of functions, literals,
objects and jumps:

- `LiteralsAreLive`: given `StraightInits`, no pointer to a literal or an object is
  null or to other storage than the next, on any path;
- `InitializersComeFirst`: given `NobodyCallsMain` too, an initializer never takes
  away a value that the program stored.

`StringsProofs` proves for every memory, every set of lengths and fillers, and every
number of bytes in a word:

- `StringsSpecAreC`: `StringsSpec => []StringsAreC`. Each function of `Strings`, called
  wherever C99 lets it be called, leaves and answers what C99 says; and the texts that
  `strtok` has returned, after any number of calls, are the runs of the text it splits, in
  order, with none left out when it says there are no more.

`Sink` proves, in the module itself, for memories of every size and streams that take
less, and for every sequence of pieces handed over:

- `SinkKeepsWhatFits`: `SinkSpec => []OutputFits`. `snprintf` returns the length of the whole
  output and leaves as much of it as fits with its terminator, and never writes past
  the end, not even between two pieces; a stream's `printf` returns -1 exactly when
  something was not taken. With `PrintsToASink` this is so of every format.

The assumptions of `StdioProofs` are the four of `Stdio` (bytes are naturals, sizes are naturals
and a buffer has at least one byte, payloads and contents are sequences of bytes),
those of `PipesProofs` the two of `Pipes` (the program and `stdout` are no children;
a buffer has two bytes at least, a pipe one), and those of `StartProofs` the ones of `Args`
and `Start` (the command line is of characters; the system has one variable of a
name, and names hold no `=` but in front; a program asks for proper names).
`LayoutProofs` takes its members from a set: a bit-field has no more bits than its
unit, as C99 asks and the code does not check (`MCBitWide`, below); an alignment is
1, 2, 4 or 8, as in `typeAlign`; and only the last member is a flexible array. Those of
`StringsProofs` are the two of `Strings`: a word has at least a byte, memories are
sequences of characters. Its `StringsSpec` is `StringsInit` and `StringsNext` by
themselves; `Text` has the same actions beside those of `printf` and `scanf`. `Sink` assumes nothing: its
`SinkInit` says that a size is a natural, or -1 for a stream.

`TypeOK` is not inductive: that a flush writes no more than the device holds, and
that a refill leaves `pos` inside the buffer, need what the buffer means. The
inductive invariant is

    IInv == Good(s) /\ open \in BOOLEAN /\ ret \in Return

where `Good` joins the stream's type, its sizes and `Honest`, and is stated of a
stream and not of the state, so that each function of `rt_stdio.c` has one lemma:
given a good stream it returns a good stream. The functions call each other, and
so do the lemmas; an action then needs the lemma of the function it calls. The
newline that ends a line buffer's flush is a greatest element, which needs the
well-foundedness of the naturals.

For the refinement, `RInv` adds to it what only the mapping needs: an unbuffered
stream holds nothing back, read-ahead comes from the file, and a closed stream is
idle. `View(t)`, the file as the caller sees it, is the file with the pending bytes
laid over it. The lemmas about `Overlay` say when bytes laid over a file in two parts
are the same as in one, and that a part that reached the disk before the device
failed is one `ByteFile` allows; then each function of `rt_stdio.c` has a lemma that
says what it does to the view, the position and the file.

For the pipes, `IInv` is the type with `HoldsRight` (who holds which end, also in the
middle of `_popen`, where the program holds both ends and one is inheritable),
`ChildrenRight` (bytes used, in the pipe and pending are no more than were made),
`Counted` (exactly as many, as long as a side can still read), and `JobRight`: what a
call in progress is about, and in `Covered`, that what it has still to flush covers
all that is pending. Without `Covered` nothing says, when `_popen` comes to start the
child, that nothing is pending.

That a walk stays inside its allocation is not inductive. `Paid` is an account:
every character written was paid for by one that was read, and every argument but
the first by two, the blank before it and its own first character (a quote, if it
is empty), with what is still owed at each place of the walk said per value of `pc`.

That `argv` is right needs the invariant to say, at each place of the walk, what the
rules say of the characters read so far: `ArgvInv` has one part per place, the name
(`InName`), between arguments (`InGap`), inside one (`InArg`, with `Counted` for the
backslashes not yet written), and beyond that all arguments written. The walk's flag
for quotes is the parity of the number of quotes that toggle so far, its count of
arguments the number of positions where one starts, and what it wrote of the current
argument the characters that stay, in order (`InPool`); so the lemmas are about how
these sets grow by one position. That the comment's rule for the name gives what the
code's does on a tidy one (`TidyIsSaid`) is about where the two rules see the end: before
it lie no quote, or the first and at most the last character.

For the environment, the invariant is that the system has one variable of a name
(`SystemRight`), that a block, while there is one, is the system's (`BlockFresh`),
that the last value put is still there (`PutStays`), and that an answer was looked up in
such a block. That `NAME=` is found by its text alone is because a name has no `=`
but in front.

For the sort, `IInv` joins the type, that the intervals of the waiting calls lie apart
(`IntervalsApart`), that what is out of order lies in one of them (`Settled`), that the elements are those given, and one
invariant per loop: what insertion has sorted but for the element that sinks, what
the partition has below the pivot and not below it, and what the search has
excluded. The lemmas before the steps are about rearranging: `Shuffles(a, b, l, h)`
says that b is a with the elements of one interval moved about in it; swaps do that,
it composes, and it keeps `Settled` for that interval. When the stack is empty and
no interval is left, `Settled` is order. The stack is short because a call waits with
the larger side: `Room` says that the interval being sorted, times two to the number
of intervals that wait, is no longer than the array. The provers know
nothing of powers; that those of two double is had by counting subsets.

A layout is sound by a frontier: the first bit that no placed member uses. `Right`
says that all placed members end before it, each begins where those before it have
ended, and the open unit, if there is one, is the last.

For the static objects, one part of the invariant is about the compiler and one about
the program that runs. `LowerInv` says of the code emitted so far (`CodeRight`) that
each read of a pointer stands behind its check, which either has no jump before it,
so that everyone who comes by made it, or is the instruction just before the read;
of the code still to emit (`TasksRight`), that a literal's check comes before its uses
and before all jumps; and joins the two (`Done`). `RunInv` says that each open call
has made the checks it got past (`Passed`), which a jump cannot undo because it lands
on a label, and a call because storage once made stays. `Once` is for the initializers:
the constructor runs once, as the first thing `main` does, and what it has still to
store is unset (`Waiting`).

The assumptions on programs are that every jump has its label, which `Lower.hs` emits
with the jump, and that a pointer has one initializer (`globalVarsOf` keeps one
declaration of a symbol).

For the strings, all calls but those of `strtok` start from a given memory, so the
invariant is what they leave; the work is in the lemmas, one per function, between what
its loop does and C99's description of the result. A text is had by `TextIs`: `strlen`
finds the first terminator, and what stands before it is the one text there is.
A copy is a sequence of chunks (`Copied`), and `CopiedUp` and `CopiedDown` say
when it is the same as one copy of the whole: forward when it goes down or the areas are apart, backward
when it goes up. A comparison stops at the first difference, and `Comparison` says for all
eight functions that its sign is that of the two texts there; a search gives the least,
or the greatest, of a set of places. `strtok` needs more than its property: `SplittingAsC`
says where it goes on (`Splits`), that the text from there on is still the one it was
given (`Rest`) though what lies before has been cut, that the separators are untouched
(`Reads`), and that the runs that begin before that place are as many as were returned
(`Counts`). Where an induction over places is needed, it is by the least of them
(`LeastExists`, from the well-foundedness of the naturals).

For the sink, `SinkInv` says that memory holds the first `Usable` characters of all that
was handed over (`Leading`), which a piece extends by what is then left of the room
(`LeadingGrows`), and that a stream's flag is up exactly when less was taken than given.
`failed` alone would not do: the call returns -1 for a piece refused long before, so the
lengths have to be compared at each piece.

Left to TLC, and why:

- liveness (`CallsReturn`, `ChildrenEnd`, `SortEnds`, `WalkEnds`), which needs ENABLED;
- `Format` but for its sink, `Scan`, `Floats`, `Text`, `Numbers`: what they compute is defined by
  recursion over digits, bits and formats, or by folds over texts, and that it is right
  is an induction over that data;
- `CStmt`, `LowerStmt`, `Flow` and the expression modules but `Layout`, which
  recur over statements and expressions;
- `Names` and `Preprocess`, which fold over sequences, and whose properties compare two
  readings of one program.

## What the runs found

One place where the code does not do what the repository says is kept as a run that
TLC must find violated. `ExprShift`: `x >>= 1u` shifts a negative `int` logically,
because a compound assignment runs the usual conversions over a shift too
(`src/C99/Lower.hs:1508`), where `README.md:202` says no count can do that.

Two more are properties that TLC refutes as invariants of a passing run, each stated
beside the property that holds:

- `NameFollowsTheComment`, in run `Start`. The comment at `rt_start.c:29` says that in the
  program name "quotes toggle, everything else is literal". The code ends the name at the
  quote that matches a first one, and keeps all others: `a"` is the name `a"`, of `"a"b c`
  it makes `a`, `b`, `c`, where the comment has `ab` and `c`, and of `a"b c"` the name
  `a"b`, where it has `ab c`. `ArgvFollowsTheRules` has the comment's rule for a
  `TidyName`, and for the others the code's.
- `LimbsSuffice`, in run `Numbers`. The comment at `rt_format.c:81` and
  `docs/implementation.md:579` say that the limbs are enough for every double.
  `rt_exact_digits` (`:245`) multiplies by 10^k before it divides by 2^k, with k up to
  1074: up to 1090 digits, 122 limbs where `BN_CAP` is 100, and `bn_mul_pow10` (`:154`)
  compares the length with nothing. Every double below about 2^-832 goes past the array,
  `DBL_MIN` and all denormals among them. `PrintsNearest` speaks of the doubles that fit.

The passing runs leave out other programs on which the code and C99 part, for
which no run is kept: the statement after a `do` whose body leaves by `break` or
`continue`, which is called unreachable (`MCAround`, `Sema.hs:136`, where
`docs/diagnostics.md:74` says "a statement control can never arrive at"); a literal
first met in one arm of a conditional initializer, which is null in the next
initializer (`MCCondInit`, `Lower.hs:2299`); the enumerators of blocks, which
overwrite each other over functions and units (`MCEnums`, `Sema.hs:1144`); a parameter
named in a string literal of a macro's body, which is replaced there (`MCLiteral`,
`Preprocess.hs:641`); a `break` after a `return` in a switch (a missing-return
too many, `Sema.hs:156`); a label inside an unreachable loop (`isLabelled` looks at
the outermost statement only); `main` called again, which resets the globals
(`MCRecursive`, `Lower.hs:2140`); `extern` in a block, which makes a new local
(`MCExtern`, `Sema.hs:1093`); a file static used above a local that shadows it
(`MCLate`, `StaticRename.hs:65`, the coarse view its comment accepts); and a second
definition in a block, which is not reported (`Sema.hs:402`). The sets named are in
the MC modules: substituted in the run's configuration, each refutes the property.

A seek the system refuses moves the position by the read-ahead it drops first
(`rt_stdio.c:434`); C99 does not say where it leaves the position, so
`ByteFile!Seek` lets it move on.

Of expressions, the passing run has no program that uses: the value of a `++` or
`--` that wraps a type narrower than `int`, or its `sizeof` (`MCNarrowStep`,
`MCNarrowSize`, `Sema.hs:762`); `++` or `--` on a bit-field, which ignores its
bit offset (`MCBitStep`, `Lower.hs:1304`); the value of an assignment to a
bit-field, which is not cut to the width (`MCBitValue`, `:1479`); an unsigned
bit-field narrower than `int` in arithmetic, which is not promoted to `int`
(`MCBitPromote`); a value above 1 stored in a `_Bool` bit-field (`MCBitBool`); a
signed bit-field as wide as its unit, read as unsigned (`MCBitWhole`, `:826`); a
bit-field wider than its unit, which overlaps the next (`MCBitWide`,
`CType.hs:236`); `/=`, `%=` and `>>=` on a bit-field, done with no conversion
(`MCBitDivide`, `:1477`); and `i[a]`, which is refused (`MCReversed`,
`Sema.hs:869`). Nor a literal too large for `int` without a suffix, whose type is
`int` all the same (`intLitType`).

Of the preprocessor, no program of the passing run has, because there the code parts
from C99: a comment left open in a dead branch (`Preprocess.hs:816`); a
function-like name at the end of a line and its parenthesis on the next, or a line
with a `)` before the open `(` (`:823`); a call of a macro in an argument of the
same macro, or an empty argument for its one parameter (`:613`), or a parenthesis in a
comment inside an argument, which is counted, and a comma, which separates (`:596`); an object-like body
that begins or ends in punctuation and meets more of it, or an empty argument of
`##` beside another token (`:554`); an object-like macro whose replacement is the
name of a function-like one (`MCAlias`, `:554`); text after a comment that starts a directive's line; an
`#if` open at the end of a file and a second `#else` (`:931`); `#line` before an
`#include` or before `__LINE__`, and `__LINE__` below the first line of a call
(`:1100`); a `##` or `#` operand that is `__VA_ARGS__`; a suffix on a number that
names a macro, unsigned comparison, and the least number divided by -1, where the
compiler stops with an exception (`:316`); a file that includes itself under
guards, refused as a cycle (`:787`); one that includes itself without, by a quoted name
that begins with `./`, which is a new path every time and never ends (`MCDots`, `:787`,
`:680`); and `-U` of a predefined macro, which does
nothing (`:103`), where `README.md:119` says that it undefines one.

Of the runtime, the runs leave out or the properties except what the code does
otherwise than C99: `%.0d` of 0 prints a digit and `%#.5o` a zero too many; `%hhn`
stores an `int`; `%X`, `%E` and `%G` are not read, and a width on a number is ignored
(`rt_scan.c`); `sscanf` of a text that ends before the first conversion is 0 and not
`EOF` (`MCBlank`, `rt_scan.c:557`), and of `0x` with no digit behind it stores 0 under
`%x` and `%i`, where nothing may be stored (`MCBareHex`, `:495`); `round(-2.5)` is -2 and `nearbyint` is `round`; the zero that `modf`
and `round` give has no sign; `pow(1, NaN)` is a NaN, and a negative power whose
positive one overflows is 0; `strtod` and `ldexp` round twice below the normal numbers,
and a text of more than 400 places is 0 (`rt_scan.c:257`); `fma` rounds twice and
`fmin` of a NaN is a NaN; a name of more than 255 characters is cut by `_putenv` and
`getenv` looks for it whole, and with its case; `wcstombs` gives a `?` where no
character fits. C99 leaves a few of these to the implementation.

## Plan

In this order; each module with its runs, and proofs where named.

1. Initializers, calls by value and by hidden result in `LowerExpr`; `Vla`:
   run-time bounds and their order; `Varargs`.
2. `Driver`: phases, exit status, what a failure leaves behind.

## What is not modelled, and why

The lexer and the grammar (pure functions of the text), the wording and layout of
diagnostics, the driver (planned), floating and complex arithmetic in the compiler,
the binding to `libmtlc` and `libmtlc` itself, whose source is not here: the models
state what its instructions do as `Lower.hs` uses them.

Of the runtime: the series of `rt_math.c` (`exp`, `log`, the trigonometric and
hyperbolic functions and those built on them), whose correctness is about the size of
an error in the reals, which TLC does not have; the narrowing to `float`; `rand`;
`system` and what `rt_alloc.c` and `rt_os.c` hand to the system; `setjmp`, which is
the machine's; `strdup`, `strerror`, `wctob` and `btowc`; wide texts handed to `%s`;
what a `%c` or `%s` that fails half way has already written. The text of a
floating field has no bound in `Floats`; in the code it is an array of 832 (`body`,
`rt_format.c:380`), which a precision of some 520 fills for the largest doubles.

`tests/`, `include/` and `third_party/` are headers, inputs and other people's code.
