# EAXHLA, specified

EAXHLA is a compiler for a small assembly-like language ("high level assembly") to
64 bit ELF executables. This directory holds TLA+ specifications of it, written from
the code in `src/source`, the TLC configurations that check them on small instances,
and theorems about them with proofs for TLAPS.

    tlc -config FrontendBlocks.cfg MCFrontend       # and so on: see "Runs"
    tlapm FrontendProofs.tla                        # and so on: see "Proofs"

## The system

One process, one thread, one pass over one file:

    file --> scanner --> parser ---------> token array --> assembler --> text --> ELF file
             eaxhla.l    eaxhla.y          compile.c       assembler.c            compile.c,
                           |  actions        ^                                     unix.c
                           v                 | append_instructions
                         symbol table, loop and if stacks
                         eaxhla.c

| part | state it keeps | operations |
|---|---|---|
| scanner (`eaxhla.l`) | start condition, buffers of a character and a string | a token, an error, the end |
| parser (`eaxhla.y`) | its stack, the error recovery of bison | a reduction and its semantic action; shifting `error`; giving up |
| symbol table (`eaxhla.c`) | `symbol_table`, `scope`, `symbol_id`, `unresolved_label_counter`, `anon_variable_counter` | `add_*`, `get_*`, `fin_hla` |
| control flow (`eaxhla.c`) | `repeat_stack`, `if_stack` and their tops | `add_repeat`, `fin_repeat`, `add_continue`, `add_break`, `add_if`, `add_logic`, `fin_if` |
| errors (`eaxhla.c`) | `has_encountered_error`, `is_program_found` | `issue_error` |
| token array (`compile.c`) | `token_array`, `token_count` | `_append_instructions`, `dump_variables_to_assembler` |
| assembler (`assembler.c`) | `text_sector_byte`, `empty_array`, `empty_imbue`, `empty_store`, the place in the array | `store_*`, `build_*`, the second pass of `assemble` |
| ELF writer (`unix.c`, `write_output`) | three header templates | `elf_*`, writing |
| arena (`arena.h`) | chunks and how far they are used | `aalloc` |
| driver (`main.c`) | none | the stages in their order |
| diagnostics (`debug.h`, `printf2.h`, `safety.h`) | none | printing |
| `tool/` | not part of the compiler: generators of grammar rules, test helpers | |

The parts share memory and call one another; nothing is concurrent, nothing is
persistent and nothing is retried. What makes the program hard is elsewhere:

* **Two stacks that only the grammar keeps together.** bison's stack knows which blocks
  are open; `repeat_stack` and `if_stack` hold their ids. They must stay in step through
  nesting beyond the limits, errors, and bison's recovery, which drops symbols whose
  actions have run.
* **One number per thing.** `symbol_id` is advanced in four places, for loops by two with
  the second id implied. The id is all the assembler ever sees.
* **An array without borders.** Operations and operands are words of one array. Each
  builder knows how many words it takes; the parser knows how many it appended. Nobody
  compares.
* **Places after the fact.** Labels may be used before they are known. Fields are noted
  and filled in by a second pass, each relative to its own end, whatever follows it.
* **An instruction set full of exceptions**, by register, class of register, size and
  kinds of operands.
* **Fixed arrays** (12 loops, 12 ifs, 1440 tokens, 4096 bytes of code, 1024 places), of
  which one is checked, side by side in one chunk of memory.
* **Failures nobody looks at.** Most results of the operating system are not read, and an
  error that was found must still be reported before the output is touched.
* **Modes that outlive what they are for**: start conditions, and buffers that are global.

What each part must get right:

* scanner: a file is read as the constructs it consists of; what is not closed is
  reported; nothing of one literal is in another; the scan ends.
* parser and stacks: the ids on the stacks are those of the open blocks; a jump out of
  loops leaves the loops it says; blocks do not overlap; no stack is read or written outside
  of what is on it without a report.
* symbol table: ids are distinct; an id is placed at most once; what is referred to has
  a place; what was never declared is reported.
* assembler: the first pass is always at a statement; only fields are changed by the
  second; the code does what the statements say; the arrays do not overflow.
* the two together: the code is the meaning of the text.
* ELF writer: segments cover code and variables and nothing else, and every address the
  assembler wrote is in the segment it is meant for.
* arena: requests do not overlap and lie inside their chunk; who reads finds what was
  written for him.
* driver: exit status 0 means that an executable was written; a rejected program leaves
  the output of the one before.

## Modules

                Frontend <------------ MCFrontend
                    ^ ^--------------- FrontendProofs
                    |
    Language <-- Compiler <----------- MCCompiler, CompilerProofs
       |            |                                 (instantiates Frontend, Assembler)
       v            v
    Operations <-- X86 <-- Assembly
        ^            ^--------+------- Assembler <-- MCAssembler
        +--- Encoding <---------------/    ^          (instantiates Assembly)
                                           +-------- InstructionProofs <-- AssemblerProofs

    Arena <-- Memory <---------------- MemoryProofs
                ^
    Values <-- Driver <--------------- MCDriver, DriverProofs (and MemoryProofs)
    Elf <-------/ 

    Scanner <------------------------- MCScanner, ScannerProofs

    SequenceProofs <------------------ InstructionProofs, CompilerProofs, DriverProofs,
                                       ScannerProofs

### Scanner: start conditions and buffers

One action per rule of `eaxhla.l`, grouped where rules differ in nothing but their
characters. A character of the model is what the rules tell apart: white space, a newline,
a quote, a backslash, one of the words, a number, an operator, anything else. `at` is
flex's place in the file, `condition` the start condition, and the two buffers are the
code's. A match takes its characters; the longest one wins, which is why `Label` and
`Word`, or `Comment` and `Operator`, look at the character that follows. `EndUnknown`
takes none (`yyless(0)`). `tokens` is what yylex returned, with the values.

`Meaning` is the reference: the file taken as constructs one after the other, each from its
first character to its last, without start conditions, buffers or rules. It is a function of
the file alone (`MeaningFrom`), so that it can be reasoned about from any place on. A newline
between apostrophes is no construct: `eaxhla.l:262` has a rule that reports it. The rule is
never matched, since `:254` has the same pattern and comes first; `ReadsConstructs` exempts the
files in which this is what is wrong first, and the run `newline` shows that they are accepted.

### Frontend: parser, symbol table, control flow, dump of the variables

One action per reduction of the grammar whose semantic action changes state, each the
whole action with every call it makes. `frames` is bison's stack as far as it matters:
the open `repeat` and `if` blocks and how far into them the input is; `unit` says whether
the program or a procedure is open. The rest is the code's own variables: `symbols` is
`symbol_table` as a function from names, `repeat_stack` and `if_stack` are arrays of
fixed size with their `_empty_top`, `tokens` is the token array with an operation and an
id in each entry and, in `by`, the function that appended it (not in the code).

* A name is the tuple of its parts between underscores, so that `make_scoped_name` is
  what it is in the code, concatenation with `_`, and not injective.
* `undeclared_symbol` has id 0, which is also the program's entry.
* A state in `Faults` is undefined behaviour of the code: a stack read or written outside
  of its bounds, or a null pointer read. The model stops there, since anything may follow.
  `repeat_stack` outside of its entries, `if_stack` index `MaxIf`, and an array without values.
* A level behind `continue` or `break` is an int. It is checked as one against the number of
  open loops and indexes as an unsigned: a negative one passes the check and is an entry 16 GiB
  away (`FAR_BEFORE`), and level 0 is the entry above the top, which holds what a closed loop
  left there (`by` is "stale" then), or is behind the array when that is full.
* The two tops are `size_t` in the code; -1 stands for the wrapped value.
* Errors: `UnknownSymbol` is any error that is reported without changing anything else
  (the scanner's, or `get_variable` on a label); `SyntaxError` is bison's recovery by the
  `error` productions of `code` and `declaration_section`, which keeps open blocks whose
  body has begun and drops an `if` whose header has not been finished; `Abort` is giving
  up. The values of expressions do not matter here and are inputs.
* Dumping the variables goes through a hash table, so in any order.

### Operations, Encoding, X86, Assembly, Assembler: the assembler

`Operations` are the enumerations. `Encoding` is every builder of `assembler.c` as an
operator from an instruction's tokens to what it emits (`head`, at most one field to fill
in, `tail`) and how many tokens more it takes (`skip`). Bytes are numbers and the base of
a field wraps around at 32 bits as in the code. `X86` is not in the repository: it is the
instruction format the code is for, `Decode` giving the operation, size and operands of
the instruction at an offset, with addresses relative to the instruction pointer resolved. It
goes in the stages of the format, prefixes, opcode, ModRM byte, immediate, one operator each.
`Assembly` is the abstract specification: a program is a sequence of statements, each with
a `Meaning`, and translation makes their listing, without lengths, bytes, or offsets.

`Assembler` is `assemble` with the functions that fill the array. Its steps are a
reduction of the parser that appends (`AppendInstructions`, one or several calls of
`append_instructions` at once, as the parser makes them), `DumpVariable`, then one step of
the first pass per instruction or directive, and one of the second pass per field. `array`
is what the code's pointer gives: the tokens from `index` on, and zeroes behind the last,
because the arena hands out zeroed memory. A token without a builder (`NoBuilder`; the
table has a null pointer there, or ends), an id that `empty_store` has no room for
(`StoreElsewhere`, `PatchElsewhere`) and an array whose number of elements is a misread
negative literal, which the code takes for unsigned (`StoreEndlessly`), end in phases of
their own, being undefined. What the parser may append is a parameter; `Written` says which
statements the grammar has and how many tokens it gives each, the operands being any
numbers. The model has four ghosts: the statements as appended, where they start, where each
instruction's code starts, and what the processor reads in the end.

The encodings of all builders are modelled, also of the ones for which the grammar has no
rules (`enter`, `in`, `out`, `call` of a register, conditional moves and sets, bit tests
and scans, floating point with operands). Of those the runs say nothing.

DEBUG builds put a `nop` before every instruction (`assembler.c:995`); the model is the
other build.

### Language, Compiler: from the text to the code

`Compiler` is the composition: each reduction is a step of `Frontend` and of `Assembler`
at once, and what they share is the tokens the one appends and the other takes. `source`
is a ghost, the text as a sequence of items. `Language` says what a text means without
ids, stacks or tokens: which block an `end` closes by counting, which loop a level is, what
a name stands for; its listing is of the same kind as `Assembly`'s. `CompiledAsWritten`
compares the code, decoded, with that listing, the variables in any order.

Not in the comparison, because they have no agreed meaning: texts in which a label jumped
to is declared nowhere (`Dangling`; run `unresolved`), and texts in which a label, or the
program, and a procedure share a name (`Ambiguous`). `get_symbol` looks a name up unscoped
first, so a jump finds the procedure, while `_add_label` declares the scoped one. Left out
of the steps are those that report an error, after which nothing is assembled; operands
that mean nothing (`{...}` and `[x + n]` as ids); and `loop`, whose field is too short (run
`documented`).

### Arena, Memory: who wrote a byte last

`Arena` is `aalloc`. `Memory` is one compilation as the chunk sees it: `memory` gives for
every byte who wrote it last. A statement is a number of tokens, a number of bytes, maybe
an id to place and maybe a field; `Assembler` has the details. Each step writes what the
code writes, the byte and the hole behind the last included, which `append_byte` and
`builder_field` write whether or not they count them; each read asks whether all bytes
are still its own. If not, the code goes on with a number of somebody else's, and the
model stops at `misread`. It is checked as a part of `Driver`.

### Values, Elf, Driver: from the command line to the file

`Values` is what becomes of a declared value: `can_fit`, the two size functions, the bytes
that `inset_immediate` emits. All ranges in the code are powers of two, so a number is its
sign and its number of bits. `Lost` judges a variable by its declaration and by whether another
is dumped behind it, whose bytes are then the upper half of one of 64 bits. `Elf` has the two segments and the entry as `unix.c` computes
them, the addresses the second pass gives, and (not in the repository) what a loader maps:
whole pages of the file.

`Driver` is `main` and `compile` from start to exit, on top of `Memory`. A call of the
operating system fails at any time: the input or the output that cannot be opened, a write,
the flush in `fclose`, `chmod`. `stage` is where `main` is; `output` is how many parts
of the output are in the file, `Before` if it was not touched. What the parser makes of
its input is statements, variables, the system and whether there was an error.

Where what follows is undefined the model stops, at a stage named for the reason: the parser
divides by zero in `{...}` (`divided`) or misses one of its stacks (`stack_misused`, which
`Frontend` is about), at any time; an array without a value is read through a null pointer
(`null_array`), and behind a literal shorter than its array there may be nothing to read
(`behind_literal`; or there is, and the dump goes on); tokens or code leave their places
(`misread`); a move of 64 bits takes the first token of what follows, which may end at a null
builder, a store elsewhere, or one without end, and an address given by its number is taken for
an id (`strayed`; or the code goes on by luck); the output cannot be opened (`null_file`).
`Assembler` has what `strayed` abstracts in detail, `WideMoves` and `Addresses` are the
statements that may lead there.

## Runs

All passing runs are exhaustive for their bounds.

| run | question | bounds, and why they are enough |
|---|---|---|
| `scanner` | Is every file read as its constructs, or reported, or left inside of what is not closed? Do the buffers start empty? Does the scan end? | All files of up to 3 of fourteen characters, and up to 5 of the six that open, close and escape: every rule behind every other one, an escape inside a string that follows a string, and both kinds of comments around a quote. No two words side by side, which would be one |
| `blocks` | Do the loop and if stacks match the open blocks until something is reported? What leads beside the loop stack? Are the blocks of an accepted program well nested, and do jumps leave the loop they say? | Stacks of 2 and nesting to 3, so that both limits are met and passed with something to unbalance below; levels from -1 to 2: a negative one, none, the innermost loop and the one around it; errors and recovery; 6 operations between the heads, enough for a loop too deep and all its ends |
| `symbols` | Are ids distinct, placed once, counted, and everything referred to placed? | Two block names, a variable and two labels, one with a procedure's name; one loop or condition; levels 0 and 1; 3 operations besides the heads: two uses and a declaration in any order, in program and procedures |
| `forms` | Which forms of instruction are encoded right? If the first pass loses its place, do code and holes stay bounded by the tokens? | Every form of the grammar in a program of its own, with 9 registers (every class `front`, `upper`, `lower` makes, and register numbers with a special meaning: 0, 4, 12), all sizes; one literal that does not fit in a byte. With them, up to 4 statements of 6 groups that are misread or become something else when they are, two arrays of data |
| `programs` | With the forms that are right: does the first pass keep its place, the second change only fields, the code do what it says? | All programs of up to 4 statements of 10 groups: heads, labels twice, jumps in both directions, calls, an `if`, and three instructions with and without references, and a variable |
| `compiler` | Is the code the meaning of the text? Do ids fit their array? | All texts of up to 5 constructs in a program and a procedure, nesting to 2 and levels 1 and 2, a variable and a label each: a jump out of two blocks, one name in two scopes, forward and backward jumps. The two block names are symmetric: neither is special, and no label or variable has one |
| `driver` | What does the status say of the output? By what is the program lost? Is the file loaded as addressed? Which values are lost, which warned of? Does who reads find what was written for him? Do the blocks of the arena lie apart? Does it end? | Places scaled down to 12, 10 and 6 of a chunk of 132, in about the proportions of 1440, 4096 and 1024, and one token more than places; statements that fill and overflow tokens and text, with fields and places, a move of 64 bits and an address by number; two variables of 14 kinds: numbers at the ends of the types, arrays with and without values, literals too short and too long, so that a wide variable has another behind it; every call of the system failing. Headers of 3 bytes and pages of 4, so that a text crosses pages |

The others each check one property that a comment, a message or the reference of the
language states, and that the code does not have. `PROJECT.json` quotes the text and
says what the code does.

| run | found |
|---|---|
| `unresolved` | a jump to a label that is never declared is accepted, and so is an undeclared variable, which then is the program's entry |
| `if_nesting` | the thirteenth nested `if` is written behind `if_stack`, without an error |
| `documented` | of the instructions the reference shows or calls supported, several have the wrong code; the second pass changes the instruction behind a `loop` forward |
| `newline` | a newline between apostrophes is a character, and nothing is reported: the rule that would is shadowed |
| `values` | a value that does not fit is lost without the warning: 64 bit values are emitted as four bytes, with those of the next variable behind them, and the literal of a one element array becomes its address |

What the runs say besides: an array declared without a value crashes the dump
(`CrashesKnown`), the segments of a program with 64 bit variables are not where its code
expects them (`ImageLoads` is about the others), and `can_fit` warns of values of `s16` and
`s32` that fit (`WarningsKnown`). The thirteenth nested `repeat` is reported, and its end then
pops what it did not push until the stack is read below its start; since it is reported, this
is no disagreement. `continue` and `break` of a negative level in a loop, and of level 0 in
twelve loops, read far outside of the loop stack or behind its end, and no error is reported: a
comment in the grammar (`eaxhla.y:454`) knows that the sign is not checked. `LoopStackMisuseKnown`
says that until the first error these are the only ways beside the loop stack, and that each of
them does lead there. Level 0 in fewer loops reads a stale entry, which `ReferencesHavePlaces`
exempts.

`MisencodingsKnown` (run `forms`), `WarningsKnown` (run `driver`) and `LoopStackMisuseKnown`
(run `blocks`) are exact lists: they fail as well if something they list comes out right, and
would have to be shortened when it is repaired. `CrashesKnown` bounds from one side, and is of
what comes behind the parser: the stages it names need one of the causes it names. The causes are
not always fatal, and the parser's own, above, are outcomes of the model it says nothing of.

**Fairness.** The compiler's steps are its own and wait for nothing but its input.
`Scanner!FairSpec` is `WF(Step)`: the parser calls yylex until it has returned the end.
`Driver!FairSpec` is weak fairness of `Working`, which is everything after the input, and
of the end of a file: a file is finite, and bison reads to its end. The standard input, which is
read when the file cannot be opened, may never end, and `EndsOnFiles` says so. That
`yyless(0)` and the loops of both passes are not endless is what the two properties add.

**Deadlock** is checked in all runs.

## Proofs

| theorem | in | states |
|---|---|---|
| `TypeCorrect` | `FrontendProofs` | `Spec => []TypeOK` |
| `StacksMatch` | `FrontendProofs` | `Spec => []StacksMatchFrames`, which is about what comes before the first error |
| `MisuseIsKnown` | `FrontendProofs` | `Spec => LoopStackMisuseKnown`, any int as a level |
| `JumpsLeave` | `FrontendProofs` | `Spec => JumpsLeaveTheirLoop` |
| `IdsAreDistinct` | `FrontendProofs` | `Spec => []IdsDistinct` |
| `UnresolvedAreCounted` | `FrontendProofs` | `Spec => []UnresolvedCounted` |
| `PlacesAreUnique` | `FrontendProofs` | `Spec => []DefinedOnce` |
| `BlocksNest` | `FrontendProofs` | `Spec => []BlocksWellNested` |
| `ReferencesLand` | `FrontendProofs` | `Spec => []ReferencesHavePlaces`, for plain names |
| `AllocatedApart` | `MemoryProofs` | `ArenaSpec => []BlocksApart`, any requests |
| `ArraysApart` | `MemoryProofs` | `MemorySpec => []BlocksApart` |
| `BackEndReadsAsWritten` | `MemoryProofs` | `MemorySpec => []ReadsAsWritten` |
| `LoadsIfPagesSuffice`, `LoadsForAllSizes` | `DriverProofs` | `LoadsAsAddressed` for all sizes, if the variables are counted as they are emitted |
| `DriverTypes` | `DriverProofs` | `Spec => []TypeOK` |
| `RejectionIsHarmless` | `DriverProofs` | `Spec => []RejectedLeavesOutput` |
| `SuccessIsComplete` | `DriverProofs` | `Spec => []SuccessIsWhole` |
| `CrashesAreKnown` | `DriverProofs` | `Spec => []CrashesKnown`: behind the parser |
| `WarningsAreKnown` | `DriverProofs` | `Spec => []WarningsKnown`, in any order of the dump |
| `ImagesLoad` | `DriverProofs` | `Spec => []ImageLoads` |
| `BuildersAreModest` | `InstructionProofs` | of any tokens a builder emits four bytes a token at most, and makes a field only of three tokens |
| `RightIsEncoded` | `InstructionProofs` | what a builder emits for a statement that is `Right` is decoded as that statement, whatever surrounds it |
| `BuildersTakeStatements` | `AssemblerProofs` | a builder takes the tokens of its statement, but for a 64 bit move, and leaves a field of four bytes, but for a loop |
| `TypeCorrect` | `AssemblerProofs` | `Spec => []TypeOK` |
| `GrowthIsBounded` | `AssemblerProofs` | `Spec => []GrowthBounded`, misread or not |
| `FramingIsKept` | `AssemblerProofs` | `Framed`, always, of programs without 64 bit moves |
| `BuildersAreFound` | `AssemblerProofs` | the phases `no_builder` and `text_sector` are for programs with 64 bit moves |
| `FieldsAreApart` | `AssemblerProofs` | without 64 bit moves, the fields are in the code and apart, and one for three tokens at most |
| `FieldsOnly` | `AssemblerProofs` | `Spec => OnlyFieldsPatched`, if no reduction appends a 64 bit move or a loop |
| `RightAreTranslated` | `AssemblerProofs` | `TranslatedAsWritten`, always, of programs of `Right` statements that fit in the token array |
| `CodeIsAsWritten` | `AssemblerProofs` | `Spec /\ []` fitting `=> ExecutesAsWritten`, if the parser appends `Right` statements only: Assembler implements Assembly |
| `ScannerTypes` | `ScannerProofs` | `Spec => []TypeOK` |
| `LiteralsStartEmpty` | `ScannerProofs` | `Spec => []BuffersStartEmpty` |
| `FilesAreRead` | `ScannerProofs` | `Spec => []ReadsConstructs`: every file is read as its constructs, or reported, or left inside of one, but for a newline between apostrophes |
| `IdsHavePlaces` | `CompilerProofs` | `Spec => []IdsFit`: two tokens at least for each id, whatever the text |

They hold for all values of the constants under the named assumptions of the modules, in
particular for the code's limits. The assumptions that say something of the code:
`PlacesAssumption` (`TokenPlaces + 3 < 3 * HolePlaces`; 1443 < 3072), `SpaceAssumption` (the
arrays fit in a chunk; 22144 bytes of 640 KiB), `RequestsAssumption` (nobody asks
for more than a chunk: `aalloc` does not check), `IdentifiersAssumption` (fewer variables than places:
nothing checks), Frontend's `LevelsAssumption` (a level is an int, and not so small that its
distance from the top overflows), Memory's `StatementsAssumption` (a statement with a field has three tokens or
more), Assembler's (what is appended is `Written`), `IdsAssumption` (the program's entry has its
place in `empty_store`), and `ElfAssumption` (the base is at a page).

**Frontend.** *Type correctness* is where recovery from errors bites:
`if_stack_empty_top \in 0 .. MaxIf + 1` is not inductive alone, since a `fin_if` pops
whatever is there. It needs that every open `if` has an entry of its own whatever was
reported (`StacksInRange`), which is true because recovery drops headers and never bodies:
`Depth("if") <= if_stack_empty_top`.

*The stacks* use `StackInv`, the conjunction of `TypeInv`, `StacksMatchFrames` and
`LoopsNumbered` (the ids in frames are those the counter has handed out). The middle part is
about positions: the j-th frame's id is in the entry of its stack whose index is the number
of frames of its kind below it. The proof first shows, of sequences of frames, what
pushing, popping and changing the top frame do to these numbers (`OpeningCounts`,
`ClosingCounts`, `MarkingCounts`), then what they do to the correspondence (`OpeningMatched`,
`ClosingMatched`, `MarkingMatched`), and then one step per action. `MisuseIsKnown`
follows: the top is the number of open loops until something is reported, so `fin_repeat`,
which closes one, finds an entry, and `add_repeat` one to write; a level that passes the check is
beside the entries exactly if it is negative, or 0 with all of them taken. `JumpsLeave` reads the same equality at the index the code
computes.

*The table* uses `TableInv`: `StackInv`, that ids of symbols and of open blocks are disjoint
and below `symbol_id` (`IdsInUse`), that the word of the union tells labels from variables
(`Worded`), and that the counter counts. It is inductive through errors as well. `TableChange`
sorts all actions by what they do to the table: nothing, one symbol more, a label resolved,
or ids taken for a block.

*The places* use `PlacesInv`: until something is reported, each id has one place at most, and
**what still waits for its place has none**: the end of an open block, an unresolved label,
a variable not dumped, the entry before the program is found, every id not yet taken. That is
why it takes `StacksMatchFrames`: `fin_repeat` and `fin_if` place the id they pop, which must be
the one that waits. `PlaceChange` sorts the actions by what they place. A duplicate
declaration does place an id twice, and is reported, which is why the property stops there.

*The blocks* use `BlocksInv`. An opener in the token array (the start of a loop, the jump over
a condition) is closed, or is owned by the one open block with its id; closers come later than
openers; openers of open blocks are in the order of the blocks; and what opens inside of a
closed block is closed inside of it. A new closer is that of the innermost block, so whatever
opened after its opener is closed. `BlockChange` sorts the actions: they bring neither, an
opener for a frame that had none, or the closer of the last frame.

*The references* use `RefsInv`: what is referred to is a place, or the id of a symbol or of an
open block; a label that counts as resolved, and a loop that is open, have their places. It
needs an assumption, `NamesPlain`: no name begins or ends with an underscore or has two in a
row. Otherwise it is false: in scope `main`, a jump to an undeclared `__main_x` and then one to
an undeclared `x` find one symbol, since `_add_label` looks up the scoped name as if it were one
of the source, and the second jump calls it resolved without a place. With plain names no key
of the table has a scope twice (`NotFoundTwice`), and only a declaration resolves a label.

**Memory.** `MemoryInv` says where the five blocks are, one behind the other in one chunk; which
bytes each reader has still to read, and that they are its own; and that `token_count`, `index`,
`text_sector_size` and the number of holes are sums over the statements. The one number that
matters: `3 * (empty_holes - 1) <= index`, since a statement with a field has three tokens at
least, so the three arrays cannot overflow as long as the tokens do not, with the hole
that is written behind the last. (That statements are taken as appended is an abstraction of
`Memory`; `FieldsAreApart` and `GrowthIsBounded` say of `Assembler` when it is true, and what
remains of it otherwise.) So tokens and code within their places are enough
(`WithinPlaces`), and the code checks neither.

**Driver.** The control flow is an invariant of its own (`DriverInv`). `ImagesLoad` needs
`ImageInv`: the text is the sum of what was built (by induction over statements), and all
variables are in it, in whatever order they were dumped, so that the sizes the headers are
computed from are those of the text; then `LoadsIfPagesSuffice` is arithmetic
of pages. `WarningsAreKnown` is of one variable and of both orders of the dump
(`WarningsOfOne`), by the ranges of the eight types. `CrashesAreKnown` takes `MemoryInv` for its
part on `misread`; the other parts are the guards of the steps that end so. The sums are recursive functions, and the lemmas about them in
`SequenceProofs` are proved by the least number for which they fail (the well-foundedness of
`<`, `LeastNumber`), since the induction theorems of the library cannot be instantiated. The
same module has what the other proofs need of `FlattenSeq`.

**Assembler.** One lemma for each builder says that it is `Modest`, whatever it is handed: it
takes a natural number of tokens, emits at most four bytes for each and its operation, and
makes one field at most and only of three tokens. `BuildersAreModest` puts them together with
the table that chooses the builder (`Table`). Types and growth follow by one step each
(`TypesAndGrowth`): `StoreRelative` is what makes one hole of two tokens. A statement of the
grammar is never that, which is why the bound checked at first, one hole of three, looked
right. It is false for misread programs: behind `mov r64, r64`, which takes a token too many,
`add r1, r1` of 16 bits is read as such a directive. The proof did not go through there and a
short program in the run `forms` shows it now.

*Framing* uses `Aligned`. Its first part, `Layout`, is where the statements are: each begins
where the one before ends, and its tokens are in the array. A reduction appends several
statements at once, so this needs the flattened sequence by parts (`GroupPlaces`,
`PushLaid`). The second is `Lost \/ AtStart`: the first pass is at the beginning of a statement or
at the end, unless a 64 bit move lies behind it. `Framed` itself is not inductive, since it says
nothing at the end of the tokens, nor of what the tokens at `index` are. `BuildersTakeStatements`
is the other half, the count each builder returns against the length the grammar gives.

*The fields* use `FieldsPlaced`: unless lost, all holes are within the code, in order, without
overlap, and of four bytes unless there is a loop. `FieldsOnly` reads the widths off it. Its
hypothesis is of the parser's reductions, and the instances of the run `programs` meet it; with a
loop the second pass does change the instruction behind (run `documented`).

*The code* is as written for statements that are `Right` (end of `Assembler`): the ones the
grammar has, with operands of the kinds their operations take, that are not `Misencoded`. Left out
are loops; the conditional jump to id 0; and an immediate of an arithmetic operation or a move that
is the number of an address in the text's segment, since `X86` reads every such number as the place
it is the address of. That `Right` is no narrower is an assumption of `MCAssembler` that TLC
evaluates: of all statements of the run `forms`, those are right that are neither misencoded nor
loops (`FormsAssumption`), and so is all that the run `programs` appends
(`RightReductionsAssumption`), which is the hypothesis of `CodeIsAsWritten`.

`InstructionProofs` goes from the bytes up. Right statements have one of twelve forms (`Form`, by
operation and kinds of operands; `RightForms`). For each there is a lemma on what its builder
returns (`Makes`: prefixes by `PrefixOf`, opcode, ModRM byte, the field), one on what the processor
selects from such bytes (`Finds`, `Selected`: how long the prefixes are, the size they give, the
registers the ModRM byte and the REX prefix name), and one that puts them together. The result,
`Encoded`, says of any text, any place in it and anything behind: if the text holds the head there,
and behind it the base of the field plus the place it refers to, then `Decode` gives the operation,
the size and the operands of the statement, and the length of what was emitted. Numbers of four
bytes are taken apart as two halves of two bytes (`Low`, `High`, `First`, `Second`), since the
solver does not go from 2^32 to bytes at once; `Added`, the addition with its wrap-around, is
then `AddedToBase`: a field that holds the bytes of a base holds those of base plus place.

`listing = Translation` at the end is not inductive in any way: nothing is decoded before. The
invariant is `Carried`, which says something while every statement is right. `Entries` says
of the first d statements, those the first pass is behind, that the ones that make something have
one entry of `built` each, in their order, and what the text holds between an entry and the next:
the head, the field with its base, or with base plus place if the second pass was there (`done`),
or the elements of an array; and that no other hole reaches into it (`Clear`). `StoredAt` says
of each id in `empty_store` that it is where the entry behind its last declaration begins, which is
what the abstract assembler calls its place, counted instead of measured. The first pass
(`Reading`) makes one entry more or one place; appending to the text leaves what it holds for the
statements before (`EntriesFurther`, `StoredFurther`). The second pass (`Linking`) fills in one field, which
is that of one statement only, as the fields lie apart. At the end `ListingIs` reads the entries,
with `RightIsEncoded` for each and with `Meaning` for what it should be; for data it is the
bytes of the elements.

The refinement maps the statements, the listing and the entry. `AppendInstructions` and
`DumpVariable` are `Write`, the end of the second pass is `Translate`, and every other step leaves
all three alone (`StepsAsPromised`). A program in which something is referred to and not declared is
not `Complete`, and the abstract assembler may then make anything of it; `RightAreTranslated` needs
no such exception, since `Place` is defined for what is not declared and the code agrees with it.

**The two together.** `IdsFit` says nothing before the assembler begins, and is about both
halves: the ids are counted by the front end, and the tokens are places in the assembler's
array. The invariant, `IdsInv`, is an account of the tokens that are still owed. While the
text is read, `2 * (symbol_id - 1)` is at most the tokens there are, and two more for each open
block and for each variable (`ReadCounts`): a `repeat` takes two ids for one label, and its end
brings a jump and a label for none; an `if` takes one id for nothing, and its end brings the label; a
variable takes one and brings nothing until `compile.c` dumps it. The text ends between two
units, where no block is open; then only variables that were not dumped are owed for
(`DumpCounts`), of which there is one less with each, since no two have one id (`DumpedNow`); and at
last nothing is owed (`DoneCounts`). That a token of the front end is a statement of so many
tokens is `StatementMakes`, and that a step brings them, `ReadOne` and `ReadTwo`. So 1440
tokens leave room for 720 ids, and `empty_store` has 1024 places.

**Scanner.** For types and buffers the invariant is the two properties together; `RestOfLine`
needs that there is a first newline or the end (`LineEnds`, by the least number again).

`ReadsConstructs` says nothing before the end, so its invariant, `ReadInv`, says what was read
so far: the scanner is `Reading` or the file is `Broken`. `Reading` is that a construct begins
at some place b; that the tokens so far are those of the file before b, so that what the file
means is those and what the rest means (`ReadTo`); and that the start condition and its buffer are
what is inside of that construct between b and `at` (`Inside`: in a string, that every quote so far
was escaped, there was no newline, and the buffer is what the characters since b stand for). A
rule then goes on inside (`InsideGoesOn`, `StringGoesOn`, `EscapeGoesOn`), which for a backslash is
about the parity of those before it (`BackslashesStep`); or it comes to where the reference says that
the construct ends (`StringRead` and the like), by `FirstIs`; or to something that is none, after
which no rule takes the error back (`BrokenStays`). A newline between apostrophes is neither: the
scanner takes it for a character and goes on, so that such a file is a case of its own. That the reference itself is defined, a
recursion over the rest of the file, is `MeaningUnfolds`, again by a least number: the shortest
rest that would have no meaning.

Only model-checked: liveness (`ScanEnds`, `EndsOnFiles`), which these provers do not do;
`MisencodingsKnown`, of which `RightAreTranslated` is one direction, for every operand and any
length, while the other, that no misencoded statement ever comes out right, is checked for every
form of the grammar in a program of its own; and `CompiledAsWritten`, which compares the code with
the meaning of the text. Of its two halves the one from tokens to code is `CodeIsAsWritten`; the one
from the text to the tokens is checked for texts of five constructs. All other safety properties
the passing runs check are proved.

## Not modelled

* Values of expressions are inputs. A division by zero in `{...}` ends the compiler
  (`eaxhla.y:438`); `Driver` has it as an outcome of the parser at any time (`ParserCrashes`).
* The hash of the symbol table: names with one hash are one name to the code, and small instances
  have none.
* What bison drops in its recovery, beyond the header of an `if`; its tables.
* What the scanner has no rules for or never returns (`else`, `win64`, `!`), the spelling of
  keywords and numbers, and hexadecimal escapes.
* `malloc` that fails; the constant fields of the ELF headers; the text of diagnostics
  (`debug.h`, `printf2.h`).
* `tool/`: generators and helpers that are not part of the compiler.

What could come next: from the text to the tokens, that what the front end appends for a construct
is what `Language` says it means, which with `CodeIsAsWritten` would prove `CompiledAsWritten`.
