------------------------------- MODULE Driver -------------------------------
(***************************************************************************)
(* The program from its start to its exit: main.c and compile.c, with the  *)
(* arrays they fill (Memory), the variables of the symbol table (Values)   *)
(* and the file that is written (Elf).                                     *)
(*                                                                         *)
(* What the parser makes of its input is abstracted to what reaches the    *)
(* back end: statements, variables, the system, and whether there was an   *)
(* error.  The calls of the operating system may fail, each on its own;    *)
(* what was written may be lost when the file is closed as well.           *)
(*                                                                         *)
(* Where the code divides by zero, or goes on with memory that is not what *)
(* it takes it for, the model stops at a stage that is named for the       *)
(* reason: the program may end by a signal there, or go on with anything.  *)
(***************************************************************************)
EXTENDS Memory, Values, Elf, FiniteSets

CONSTANTS
    Declarable,     \* The variables that may be declared.
    MaxVariables,   \* Bounds how many of them the input declares.
    WideMoves,      \* The statements that are moves of 64 bits,
    Addresses       \* and those with an address that is given by its number.

ASSUME DeclarableAssumption == \A v \in Declarable : Described(v)

ASSUME WaysAssumption == WideMoves \subseteq Statements /\ Addresses \subseteq Statements

\* Nothing checks that the identifiers have places.
ASSUME IdentifiersAssumption == MaxVariables \in Nat /\ MaxVariables < HolePlaces

VARIABLES
    stage,                  \* What main is at; Ended once it is left.
    source,                 \* Where the input is read from.
    system_type,
    declared,               \* The variables of the symbol table,
    dumped,                 \* and which of them are dumped.
    has_encountered_error,
    was_instruction_array_empty,
    written,                \* How many parts of the output were written without an error.
    output,                 \* How many of them are in the file, or Before.
    executable,             \* Whether the file was made executable.
    failed,                 \* Whether a call of the system failed after the input was opened.
    status                  \* What main returned.

vars_of_driver == <<stage, source, system_type, declared, dumped, has_encountered_error,
                    was_instruction_array_empty, written, output, executable, failed, status>>
vars == <<vars_of_memory, vars_of_driver>>

Before == -1        \* The file is as it was.

Crashed == {"divided", "stack_misused", "null_array", "behind_literal", "misread", "strayed",
            "null_file"}
Ended   == {"exited"} \union Crashed

Init ==
    /\ MemoryInit
    /\ stage = "start" /\ source = "none"
    /\ system_type = "UNIX"
    /\ declared = <<>> /\ dumped = {}
    /\ has_encountered_error = FALSE
    /\ was_instruction_array_empty = FALSE
    /\ written = 0 /\ output = Before /\ executable = FALSE /\ failed = FALSE
    /\ status = 0

files  == <<written, output, executable, failed>>
parsed == <<system_type, declared, has_encountered_error>>

-----------------------------------------------------------------------------
(***************************************************************************)
(* main, up to the end of the input.                                       *)
(***************************************************************************)
Usage ==
    /\ stage = "start" /\ stage' = "exited"
    /\ status' = 1
    /\ UNCHANGED <<vars_of_memory, source, parsed, dumped, was_instruction_array_empty, files>>

\* A file that cannot be opened leaves yyin null, and the scanner takes the standard input.
OpenInput ==
    /\ stage = "start" /\ stage' = "parse"
    /\ source' \in {"file", "standard input"}
    /\ CompileInit
    /\ UNCHANGED <<parsed, dumped, was_instruction_array_empty, files, status>>

\* What a variable is to the assembler: its place, and one token for each element.
StatementOf(i) ==
    LET v == declared[i]
    IN  [tokens |-> 5 + v.elements, bytes |-> Emitted(v), place |-> i, field |-> NoField,
         builder |-> FALSE]

TokensOfVariables ==
    LET sum[n \in 0 .. Len(declared)] == IF n = 0 THEN 0 ELSE sum[n - 1] + StatementOf(n).tokens
    IN  sum[Len(declared)]

ParseStatement(s) ==
    /\ stage = "parse"
    /\ AppendInstructions(s)
    /\ token_count' + TokensOfVariables <= MaxTokens
    /\ UNCHANGED vars_of_driver

ParseVariable(v) ==
    /\ stage = "parse" /\ Len(declared) < MaxVariables
    /\ declared' = Append(declared, v)
    /\ token_count + TokensOfVariables' <= MaxTokens
    /\ has_encountered_error' = (has_encountered_error \/ v.elements < 1)
    /\ UNCHANGED <<vars_of_memory, stage, source, system_type, dumped,
                   was_instruction_array_empty, files, status>>

ParseShell ==
    /\ stage = "parse" /\ system_type = "UNIX"
    /\ system_type' = "SHELL"
    /\ UNCHANGED <<vars_of_memory, stage, source, declared, dumped, has_encountered_error,
                   was_instruction_array_empty, files, status>>

ParseError ==
    /\ stage = "parse" /\ ~has_encountered_error
    /\ has_encountered_error' = TRUE
    /\ UNCHANGED <<vars_of_memory, stage, source, system_type, declared, dumped,
                   was_instruction_array_empty, files, status>>

\* A division by zero in {...}, or of the least long by -1; an `if' too many, or a loop that
\* is left by a level that there is not (Frontend).
ParserCrashes ==
    /\ stage = "parse" /\ stage' \in {"divided", "stack_misused"}
    /\ UNCHANGED <<vars_of_memory, source, parsed, dumped, was_instruction_array_empty, files,
                   status>>

\* Mutant: what was reported does not matter.
Always == TRUE
MayCompile == ~has_encountered_error

EndParse ==
    /\ stage = "parse"
    /\ \/ /\ MayCompile
          /\ stage' = "compile" /\ BeginDump
       \/ /\ ~MayCompile
          /\ stage' = "deinit" /\ UNCHANGED vars_of_memory
    /\ UNCHANGED <<source, parsed, dumped, was_instruction_array_empty, files, status>>

-----------------------------------------------------------------------------
(***************************************************************************)
(* compile.                                                                *)
(***************************************************************************)
\* In the order of the hash table, which is none.
\* Whatever is behind a literal is taken for more of it, if it can be read.
DumpVariable(i) ==
    /\ stage = "compile" /\ phase = "dump"
    /\ i \in DOMAIN declared \ dumped
    /\ \/ /\ ~Unreadable(declared[i])
          /\ AppendInstructions(StatementOf(i))
          /\ UNCHANGED stage
       \/ /\ Unreadable(declared[i])
          /\ stage' = "null_array" /\ UNCHANGED vars_of_memory
       \/ /\ ReadBehind(declared[i])
          /\ stage' = "behind_literal" /\ UNCHANGED vars_of_memory
    /\ dumped' = dumped \union {i}
    /\ UNCHANGED <<source, parsed, was_instruction_array_empty, files, status>>

AllocateText ==
    /\ stage = "compile" /\ dumped = DOMAIN declared
    /\ EndDump
    /\ UNCHANGED vars_of_driver

\* Mutant: the empty program goes unreported.
Unreported == has_encountered_error
InternalError == TRUE

AssembleNothing ==
    /\ stage = "compile" /\ phase = "text" /\ token_count = 0
    /\ was_instruction_array_empty' = TRUE
    /\ has_encountered_error' = InternalError
    /\ stage' = "deinit"
    /\ UNCHANGED <<vars_of_memory, source, system_type, declared, dumped, files, status>>

\* The builder of a wide move takes the first token of what follows: a token without a
\* builder, a label far outside, or code without an end may come next.
TokenSkipped == phase = "build" /\ built \in 1 .. Len(program) - 1 /\ program[built] \in WideMoves

\* The number of an address is taken for an id, of any size.
AddressFollowed == phase = "link" /\ \E n \in DOMAIN program : program[n] \in Addresses

RunAssembler ==
    /\ stage = "compile"
    /\ \/ /\ ~TokenSkipped
          /\ Assemble \/ Assembling
          /\ stage' = IF phase' = "misread" THEN "misread" ELSE stage
       \/ /\ TokenSkipped \/ AddressFollowed
          /\ stage' = "strayed" /\ UNCHANGED vars_of_memory
    /\ UNCHANGED <<source, parsed, dumped, was_instruction_array_empty, files, status>>

-----------------------------------------------------------------------------
(***************************************************************************)
(* The output.                                                             *)
(***************************************************************************)
unwritten == <<vars_of_memory, source, parsed, dumped, was_instruction_array_empty, status>>

\* A null file is written through.
OpenOutput ==
    /\ stage = "compile" /\ phase = "linked"
    /\ \/ stage' = "write" /\ output' = 0 /\ UNCHANGED failed
       \/ stage' = "null_file" /\ failed' = TRUE /\ UNCHANGED output
    /\ UNCHANGED <<unwritten, written, executable>>

\* Three headers and the text, or the text.
\* Mutant: a part written twice.
PartsAndOne == IF system_type = "UNIX" THEN 5 ELSE 1
Parts == IF system_type = "UNIX" THEN 4 ELSE 1

WritePart ==
    /\ stage = "write" /\ written < Parts
    /\ written' = written + 1
    /\ UNCHANGED <<unwritten, stage, output, executable, failed>>

\* compile returns without closing the file, and nobody looks at what it returns.
WriteFails ==
    /\ stage = "write" /\ written < Parts
    /\ stage' = "deinit"
    /\ failed' = TRUE
    /\ output' \in 0 .. written
    /\ UNCHANGED <<unwritten, written, executable>>

CloseOutput ==
    /\ stage = "write" /\ written = Parts
    /\ stage' = "chmod"
    /\ \/ output' = written /\ UNCHANGED failed
       \/ output' \in 0 .. written - 1 /\ failed' = TRUE
    /\ UNCHANGED <<unwritten, written, executable>>

MakeExecutable ==
    /\ stage = "chmod" /\ stage' = "deinit"
    /\ \/ executable' = TRUE /\ UNCHANGED failed
       \/ failed' = TRUE /\ UNCHANGED executable
    /\ UNCHANGED <<unwritten, written, output>>

Exit ==
    /\ stage = "deinit" /\ stage' = "exited"
    /\ status' = IF has_encountered_error THEN 1 ELSE 0
    /\ UNCHANGED <<vars_of_memory, source, parsed, dumped, was_instruction_array_empty, files>>

-----------------------------------------------------------------------------
Parsing ==
    \/ \E s \in Statements : ParseStatement(s)
    \/ \E v \in Declarable : ParseVariable(v)
    \/ ParseShell \/ ParseError \/ ParserCrashes \/ EndParse

Working ==
    \/ Usage \/ OpenInput
    \/ \E i \in DOMAIN declared : DumpVariable(i)
    \/ AllocateText \/ AssembleNothing \/ RunAssembler
    \/ OpenOutput \/ WritePart \/ WriteFails \/ CloseOutput \/ MakeExecutable
    \/ Exit

Halted == stage \in Ended /\ UNCHANGED vars

Next == Parsing \/ Working \/ Halted

Spec == Init /\ [][Next]_vars

\* Nothing but the standard input makes the program wait: a file has an end, which the
\* parser comes to, and everything after is loops over arrays.  Somebody may never end the
\* standard input.
FairSpec == Spec /\ WF_vars(Working \/ (source = "file" /\ EndParse))

-----------------------------------------------------------------------------
(***************************************************************************)
(* Properties.                                                             *)
(***************************************************************************)
TypeOK ==
    /\ stage \in {"start", "parse", "compile", "write", "chmod", "deinit"} \union Ended
    /\ source \in {"none", "file", "standard input"}
    /\ system_type \in {"UNIX", "SHELL"}
    /\ dumped \subseteq DOMAIN declared
    /\ has_encountered_error \in BOOLEAN /\ was_instruction_array_empty \in BOOLEAN
    /\ written \in 0 .. 4 /\ output \in Before .. written
    /\ executable \in BOOLEAN /\ failed \in BOOLEAN
    /\ status \in 0 .. 1

\* A program that is reported as wrong leaves the file of an earlier one alone, and the
\* empty one does, too (main, compile: everything that can be reported comes before fopen).
RejectedLeavesOutput == stage = "exited" /\ status = 1 => output = Before

\* After a success the whole program is in the file and can be executed, unless a call of
\* the system failed, which only the calls themselves could tell (write_output, fclose and
\* make_executable, whose results compile or main ignore).
SuccessIsWhole ==
    stage = "exited" /\ status = 0 /\ ~failed =>
        output = Parts /\ executable /\ ~was_instruction_array_empty

\* Behind the parser, the program is lost on the way only where there is an array without a
\* value or one longer than its literal, where there are more tokens or code than places,
\* where something follows a move of 64 bits or an address is given by its number, or where
\* the output cannot be opened (compile, assemble).
CrashesKnown ==
    /\ stage = "null_array" => \E i \in DOMAIN declared : Unreadable(declared[i])
    /\ stage = "behind_literal" => \E i \in DOMAIN declared : ReadBehind(declared[i])
    /\ stage = "misread" => ~WithinPlaces
    /\ stage = "strayed" =>
          \/ \E n \in 1 .. Len(program) - 1 : program[n] \in WideMoves
          \/ \E n \in DOMAIN program : program[n] \in Addresses
    /\ stage = "null_file" => failed

\* What variables are in the text.
EmittedSum ==
    LET sum[n \in 0 .. Len(declared)] ==
            IF n = 0 THEN 0 ELSE sum[n - 1] + Emitted(declared[n])
    IN  sum[Len(declared)]

\* variable_size_sum.
ReservedSum ==
    LET sum[n \in 0 .. Len(declared)] ==
            IF n = 0 THEN 0 ELSE sum[n - 1] + Reserved(declared[n])
    IN  sum[Len(declared)]

\* Where the program's entry, id 0, was placed.
EntryPlaced ==
    LET before[n \in 0 .. Len(program)] ==
            IF n = 0 THEN 0 ELSE before[n - 1] + program[n].bytes
        entries == {n \in DOMAIN program : program[n].place = 0}
    IN  IF entries = {} THEN 0
        ELSE before[CHOOSE n \in entries : \A m \in entries : m <= n]

\* A whole executable is loaded as its code expects it: the sizes the headers are computed
\* from are those of the text, as long as no variable is of 64 bits (the assembler emits
\* four bytes for each element, variable_size_sum counts eight).
ImageLoads ==
    /\ stage = "exited" /\ output = Parts /\ system_type = "UNIX"
    /\ \A i \in DOMAIN declared : ~Wide(declared[i].type)
    => LoadsAsAddressed(text_sector_size - EmittedSum, EmittedSum, ReservedSum, EntryPlaced)

\* Whether another variable was dumped behind the i-th: they are what the text ends with.
Followed(i) == i \in dumped /\ program[Len(program)] # StatementOf(i)

\* Every value that is lost is warned of, and nothing else is, but for the exceptions
\* Values lists (can_fit, against the types, and against what inset_immediate emits and the
\* order of the dump puts behind it).
WarningsKnown ==
    \A i \in DOMAIN declared :
        LET v == declared[i]
        IN  v.elements = 1 =>
                /\ Lost(v, Followed(i)) /\ ~Warned(v) <=> LostSilently(v, Followed(i))
                /\ Warned(v) /\ ~Lost(v, Followed(i)) <=> WarnedOfWrongly(v)

\* Every input that is a file is compiled, or rejected, or crashes the program: it ends.
EndsOnFiles == <>(stage \in Ended \/ source = "standard input")

-----------------------------------------------------------------------------
\* eaxhla.c: "the value '%lld' will overflow in assignement", of every value that does.
LossIsWarnedOf == \A i \in DOMAIN declared : Lost(declared[i], Followed(i)) => Warned(declared[i])

=============================================================================
