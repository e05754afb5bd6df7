------------------------------ MODULE Frontend ------------------------------
(***************************************************************************)
(* The front end of the compiler: the symbol table, the loop and the       *)
(* condition stacks of eaxhla.c, driven by the grammar of eaxhla.y, up to  *)
(* the array of tokens that compile.c hands to the assembler.              *)
(*                                                                         *)
(* One action is one reduction of the grammar together with everything its *)
(* semantic action calls, or one error recovery of the parser.  The input  *)
(* program is the sequence of actions taken: any program over Names, and   *)
(* any malformed one, is a behaviour.                                      *)
(*                                                                         *)
(* Tokens are abstracted to one record per instruction appended: `op' says *)
(* what it is, `id' the symbol it defines or refers to, and `by' names     *)
(* what asked for it.  Registers, sizes and immediate values are left out: *)
(* no property of this module depends on them.                             *)
(***************************************************************************)
EXTENDS Integers, Sequences, FiniteSets

CONSTANTS
    \* Identifiers, each split at its underscores, and where the input uses them.
    Parts,       \* what stands between underscores, "" included
    BlockNames,  \* names of programs and procedures, and of what is called
    VariableNames, \* names declared and used as operands
    LabelNames,  \* names of labels and of what is jumped to
    Systems,     \* system specifiers in use: "UNIX", "SHELL"
    Levels,      \* integers that follow `continue' and `break', as the int they become
    ArraySizes,  \* declared numbers of elements
    Lengths,     \* lengths of the literals that initialise arrays
    Addresses,   \* values of an arithmetic block used as a memory operand
    Plain,       \* instructions without a label that the input uses: "machine", "exit"
    MaxRepeat,   \* MAX_REPEAT_NESTING
    MaxIf,       \* MAX_IF_NESTING
    MaxDepth,    \* bound: open `repeat' and `if' blocks of the input
    MaxGroups    \* bound: instructions after which nothing new is opened

Names == BlockNames \cup VariableNames \cup LabelNames

ASSUME NamesAssumption == "" \in Parts /\ Names \subseteq Seq(Parts) \ {<<>>}
\* An int, but for the least ones, whose distance from the top of a stack is none.
ASSUME LevelsAssumption == Levels \subseteq MaxRepeat - 2147483647 .. 2147483647
ASSUME AddressesAssumption == Addresses \subseteq Int
ASSUME ArraysAssumption == ArraySizes \subseteq Int /\ Lengths \subseteq Nat
ASSUME NestingAssumption == MaxRepeat \in Nat \ {0} /\ MaxIf \in Nat \ {0}
ASSUME BoundsAssumption == MaxDepth \in Nat /\ MaxGroups \in Nat
ASSUME SystemsAssumption == Systems \subseteq {"UNIX", "SHELL"}

VARIABLES
    \* what the parser's stack remembers of the input
    state,       \* "hla", "decl", "code"; then "dump" and "done"; or the name of
                 \* an object the code has misused, after which nothing is promised
    unit,        \* the open block: "program", "procedure" or "none"
    frames,      \* the open `repeat' and `if' blocks, outermost first
    \* the symbol table
    scope, symbols, symbol_id, unresolved_label_counter,
    \* the stacks behind `repeat' and `if'
    repeat_stack, repeat_stack_empty_top, if_stack, if_stack_empty_top,
    \* flags
    has_encountered_error, is_program_found, anon_variable_counter, system_type,
    \* the tokens appended to token_array
    tokens

parser == <<state, unit, frames>>
table  == <<scope, symbols, symbol_id, unresolved_label_counter>>
loops  == <<repeat_stack, repeat_stack_empty_top>>
ifs    == <<if_stack, if_stack_empty_top>>
flags  == <<has_encountered_error, is_program_found, anon_variable_counter, system_type>>
vars   == <<parser, table, loops, ifs, flags, tokens>>

Faults == {"repeat_stack", "if_stack", "array_value"}

-----------------------------------------------------------------------------
(***************************************************************************)
(* Symbols.  `word' is the first word of the union in symbol_t: the type   *)
(* token of a variable, the is_resolved flag of a label.  A variable's     *)
(* `payload' is the other member of the union: a number, a null pointer or *)
(* a pointer to a literal of `length' bytes.                               *)
(***************************************************************************)
NULL == <<>>

TYPE_TOKEN == 258        \* the first token number bison gives; every type is one
LABEL_SYMBOL == 1

Payloads == {"number", "null", "literal"}

NewSymbol(kind, word, id, elements, payload, length) ==
    [kind |-> kind, word |-> word, id |-> id,
     elements |-> elements, payload |-> payload, length |-> length]

NewLabel(resolved, id) ==
    NewSymbol("label", IF resolved THEN 1 ELSE 0, id, 0, "null", 0)

\* Mutant: the flag compared with true.
IsResolvedExactly(symbol) == symbol.word = 1
IsResolved(symbol) == symbol.word # 0

MakeScopedName(s, name) == IF s = NULL THEN name ELSE <<"", "">> \o s \o name

\* Mutant: the variables of a scope are not found.
KnownUnscoped(key) == key \in DOMAIN symbols /\ Len(key) = 1
Known(key) == key \in DOMAIN symbols

\* get_symbol: the global name wins over the one of the current scope.
GetSymbol(s, name) == IF Known(name) THEN name ELSE MakeScopedName(s, name)

SymbolInsert(key, symbol) ==
    /\ symbols' = [k \in DOMAIN symbols \cup {key} |->
                        IF k = key THEN symbol ELSE symbols[k]]
    /\ symbol_id' = symbol_id + 1

IssueError == has_encountered_error' = TRUE

ErrorIf(condition) ==
    has_encountered_error' = (has_encountered_error \/ condition)

-----------------------------------------------------------------------------
(***************************************************************************)
(* Tokens.                                                                 *)
(***************************************************************************)
Token(op, id, by) == [op |-> op, id |-> id, by |-> by]

Def(id, by)     == Token("ASMDIRMEM", id, by)
Ref(op, id, by) == Token(op, id, by)

Append1(t)    == tokens' = Append(tokens, t)
Append2(t, u) == tokens' = Append(Append(tokens, t), u)

Room == Len(tokens) < MaxGroups

-----------------------------------------------------------------------------
Init ==
    /\ state = "hla" /\ unit = "none" /\ frames = <<>>
    /\ scope = NULL /\ symbols = <<>> /\ symbol_id = 1
    /\ unresolved_label_counter = 0
    /\ repeat_stack = [i \in 0 .. MaxRepeat - 1 |-> 0] /\ repeat_stack_empty_top = 0
    /\ if_stack = [i \in 0 .. MaxIf - 1 |-> 0] /\ if_stack_empty_top = 0
    /\ has_encountered_error = FALSE /\ is_program_found = FALSE
    /\ anon_variable_counter = 0 /\ system_type = "UNIX"
    /\ tokens = <<>>

-----------------------------------------------------------------------------
(***************************************************************************)
(* Blocks.                                                                 *)
(***************************************************************************)
\* program_head: a second program block is an error, and still gets its label.
ProgramHead(system, name) ==
    /\ state = "hla" /\ Room
    /\ state' = "decl" /\ unit' = "program"
    /\ scope' = name
    /\ system_type' = system
    /\ ErrorIf(is_program_found)
    /\ is_program_found' = TRUE
    /\ Append1(Def(0, "program"))
    /\ UNCHANGED <<frames, symbols, symbol_id, unresolved_label_counter, loops, ifs,
                   anon_variable_counter>>

\* function_head: the scope changes before the name is looked up.
ProcedureHead(name) ==
    /\ state = "hla" /\ Room
    /\ state' = "decl" /\ unit' = "procedure"
    /\ scope' = name
    /\ \/ /\ Known(GetSymbol(name, name))
          /\ IssueError
          /\ UNCHANGED <<symbols, symbol_id, tokens>>
       \/ /\ ~Known(GetSymbol(name, name))
          /\ SymbolInsert(name, NewLabel(TRUE, symbol_id))
          /\ Append1(Def(symbol_id, "procedure"))
          /\ UNCHANGED has_encountered_error
    /\ UNCHANGED <<frames, unresolved_label_counter, loops, ifs, is_program_found,
                   anon_variable_counter, system_type>>

Begin ==
    /\ state = "decl"
    /\ state' = "code"
    /\ UNCHANGED <<unit, frames, table, loops, ifs, flags, tokens>>

\* `end program', `end procedure': only a procedure is closed by an instruction.
EndUnit ==
    /\ state = "code" /\ frames = <<>>
    /\ state' = "hla" /\ unit' = "none"
    /\ IF unit = "procedure"
       THEN Append1(Token("RETN", 0, "procedure"))
       ELSE UNCHANGED tokens
    /\ UNCHANGED <<frames, table, loops, ifs, flags>>

\* The file ends between two blocks: fin_hla looks for labels never resolved,
\* if a literal argument was ever stored, and compares the wrong word with
\* LABEL_SYMBOL.
UnresolvedCheck ==
    \E k \in DOMAIN symbols :
        symbols[k].word = LABEL_SYMBOL /\ ~IsResolved(symbols[k])

FinHla ==
    /\ state = "hla"
    /\ ErrorIf(anon_variable_counter > 0 /\ UnresolvedCheck)
    /\ state' = IF has_encountered_error' THEN "done" ELSE "dump"
    /\ UNCHANGED <<unit, frames, table, loops, ifs, is_program_found,
                   anon_variable_counter, system_type, tokens>>

-----------------------------------------------------------------------------
(***************************************************************************)
(* Errors of the scanner and of the parser.  `error' is a production of    *)
(* `code' and of `declaration_section' only: anywhere else, and at the end *)
(* of the file, the parser gives up without calling fin_hla.  Inside       *)
(* `code' the parser drops the construct it was reading; the header of an  *)
(* `if' is such a construct, and add_if has already run for it.            *)
(***************************************************************************)
InHeader == frames # <<>> /\ frames[Len(frames)].at # "body"

Pop(s) == SubSeq(s, 1, Len(s) - 1)

SyntaxError ==
    /\ state \in {"decl", "code"}
    /\ IssueError
    /\ frames' = IF InHeader THEN Pop(frames) ELSE frames
    /\ UNCHANGED <<state, unit, table, loops, ifs, is_program_found,
                   anon_variable_counter, system_type, tokens>>

\* A character the scanner does not know is reported and skipped.
UnknownSymbol ==
    /\ state \in {"hla", "decl", "code"}
    /\ IssueError
    /\ UNCHANGED <<parser, table, loops, ifs, is_program_found,
                   anon_variable_counter, system_type, tokens>>

Abort ==
    /\ state \in {"hla", "decl", "code"}
    /\ IssueError
    /\ state' = "done"
    /\ UNCHANGED <<unit, frames, table, loops, ifs, is_program_found,
                   anon_variable_counter, system_type, tokens>>

-----------------------------------------------------------------------------
(***************************************************************************)
(* Declarations.                                                           *)
(***************************************************************************)
Declaration(elements, payload, length) ==
    [elements |-> elements, payload |-> payload, length |-> length]

\* The five forms of `declaration'; a single element shares the union's word
\* with the pointer, and an absent array value is the number 0.
Declarations ==
    {Declaration(1, "number", 0)} \cup
    {Declaration(n, IF n = 1 THEN "number" ELSE "null", 0) : n \in ArraySizes} \cup
    {Declaration(n, "literal", l) : n \in ArraySizes, l \in Lengths} \cup
    {Declaration(l, "literal", l) : l \in Lengths}

AddVariable(name, d) ==
    /\ state = "decl"
    /\ \/ /\ Known(GetSymbol(scope, name))
          /\ IssueError
          /\ UNCHANGED <<symbols, symbol_id>>
       \/ /\ ~Known(GetSymbol(scope, name))
          /\ SymbolInsert(MakeScopedName(scope, name),
                          NewSymbol("variable", TYPE_TOKEN, symbol_id,
                                    d.elements, d.payload, d.length))
          /\ ErrorIf(d.elements < 1)
    /\ UNCHANGED <<parser, scope, unresolved_label_counter, loops, ifs, is_program_found,
                   anon_variable_counter, system_type, tokens>>

-----------------------------------------------------------------------------
(***************************************************************************)
(* `repeat' and `if'.                                                      *)
(***************************************************************************)
Frame(kind, id, at) == [kind |-> kind, id |-> id, at |-> at]

NoId == 0

\* A stack grows at `empty_top', and is popped by one.
\* Mutant: the decrement lost.
NotPopped(top) == top
Popped(top) == top - 1

\* Two ids for each loop, the second for its end.
\* Mutants: one id taken; the end at the start.
OneLoopId == 1
LoopIds == 2
SameEnd(id) == id
EndOf(id) == id + 1

\* Where an item of `code' may stand.
AtItem == state = "code" /\ ~InHeader

Top(kind, at) ==
    /\ state = "code"
    /\ frames # <<>>
    /\ frames[Len(frames)].kind = kind
    /\ frames[Len(frames)].at = at

Opening == AtItem /\ Room /\ Len(frames) < MaxDepth

\* Mutant: the limit off by one.
RepeatOverfull == repeat_stack_empty_top = MaxRepeat + 1
RepeatFull == repeat_stack_empty_top = MaxRepeat

\* A loop beyond the limit is an error: nothing is pushed for it, and its body
\* is parsed all the same.
AddRepeat ==
    /\ Opening
    /\ \/ /\ RepeatFull
          /\ IssueError
          /\ frames' = Append(frames, Frame("repeat", NoId, "body"))
          /\ UNCHANGED <<loops, symbol_id, tokens>>
       \/ /\ ~RepeatFull
          /\ Append1(Def(symbol_id, "repeat"))
          /\ repeat_stack' = [repeat_stack EXCEPT ![repeat_stack_empty_top] = symbol_id]
          /\ repeat_stack_empty_top' = repeat_stack_empty_top + 1
          /\ symbol_id' = symbol_id + LoopIds
          /\ frames' = Append(frames, Frame("repeat", symbol_id, "body"))
          /\ UNCHANGED has_encountered_error
    /\ UNCHANGED <<state, unit, scope, symbols, unresolved_label_counter, ifs,
                   is_program_found, anon_variable_counter, system_type>>

\* fin_repeat pops whether or not its `repeat' has pushed.
FinRepeat ==
    /\ Top("repeat", "body")
    /\ frames' = Pop(frames)
    /\ repeat_stack_empty_top' = Popped(repeat_stack_empty_top)
    /\ IF repeat_stack_empty_top' \in DOMAIN repeat_stack
       THEN LET id == repeat_stack[repeat_stack_empty_top'] IN
            /\ Append2(Ref("JMP", id, "repeat"), Def(EndOf(id), "end repeat"))
            /\ UNCHANGED state
       ELSE state' = "repeat_stack" /\ UNCHANGED tokens
    /\ UNCHANGED <<unit, table, repeat_stack, ifs, flags>>

\* The entry of the i-th loop from the inside.  The number is checked as an int, and
\* against the outermost loop only; it indexes as an unsigned, and a negative one is so
\* large then that the entry is far before the array.  The 0-th loop is behind the top.
\* Mutants: the entry off by one; only an empty stack checked.
FAR_BEFORE == -1
LoopIndexBelow(i) == IF i < 0 THEN FAR_BEFORE ELSE repeat_stack_empty_top - i - 1
LoopIndex(i) == IF i < 0 THEN FAR_BEFORE ELSE repeat_stack_empty_top - i
OutsideLoops(i) == repeat_stack_empty_top = 0
TooDeep(i) == repeat_stack_empty_top = 0 \/ repeat_stack_empty_top - i < 0

\* add_continue and add_break differ in the id they jump to.
JumpOut(i, target(_), by) ==
    /\ AtItem /\ Room
    /\ \/ /\ TooDeep(i)
          /\ IssueError
          /\ UNCHANGED <<tokens, state>>
       \/ /\ ~TooDeep(i)
          /\ IF LoopIndex(i) \in DOMAIN repeat_stack
             THEN /\ Append1(Ref("JMP", target(repeat_stack[LoopIndex(i)]),
                              IF i > 0 THEN by ELSE "stale"))
                  /\ UNCHANGED state
             ELSE state' = "repeat_stack" /\ UNCHANGED tokens
          /\ UNCHANGED has_encountered_error
    /\ UNCHANGED <<unit, frames, table, loops, ifs, is_program_found,
                   anon_variable_counter, system_type>>

StartOf(id) == id

AddContinue(i) == JumpOut(i, StartOf, "continue")
AddBreak(i)    == JumpOut(i, EndOf, "break")

\* add_if writes its stack without looking at MAX_IF_NESTING.
AddIf ==
    /\ Opening
    /\ frames' = Append(frames, Frame("if", symbol_id, "head"))
    /\ IF if_stack_empty_top \in DOMAIN if_stack
       THEN /\ if_stack' = [if_stack EXCEPT ![if_stack_empty_top] = symbol_id]
            /\ UNCHANGED state
       ELSE state' = "if_stack" /\ UNCHANGED if_stack
    /\ if_stack_empty_top' = if_stack_empty_top + 1
    /\ symbol_id' = symbol_id + 1
    /\ UNCHANGED <<unit, scope, symbols, unresolved_label_counter, loops, flags, tokens>>

\* The comparison and the inverted jump over the body.
AddLogic ==
    /\ Top("if", "head")
    /\ frames' = [frames EXCEPT ![Len(frames)].at = "condition"]
    /\ Append2(Token("CMP", 0, "if"), Ref("JCC", if_stack[if_stack_empty_top - 1], "if"))
    /\ UNCHANGED <<state, unit, table, loops, ifs, flags>>

Then ==
    /\ Top("if", "condition")
    /\ frames' = [frames EXCEPT ![Len(frames)].at = "body"]
    /\ UNCHANGED <<state, unit, table, loops, ifs, flags, tokens>>

FinIf ==
    /\ Top("if", "body")
    /\ frames' = Pop(frames)
    /\ if_stack_empty_top' = Popped(if_stack_empty_top)
    /\ Append1(Def(if_stack[if_stack_empty_top'], "end if"))
    /\ UNCHANGED <<state, unit, table, loops, if_stack, flags>>

-----------------------------------------------------------------------------
(***************************************************************************)
(* Labels and what refers to symbols.                                      *)
(***************************************************************************)
\* The symbol _add_label finds for a name: the scoped name is looked up as if
\* it were a name of the source.
LabelKey(name) == GetSymbol(scope, MakeScopedName(scope, name))

LabelId(name) == IF Known(LabelKey(name)) THEN symbols[LabelKey(name)].id ELSE symbol_id

\* Mutant: a resolved label counted.
CountEvery(resolved) == 1
Count(resolved) == IF resolved THEN 0 ELSE 1

\* _add_label: any unresolved symbol it finds becomes resolved, whoever asks.
NoteLabel(name, resolved) ==
    LET key == LabelKey(name) IN
    \/ /\ Known(key) /\ IsResolved(symbols[key])
       /\ IssueError
       /\ UNCHANGED <<symbols, symbol_id, unresolved_label_counter>>
    \/ /\ Known(key) /\ ~IsResolved(symbols[key])
       /\ symbols' = [symbols EXCEPT ![key].word = 1]
       /\ unresolved_label_counter' = unresolved_label_counter - 1
       /\ UNCHANGED <<symbol_id, has_encountered_error>>
    \/ /\ ~Known(key)
       /\ SymbolInsert(MakeScopedName(scope, name), NewLabel(resolved, symbol_id))
       /\ unresolved_label_counter' = unresolved_label_counter + Count(resolved)
       /\ UNCHANGED has_encountered_error

AddLabel(name) ==
    /\ AtItem /\ Room
    /\ NoteLabel(name, TRUE)
    /\ Append1(Def(LabelId(name), "label"))
    /\ UNCHANGED <<parser, scope, loops, ifs, is_program_found,
                   anon_variable_counter, system_type>>

\* `jmp', `je', `jne' and the `loop' family: a name nothing has declared yet
\* becomes an unresolved label of the current scope.
Jump(op, name) ==
    LET key == GetSymbol(scope, name) IN
    /\ AtItem /\ Room
    /\ \/ /\ Known(key)
          /\ Append1(Ref(op, symbols[key].id, "relative"))
          /\ UNCHANGED <<symbols, symbol_id, unresolved_label_counter, has_encountered_error>>
       \/ /\ ~Known(key)
          /\ NoteLabel(name, FALSE)
          /\ Append1(Ref(op, LabelId(name), "relative"))
    /\ UNCHANGED <<parser, scope, loops, ifs, is_program_found,
                   anon_variable_counter, system_type>>

\* get_variable knows names of the current scope only, and answers a name
\* nothing has declared with undeclared_symbol, whose id is 0.
VariableKey(name) == MakeScopedName(scope, name)

UNDECLARED == 0

\* `[x]' and `x' as operands.
Operand(op, name) ==
    LET key == VariableKey(name) IN
    /\ AtItem /\ Room
    /\ \/ /\ Known(key)
          /\ ErrorIf(symbols[key].kind # "variable")
          /\ Append1(Ref(op, symbols[key].id, "operand"))
       \/ /\ ~Known(key)
          /\ Append1(Ref(op, UNDECLARED, "undeclared"))
          /\ UNCHANGED has_encountered_error
    /\ UNCHANGED <<parser, table, loops, ifs, is_program_found,
                   anon_variable_counter, system_type>>

\* The value of `{...}' is taken for an id.
Address(id) ==
    /\ AtItem /\ Room
    /\ Append1(Ref("MEM", id, "block"))
    /\ UNCHANGED <<parser, table, loops, ifs, flags>>

\* `[x + 1]' and `[x - 1]' drop the name and the number.
Offset(name) ==
    /\ AtItem /\ Room
    /\ Append1(Ref("MEM", UNDECLARED, "offset"))
    /\ UNCHANGED <<parser, table, loops, ifs, flags>>

\* `fastcall' after its arguments, `literals' of which are strings.
AddFastcall(name, literals) ==
    LET key == GetSymbol(scope, name) IN
    /\ AtItem /\ Room
    /\ anon_variable_counter + literals <= MaxGroups
    /\ anon_variable_counter' = anon_variable_counter + literals
    /\ \/ /\ Known(key)
          /\ Append1(Ref("CALL", symbols[key].id, "fastcall"))
          /\ UNCHANGED has_encountered_error
       \/ /\ ~Known(key)
          /\ IssueError
          /\ UNCHANGED tokens
    /\ UNCHANGED <<parser, table, loops, ifs, is_program_found, system_type>>

\* An instruction without a symbol, or a machine code block.
Instruction ==
    /\ AtItem /\ Room /\ "machine" \in Plain
    /\ Append1(Token("PLAIN", 0, "instruction"))
    /\ UNCHANGED <<parser, table, loops, ifs, flags>>

\* `exit' with a number or with a variable; nothing is appended for a shell code.
AddExit(name) ==
    /\ AtItem /\ Room /\ "exit" \in Plain
    /\ ErrorIf(name # NULL /\ Known(VariableKey(name))
               /\ symbols[VariableKey(name)].kind # "variable")
    /\ IF system_type = "UNIX" THEN Append1(Token("PLAIN", 0, "exit")) ELSE UNCHANGED tokens
    /\ UNCHANGED <<parser, table, loops, ifs, is_program_found,
                   anon_variable_counter, system_type>>

-----------------------------------------------------------------------------
(***************************************************************************)
(* dump_variables_to_assembler: compile.c appends every variable to the    *)
(* tokens, in the order of the hash table.                                 *)
(***************************************************************************)
\* Mutant: the arrays forgotten.
Scalars == {k \in DOMAIN symbols : symbols[k].kind = "variable" /\ symbols[k].elements = 1}
Variables == {k \in DOMAIN symbols : symbols[k].kind = "variable"}

Dumped(k) == \E i \in DOMAIN tokens : tokens[i] = Def(symbols[k].id, "variable")

\* Bytes read through a pointer are those of the literal behind it.
Readable(symbol) ==
    symbol.elements = 1 \/ (symbol.payload = "literal" /\ symbol.elements <= symbol.length)

DumpVariable(k) ==
    /\ state = "dump"
    /\ k \in Variables /\ ~Dumped(k)
    /\ IF Readable(symbols[k])
       THEN /\ Append2(Def(symbols[k].id, "variable"),
                       Token("ASMDIRIMM", symbols[k].elements, symbols[k].payload))
            /\ UNCHANGED state
       ELSE state' = "array_value" /\ UNCHANGED tokens
    /\ UNCHANGED <<unit, frames, table, loops, ifs, flags>>

EndDump ==
    /\ state = "dump" /\ \A k \in Variables : Dumped(k)
    /\ state' = "done"
    /\ UNCHANGED <<unit, frames, table, loops, ifs, flags, tokens>>

-----------------------------------------------------------------------------
Step ==
    \/ \E name \in BlockNames :
          \/ \E system \in Systems : ProgramHead(system, name)
          \/ ProcedureHead(name)
          \/ \E literals \in 0 .. 1 : AddFastcall(name, literals)
    \/ \E name \in VariableNames :
          \/ \E d \in Declarations : AddVariable(name, d)
          \/ \E op \in {"MEM", "REL"} : Operand(op, name)
          \/ Offset(name)
    \/ \E name \in LabelNames :
          \/ AddLabel(name)
          \/ \E op \in {"JMP", "LOOP"} : Jump(op, name)
    \/ \E id \in Addresses : Address(id)
    \/ \E i \in Levels : AddContinue(i) \/ AddBreak(i)
    \/ Begin \/ EndUnit \/ FinHla
    \/ SyntaxError \/ UnknownSymbol \/ Abort
    \/ AddRepeat \/ FinRepeat
    \/ AddIf \/ AddLogic \/ Then \/ FinIf
    \/ Instruction
    \/ \E name \in VariableNames \cup {NULL} : AddExit(name)
    \/ \E k \in DOMAIN symbols : DumpVariable(k)
    \/ EndDump

Halted == state \in Faults \cup {"done"} /\ UNCHANGED vars

Next == Step \/ Halted

Spec == Init /\ [][Next]_vars

-----------------------------------------------------------------------------
(***************************************************************************)
(* Properties.                                                             *)
(***************************************************************************)
Symbol == [kind : {"variable", "label"}, word : Nat, id : Nat, elements : Int,
           payload : Payloads, length : Nat]

Operations == {"ASMDIRMEM", "ASMDIRIMM", "JMP", "JCC", "LOOP", "CALL", "MEM", "REL", "CMP",
               "RETN", "PLAIN"}

Frames == Seq([kind : {"repeat", "if"}, id : Nat, at : {"head", "condition", "body"}])

ParserTypeOK ==
    /\ state \in {"hla", "decl", "code", "dump", "done"} \cup Faults
    /\ unit \in {"none", "program", "procedure"}
    /\ frames \in Frames

TableTypeOK ==
    /\ scope \in BlockNames \cup {NULL}
    /\ symbols \in [DOMAIN symbols -> Symbol]
    /\ DOMAIN symbols \subseteq Seq(Parts)
    /\ symbol_id \in Nat \ {0}
    /\ unresolved_label_counter \in Int

StacksTypeOK ==
    /\ repeat_stack \in [0 .. MaxRepeat - 1 -> Nat]
    /\ repeat_stack_empty_top \in -1 .. MaxRepeat
    /\ if_stack \in [0 .. MaxIf - 1 -> Nat]
    /\ if_stack_empty_top \in 0 .. MaxIf + 1

FlagsTypeOK ==
    /\ has_encountered_error \in BOOLEAN /\ is_program_found \in BOOLEAN
    /\ anon_variable_counter \in Nat
    /\ system_type \in {"UNIX", "SHELL"}

Reasons == {"program", "procedure", "repeat", "end repeat", "continue", "break", "stale", "if",
            "end if", "label", "relative", "operand", "undeclared", "block", "offset", "fastcall",
            "instruction", "exit", "variable"} \cup Payloads

TokensTypeOK == tokens \in Seq([op : Operations, id : Int, by : Reasons])

\* Types of everything in eaxhla.c; the two tops are size_t in the code, and
\* -1 stands for the wrapped value that fin_repeat can leave.
TypeOK == ParserTypeOK /\ TableTypeOK /\ StacksTypeOK /\ FlagsTypeOK /\ TokensTypeOK

\* The input was accepted and nothing was misused on the way.
Accepted == state \in {"dump", "done"} /\ ~has_encountered_error

\* How many blocks of a kind are open up to the j-th.
Opened(fs, kind, j) == Cardinality({i \in 1 .. j : fs[i].kind = kind})
Depth(kind, j) == Opened(frames, kind, j)

\* The tops stay inside their stacks until the code has misused them, and every
\* open `if' has an entry of its own, whatever was reported.
StacksInRange ==
    /\ state # "if_stack" => if_stack_empty_top <= MaxIf
    /\ state # "repeat_stack" => repeat_stack_empty_top >= 0
    /\ Depth("if", Len(frames)) <= if_stack_empty_top

(***************************************************************************)
(* add_repeat, fin_repeat, add_if and fin_if against the parser's own      *)
(* stack: as long as nothing was reported, the two stacks hold exactly the *)
(* ids of the open blocks, in their order.                                 *)
(***************************************************************************)
StacksMatchFrames ==
    ~has_encountered_error /\ state \notin Faults =>
        /\ repeat_stack_empty_top = Depth("repeat", Len(frames))
        /\ if_stack_empty_top = Depth("if", Len(frames))
        /\ \A j \in DOMAIN frames :
              frames[j].id = IF frames[j].kind = "repeat"
                             THEN repeat_stack[Depth("repeat", j) - 1]
                             ELSE if_stack[Depth("if", j) - 1]

(***************************************************************************)
(* `continue i' and `break i' without a diagnostic jump to the start, and  *)
(* past the end, of the i-th loop around them, counted from the inside.    *)
(***************************************************************************)
JumpTo(id, i) ==
    \E j \in DOMAIN frames :
        /\ frames[j].kind = "repeat"
        /\ Depth("repeat", j) = Depth("repeat", Len(frames)) - i + 1
        /\ tokens'[Len(tokens')].id = id[j]

JumpsLeaveTheirLoop ==
    [][\A i \in Levels : i > 0 /\ ~has_encountered_error' =>
         /\ AddContinue(i) => JumpTo([j \in DOMAIN frames |-> frames[j].id], i)
         /\ AddBreak(i)    => JumpTo([j \in DOMAIN frames |-> frames[j].id + 1], i)]_vars

(***************************************************************************)
(* In an accepted program every loop and every condition is a block of the *)
(* token array: the label its jump needs comes exactly once, after it, and *)
(* no two blocks overlap without one containing the other.                 *)
(***************************************************************************)
Opens(i) ==
    \/ tokens[i].op = "JCC"
    \/ tokens[i].op = "ASMDIRMEM" /\ tokens[i].by = "repeat"

Closes(i, j) ==
    \/ tokens[i].op = "JCC" /\ tokens[j] = Def(tokens[i].id, "end if")
    \/ tokens[i].op = "ASMDIRMEM" /\ tokens[j] = Def(tokens[i].id + 1, "end repeat")

BlocksWellNested ==
    Accepted =>
        LET closer(i) == {j \in DOMAIN tokens : Closes(i, j)}
            openers == {i \in DOMAIN tokens : Opens(i)} IN
        /\ \A i \in openers : \E j \in closer(i) : closer(i) = {j} /\ i < j
        /\ \A a, b \in openers : \A c \in closer(a), d \in closer(b) :
              a < b /\ b < c => d < c

(***************************************************************************)
(* fin_repeat pops what its `repeat' may not have pushed, and break and    *)
(* continue index with a number of the input, whose sign the grammar       *)
(* leaves to eaxhla.c and eaxhla.c does not check.  As long as nothing was *)
(* reported, an access beside the loop stack is that of a `continue' or    *)
(* `break' of a negative level in a loop, or of level 0 in as many loops   *)
(* as there may be, and nothing else is; neither is reported.              *)
(***************************************************************************)
Beside(i) ==
    LET loop_depth == Depth("repeat", Len(frames)) IN
    \/ i < 0 /\ loop_depth > 0
    \/ i = 0 /\ loop_depth = MaxRepeat

LeavesLoops(i) == AddContinue(i) \/ AddBreak(i)

LoopStackMisuseKnown ==
    [][~has_encountered_error /\ state \notin Faults =>
         /\ \A i \in Levels : LeavesLoops(i) => (state' = "repeat_stack" <=> Beside(i))
         /\ state' = "repeat_stack" => \E i \in Levels : LeavesLoops(i)]_vars

(***************************************************************************)
(* No two things of an accepted prefix have one id: symbol_id is advanced  *)
(* by four functions, in steps of one and two, and an id is the only key   *)
(* the assembler has.                                                      *)
(***************************************************************************)
IdsOf(frame) == IF frame.kind = "repeat" /\ frame.id # NoId
                THEN {frame.id, frame.id + 1} ELSE {frame.id} \ {NoId}

IdsDistinct ==
    /\ \A k \in DOMAIN symbols : symbols[k].id \in 1 .. symbol_id - 1
    /\ \A k, l \in DOMAIN symbols : symbols[k].id = symbols[l].id => k = l
    /\ \A j \in DOMAIN frames :
          /\ IdsOf(frames[j]) \subseteq 1 .. symbol_id - 1
          /\ \A k \in DOMAIN symbols : symbols[k].id \notin IdsOf(frames[j])
          /\ \A i \in DOMAIN frames : i # j => IdsOf(frames[i]) \cap IdsOf(frames[j]) = {}

(***************************************************************************)
(* An id is given a place at most once, or an error was reported: labels   *)
(* are appended by seven functions, and the assembler keeps the last place *)
(* silently.                                                               *)
(***************************************************************************)
DefinedOnce ==
    ~has_encountered_error =>
        \A i, j \in DOMAIN tokens :
            tokens[i].op = "ASMDIRMEM" /\ tokens[j].op = "ASMDIRMEM"
            /\ tokens[i].id = tokens[j].id => i = j

(***************************************************************************)
(* unresolved_label_counter counts what its comment says: the labels that  *)
(* were jumped to and not declared so far.                                 *)
(***************************************************************************)
Unresolved == {k \in DOMAIN symbols : symbols[k].kind = "label" /\ ~IsResolved(symbols[k])}

UnresolvedCounted == unresolved_label_counter = Cardinality(Unresolved)

(***************************************************************************)
(* The whole of what an accepted program can leave dangling: every id the  *)
(* assembler is asked for was given a place by some token, unless it is an *)
(* unresolved label, an undeclared name, an address written by hand, or    *)
(* what the loop stack holds behind its top.                               *)
(***************************************************************************)
IsRef(token) == token.op \in {"JMP", "JCC", "LOOP", "CALL", "MEM", "REL"}

ReferencesHavePlaces ==
    Accepted /\ state = "done" =>
        \A i \in DOMAIN tokens :
            IsRef(tokens[i]) /\ tokens[i].by \notin {"undeclared", "offset", "block", "stale"} =>
                \/ \E j \in DOMAIN tokens :
                      tokens[j].op = "ASMDIRMEM" /\ tokens[j].id = tokens[i].id
                \/ \E k \in Unresolved : symbols[k].id = tokens[i].id

-----------------------------------------------------------------------------
(***************************************************************************)
(* What comments, tests and messages of the code say, and the code does    *)
(* not do.                                                                 *)
(***************************************************************************)
\* eaxhla.h: "Unresolved symbol errors are handled internally."  An accepted program has
\* neither labels that were jumped to and never declared, which eaxhla.c counts to check
\* "whether all labels [...] have been declared later in code", nor undeclared variables.
SymbolErrorsReported ==
    Accepted => Unresolved = {} /\ \A i \in DOMAIN tokens : tokens[i].by # "undeclared"

\* eaxhla.h: MAX_IF_NESTING, which no error message ever mentions.
IfStackInBounds == ~has_encountered_error => state # "if_stack"

=============================================================================
