------------------------------ MODULE Compiler ------------------------------
(***************************************************************************)
(* The front end and the assembler together: every reduction of the        *)
(* grammar is a step of Frontend and of Assembler at once, which share     *)
(* nothing but the tokens it appends.                                      *)
(*                                                                         *)
(* `source' is not in the code: it is the text that was read, an item for  *)
(* each reduction, and has the meaning Language gives it.  The frontend    *)
(* names things with ids and the assembler gives ids places, and what      *)
(* comes out is to be the listing of the text.                             *)
(*                                                                         *)
(* Only inputs without an error get this far, so that the steps that       *)
(* report one are left out here.  So are the operands that Frontend shows  *)
(* to mean nothing (an address in braces, [x + n]) and the jumps whose     *)
(* fields Assembler shows to be too short (`loop').                        *)
(***************************************************************************)
EXTENDS Language

CONSTANTS
    \* Those of Frontend.
    Parts, BlockNames, VariableNames, LabelNames, Systems, Levels, ArraySizes, Lengths, Plain,
    MaxRepeat, MaxIf, MaxDepth, MaxGroups,
    \* That of Assembler.
    Ids

ASSUME ElementsAssumption == ArraySizes \subseteq Int /\ Lengths \subseteq Nat

VARIABLES
    state, unit, frames, scope, symbols, symbol_id, unresolved_label_counter,
    repeat_stack, repeat_stack_empty_top, if_stack, if_stack_empty_top,
    has_encountered_error, is_program_found, anon_variable_counter, system_type, tokens,
    phase, token_array, index, text_sector_byte, empty_holes, empty_store, patched,
    main_entry_point, statements, starts, built, listing,
    source

F == INSTANCE Frontend WITH Addresses <- {}

\* Whatever the frontend appends: what it may be is left to it.
A == INSTANCE Assembler WITH
        Reductions <- {}, Variables <- {}, MaxStatements <- 100, MaxVariables <- 100

vars_of_frontend ==
    <<state, unit, frames, scope, symbols, symbol_id, unresolved_label_counter,
      repeat_stack, repeat_stack_empty_top, if_stack, if_stack_empty_top,
      has_encountered_error, is_program_found, anon_variable_counter, system_type, tokens>>
vars_of_assembler ==
    <<phase, token_array, index, text_sector_byte, empty_holes, empty_store, patched,
      main_entry_point, statements, starts, built, listing>>
vars == <<vars_of_frontend, vars_of_assembler, source>>

Init == F!Init /\ A!Init /\ source = <<>>

-----------------------------------------------------------------------------
(***************************************************************************)
(* The tokens of a construct in full: Frontend keeps the ids alone.        *)
(***************************************************************************)
\* The jump of a condition: JNE, JNL (which is JGE), JNG (which is JLE).
\* Mutant: the condition jumps if it holds.
Uninverted(logic) == CASE logic = "=" -> JE [] logic = "<" -> JE + 8 [] logic = ">" -> JE + 11
Inverted(logic)   == CASE logic = "=" -> JE + 1 [] logic = "<" -> JE + 9 [] logic = ">" -> JE + 10

StatementsOf(token, name, number) ==
    CASE token.op = "ASMDIRMEM" -> <<<<ASMDIRMEM, token.id>>>>
      [] token.op = "CMP"  -> <<<<CMP, D32, REG, 1, REG, 3>>>>
      [] token.op = "JCC"  -> <<<<Inverted(name), D32, REL, token.id>>>>
      [] token.op = "JMP"  -> <<<<JMP, D32, REL, token.id>>>>
      [] token.op = "CALL" -> <<<<CALL, REL, token.id>>>>
      [] token.op = "MEM"  -> <<<<INC, D32, MEM, token.id>>>>
      [] token.op = "REL"  -> <<<<MOV, D32, REG, 6, REL, token.id>>>>
      [] token.op = "RETN" -> <<<<RETN>>>>
      [] token.op = "PLAIN" /\ token.by = "exit" ->
            <<<<MOV, D32, REG, 0, IMM, 60>>, <<MOV, D32, REG, 7, IMM, number>>, <<SYSCALL>>>>
      [] token.op = "PLAIN" /\ token.by # "exit" -> <<<<NOP>>>>

\* What a step of the frontend appended.
Appended(name, number) ==
    LET new == SubSeq(tokens', Len(tokens) + 1, Len(tokens'))
    IN  FlattenSeq([k \in DOMAIN new |-> StatementsOf(new[k], name, number)])

\* An item of the text is read.
Read(op, name, number) ==
    /\ ~has_encountered_error'
    /\ source' = Append(source, Item(op, name, number))
    /\ A!AppendInstructions(Appended(name, number))

-----------------------------------------------------------------------------
ReadUnit ==
    \/ \E name \in BlockNames :
          \/ \E system \in Systems : F!ProgramHead(system, name) /\ Read("program", name, 0)
          \/ F!ProcedureHead(name) /\ Read("procedure", name, 0)
    \/ F!Begin /\ Read("begin", F!NULL, 0)
    \/ F!EndUnit /\ Read("end " \o unit, F!NULL, 0)

ReadVariable ==
    \E name \in VariableNames, d \in F!Declarations :
        F!AddVariable(name, d) /\ Read("variable", name, d.elements)

ReadBlock ==
    \/ F!AddRepeat /\ Read("repeat", F!NULL, 0)
    \/ F!FinRepeat /\ Read("end repeat", F!NULL, 0)
    \/ \E i \in Levels :
          \/ F!AddContinue(i) /\ Read("continue", F!NULL, i)
          \/ F!AddBreak(i) /\ Read("break", F!NULL, i)
    \/ F!AddIf /\ Read("if", F!NULL, 0)
    \/ \E logic \in Conditions : F!AddLogic /\ Read("condition", logic, 0)
    \/ F!Then /\ Read("then", F!NULL, 0)
    \/ F!FinIf /\ Read("end if", F!NULL, 0)

ReadReference ==
    \/ \E name \in LabelNames :
          \/ F!AddLabel(name) /\ Read("label", name, 0)
          \/ F!Jump("JMP", name) /\ Read("jump", name, 0)
    \/ \E name \in BlockNames : F!AddFastcall(name, 0) /\ Read("fastcall", name, 0)
    \/ \E name \in VariableNames :
          \/ F!Operand("MEM", name) /\ Read("increment", name, 0)
          \/ F!Operand("REL", name) /\ Read("address", name, 0)

ReadPlain ==
    \/ F!Instruction /\ Read("nop", F!NULL, 0)
    \/ system_type = "UNIX" /\ F!AddExit(F!NULL) /\ Read("exit", F!NULL, 3)

\* main: compile follows the parser, if there was no error.
Compile ==
    /\ F!FinHla /\ ~has_encountered_error'
    /\ A!Compile
    /\ UNCHANGED source

\* The elements of every variable are 1, 2 and so on.
DumpVariable ==
    /\ \E k \in DOMAIN symbols :
          LET n == symbols[k].elements
          IN  /\ F!DumpVariable(k)
              /\ A!DumpVariable([id |-> symbols[k].id,
                                 data |-> <<ASMDIRIMM, D16, n>> \o [e \in 1 .. n |-> e]])
    /\ UNCHANGED source

Assemble ==
    /\ F!EndDump
    /\ A!Assemble
    /\ UNCHANGED source

Assembling ==
    /\ state = "done"
    /\ \/ A!StoreMemory \/ A!StoreImmediate \/ A!BuildInstruction
       \/ A!EndBuild \/ A!Patch \/ A!EndLink
    /\ UNCHANGED <<vars_of_frontend, source>>

Halted == phase \in A!Final /\ UNCHANGED vars

Next ==
    \/ ReadUnit \/ ReadVariable \/ ReadBlock \/ ReadReference \/ ReadPlain
    \/ Compile \/ DumpVariable \/ Assemble \/ Assembling
    \/ Halted

Spec == Init /\ [][Next]_vars

-----------------------------------------------------------------------------
\* Names the frontend accepts and means nothing by: a label or a procedure that does not
\* come, a variable nobody declared, a label and a procedure of one name.
Dangling ==
    \/ F!Unresolved # {}
    \/ \E i \in DOMAIN tokens : tokens[i].by = "undeclared"
    \/ Ambiguous(source)

\* An accepted text, but for those, becomes code that does what the text says: loops and
\* conditions, nested in each other, jump to their own ends and beginnings, break and
\* continue leave the loop they name, labels are those of the own procedure, and variables
\* those of the own scope (eaxhla.c's ids and stacks, through the token array, assembled).
CompiledAsWritten ==
    phase = "done" /\ ~Dangling =>
        /\ \E order \in Orders(source) : listing = Listing(source, order)
        /\ \A entry \in Start(source) : A!Entry = entry

\* Ids of the frontend are never more than half as many as there are places for tokens: the
\* assembler's arrays of 1024 places last for the 1440 of the token array, which is why
\* nothing has to check an id against them (symbol_id against token_array and empty_store).
IdsFit ==
    phase \notin {"parse", "dump"} => 2 * (symbol_id - 1) <= Len(token_array)

=============================================================================
