------------------------------ MODULE Assembler ------------------------------
(***************************************************************************)
(* The assembler: assemble() of assembler.c, from the token array that the *)
(* parser and the dump of the variables filled (compile.c) to linked code. *)
(*                                                                         *)
(* A first pass hands the tokens to builders, one instruction or directive *)
(* at a time: a builder is given the place of its first token and says how *)
(* many more it took.  Nothing else divides the array into instructions,   *)
(* so a builder that takes too many or too few makes the next one read     *)
(* operands as operations.  The operand fields that refer to a symbol are  *)
(* written with a base and noted as holes; a second pass adds the place of *)
(* the symbol to each, four bytes at a time, whatever the field's width.   *)
(*                                                                         *)
(* `statements', `starts' and `built' are not in the code: the tokens as   *)
(* they were appended, where in the array each began, and where each       *)
(* instruction's code begins; `listing' is what the processor will make of *)
(* the finished code.  A hole's `width' is not kept by the code either.    *)
(***************************************************************************)
EXTENDS Encoding, X86, SequencesExt

CONSTANTS
    Reductions,     \* What one reduction of the parser may append: tuples of statements.
    Variables,      \* What the variables may be: their id and what follows it.
    Ids,            \* The ids empty_store has room for.
    MaxStatements,  \* Bounds the statements of a program.
    MaxVariables    \* Bounds its variables.

ASSUME IdsAssumption == 0 \in Ids /\ Ids \subseteq Nat

\* A statement as the actions of the grammar and dump_variable write it: as many tokens as
\* its operation has there, and for data its size, how many elements, and the elements.
Written(s) ==
    /\ s \in Seq(Int)
    /\ \/ Len(s) = 6 /\ s[1] \in (ADD .. CMP) \union (ROL .. SAR) \union {MOV}
       \/ Len(s) = 4 /\ s[1] \in (INC .. IDIV) \union {JMP, POP, PUSH}
                                \union (JO .. JG) \union (LOOP .. LOOPNE)
       \/ Len(s) = 3 /\ s[1] = CALL
       \/ Len(s) = 2 /\ s[1] = ASMDIRMEM
       \/ Len(s) = 1 /\ s[1] \in (NOP .. RETF) \union (SYSCALL .. FNCLEX)
       \/ Len(s) >= 3 /\ s[1] = ASMDIRIMM /\ s[3] = Len(s) - 3

ASSUME StatementsAssumption ==
    /\ \A group \in Reductions :
          group \in Seq(Seq(Int)) /\ \A i \in DOMAIN group : Written(group[i])
    /\ \A variable \in Variables :
          variable.id \in Int /\ Written(variable.data) /\ variable.data[1] = ASMDIRIMM

VARIABLES
    phase,              \* What runs: see Phases.
    token_array,        \* The tokens.
    index,              \* The token the first pass is at.
    text_sector_byte,   \* The code.
    empty_holes,        \* The fields to fill in.
    empty_store,        \* For each id, the offset it was placed at.
    patched,            \* How many of the holes are filled in.
    main_entry_point,   \* Where execution starts.
    statements,
    starts,
    built,
    listing

vars == <<phase, token_array, index, text_sector_byte, empty_holes, empty_store, patched,
          main_entry_point, statements, starts, built, listing>>

\* Assembling ends well, without having begun, by calling what is no builder, by using
\* an id empty_store has no room for, or behind the end of all memory.
Final  == {"done", "empty", "no_builder", "empty_store", "text_sector"}
Phases == {"parse", "dump", "build", "link"} \union Final

token_count == Len(token_array)

\* The arena hands out zeroes: what lies behind the last token.
Token(i) == IF i < token_count THEN token_array[i + 1] ELSE 0

array == [k \in 0 .. 6 |-> Token(index + k)]

-----------------------------------------------------------------------------
TypeOK ==
    /\ phase \in Phases
    /\ token_array \in Seq(Int)
    /\ index \in Nat
    /\ text_sector_byte \in Seq(0 .. 255)
    /\ empty_holes \in Seq([at : Nat, id : Int, width : {1, 2, 4}])
    /\ empty_store \in [Ids -> Nat]
    /\ patched \in 0 .. Len(empty_holes)
    /\ main_entry_point \in 0 .. Len(text_sector_byte)
    /\ built \in Seq([statement : Nat, at : Nat])

Init ==
    /\ phase = "parse"
    /\ token_array = <<>>
    /\ index = 0
    /\ text_sector_byte = <<>>
    /\ empty_holes = <<>>
    /\ empty_store = [id \in Ids |-> 0]
    /\ patched = 0
    /\ main_entry_point = 0
    /\ statements = <<>>
    /\ starts = <<>>
    /\ built = <<>>
    /\ listing = <<>>

-----------------------------------------------------------------------------
(***************************************************************************)
(* Filling the token array.                                                *)
(***************************************************************************)
unbuilt == <<index, text_sector_byte, empty_holes, empty_store, patched, main_entry_point,
             built, listing>>

\* Each statement is one call of _append_instructions.
Push(group) ==
    /\ token_array' = token_array \o FlattenSeq(group)
    /\ statements' = statements \o group
    /\ starts' = starts \o [k \in DOMAIN group |->
                              token_count + Len(FlattenSeq(SubSeq(group, 1, k - 1)))]

AppendInstructions(group) ==
    /\ phase = "parse"
    /\ Len(statements) + Len(group) <= MaxStatements
    /\ Push(group)
    /\ UNCHANGED <<phase, unbuilt>>

\* compile(), which starts with the variables of the symbol table.
Compile ==
    /\ phase = "parse"
    /\ phase' = "dump"
    /\ UNCHANGED <<token_array, statements, starts, unbuilt>>

DumpVariable(variable) ==
    /\ phase = "dump"
    /\ Cardinality({i \in DOMAIN statements : statements[i][1] = ASMDIRIMM}) < MaxVariables
    /\ \A i \in DOMAIN statements : statements[i] # <<ASMDIRMEM, variable.id>>
    /\ Push(<<<<ASMDIRMEM, variable.id>>, variable.data>>)
    /\ UNCHANGED <<phase, unbuilt>>

Assemble ==
    /\ phase = "dump"
    /\ phase' = IF token_count = 0 THEN "empty" ELSE "build"
    /\ UNCHANGED <<token_array, statements, starts, unbuilt>>

-----------------------------------------------------------------------------
(***************************************************************************)
(* The first pass.                                                         *)
(***************************************************************************)
\* A step of the loop: the builder of the token at `index' takes `skip' more.
\* Mutant: without the step of the loop itself.
BuildingShort(operations, skip) ==
    /\ phase = "build"
    /\ index < token_count
    /\ Token(index) \in operations
    /\ index' = index + skip
    /\ UNCHANGED <<phase, token_array, patched, main_entry_point, statements, starts,
                   listing>>

Building(operations, skip) ==
    /\ phase = "build"
    /\ index < token_count
    /\ Token(index) \in operations
    /\ index' = index + skip + 1
    /\ UNCHANGED <<phase, token_array, patched, main_entry_point, statements, starts,
                   listing>>

NoteBuilt == Append(built, [statement |-> index, at |-> Len(text_sector_byte)])

StoreMemory ==
    /\ array[1] \in Ids
    /\ Building({ASMDIRMEM}, 1)
    /\ empty_store' = [empty_store EXCEPT ![array[1]] = Len(text_sector_byte)]
    /\ UNCHANGED <<text_sector_byte, empty_holes, built>>

StoreRelative ==
    /\ Building({ASMDIRREL}, 1)
    /\ empty_holes' = Append(empty_holes,
                             [at |-> Len(text_sector_byte), id |-> array[1], width |-> 4])
    /\ UNCHANGED <<text_sector_byte, empty_store, built>>

StoreImmediate ==
    LET amount == array[2]
        element(i) == inset_immediate(TRUE, array[1], Token(index + 3 + i))
    IN  /\ amount >= 0
        /\ Building({ASMDIRIMM}, amount + 2)
        /\ text_sector_byte' =
            text_sector_byte \o FlattenSeq([i \in 1 .. amount |-> element(i - 1)])
        /\ built' = NoteBuilt
        /\ UNCHANGED <<empty_holes, empty_store>>

BuildInstruction ==
    LET result == build_instruction(array)
        field  == [at |-> Len(text_sector_byte) + Len(result.head), id |-> result.field.id,
                   width |-> result.field.width]
    IN  /\ Building(Instructions, result.skip)
        /\ text_sector_byte' = text_sector_byte \o Emitted(result, Len(text_sector_byte))
        /\ empty_holes' = IF result.field = NoField THEN empty_holes ELSE Append(empty_holes, field)
        /\ built' = NoteBuilt
        /\ UNCHANGED empty_store

\* The number of elements is unsigned: a negative one, which only a misread literal can be,
\* stands for two thousand million elements and more.
StoreEndlessly ==
    /\ phase = "build"
    /\ index < token_count
    /\ Token(index) = ASMDIRIMM
    /\ array[2] < 0
    /\ phase' = "text_sector"
    /\ UNCHANGED <<token_array, statements, starts, unbuilt>>

\* The directive without a builder, or a token the table does not reach.
NoBuilder ==
    /\ phase = "build"
    /\ index < token_count
    /\ Token(index) \notin Instructions \union {ASMDIRMEM, ASMDIRREL, ASMDIRIMM}
    /\ phase' = "no_builder"
    /\ UNCHANGED <<token_array, statements, starts, unbuilt>>

\* The store of a place under an id that is none.
StoreElsewhere ==
    /\ phase = "build"
    /\ index < token_count
    /\ Token(index) = ASMDIRMEM
    /\ array[1] \notin Ids
    /\ phase' = "empty_store"
    /\ UNCHANGED <<token_array, statements, starts, unbuilt>>

EndBuild ==
    /\ phase = "build"
    /\ index >= token_count
    /\ phase' = "link"
    /\ main_entry_point' = empty_store[0]
    /\ UNCHANGED <<token_array, index, text_sector_byte, empty_holes, empty_store, patched,
                   statements, starts, built, listing>>

-----------------------------------------------------------------------------
(***************************************************************************)
(* The code that was made, read back.                                      *)
(***************************************************************************)
DATA_START == \h4010b0

\* The entry of the listing at an offset of the text, 0 if none begins there.
PlaceAt(offset) ==
    IF offset = Len(text_sector_byte) \/ \E i \in DOMAIN built : built[i].at = offset
    THEN 1 + Cardinality({i \in DOMAIN built : built[i].at < offset})
    ELSE 0

\* An operand of the code as one of the listing: with places for offsets and addresses.
Located(operand) ==
    CASE operand[1] \in {"memory", "code"} -> <<operand[1], PlaceAt(operand[2])>>
      [] operand[1] = "immediate" /\ Len(operand[2]) = 4 ->
            LET place == PlaceAt(Signed32(operand[2]) - DATA_START)
            IN  IF place = 0 THEN operand ELSE AddressOf(place)
      [] OTHER -> operand

\* The i-th entry of the listing, if it is as long as what was emitted for it.
Read(i) ==
    LET begin == built[i].at
        end   == IF i < Len(built) THEN built[i + 1].at ELSE Len(text_sector_byte)
        code  == Decode(text_sector_byte, begin)
        tokens == built[i].statement
    IN  IF Token(tokens) = ASMDIRIMM
        THEN Means(ASMDIRIMM, Token(tokens + 1),
                   <<Immediate(SubSeq(text_sector_byte, begin + 1, end))>>)
        ELSE IF code.length = end - begin
        THEN Means(code.operation, code.size,
                   [k \in DOMAIN code.operands |-> Located(code.operands[k])])
        ELSE Means(OPERATION_END, D8, <<>>)

-----------------------------------------------------------------------------
(***************************************************************************)
(* The second pass.                                                        *)
(***************************************************************************)
\* The four bytes at `at' of the text plus `store', as one 32 bit number.
\* Mutant: the sum of the upper half not cut to its width.
AddedUncut(text, at, store) ==
    LET byte(k) == IF at + k < Len(text) THEN text[at + k + 1] ELSE 0
        low  == byte(0) + (256 * byte(1)) + (store % 65536)
        high == byte(2) + (256 * byte(3)) + (store \div 65536) + (low \div 65536)
    IN  <<low % 256, (low \div 256) % 256, high % 256, high \div 256>>

Added(text, at, store) ==
    LET byte(k) == IF at + k < Len(text) THEN text[at + k + 1] ELSE 0
        low  == byte(0) + (256 * byte(1)) + (store % 65536)
        high == byte(2) + (256 * byte(3)) + (store \div 65536) + (low \div 65536)
    IN  <<low % 256, (low \div 256) % 256, high % 256, (high \div 256) % 256>>

\* The text with that number in place; what is written behind its end is not output.
\* Mutant: one byte too far.
PatchedBehind(text, at, store) ==
    LET sum == Added(text, at + 1, store)
    IN  [i \in DOMAIN text |-> IF i - 2 - at \in 0 .. 3 THEN sum[i - 1 - at] ELSE text[i]]

Patched(text, at, store) ==
    LET sum == Added(text, at, store)
    IN  [i \in DOMAIN text |-> IF i - 1 - at \in 0 .. 3 THEN sum[i - at] ELSE text[i]]

Patch ==
    /\ phase = "link"
    /\ patched < Len(empty_holes)
    /\ empty_holes[patched + 1].id \in Ids
    /\ LET hole == empty_holes[patched + 1]
       IN  text_sector_byte' = Patched(text_sector_byte, hole.at, empty_store[hole.id])
    /\ patched' = patched + 1
    /\ UNCHANGED <<phase, token_array, index, empty_holes, empty_store, main_entry_point,
                   statements, starts, built, listing>>

PatchElsewhere ==
    /\ phase = "link"
    /\ patched < Len(empty_holes)
    /\ empty_holes[patched + 1].id \notin Ids
    /\ phase' = "empty_store"
    /\ UNCHANGED <<token_array, statements, starts, unbuilt>>

EndLink ==
    /\ phase = "link"
    /\ patched = Len(empty_holes)
    /\ phase' = "done"
    /\ listing' = [i \in DOMAIN built |-> Read(i)]
    /\ UNCHANGED <<token_array, index, text_sector_byte, empty_holes, empty_store, patched,
                   main_entry_point, statements, starts, built>>

-----------------------------------------------------------------------------
Step ==
    \/ \E group \in Reductions : AppendInstructions(group)
    \/ \E variable \in Variables : DumpVariable(variable)
    \/ Compile \/ Assemble
    \/ StoreMemory \/ StoreRelative \/ StoreImmediate \/ BuildInstruction \/ NoBuilder
    \/ StoreElsewhere \/ StoreEndlessly \/ EndBuild \/ Patch \/ PatchElsewhere \/ EndLink

Halted == phase \in Final /\ UNCHANGED vars

Next == Step \/ Halted

Spec == Init /\ [][Next]_vars

-----------------------------------------------------------------------------
(***************************************************************************)
(* The abstract specification.                                             *)
(***************************************************************************)
Entry == IF phase = "done" THEN PlaceAt(main_entry_point) ELSE 0

AppendedGroups ==
    Reductions \union
        {<<<<ASMDIRMEM, variable.id>>, variable.data>> : variable \in Variables}

Promised == INSTANCE Assembly WITH
    Groups <- AppendedGroups, program <- statements, listing <- listing, entry <- Entry

-----------------------------------------------------------------------------
(***************************************************************************)
(* Properties.                                                             *)
(***************************************************************************)
\* The machine code does what the program says: the operations in their order, with
\* their sizes and operands, jumps to where the labels are, and the variables read and
\* written where they were placed (build_* and both passes of assemble, against the
\* instruction format).
ExecutesAsWritten == Promised!Spec

\* The same of the finished program alone, for statements the reference of the
\* instructions calls supported.
TranslatedAsWritten == phase = "done" => listing = Promised!Translation

\* Every builder takes the tokens that were appended for it, so the first pass is always
\* at the start of a statement (the returned counts, against the parser's appends).
Framed == phase = "build" /\ index < token_count => \E i \in DOMAIN starts : starts[i] = index

\* Filling in a field changes no byte outside of it (the four byte additions of assemble's
\* second pass, whatever the width inset_memory left).
OnlyFieldsPatched ==
    [][phase = "link" =>
        \A i \in DOMAIN text_sector_byte :
            text_sector_byte'[i] # text_sector_byte[i] =>
                LET hole == empty_holes[patched + 1]
                IN  i - 1 - hole.at \in 0 .. hole.width - 1]_vars

\* The arrays of the assembler grow no faster than the token array is read, whatever is
\* misread: there are at most half as many holes as tokens, and they are noted in 1024
\* places while the tokens have 1440 (nothing checks that empty_array, or the text, has
\* room).  What is misread as a directive makes a hole of two tokens; the grammar's
\* statements take three or more for one.
GrowthBounded ==
    /\ 2 * Len(empty_holes) <= token_count + 1
    /\ Len(text_sector_byte) <= 4 * index

\* The statements of the grammar whose code is wrong, by what is wrong with it.
Misencoded(s) ==
    LET operation == s[1]
        operands == IF Len(s) = 6 THEN <<s[3], s[5]>> ELSE <<>>
    IN  \/ operation \in ADD .. CMP \union {MOV}
           \* The ModRM byte twice (modify_memory for either operand).
           /\ operands \in {<<REG, MEM>>, <<MEM, REG>>}
        \/ operation \in ADD .. CMP
           \* An opcode of its own for register 0, after the general one.
           /\ \/ operands = <<REG, IMM>> /\ s[4] = 0
              \* No ModRM byte, or no opcode for immediates.
              \/ operands \in {<<MEM, IMM>>, <<REG, REL>>, <<MEM, REL>>}
        \/ operation = MOV
           \* One token too many; immediates of twelve bytes.
           /\ \/ s[2] = D64
              \* Counted from before the immediate, or nothing at all.
              \/ operands \in {<<MEM, IMM>>, <<MEM, REL>>}
              \* Addresses of four bytes, whatever the size.
              \/ operands = <<REG, REL>> /\ s[2] # D32
              \* A REX prefix for the destination only, and behind the one that counts.
              \/ /\ operands = <<REG, REG>> /\ s[2] = D8
                 /\ \/ front(s[4]) /\ upper(s[6])
                    \/ ~front(s[4]) /\ lower(s[4]) /\ front(s[6])
        \* The ModRM bytes of registers and memory exchanged, and addresses for counts.
        \/ operation \in ROL .. SAR
        \* Pushes and pops have no such sizes.
        \/ operation \in {POP, PUSH} /\ s[2] \in {D8, D32}

\* A finished program is what it promised if and only if it has no statement of these:
\* every other form of the grammar is encoded right, and no program comes out right that
\* uses one of them.  (Of the loops, those back to a label just before them: one forward
\* changes the instruction behind it, see the run `documented'.)
MisencodingsKnown ==
    phase = "done" =>
        (listing = Promised!Translation <=> \A i \in DOMAIN statements : ~Misencoded(statements[i]))

-----------------------------------------------------------------------------
(***************************************************************************)
(* The statements that are encoded right, whatever their operands.         *)
(***************************************************************************)
\* The tokens are int.
IsWord(v) == v \in Int /\ (-\h7fffffff) - 1 <= v /\ v <= \h7fffffff

\* The token array has room for 1440 of them (compile.c:27).
TokenPlaces == 1440

\* The numbers the processor could take for the address of something in the text.
Addresses == DATA_START .. DATA_START + (4 * TokenPlaces)

AllSizes == {D8, D16, D32, D64}
Registry == 0 .. 15

OneByteOperations == {NOP, POPF, PUSHF, LEAVE, RETN, RETF}
TwoByteOperations == {SYSCALL, CPUID} \union (FNOP .. FSCALE)

WithTwo(s) ==
    /\ s[1] \in (ADD .. CMP) \union {MOV}
    /\ s[2] \in AllSizes
    /\ \/ s[3] = REG /\ s[4] \in Registry
       \/ s[3] = MEM
    /\ \/ s[5] = REG /\ s[6] \in Registry
       \/ s[5] = IMM /\ s[6] \notin Addresses
       \/ s[5] = REL
       \/ s[3] = REG /\ s[5] = MEM

WithOne(s) ==
    /\ s[1] \in (INC .. IDIV) \union {POP, PUSH}
    /\ s[2] \in AllSizes
    /\ \/ s[3] = REG /\ s[4] \in Registry
       \/ s[3] = MEM /\ s[1] \in INC .. IDIV

Jumping(s) ==
    \/ s[1] = JMP /\ s[2] = D32 /\ s[3] = REL
    \/ s[1] \in JO .. JG /\ s[2] = D32 /\ s[3] = REL /\ s[4] # 0
    \/ s[1] = CALL /\ s[2] = REL

WithNone(s) == s[1] \in OneByteOperations \union TwoByteOperations

Declaring(s) ==
    \/ s[1] = ASMDIRMEM
    \/ s[1] = ASMDIRIMM /\ s[2] \in {D8, D16, D32} /\ s[3] >= 1

\* The statements the grammar writes with operands of the kinds their operations take, and of
\* them the ones that are not known to be misencoded.
Ordinary(s) ==
    /\ Written(s)
    /\ \A i \in 1 .. Len(s) : IsWord(s[i])
    /\ WithTwo(s) \/ WithOne(s) \/ Jumping(s) \/ WithNone(s) \/ Declaring(s)

Right(s) == Ordinary(s) /\ ~Misencoded(s)

\* Every statement is, or every one that is appended.
AllRight    == \A i \in 1 .. Len(statements) : Right(statements[i])
RightGroups == \A group \in AppendedGroups : \A i \in DOMAIN group : Right(group[i])

=============================================================================
