---------------------------- MODULE MCAssembler ----------------------------
(***************************************************************************)
(* Small instances of Assembler: programs of one statement, for every form *)
(* of instruction the parser has, and longer ones of a few statements.     *)
(***************************************************************************)
EXTENDS Assembler

SomeIds == 0 .. 9

\* Registers that differ in what their encoding needs.
Registers == {0, 1, 3, 4, 7, 8, 11, 12, 15}
Sizes == {D8, D16, D32, D64}
Arithmetic == ADD .. CMP

\* The ids of a label, the end of an `if', and a variable.
LABEL == 1
END   == 2
X     == 5
Literal == 513

TwoRegisters(operations, sizes) ==
    {<<o, s, REG, d, REG, f>> : o \in operations, s \in sizes, d \in Registers, f \in Registers}
WithImmediate(operations, sizes, registers) ==
    {<<o, s, REG, d, IMM, Literal>> : o \in operations, s \in sizes, d \in registers}
FromMemory(operations, sizes) ==
    {<<o, s, REG, d, MEM, X>> : o \in operations, s \in sizes, d \in Registers}
ToMemory(operations) == {<<o, D32, MEM, X, REG, f>> : o \in operations, f \in Registers}
ImmediateToMemory(operations) == {<<o, D32, MEM, X, IMM, Literal>> : o \in operations}
OfVariable(operations, sizes) ==
    {<<o, s, REG, d, REL, X>> : o \in operations, s \in sizes, d \in Registers}
OneRegister(operations, sizes) == {<<o, s, REG, d>> : o \in operations, s \in sizes, d \in Registers}
OneMemory(operations) == {<<o, D32, MEM, X>> : o \in operations}
Shifts == {<<o, s, REG, d, IMM, 3>> : o \in ROL .. SAR, s \in Sizes, d \in Registers}
          \union {<<o, D32, MEM, X, IMM, 3>> : o \in ROL .. SAR}
Jumps(operations, label) == {<<o, D32, REL, label>> : o \in operations}

\* The variable, of four bytes.
Variable == {[id |-> X, data |-> <<ASMDIRIMM, D32, 1, 7>>]}

OfVariableToMemory(operations) == {<<o, D32, MEM, X, REL, X>> : o \in operations}
WithoutOperands ==
    {<<o>> : o \in {NOP, POPF, PUSHF, LEAVE, RETN, RETF, SYSCALL, CPUID} \union FNOP .. FSCALE}

\* All statements of the grammar that stand for an instruction.
Forms ==
    TwoRegisters(Arithmetic \union {MOV}, Sizes)
    \union WithImmediate(Arithmetic \union {MOV}, Sizes, Registers)
    \union FromMemory(Arithmetic \union {MOV}, Sizes)
    \union ToMemory(Arithmetic \union {MOV})
    \union ImmediateToMemory(Arithmetic \union {MOV})
    \union OfVariable(Arithmetic \union {MOV} \union ROL .. SAR, Sizes)
    \union OfVariableToMemory(Arithmetic \union {MOV} \union ROL .. SAR)
    \union OneRegister((INC .. IDIV) \union {POP, PUSH}, Sizes)
    \union OneMemory(INC .. IDIV)
    \union Shifts
    \union Jumps({JMP, JE, JE + 1, LOOP, LOOPE, LOOPNE}, LABEL)
    \union WithoutOperands
    \union {<<CALL, REL, LABEL>>}

\* The programs of one statement, between a label and a return.
Alone(forms) ==
    {<<<<ASMDIRMEM, 0>>, <<ASMDIRMEM, LABEL>>, statement, <<RETN>>>> : statement \in forms}

EveryForm == Alone(Forms)

-----------------------------------------------------------------------------
\* What reductions of the parser append: the heads of blocks, labels and jumps, the head
\* and the end of an `if', and statements with references and without.
RightReductions == {
    <<<<ASMDIRMEM, 0>>>>,
    <<<<ASMDIRMEM, LABEL>>>>,
    <<<<JMP, D32, REL, LABEL>>>>,
    <<<<CALL, REL, LABEL>>>>,
    <<<<CMP, D32, REG, 1, REG, 2>>, <<JE + 1, D32, REL, END>>>>,
    <<<<ASMDIRMEM, END>>>>,
    <<<<INC, D32, MEM, X>>>>,
    <<<<MOV, D32, REG, 6, REL, X>>>>,
    <<<<ADD, D16, REG, 3, IMM, Literal>>>>,
    <<<<RETN>>>>}

\* They are what the theorem that the code is as written is about, and so is every form of
\* the grammar that is not known to be misencoded, but for the loops.
ASSUME RightReductionsAssumption ==
    \A group \in RightReductions : \A i \in DOMAIN group : Right(group[i])
ASSUME FormsAssumption ==
    \A s \in Forms : Right(s) <=> ~Misencoded(s) /\ s[1] \notin LOOP .. LOOPNE

\* Two forms that are misread, and what then is taken for operations; among them a
\* statement that is three holes then, and one that is an array of -1 elements.
Misread == {
    <<<<MOV, D64, REG, 0, REG, 3>>>>,
    <<<<MOV, D64, REG, 3, IMM, 2>>>>,
    <<<<ADD, D16, REG, 1, REG, 1>>>>,
    <<<<ADD, D8, REG, 2, IMM, -1>>>>,
    <<<<NEG, D32, MEM, X>>>>,
    <<<<INC, D8, REG, 4>>>>,
    <<<<CALL, REL, LABEL>>>>}

MisreadVariables == {
    [id |-> LABEL, data |-> <<ASMDIRIMM, D8, 2, v, 99>>] : v \in {0, 1}}

FormsAndMisread ==
    EveryForm \union {FlattenSeq(p) \o <<<<RETN>>>> : p \in [1 .. 4 -> Misread]}
VariableAndMisread == Variable \union MisreadVariables

-----------------------------------------------------------------------------
\* What the reference of the instructions shows or calls supported, and is encoded wrong:
\* an immediate to rax, a variable to a register, immediates to variables, a rotation,
\* a 64 bit immediate, a byte register that needs a prefix, and a loop forward.
Documented == {<<<<ASMDIRMEM, 0>>, <<LOOP, D32, REL, LABEL>>, <<ASMDIRMEM, LABEL>>, <<RETN>>>>}
              \union Alone({
                  <<ADD, D64, REG, 0, IMM, Literal>>,
                  <<ADD, D32, REG, 3, MEM, X>>,
                  <<MOV, D32, REG, 3, MEM, X>>,
                  <<ADD, D32, MEM, X, IMM, Literal>>,
                  <<MOV, D32, MEM, X, IMM, Literal>>,
                  <<ROL, D32, REG, 3, IMM, 3>>,
                  <<MOV, D64, REG, 3, IMM, Literal>>,
                  <<MOV, D8, REG, 0, REG, 7>>})

=============================================================================
