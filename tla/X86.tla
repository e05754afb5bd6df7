--------------------------------- MODULE X86 ---------------------------------
(***************************************************************************)
(* What a 64 bit x86 processor makes of machine code: the part of the      *)
(* instruction format the assembler uses.  It is no code of the            *)
(* repository but what the repository's output runs on, and gives the      *)
(* bytes of the text a meaning to compare with the program's.              *)
(*                                                                         *)
(* An instruction is decoded at an offset of the code, to its length, its  *)
(* operation (numbered as in assembler.h), the size of its operands, and   *)
(* its operands.  An operand is a register, a byte register of the high    *)
(* half of a word, a place in memory or in the code, or the bytes of an    *)
(* immediate, which may be an address.  Memory and code are offsets of the *)
(* text; what is not one of these forms decodes to Undefined.              *)
(***************************************************************************)
EXTENDS Operations

Register(number) == <<"register", number>>
HighByte(number) == <<"high byte", number>>
Memory(offset)   == <<"memory", offset>>
Code(offset)     == <<"code", offset>>
Immediate(bytes) == <<"immediate", bytes>>
AddressOf(place) == <<"address", place>>

\* What an instruction does, its length aside.
Means(operation, size, operands) ==
    [operation |-> operation, size |-> size, operands |-> operands]

Undefined == [length |-> 1, operation |-> OPERATION_END, size |-> D8, operands |-> <<>>]

\* A 32 bit displacement: its sign is that of the most significant byte.
Signed8(byte) == IF byte >= 128 THEN byte - 256 ELSE byte
Signed32(b)   == b[1] + (256 * b[2]) + (65536 * b[3]) + (16777216 * Signed8(b[4]))

\* Immediates are as wide as the operands, but for 64 bit ones, which are 32 bits wide.
ImmediateWidth(size) == CASE size = D8 -> 1 [] size = D16 -> 2 [] OTHER -> 4

\* Shifting left has one meaning under two names and two encodings.
Shift(operation) == IF operation = SHL THEN SAL ELSE operation

IsRex(byte) == byte \in \h40 .. \h4f

\* Where an address relative to the instruction pointer is once the second segment,
\* which maps the file \h1000 bytes above the first, is counted from its own start.
DATA_SEGMENT == \h1000

\* The floating point instructions that are one byte behind \hd9.
FloatConstants == <<FLD1, FLDL2T, FLDL2E, FLDPI, FLDLG2, FLDLN2, FLDZ>>
FloatFunctions ==
    <<F2XM1, FYL2X, FPTAN, FPATAN, FXTRACT, FPREM1, FDECSTP, FINCSTP,
      FPREM, FYL2XP1, FSQRT, FSINCOS, FRNDINT, FSCALE, FSIN, FCOS>>
FloatOperation(byte) ==
    CASE byte \in \he8 .. \hee -> FloatConstants[byte - \he7]
      [] byte >= \hf0  -> FloatFunctions[byte - \hef]
      [] byte = \hd0   -> FNOP
      [] byte = \he0   -> FCHS
      [] byte = \he1   -> FABS
      [] byte = \he4   -> FTST
      [] byte = \he5   -> FXAM
      [] OTHER -> OPERATION_END

-----------------------------------------------------------------------------
(***************************************************************************)
(* Prefixes and opcode.  `m' is the place behind the opcode, counted from  *)
(* the beginning of the instruction as all places below are.               *)
(***************************************************************************)
ByteAt(code, at, k) == IF at + k < Len(code) THEN code[at + k + 1] ELSE 0

\* The last REX prefix counts.
OpcodeAt(code, at, first) ==
    IF ~IsRex(ByteAt(code, at, first)) THEN first
    ELSE IF IsRex(ByteAt(code, at, first + 1)) THEN first + 2 ELSE first + 1

Opcode(code, at, half, opcodeAt, long) ==
    LET m == IF long THEN opcodeAt + 2 ELSE opcodeAt + 1
    IN  [code |-> code, at |-> at, half |-> half, long |-> long, m |-> m,
         rex |-> IF opcodeAt > half THEN ByteAt(code, at, opcodeAt - 1) ELSE 0,
         opcode |-> ByteAt(code, at, m - 1)]

Fetched(code, at) ==
    LET half == IF ByteAt(code, at, 0) = \h66 THEN 1 ELSE 0
        opcodeAt == OpcodeAt(code, at, half)
    IN  Opcode(code, at, half, opcodeAt, ByteAt(code, at, opcodeAt) = \h0f)

byteAt(x, k)     == ByteAt(x.code, x.at, k)
bytesAt(x, k, n) == [i \in 1 .. n |-> byteAt(x, k + i - 1)]

rexW(x) == (x.rex \div 8) % 2
rexR(x) == 8 * ((x.rex \div 4) % 2)
rexB(x) == 8 * (x.rex % 2)

\* Sizes of operands: most of them; those with a bit for bytes; and pushes, pops and indirect
\* jumps, which have no 32 bit form.
full(x)  == IF rexW(x) = 1 THEN D64 ELSE IF x.half = 1 THEN D16 ELSE D32
sized(x) == IF x.opcode % 2 = 0 THEN D8 ELSE full(x)
stack(x) == IF x.half = 1 THEN D16 ELSE D64

-----------------------------------------------------------------------------
(***************************************************************************)
(* Operands.  The ModRM byte: a register or an address relative to the     *)
(* next instruction, `rest' bytes behind it.                               *)
(***************************************************************************)
numbered(x, n, size) ==
    IF size = D8 /\ x.rex = 0 /\ n \in 4 .. 7 THEN HighByte(n - 4) ELSE Register(n)

modBits(x) == byteAt(x, x.m) \div 64
regBits(x) == (byteAt(x, x.m) \div 8) % 8
rmBits(x)  == byteAt(x, x.m) % 8
known(x)   == modBits(x) = 3 \/ (modBits(x) = 0 /\ rmBits(x) = 5)
next(x)    == IF modBits(x) = 3 THEN x.m + 1 ELSE x.m + 5

rm(x, size, rest) ==
    IF modBits(x) = 3 THEN numbered(x, rmBits(x) + rexB(x), size)
    ELSE Memory(x.at + next(x) + rest + Signed32(bytesAt(x, x.m + 1, 4)) - DATA_SEGMENT)

register(x, size) == numbered(x, regBits(x) + rexR(x), size)

-----------------------------------------------------------------------------
(***************************************************************************)
(* Forms of instructions.                                                  *)
(***************************************************************************)
instruction(operation, size, operands, length) ==
    [length |-> length, operation |-> operation, size |-> size, operands |-> operands]

modrm(x, operation, size, operands) ==
    IF known(x) THEN instruction(operation, size, operands, next(x)) ELSE Undefined

withImmediate(x, operation, size, width) ==
    IF known(x) THEN instruction(operation, size,
        <<rm(x, size, width), Immediate(bytesAt(x, next(x), width))>>, next(x) + width)
    ELSE Undefined

jump(x, operation) ==
    instruction(operation, D32, <<Code(x.at + x.m + 4 + Signed32(bytesAt(x, x.m, 4)))>>, x.m + 4)

shortJump(x, operation) ==
    instruction(operation, D32, <<Code(x.at + x.m + 1 + Signed8(byteAt(x, x.m)))>>, x.m + 1)

static(x, operation) == instruction(operation, D32, <<>>, x.m)

moveImmediate(x, size, width) ==
    instruction(MOV, size,
        <<numbered(x, (x.opcode % 8) + rexB(x), size), Immediate(bytesAt(x, x.m, width))>>,
        x.m + width)

-----------------------------------------------------------------------------
(***************************************************************************)
(* The opcodes: those behind \h0f, the arithmetic ones, and the others.    *)
(***************************************************************************)
DecodeLong(x) ==
    CASE x.opcode \in \h80 .. \h8f -> jump(x, JO + x.opcode - \h80)
      [] x.opcode \in \h40 .. \h4f ->
            modrm(x, CMOVO + x.opcode - \h40, full(x), <<register(x, full(x)), rm(x, full(x), 0)>>)
      [] x.opcode \in \h90 .. \h9f -> modrm(x, SETO + x.opcode - \h90, D8, <<rm(x, D8, 0)>>)
      [] x.opcode \in {\ha3, \hab, \hb3, \hbb} ->
            modrm(x, BT + ((x.opcode - \ha3) \div 8), full(x),
                  <<rm(x, full(x), 0), register(x, full(x))>>)
      [] x.opcode = \hba /\ regBits(x) \in 4 .. 7 ->
            withImmediate(x, BT + regBits(x) - 4, full(x), 1)
      [] x.opcode \in {\hbc, \hbd} ->
            modrm(x, BSF + x.opcode - \hbc, full(x), <<register(x, full(x)), rm(x, full(x), 0)>>)
      [] x.opcode \in \hc8 .. \hcf ->
            instruction(BSWAP, full(x), <<Register(x.opcode - \hc8 + rexB(x))>>, x.m)
      [] x.opcode = \h05 -> static(x, SYSCALL)
      [] x.opcode = \ha2 -> static(x, CPUID)
      [] OTHER -> Undefined

DecodeArithmetic(x) ==
    LET operation == ADD + (x.opcode \div 8)
        size == sized(x)
    IN  CASE x.opcode % 8 \in {0, 1} ->
                modrm(x, operation, size, <<rm(x, size, 0), register(x, size)>>)
          [] x.opcode % 8 \in {2, 3} ->
                modrm(x, operation, size, <<register(x, size), rm(x, size, 0)>>)
          [] x.opcode % 8 \in {4, 5} ->
                instruction(operation, size,
                    <<Register(0), Immediate(bytesAt(x, x.m, ImmediateWidth(size)))>>,
                    x.m + ImmediateWidth(size))
          [] OTHER -> Undefined

DecodeShort(x) ==
    CASE x.opcode < \h40 -> DecodeArithmetic(x)
      [] x.opcode \in {\h80, \h81} ->
            withImmediate(x, ADD + regBits(x), sized(x), ImmediateWidth(sized(x)))
      [] x.opcode \in {\h88, \h89} ->
            modrm(x, MOV, sized(x), <<rm(x, sized(x), 0), register(x, sized(x))>>)
      [] x.opcode \in {\h8a, \h8b} ->
            modrm(x, MOV, sized(x), <<register(x, sized(x)), rm(x, sized(x), 0)>>)
      [] x.opcode \in \hb0 .. \hb7 -> moveImmediate(x, D8, 1)
      [] x.opcode \in \hb8 .. \hbf ->
            moveImmediate(x, full(x), IF full(x) = D64 THEN 8 ELSE ImmediateWidth(full(x)))
      [] x.opcode \in {\hc6, \hc7} /\ regBits(x) = 0 ->
            withImmediate(x, MOV, sized(x), ImmediateWidth(sized(x)))
      [] x.opcode \in {\hc0, \hc1} -> withImmediate(x, Shift(ROL + regBits(x)), sized(x), 1)
      [] x.opcode \in {\hf6, \hf7} /\ regBits(x) \in 2 .. 7 ->
            modrm(x, INC + regBits(x), sized(x), <<rm(x, sized(x), 0)>>)
      [] x.opcode \in {\hfe, \hff} /\ regBits(x) \in {0, 1} ->
            modrm(x, INC + regBits(x), sized(x), <<rm(x, sized(x), 0)>>)
      [] x.opcode = \hff /\ regBits(x) = 2 -> modrm(x, CALL, D64, <<rm(x, D64, 0)>>)
      [] x.opcode = \hff /\ regBits(x) = 4 -> modrm(x, JMP, D64, <<rm(x, D64, 0)>>)
      [] x.opcode = \hff /\ regBits(x) = 6 -> modrm(x, PUSH, stack(x), <<rm(x, stack(x), 0)>>)
      [] x.opcode = \h8f /\ regBits(x) = 0 -> modrm(x, POP, stack(x), <<rm(x, stack(x), 0)>>)
      [] x.opcode \in \h50 .. \h57 ->
            instruction(PUSH, stack(x), <<Register(x.opcode - \h50 + rexB(x))>>, x.m)
      [] x.opcode \in \h58 .. \h5f ->
            instruction(POP, stack(x), <<Register(x.opcode - \h58 + rexB(x))>>, x.m)
      [] x.opcode \in {\he4, \he5} ->
            instruction(IN_, sized(x), <<Immediate(bytesAt(x, x.m, 1))>>, x.m + 1)
      [] x.opcode \in {\he6, \he7} ->
            instruction(OUT, sized(x), <<Immediate(bytesAt(x, x.m, 1))>>, x.m + 1)
      [] x.opcode = \he8 -> jump(x, CALL)
      [] x.opcode = \he9 -> jump(x, JMP)
      [] x.opcode = \heb -> shortJump(x, JMP)
      [] x.opcode = \he0 -> shortJump(x, LOOPNE)
      [] x.opcode = \he1 -> shortJump(x, LOOPE)
      [] x.opcode = \he2 -> shortJump(x, LOOP)
      [] x.opcode = \h90 -> static(x, NOP)
      [] x.opcode = \hc3 -> static(x, RETN)
      [] x.opcode = \hcb -> static(x, RETF)
      [] x.opcode = \hc9 -> static(x, LEAVE)
      [] x.opcode = \h9c -> static(x, PUSHF)
      [] x.opcode = \h9d -> static(x, POPF)
      [] x.opcode = \hd9 -> instruction(FloatOperation(byteAt(x, x.m)), D32, <<>>, x.m + 1)
      [] OTHER -> Undefined

\* One instruction at offset `at' of the code.
Decode(code, at) ==
    LET x == Fetched(code, at)
    IN  IF x.long THEN DecodeLong(x) ELSE DecodeShort(x)

=============================================================================
