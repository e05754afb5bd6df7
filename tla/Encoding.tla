------------------------------ MODULE Encoding ------------------------------
(***************************************************************************)
(* The builders of assembler.c: what machine code one instruction of the   *)
(* token array becomes.                                                    *)
(*                                                                         *)
(* A builder reads the tokens a[0], a[1], ... of its instruction.  What it *)
(* emits is the bytes before the operand field that is filled in at the    *)
(* end, that field if there is one, and the bytes after it; no builder     *)
(* makes more than one such field.  What a builder returns is `skip', the  *)
(* number of tokens it takes for its own beyond the first.                 *)
(*                                                                         *)
(* Numbers are those of the enumerations of assembler.h.  A 32 bit         *)
(* unsigned value above 2^31 stands as the negative integer with its bits. *)
(***************************************************************************)
EXTENDS Operations

-----------------------------------------------------------------------------
(***************************************************************************)
(* Bytes.                                                                  *)
(***************************************************************************)
B(condition) == IF condition THEN 1 ELSE 0

\* Bytes of an immediate: 1 for D8, 2 for D16, 4 for D32 and all above.
WidthOf(size) == IF size = D8 THEN 1 ELSE IF size = D16 THEN 2 ELSE 4

inset(when, data) == IF when THEN <<data % 256>> ELSE <<>>

inset_immediate(when, size, data) ==
    IF when THEN SubSeq(LittleEndian(data), 1, WidthOf(size)) ELSE <<>>

-----------------------------------------------------------------------------
(***************************************************************************)
(* Operand fields.  `base' is what is written at first; some bases count   *)
(* from the field, whose offset in the text is `at'.                       *)
(***************************************************************************)
\* Mutant: distances counted from the field, not from what follows it.
BaseOfField(kind, at) ==
    CASE kind = "relative" -> \h1000 - at
      [] kind = "unsorted" -> 0 - at
      [] kind = "absolute" -> \h4010b0 - at
      [] kind = "data"     -> \h4010b0
      [] kind = "zero"     -> 0
      [] kind = "loop"     -> 0 - at

Base(kind, at) ==
    CASE kind = "relative" -> \h1000 - at - 4
      [] kind = "unsorted" -> 0 - at - 4
      [] kind = "absolute" -> \h4010b0 - at - 4
      [] kind = "data"     -> \h4010b0
      [] kind = "zero"     -> 0
      [] kind = "loop"     -> 0 - at - 1

NoField == [width |-> 0, id |-> 0, base |-> "zero"]

Field(size, id, base) == [width |-> WidthOf(size), id |-> id, base |-> base]

Built(head, field, tail, skip) ==
    [head |-> head, field |-> field, tail |-> tail, skip |-> skip]

-----------------------------------------------------------------------------
(***************************************************************************)
(* Kinds of operands, registers, prefixes and the ModRM byte.              *)
(***************************************************************************)
front(data) == data \in 4 .. 7
upper(data) == data \in 8 .. 15
lower(data) == data \in 0 .. 7

transfer(to, from) == to = REG /\ from = REG
import(to, from)   == to = REG /\ from = MEM
attach(to, from)   == to = REG /\ from = IMM
export(to, from)   == to = MEM /\ from = REG
assign(to, from)   == to = MEM /\ from = IMM
relate(to, from)   == to = REG /\ from = REL

short_prefix(size) == inset(size = D16, \h66)

long_prefix(size, to, destination, from, source) ==
    LET b == to = REG /\ upper(destination)
        r == from = REG /\ upper(source)
        w == size = D64
    IN  inset(b \/ r \/ w, \h40 + B(b) + (4 * B(r)) + (8 * B(w)))

modify_memory(code, to, from) ==
    inset(export(to, from) \/ import(to, from), 5 + (8 * code * B(assign(to, from))))

mc0(code, base) == \hc0 + (code % 8) + (8 * (base % 8))

m05(code) == 5 + (8 * code)

-----------------------------------------------------------------------------
(***************************************************************************)
(* The arithmetic instructions and `mov', with two operands.               *)
(***************************************************************************)
\* The one memory field of an instruction with two operands.
MemoryField(to, destination, from, source, relation) ==
    IF import(to, from) THEN Field(D32, source, "relative")
    ELSE IF export(to, from) \/ assign(to, from) THEN Field(D32, destination, "relative")
    ELSE IF relate(to, from) THEN Field(D32, source, relation)
    ELSE NoField

\* The REX prefix that makes the registers 4 to 7 of a byte instruction the new ones.
\* Mutant: the destination alone asked.
ByteRexOfDestination(size, to, destination, from, source) ==
    inset(size = D8 /\ to = REG /\ front(destination), \h40)
ByteRex(size, to, destination, from, source) ==
    inset(size = D8 /\ to = REG /\ from \in {REG, IMM}
          /\ \/ front(destination) /\ lower(source)
             \/ lower(destination) /\ front(source)
             \/ attach(to, from) /\ front(destination), \h40)

build_double(a) ==
    LET operation == a[0]  size == a[1]  to == a[2]
        destination == a[3]  from == a[4]  source == a[5]
        accumulator == attach(to, from) /\ destination = 0
    IN Built(
        short_prefix(size)
        \o long_prefix(size, to, destination, from, source)
        \o ByteRex(size, to, destination, from, source)
        \o inset(attach(to, from), \h81 - B(size = D8))
        \o inset(accumulator, 5 + (8 * (operation % 8)) - B(size = D8))
        \o inset(~accumulator,
                 (destination % 8) * B(attach(to, from)) + 8 * (operation - ADD)
                 + B(assign(to, from) /\ size = D8) - B(attach(to, from) /\ size # D8)
                 + B(size # D8) + 2 * B(import(to, from)) + 4 * B(assign(to, from))
                 + \hc0 * B(attach(to, from)))
        \o inset(transfer(to, from), mc0(destination, source))
        \o modify_memory(destination, to, from) \o modify_memory(source, to, from)
        \o inset_immediate(attach(to, from), size, source),
        MemoryField(to, destination, from, source, "absolute"),
        inset_immediate(assign(to, from), size, source),
        5)

build_move(a) ==
    LET size == a[1]  to == a[2]  destination == a[3]  from == a[4]  source == a[5]
        wide == size = D64
    IN Built(
        short_prefix(size)
        \o long_prefix(size, to, destination, from, source)
        \o inset(size = D8 /\ front(destination), \h40)
        \o inset(transfer(to, from) \/ export(to, from), \h88 + B(size # D8))
        \o inset(import(to, from), \h8a + B(size # D8))
        \o modify_memory(destination, to, from) \o modify_memory(source, to, from)
        \o inset(transfer(to, from), mc0(destination, source))
        \o inset(to = REG /\ from \in {IMM, REL},
                 \hb0 + (8 * B(size # D8)) + (destination % 8))
        \o inset(assign(to, from), \hc6 + B(size # D8)) \o inset(assign(to, from), 5)
        \o inset_immediate(attach(to, from), IF wide THEN D32 ELSE size, source)
        \o inset_immediate(attach(to, from) /\ wide, D32, a[6])
        \o inset_immediate(attach(to, from) /\ wide, D32, 0),
        MemoryField(to, destination, from, source, "data"),
        inset_immediate(assign(to, from) /\ ~wide, size, source),
        5 + B(wide))

build_move_if(a) ==
    LET size == a[1]  to == a[2]  destination == a[3]  from == a[4]  source == a[5]
    IN Built(
        short_prefix(size) \o long_prefix(size, to, destination, from, source)
        \o <<\h0f, \h40 + a[0] - CMOVO>>
        \o inset(transfer(to, from), mc0(destination, source))
        \o modify_memory(destination, to, from),
        NoField, <<>>, 5)

build_bit_scan(a) ==
    LET size == a[1]  destination == a[3]  from == a[4]  source == a[5]
    IN Built(
        short_prefix(size) \o long_prefix(size, REG, destination, from, source)
        \o <<\h0f, \hbc + B(a[0] = BSR)>>
        \o inset(transfer(REG, from), mc0(destination, source))
        \o inset(from = MEM, m05(destination)),
        IF from = MEM THEN Field(D32, source, "relative") ELSE NoField, <<>>, 5)

build_bit_test(a) ==
    LET size == a[1]  to == a[2]  destination == a[3]  from == a[4]  source == a[5]
        offset == a[0] - BT
        last == inset(from = IMM, source)
    IN Built(
        short_prefix(size) \o long_prefix(size, to, destination, from, source) \o <<\h0f>>
        \o inset(attach(to, from) \/ assign(to, from), \hba)
        \o inset(transfer(to, from) \/ export(to, from), \ha3 + (8 * offset))
        \o inset(export(to, from), m05(to)) \o inset(assign(to, from), m05(4 + offset))
        \o inset(attach(to, from), mc0(destination, 4 + offset))
        \o inset(transfer(to, from), mc0(destination, source)) \o last,
        IF from = MEM THEN Field(D32, source, "relative") ELSE NoField, <<>>, 5)

-----------------------------------------------------------------------------
(***************************************************************************)
(* Instructions with one operand.                                          *)
(***************************************************************************)
\* A field for a memory operand, relative to the next instruction or not.
OneField(kind, id, base) == IF kind = MEM THEN Field(D32, id, base) ELSE NoField

IsStep(operation) == operation \in {INC, DEC}

build_single(a) ==
    LET operation == a[0]  size == a[1]  to == a[2]  destination == a[3]
    IN Built(
        short_prefix(size) \o long_prefix(size, to, destination, 0, 0)
        \o inset(size = D8 /\ to = REG /\ front(destination), \h40)
        \o <<\hf7 + (8 * B(IsStep(operation))) - B(size = D8)>>
        \o inset(to = REG, \hc0 + (8 * (operation - INC)) + (destination % 8))
        \o inset(to = MEM, 5 + (8 * (operation - INC))),
        OneField(to, destination, "relative"), <<>>, 3)

build_shift(a) ==
    LET operation == a[0]  size == a[1]  to == a[2]  destination == a[3]  offset == a[5]
        group == 8 * ((operation - ROL) % 8)
        last == inset_immediate(TRUE, D8, offset)
    IN Built(
        short_prefix(size) \o long_prefix(size, to, destination, 0, 0)
        \o <<\hc0 + B(size # D8)>>
        \o inset(to = REG, 5 + group) \o inset(to = MEM, \hc0 + group)
        \o (IF to = MEM THEN <<>> ELSE last),
        OneField(to, destination, "relative"),
        IF to = MEM THEN last ELSE <<>>, 5)

build_set_if(a) ==
    LET to == a[2]  destination == a[3]
    IN Built(
        inset(to = REG /\ front(destination), \h40)
        \o inset(to = REG /\ upper(destination), \h41)
        \o <<\h0f, \h90 + a[0] - SETO>>
        \o inset(to = REG, \hc0 + (destination % 8)) \o inset(to = MEM, 5),
        OneField(to, destination, "relative"), <<>>, 3)

build_pop(a) ==
    LET size == a[1]  to == a[2]  destination == a[3]
    IN Built(
        short_prefix(size) \o inset(to = REG /\ upper(destination), \h41)
        \o inset(to = REG, \h58 + (destination % 8))
        \o inset(to = MEM, \h8f) \o inset(to = MEM, 5),
        OneField(to, destination, "zero"), <<>>, 3)

build_push(a) ==
    LET size == a[1]  from == a[2]  source == a[3]
    IN Built(
        short_prefix(size) \o inset(from = REG /\ upper(source), \h41)
        \o inset(from = REG, \h50 + (source % 8))
        \o inset(from = MEM, \hff) \o inset(from = MEM, \h35)
        \o inset(from = IMM, \h68 + (2 * B(size = D8)))
        \o inset_immediate(from = IMM, size, source),
        OneField(from, source, "zero"), <<>>, 3)

build_swap(a) ==
    Built(long_prefix(a[1], REG, a[3], 0, 0) \o <<\h0f, \hc8 + (a[3] % 8)>>, NoField, <<>>, 3)

build_in_out(a) ==
    LET size == a[1]  type == a[2]  port == a[3]
    IN Built(
        short_prefix(size)
        \o <<\he4 + B(size # D8) + (2 * B(a[0] = IN_)) + (8 * B(type = REG))>>
        \o inset_immediate(type = IMM, D8, port),
        NoField, <<>>, 3)

build_enter(a) ==
    Built(<<\hc8>> \o inset_immediate(TRUE, D16, a[1]) \o inset_immediate(TRUE, D8, a[2] % 32),
          NoField, <<>>, 2)

-----------------------------------------------------------------------------
(***************************************************************************)
(* Jumps.                                                                  *)
(***************************************************************************)
far(label) == label # 0

build_jump_if(a) ==
    LET operation == a[0]  size == a[1]  location == a[3]
    IN Built(
        inset(far(location) /\ size = D32, \h0f)
        \o inset(far(location), \h80 + operation - JO),
        Field(D32, location, "unsorted"), <<>>, 3)

build_jump(a) ==
    LET size == a[1]  to == a[2]  destination == a[3]
    IN Built(
        inset(to = REG /\ upper(destination), \h41)
        \o inset(to = REL, \he9 + (2 * B(size = D8)))
        \o inset(to \in {REG, MEM}, \hff)
        \o inset(to = REG, \he0 + (destination % 8)) \o inset(to = MEM, \h25),
        IF to = REL THEN Field(D32, destination, "unsorted") ELSE OneField(to, destination, "data"),
        <<>>, 3)

build_call(a) ==
    LET from == a[1]  source == a[2]
    IN Built(
        inset(from = REG /\ upper(source), \h41)
        \o inset(from = REL, \he8) \o inset(from = REG, \hff)
        \o inset(from = REG, \hd0 + (source % 8)),
        IF from = REL THEN Field(D32, source, "unsorted") ELSE NoField,
        <<>>, 2)

build_loop(a) ==
    Built(<<CASE a[0] = LOOPNE -> \he0 [] a[0] = LOOPE -> \he1 [] a[0] = LOOP -> \he2>>,
          Field(D8, a[3], "loop"), <<>>, 3)

-----------------------------------------------------------------------------
(***************************************************************************)
(* Floating point.                                                         *)
(***************************************************************************)
build_float(a) ==
    LET operation == a[0]  size == a[1]  from == a[2]
    IN Built(inset(from = MEM, \hd8 + (4 * B(size = D64)))
             \o modify_memory(operation - FADD, 0, from),
             IF from = MEM THEN Field(size, a[3], "zero") ELSE NoField, <<>>, 3)

m072445(source) ==
    CASE source = 4 -> <<\h04, \h24>> [] source = 5 -> <<\h45, 0>> [] OTHER -> <<source % 8>>

build_floatl(a) ==
    LET size == a[1]  type == a[2]  from == a[3]  source == a[4]
    IN Built(
        inset(from = DER /\ size = D32, \h67) \o inset(from = DER /\ upper(source), \h41)
        \o inset(type = BCF /\ size = D32, \hd8) \o inset(type = INT /\ size = D32, \hda)
        \o inset(type = BCF /\ size = D64, \hdc) \o inset(type = INT /\ size = D16, \hde)
        \o (IF from = DER THEN m072445(source) ELSE <<>>),
        OneField(from, source, "relative"), <<>>, 4)

build_fmove_if(a) ==
    LET below == a[0] < FCMOVAE
        offset == a[0] - FCMOVB - (IF below THEN 0 ELSE 4)
    IN Built(<<IF below THEN \hda ELSE \hdb, (\hc0 + (8 * offset) + a[1]) % 256>>, NoField, <<>>, 1)

-----------------------------------------------------------------------------
(***************************************************************************)
(* Instructions without operands.                                          *)
(***************************************************************************)
static_1 == <<\h90, \h98, \h9d, \h9c, \hf4, \hf0, \h9b, \hc9, \hf5, \hf8, \hfc, \hfa, \hf9,
              \hfd, \hfb, \hc3, \hcb>>

static_2 == <<\h050f, \h340f, \h070f, \h350f, \ha20f, \h9848, \haa0f, \h0b0f,
              \h770f, \h90f3, \h080f, \h090f, \h300f, \h320f, \h330f, \h310f,
              \hd0d9, \he0d9, \hfed9, \hffd9, \he1d9, \he4d9, \he5d9, \he8d9,
              \he9d9, \head9, \hebd9, \hecd9, \hedd9, \heed9, \hf0d9, \hf1d9,
              \hf2d9, \hf3d9, \hf4d9, \hf5d9, \hf6d9, \hf7d9, \hf8d9, \hf9d9,
              \hfad9, \hfbd9, \hfcd9, \hfdd9, \hd9de, \he9da, \he3db, \he2db>>

static_3 == <<<<\h0f, \h01, \hc8>>, <<\h0f, \h01, \hc9>>, <<\h48, \h0f, \h07>>,
              <<\h48, \h0f, \h35>>, <<\h0f, \hae, \he8>>, <<\h0f, \hae, \hf0>>,
              <<\h0f, \hae, \hf8>>, <<\h0f, \h01, \hf9>>, <<\h9b, \hdb, \he3>>,
              <<\h9b, \hdb, \he2>>>>

build_static_1(a) == Built(<<static_1[a[0] - NOP + 1]>>, NoField, <<>>, 0)
build_static_2(a) ==
    Built(inset_immediate(TRUE, D16, static_2[a[0] - SYSCALL + 1]), NoField, <<>>, 0)
build_static_3(a) == Built(static_3[a[0] - MONITOR + 1], NoField, <<>>, 0)

-----------------------------------------------------------------------------
\* The table build_instruction, from an instruction's first token to its builder;
\* the three directives, which do more than emit bytes, are not here.
build_instruction(a) ==
    CASE a[0] \in ADD .. CMP        -> build_double(a)
      [] a[0] \in INC .. IDIV       -> build_single(a)
      [] a[0] \in ROL .. SAR        -> build_shift(a)
      [] a[0] \in FADD .. FDIVR     -> build_float(a)
      [] a[0] \in FLADD .. FLDIVR   -> build_floatl(a)
      [] a[0] \in FCMOVB .. FCMOVNU -> build_fmove_if(a)
      [] a[0] \in NOP .. RETF       -> build_static_1(a)
      [] a[0] \in SYSCALL .. FNCLEX -> build_static_2(a)
      [] a[0] \in MONITOR .. FCLEX  -> build_static_3(a)
      [] a[0] = ENTER               -> build_enter(a)
      [] a[0] = CALL                -> build_call(a)
      [] a[0] \in {IN_, OUT}        -> build_in_out(a)
      [] a[0] = JMP                 -> build_jump(a)
      [] a[0] = MOV                 -> build_move(a)
      [] a[0] = POP                 -> build_pop(a)
      [] a[0] = PUSH                -> build_push(a)
      [] a[0] \in JO .. JG          -> build_jump_if(a)
      [] a[0] \in CMOVO .. CMOVG    -> build_move_if(a)
      [] a[0] \in SETO .. SETG      -> build_set_if(a)
      [] a[0] \in BT .. BTC         -> build_bit_test(a)
      [] a[0] \in {BSF, BSR}        -> build_bit_scan(a)
      [] a[0] = BSWAP               -> build_swap(a)
      [] a[0] \in LOOP .. LOOPNE    -> build_loop(a)

\* What a builder leaves in the text at offset `at', and how long it is.
FieldBytes(field, at) == SubSeq(LittleEndian(Base(field.base, at)), 1, field.width)

Emitted(built, at) ==
    built.head \o FieldBytes(built.field, at + Len(built.head)) \o built.tail

=============================================================================
