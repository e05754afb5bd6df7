------------------------------ MODULE Assembly ------------------------------
(***************************************************************************)
(* What the assembler promises: the machine code it makes does what the    *)
(* program says.                                                           *)
(*                                                                         *)
(* A program is a sequence of statements, each the tokens of one operation *)
(* or directive.  Its listing is what the processor will find: for every   *)
(* statement that makes code or data, in their order, the operation, the   *)
(* size and the operands.  A label or a variable has a place: the number   *)
(* of the entry of the listing that follows it.  How long anything is, and *)
(* where it ends up, is left to the implementation.                        *)
(***************************************************************************)
EXTENDS X86, SequencesExt

CONSTANT
    Groups          \* The groups of statements programs are made of, as tuples of tokens.

VARIABLES
    program,        \* The statements so far.
    listing,        \* What they became, in the end.
    entry           \* The entry of the listing where execution starts, or 0.

vars == <<program, listing, entry>>

-----------------------------------------------------------------------------
Places(statement) == statement[1] = ASMDIRMEM
Emits(statement)  == ~Places(statement)

\* Where `id' is declared in the program: the last place wins.
Declared(id) == {i \in DOMAIN program : program[i] = <<ASMDIRMEM, id>>}

\* The number of the entry that follows it; what was never declared is at the beginning.
Place(id) ==
    1 + Cardinality({i \in DOMAIN program :
                        Emits(program[i]) /\ \E j \in Declared(id) : i < j})

Bytes(size, data) ==
    SubSeq(LittleEndian(data) \o (IF data < 0 THEN <<255, 255, 255, 255>> ELSE <<0, 0, 0, 0>>),
           1, CASE size = D8 -> 1 [] size = D16 -> 2 [] size = D32 -> 4 [] size = D64 -> 8)

-----------------------------------------------------------------------------
(***************************************************************************)
(* The meaning of a statement.                                             *)
(***************************************************************************)
Operand(kind, data, size) ==
    CASE kind = REG -> Register(data)
      [] kind = MEM -> Memory(Place(data))
      [] kind = IMM -> Immediate(Bytes(size, data))
      [] kind = REL -> AddressOf(Place(data))

\* The operations by how they take operands.
Binary    == (ADD .. CMP) \union {MOV} \union (CMOVO .. CMOVG) \union {BSF, BSR}
Counted   == (ROL .. SAR) \union (BT .. BTC)
Unary     == (INC .. IDIV) \union {POP, PUSH, BSWAP}
Branches  == (JO .. JG) \union (LOOP .. LOOPNE)
Ports     == {IN_, OUT}

\* A 64 bit immediate is wide only in a move to a register.
ImmediateSize(s) == IF s[2] = D64 /\ (s[1] # MOV \/ s[3] # REG) THEN D32 ELSE s[2]

Meaning(s) ==
    CASE s[1] \in Binary ->
            Means(s[1], s[2], <<Operand(s[3], s[4], s[2]), Operand(s[5], s[6], ImmediateSize(s))>>)
      [] s[1] \in Counted ->
            Means(Shift(s[1]), s[2], <<Operand(s[3], s[4], s[2]), Operand(s[5], s[6], D8)>>)
      [] s[1] \in Unary           -> Means(s[1], s[2], <<Operand(s[3], s[4], s[2])>>)
      [] s[1] \in SETO .. SETG    -> Means(s[1], D8, <<Operand(s[3], s[4], D8)>>)
      [] s[1] \in Ports           -> Means(s[1], s[2], <<Immediate(Bytes(D8, s[4]))>>)
      [] s[1] = JMP /\ s[3] = REG -> Means(s[1], D64, <<Register(s[4])>>)
      [] s[1] = JMP /\ s[3] = MEM -> Means(s[1], D64, <<Memory(Place(s[4]))>>)
      [] s[1] \in Branches \/ (s[1] = JMP /\ s[3] = REL) ->
            Means(s[1], D32, <<Code(Place(s[4]))>>)
      [] s[1] = CALL /\ s[2] = REL -> Means(s[1], D32, <<Code(Place(s[3]))>>)
      [] s[1] = CALL /\ s[2] = REG -> Means(s[1], D64, <<Register(s[3])>>)
      [] s[1] = ASMDIRIMM ->
            Means(s[1], s[2], <<Immediate(FlattenSeq([i \in 1 .. s[3] |-> Bytes(s[2], s[i + 3])]))>>)
      [] OTHER -> Means(s[1], D32, <<>>)

\* The ids a statement's meaning depends on.
References(s) ==
    CASE s[1] \in Binary \union Counted -> {s[k + 1] : k \in {i \in {3, 5} : s[i] \in {MEM, REL}}}
      [] s[1] \in Unary \union (SETO .. SETG) \union Branches \union {JMP} ->
            IF s[3] \in {MEM, REL} THEN {s[4]} ELSE {}
      [] s[1] = CALL -> IF s[2] = REL THEN {s[3]} ELSE {}
      [] OTHER -> {}

\* Everything referred to is declared.
Complete ==
    \A id \in UNION {References(program[i]) : i \in DOMAIN program} : Declared(id) # {}

-----------------------------------------------------------------------------
Init ==
    /\ program = <<>>
    /\ listing = <<>>
    /\ entry = 0

Write(group) ==
    /\ entry = 0
    /\ program' = program \o group
    /\ UNCHANGED <<listing, entry>>

\* The statements up to the i-th that make something, and the one that makes the k-th entry.
Emitting(i) == {j \in 1 .. i : Emits(program[j])}
Emitter(k)  == CHOOSE i \in Emitting(Len(program)) : Cardinality(Emitting(i)) = k

Translation ==
    [k \in 1 .. Cardinality(Emitting(Len(program))) |-> Meaning(program[Emitter(k)])]

\* An incomplete program may become anything.
Translate ==
    /\ entry = 0
    /\ entry' # 0
    /\ UNCHANGED program
    /\ Complete => listing' = Translation /\ entry' = Place(0)

Next == Translate \/ \E group \in Groups : Write(group)

Spec == Init /\ [][Next]_vars

=============================================================================
