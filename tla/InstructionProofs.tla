------------------------- MODULE InstructionProofs -------------------------
(***************************************************************************)
(* What TLAPS proves of Encoding against X86: how much the builders emit   *)
(* and take, whatever they are handed, and that what they make of every    *)
(* statement that is not known to be misencoded is decoded as it, whatever *)
(* surrounds it and wherever it lies.                                      *)
(***************************************************************************)
EXTENDS Assembler, SequenceProofs

-----------------------------------------------------------------------------
(***************************************************************************)
(* Bytes.                                                                  *)
(***************************************************************************)
Byte == 0 .. 255

\* At most n bytes.
Short(s, n) == s \in Seq(Byte) /\ Len(s) \in Nat /\ Len(s) <= n

LEMMA Longer ==
    ASSUME NEW s, NEW n \in Nat, Short(s, n), NEW m \in Nat, n <= m
    PROVE  Short(s, m)
BY DEF Short

LEMMA ShortJoined ==
    ASSUME NEW s, NEW n \in Nat, Short(s, n), NEW t, NEW m \in Nat, Short(t, m)
    PROVE  Short(s \o t, n + m) /\ Len(s \o t) = Len(s) + Len(t)
BY ConcatProperties DEF Short

LEMMA ShortEmpty == Short(<<>>, 0)
BY EmptySeq DEF Short

LEMMA ByteOf ==
    ASSUME NEW data \in Int
    PROVE  data % 256 \in Byte /\ data \div 256 \in Int
BY DEF Byte

LEMMA OneByte ==
    ASSUME NEW b \in Byte
    PROVE  Short(<<b>>, 1) /\ Len(<<b>>) = 1
<1>1. <<b>> \in Seq(Byte) /\ Len(<<b>>) = 1
  OBVIOUS
<1> QED
  BY <1>1 DEF Short

LEMMA TwoBytes ==
    ASSUME NEW b \in Byte, NEW c \in Byte
    PROVE  Short(<<b, c>>, 2)
<1>1. <<b, c>> \in Seq(Byte) /\ Len(<<b, c>>) = 2
  OBVIOUS
<1> QED
  BY <1>1 DEF Short

LEMMA ThreeBytes ==
    ASSUME NEW b \in Byte, NEW c \in Byte, NEW d \in Byte
    PROVE  Short(<<b, c, d>>, 3)
<1>1. <<b, c, d>> \in Seq(Byte) /\ Len(<<b, c, d>>) = 3
  OBVIOUS
<1> QED
  BY <1>1 DEF Short

LEMMA LittleEndianBytes ==
    ASSUME NEW data \in Int
    PROVE  LittleEndian(data) \in Seq(Byte) /\ Len(LittleEndian(data)) = 4
<1>1. /\ data % 256 \in Byte /\ (data \div 256) % 256 \in Byte
      /\ (data \div 65536) % 256 \in Byte /\ (data \div 16777216) % 256 \in Byte
  BY DEF Byte
<1> QED
  BY <1>1 DEF LittleEndian

LEMMA Width == \A size : WidthOf(size) \in {1, 2, 4}
BY DEF WidthOf

LEMMA Prefix ==
    ASSUME NEW data \in Int, NEW n \in 0 .. 4
    PROVE  Short(SubSeq(LittleEndian(data), 1, n), n) /\ Len(SubSeq(LittleEndian(data), 1, n)) = n
<1> DEFINE le == LittleEndian(data)
<1>1. le \in Seq(Byte) /\ Len(le) = 4
  BY LittleEndianBytes
<1> HIDE DEF le
<1>2. SubSeq(le, 1, n) \in Seq(Byte) /\ Len(SubSeq(le, 1, n)) = n
  BY <1>1
<1> QED
  BY <1>2 DEF Short, le

LEMMA Inset ==
    ASSUME NEW when, NEW data \in Int
    PROVE  Short(inset(when, data), 1) /\ (~when => Short(inset(when, data), 0))
<1>1. CASE when
  BY <1>1, ByteOf, OneByte DEF inset
<1>2. CASE ~when
  <2>1. inset(when, data) = <<>>
    BY <1>2 DEF inset
  <2> QED
    BY <1>2, <2>1, ShortEmpty, Longer
<1> QED
  BY <1>1, <1>2

LEMMA InsetImmediate ==
    ASSUME NEW when, NEW size, NEW data \in Int
    PROVE  /\ Short(inset_immediate(when, size, data), 4)
           /\ ~when => Short(inset_immediate(when, size, data), 0)
           /\ size = D8 => Short(inset_immediate(when, size, data), 1)
           /\ size = D16 => Short(inset_immediate(when, size, data), 2)
<1> DEFINE w == WidthOf(size)
<1>1. w \in 0 .. 4 /\ w \in Nat /\ w <= 4 /\ (size = D8 => w = 1) /\ (size = D16 => w = 2)
  BY Width DEF WidthOf, D8, D16
<1>2. CASE when
  <2>1. inset_immediate(when, size, data) = SubSeq(LittleEndian(data), 1, w)
    BY <1>2 DEF inset_immediate
  <2> HIDE DEF w
  <2>2. Short(inset_immediate(when, size, data), w)
    BY <1>1, <2>1, Prefix
  <2> QED
    BY <1>1, <1>2, <2>2, Longer
<1>3. CASE ~when
  <2>1. inset_immediate(when, size, data) = <<>>
    BY <1>3 DEF inset_immediate
  <2> QED
    BY <2>1, ShortEmpty, Longer
<1> QED
  BY <1>2, <1>3

-----------------------------------------------------------------------------
(***************************************************************************)
(* What the builders emit and take.                                        *)
(***************************************************************************)
Bases == {"relative", "unsorted", "absolute", "data", "zero", "loop"}

\* An operand field, with the tokens its instruction has to have for it.
FieldOk(field, skip) ==
    \/ field = NoField
    \/ /\ field.width \in {1, 2, 4} /\ field.id \in Int /\ field.base \in Bases
       /\ field # NoField
       /\ skip >= 2

\* At most four bytes for each token a builder takes.
Modest(result) ==
    /\ result.head \in Seq(Byte) /\ result.tail \in Seq(Byte)
    /\ Len(result.head) + result.field.width + Len(result.tail) <= 4 * (result.skip + 1)
    /\ result.skip \in Nat
    /\ FieldOk(result.field, result.skip)

LEMMA Bit == \A condition : B(condition) \in {0, 1}
BY DEF B

LEMMA ShortPrefix == \A size : Short(short_prefix(size), 1)
BY Inset DEF short_prefix

LEMMA LongPrefix ==
    \A size, to, destination, from, source :
        Short(long_prefix(size, to, destination, from, source), 1)
BY Inset, Bit DEF long_prefix

LEMMA ByteRexShort ==
    \A size, to, destination, from, source :
        Short(ByteRex(size, to, destination, from, source), 1)
BY Inset DEF ByteRex

LEMMA ModifyMemory ==
    ASSUME NEW code \in Int, NEW to, NEW from
    PROVE  Short(modify_memory(code, to, from), 1)
BY Inset, Bit DEF modify_memory

LEMMA JoinedShort ==
    \A s, t : \A n, m \in Nat : Short(s, n) /\ Short(t, m) => Short(s \o t, n + m)
BY ShortJoined

\* No field has no bytes, and any other as many as its width says.
LEMMA FieldIsOk ==
    ASSUME NEW size, NEW id \in Int, NEW base \in Bases, NEW skip \in Nat, skip >= 2
    PROVE  FieldOk(Field(size, id, base), skip)
<1>1. /\ Field(size, id, base).width = WidthOf(size)
      /\ Field(size, id, base).id = id
      /\ Field(size, id, base).base = base
  BY DEF Field
<1>2. WidthOf(size) \in {1, 2, 4}
  BY Width
<1>3. NoField.width = 0
  BY DEF NoField
<1> QED
  BY <1>1, <1>2, <1>3 DEF FieldOk

LEMMA OneFieldIsOk ==
    ASSUME NEW kind, NEW id \in Int, NEW base \in Bases, NEW skip \in Nat, skip >= 2
    PROVE  FieldOk(OneField(kind, id, base), skip)
BY FieldIsOk DEF OneField, FieldOk

LEMMA MemoryFieldIsOk ==
    ASSUME NEW to, NEW destination \in Int, NEW from, NEW source \in Int,
           NEW relation \in Bases, NEW skip \in Nat, skip >= 2
    PROVE  FieldOk(MemoryField(to, destination, from, source, relation), skip)
<1>1. "relative" \in Bases
  BY DEF Bases
<1> QED
  BY <1>1, FieldIsOk DEF MemoryField, FieldOk

\* A result put together from short pieces.
LEMMA BuiltIsModest ==
    ASSUME NEW n \in Nat, NEW m \in Nat, NEW head, NEW field, NEW tail, NEW skip \in Nat,
           Short(head, n), Short(tail, m), FieldOk(field, skip),
           \/ n + m <= 4 * skip
           \/ n + m <= 4 * (skip + 1) /\ field = NoField
    PROVE  Modest(Built(head, field, tail, skip))
<1>1. field = NoField => field.width = 0
  BY DEF NoField
<1>2. field.width \in {0, 1, 2, 4}
  BY <1>1 DEF FieldOk
<1>3. Len(head) + field.width + Len(tail) <= 4 * (skip + 1)
  BY <1>1, <1>2 DEF Short
<1>4. /\ Built(head, field, tail, skip).head = head
      /\ Built(head, field, tail, skip).field = field
      /\ Built(head, field, tail, skip).tail = tail
      /\ Built(head, field, tail, skip).skip = skip
  BY DEF Built
<1> QED
  BY <1>3, <1>4 DEF Modest, Short

LEMMA OfDouble ==
    ASSUME NEW a \in [0 .. 6 -> Int]
    PROVE  Modest(build_double(a))
<1> DEFINE operation == a[0]  size == a[1]  to == a[2]
           destination == a[3]  from == a[4]  source == a[5]
           accumulator == attach(to, from) /\ destination = 0
           p1 == short_prefix(size)
           p2 == long_prefix(size, to, destination, from, source)
           p3 == ByteRex(size, to, destination, from, source)
           p4 == inset(attach(to, from), \h81 - B(size = D8))
           p5 == inset(accumulator, 5 + (8 * (operation % 8)) - B(size = D8))
           p6 == inset(~accumulator,
                 (destination % 8) * B(attach(to, from)) + 8 * (operation - ADD)
                 + B(assign(to, from) /\ size = D8) - B(attach(to, from) /\ size # D8)
                 + B(size # D8) + 2 * B(import(to, from)) + 4 * B(assign(to, from))
                 + \hc0 * B(attach(to, from)))
           p7 == inset(transfer(to, from), mc0(destination, source))
           p8 == modify_memory(destination, to, from)
           p9 == modify_memory(source, to, from)
           p10 == inset_immediate(attach(to, from), size, source)
           tail == inset_immediate(assign(to, from), size, source)
<1>1. operation \in Int /\ destination \in Int /\ source \in Int /\ ADD \in Int
  BY DEF ADD
<1>2. Short(p1, 1) /\ Short(p2, 1) /\ Short(p3, 1) /\ Short(p8, 1) /\ Short(p9, 1)
  BY <1>1, ShortPrefix, LongPrefix, ByteRexShort, ModifyMemory
<1>3. Short(p4, 1) /\ Short(p5, 1) /\ Short(p6, 1) /\ Short(p7, 1)
  BY <1>1, Bit, Inset DEF mc0
<1>4. Short(p10, 4) /\ Short(tail, 4)
  BY <1>1, InsetImmediate
<1> HIDE DEF p1, p2, p3, p4, p5, p6, p7, p8, p9, p10, tail
<1>5. Short(p1 \o p2 \o p3 \o p4 \o p5 \o p6 \o p7 \o p8 \o p9 \o p10, 13)
  BY <1>2, <1>3, <1>4, JoinedShort
<1>6. FieldOk(MemoryField(to, destination, from, source, "absolute"), 5)
  BY <1>1, MemoryFieldIsOk DEF Bases
<1>7. Modest(Built(p1 \o p2 \o p3 \o p4 \o p5 \o p6 \o p7 \o p8 \o p9 \o p10,
                   MemoryField(to, destination, from, source, "absolute"), tail, 5))
  BY <1>4, <1>5, <1>6, BuiltIsModest
<1> QED
  BY <1>7 DEF build_double, p1, p2, p3, p4, p5, p6, p7, p8, p9, p10, tail

LEMMA ReferenceBytes ==
    ASSUME NEW source \in Int
    PROVE  Short(m072445(source), 2)
<1>1. source % 8 \in Byte /\ \h04 \in Byte /\ \h24 \in Byte /\ \h45 \in Byte /\ 0 \in Byte
  BY DEF Byte
<1>2. Short(<<\h04, \h24>>, 2) /\ Short(<<\h45, 0>>, 2) /\ Short(<<source % 8>>, 1)
  BY <1>1, OneByte, TwoBytes
<1> QED
  BY <1>2, Longer DEF m072445

LEMMA OfMove ==
    ASSUME NEW a \in [0 .. 6 -> Int]
    PROVE  Modest(build_move(a))
<1> DEFINE size == a[1]  to == a[2]  destination == a[3]  from == a[4]  source == a[5]
           wide == size = D64
           p1 == short_prefix(size)
           p2 == long_prefix(size, to, destination, from, source)
           p3 == inset(size = D8 /\ front(destination), \h40)
           p4 == inset(transfer(to, from) \/ export(to, from), \h88 + B(size # D8))
           p5 == inset(import(to, from), \h8a + B(size # D8))
           p6 == modify_memory(destination, to, from)
           p7 == modify_memory(source, to, from)
           p8 == inset(transfer(to, from), mc0(destination, source))
           p9 == inset(to = REG /\ from \in {IMM, REL},
                       \hb0 + (8 * B(size # D8)) + (destination % 8))
           p10 == inset(assign(to, from), \hc6 + B(size # D8))
           p11 == inset(assign(to, from), 5)
           p12 == inset_immediate(attach(to, from), IF wide THEN D32 ELSE size, source)
           p13 == inset_immediate(attach(to, from) /\ wide, D32, a[6])
           p14 == inset_immediate(attach(to, from) /\ wide, D32, 0)
           tail == inset_immediate(assign(to, from) /\ ~wide, size, source)
           field == MemoryField(to, destination, from, source, "data")
<1>1. destination \in Int /\ source \in Int /\ a[6] \in Int
  OBVIOUS
<1>2. Short(p1, 1) /\ Short(p2, 1) /\ Short(p6, 1) /\ Short(p7, 1)
  BY <1>1, ShortPrefix, LongPrefix, ModifyMemory
<1>3. /\ Short(p3, 1) /\ Short(p4, 1) /\ Short(p5, 1) /\ Short(p8, 1)
      /\ Short(p9, 1) /\ Short(p10, 1) /\ Short(p11, 1)
  BY <1>1, Bit, Inset DEF mc0
<1>4. 5 + B(wide) \in Nat /\ 5 + B(wide) >= 5
  BY Bit
<1>5. FieldOk(field, 5 + B(wide))
  BY <1>1, <1>4, MemoryFieldIsOk DEF Bases
<1>6. CASE attach(to, from)
  <2>1. Short(p12, 4) /\ Short(p13, 4) /\ Short(p14, 4)
    BY <1>1, InsetImmediate
  <2>2. ~assign(to, from)
    BY <1>6 DEF attach, assign, REG, MEM, IMM
  <2>3. Short(tail, 0)
    BY <1>1, <2>2, InsetImmediate
  <2>4. field = NoField
    BY <1>6 DEF attach, MemoryField, import, export, assign, relate, REG, MEM, IMM, REL
  <2> HIDE DEF p1, p2, p3, p4, p5, p6, p7, p8, p9, p10, p11, p12, p13, p14, tail, field
  <2>5. Short(p1 \o p2 \o p3 \o p4 \o p5 \o p6 \o p7 \o p8 \o p9 \o p10 \o p11 \o p12
              \o p13 \o p14, 23)
    BY <1>2, <1>3, <2>1, JoinedShort
  <2>6. Modest(Built(p1 \o p2 \o p3 \o p4 \o p5 \o p6 \o p7 \o p8 \o p9 \o p10 \o p11 \o p12
                     \o p13 \o p14, field, tail, 5 + B(wide)))
    BY <1>4, <1>5, <2>3, <2>4, <2>5, BuiltIsModest
  <2> QED
    BY <2>6 DEF build_move, p1, p2, p3, p4, p5, p6, p7, p8, p9, p10, p11, p12, p13, p14,
                tail, field
<1>7. CASE ~attach(to, from)
  <2>1. p12 = <<>> /\ p13 = <<>> /\ p14 = <<>>
    BY <1>7 DEF inset_immediate
  <2>2. Short(tail, 4)
    BY <1>1, InsetImmediate
  <2> HIDE DEF p1, p2, p3, p4, p5, p6, p7, p8, p9, p10, p11, p12, p13, p14, tail, field
  <2>3. Short(p1 \o p2 \o p3 \o p4 \o p5 \o p6 \o p7 \o p8 \o p9 \o p10 \o p11 \o p12
              \o p13 \o p14, 11)
    BY <1>2, <1>3, <2>1, ShortEmpty, JoinedShort
  <2>4. Modest(Built(p1 \o p2 \o p3 \o p4 \o p5 \o p6 \o p7 \o p8 \o p9 \o p10 \o p11 \o p12
                     \o p13 \o p14, field, tail, 5 + B(wide)))
    BY <1>4, <1>5, <2>2, <2>3, BuiltIsModest
  <2> QED
    BY <2>4 DEF build_move, p1, p2, p3, p4, p5, p6, p7, p8, p9, p10, p11, p12, p13, p14,
                tail, field
<1> QED
  BY <1>6, <1>7

LEMMA OfMoveIf ==
    ASSUME NEW a \in [0 .. 6 -> Int],
           a[0] \in CMOVO .. CMOVG
    PROVE  Modest(build_move_if(a))
<1> DEFINE size == a[1]  to == a[2]  destination == a[3]  from == a[4]  source == a[5]
           p1 == short_prefix(size)
           p2 == long_prefix(size, to, destination, from, source)
           p3 == <<\h0f, \h40 + a[0] - CMOVO>>
           p4 == inset(transfer(to, from), mc0(destination, source))
           p5 == modify_memory(destination, to, from)
<1>1. a[0] \in Int /\ destination \in Int /\ source \in Int
  BY DEF CMOVO, CMOVG
<1>2. \h0f \in Byte /\ \h40 + a[0] - CMOVO \in Byte
  BY <1>1 DEF Byte, CMOVO, CMOVG
<1>3. Short(p3, 2)
  BY <1>2, TwoBytes
<1>4. /\ Short(p1, 1) /\ Short(p2, 1) /\ Short(p4, 1) /\ Short(p5, 1)
  BY <1>1, Inset, ShortPrefix, LongPrefix, ModifyMemory DEF mc0
<1> HIDE DEF p1, p2, p3, p4, p5
<1>5. Short(p1 \o p2 \o p3 \o p4 \o p5, 6)
  BY <1>3, <1>4, JoinedShort
<1>6. FieldOk(NoField, 5)
  BY DEF FieldOk
<1>7. Modest(Built(p1 \o p2 \o p3 \o p4 \o p5, NoField, <<>>, 5))
  BY <1>5, <1>6, BuiltIsModest, ShortEmpty
<1> QED
  BY <1>7 DEF build_move_if, p1, p2, p3, p4, p5

LEMMA OfBitScan ==
    ASSUME NEW a \in [0 .. 6 -> Int]
    PROVE  Modest(build_bit_scan(a))
<1> DEFINE size == a[1]  destination == a[3]  from == a[4]  source == a[5]
           p1 == short_prefix(size)
           p2 == long_prefix(size, REG, destination, from, source)
           p3 == <<\h0f, \hbc + B(a[0] = BSR)>>
           p4 == inset(transfer(REG, from), mc0(destination, source))
           p5 == inset(from = MEM, m05(destination))
<1>1. destination \in Int /\ source \in Int
  OBVIOUS
<1>2. \h0f \in Byte /\ \hbc + B(a[0] = BSR) \in Byte
  BY <1>1, Bit DEF Byte
<1>3. Short(p3, 2)
  BY <1>2, TwoBytes
<1>4. /\ Short(p1, 1) /\ Short(p2, 1) /\ Short(p4, 1) /\ Short(p5, 1)
  BY <1>1, Bit, Inset, ShortPrefix, LongPrefix DEF mc0, m05
<1> HIDE DEF p1, p2, p3, p4, p5
<1>5. Short(p1 \o p2 \o p3 \o p4 \o p5, 6)
  BY <1>3, <1>4, JoinedShort
<1>6. FieldOk((IF from = MEM THEN Field(D32, source, "relative") ELSE NoField), 5)
  BY <1>1, FieldIsOk DEF FieldOk, Bases
<1>7. Modest(Built(p1 \o p2 \o p3 \o p4 \o p5,
                   (IF from = MEM THEN Field(D32, source, "relative") ELSE NoField), <<>>, 5))
  BY <1>5, <1>6, BuiltIsModest, ShortEmpty
<1> QED
  BY <1>7 DEF build_bit_scan, p1, p2, p3, p4, p5

LEMMA OfBitTest ==
    ASSUME NEW a \in [0 .. 6 -> Int]
    PROVE  Modest(build_bit_test(a))
<1> DEFINE size == a[1]  to == a[2]  destination == a[3]  from == a[4]  source == a[5]
           offset == a[0] - BT
           p1 == short_prefix(size)
           p2 == long_prefix(size, to, destination, from, source)
           p3 == <<\h0f>>
           p4 == inset(attach(to, from) \/ assign(to, from), \hba)
           p5 == inset(transfer(to, from) \/ export(to, from), \ha3 + (8 * offset))
           p6 == inset(export(to, from), m05(to))
           p7 == inset(assign(to, from), m05(4 + offset))
           p8 == inset(attach(to, from), mc0(destination, 4 + offset))
           p9 == inset(transfer(to, from), mc0(destination, source))
           p10 == inset(from = IMM, source)
<1>1. destination \in Int /\ source \in Int /\ to \in Int /\ offset \in Int
  BY DEF BT
<1>2. \h0f \in Byte
  BY <1>1 DEF Byte, BT
<1>3. Short(p3, 1)
  BY <1>2, OneByte
<1>4. /\ Short(p1, 1) /\ Short(p2, 1) /\ Short(p4, 1) /\ Short(p5, 1)
      /\ Short(p6, 1) /\ Short(p7, 1) /\ Short(p8, 1) /\ Short(p9, 1)
      /\ Short(p10, 1)
  BY <1>1, Inset, ShortPrefix, LongPrefix DEF mc0, m05
<1> HIDE DEF p1, p2, p3, p4, p5, p6, p7, p8, p9, p10
<1>5. Short(p1 \o p2 \o p3 \o p4 \o p5 \o p6 \o p7 \o p8 \o p9 \o p10, 10)
  BY <1>3, <1>4, JoinedShort
<1>6. FieldOk((IF from = MEM THEN Field(D32, source, "relative") ELSE NoField), 5)
  BY <1>1, FieldIsOk DEF FieldOk, Bases
<1>7. Modest(Built(p1 \o p2 \o p3 \o p4 \o p5 \o p6 \o p7 \o p8 \o p9 \o p10,
                   (IF from = MEM THEN Field(D32, source, "relative") ELSE NoField), <<>>, 5))
  BY <1>5, <1>6, BuiltIsModest, ShortEmpty
<1> QED
  BY <1>7 DEF build_bit_test, p1, p2, p3, p4, p5, p6, p7, p8, p9, p10

LEMMA OfSingle ==
    ASSUME NEW a \in [0 .. 6 -> Int]
    PROVE  Modest(build_single(a))
<1> DEFINE operation == a[0]  size == a[1]  to == a[2]  destination == a[3]
           p1 == short_prefix(size)
           p2 == long_prefix(size, to, destination, 0, 0)
           p3 == inset(size = D8 /\ to = REG /\ front(destination), \h40)
           p4 == <<\hf7 + (8 * B(IsStep(operation))) - B(size = D8)>>
           p5 == inset(to = REG, \hc0 + (8 * (operation - INC)) + (destination % 8))
           p6 == inset(to = MEM, 5 + (8 * (operation - INC)))
<1>1. operation \in Int /\ destination \in Int /\ INC \in Int
  BY DEF INC
<1>2. \hf7 + (8 * B(IsStep(operation))) - B(size = D8) \in Byte
  BY <1>1, Bit DEF Byte, INC
<1>3. Short(p4, 1)
  BY <1>2, OneByte
<1>4. /\ Short(p1, 1) /\ Short(p2, 1) /\ Short(p3, 1) /\ Short(p5, 1)
      /\ Short(p6, 1)
  BY <1>1, Bit, Inset, ShortPrefix, LongPrefix
<1> HIDE DEF p1, p2, p3, p4, p5, p6
<1>5. Short(p1 \o p2 \o p3 \o p4 \o p5 \o p6, 6)
  BY <1>3, <1>4, JoinedShort
<1>6. FieldOk(OneField(to, destination, "relative"), 3)
  BY <1>1, OneFieldIsOk DEF Bases
<1>7. Modest(Built(p1 \o p2 \o p3 \o p4 \o p5 \o p6,
                   OneField(to, destination, "relative"), <<>>, 3))
  BY <1>5, <1>6, BuiltIsModest, ShortEmpty
<1> QED
  BY <1>7 DEF build_single, p1, p2, p3, p4, p5, p6

LEMMA OfShift ==
    ASSUME NEW a \in [0 .. 6 -> Int]
    PROVE  Modest(build_shift(a))
<1> DEFINE operation == a[0]  size == a[1]  to == a[2]  destination == a[3]
           offset == a[5]
           group == 8 * ((operation - ROL) % 8)
           last == inset_immediate(TRUE, D8, offset)
           p1 == short_prefix(size)
           p2 == long_prefix(size, to, destination, 0, 0)
           p3 == <<\hc0 + B(size # D8)>>
           p4 == inset(to = REG, 5 + group)
           p5 == inset(to = MEM, \hc0 + group)
           p6 == (IF to = MEM THEN <<>> ELSE last)
           tail == (IF to = MEM THEN last ELSE <<>>)
<1>1. operation \in Int /\ destination \in Int /\ offset \in Int /\ group \in Int
  BY DEF ROL
<1>2. \hc0 + B(size # D8) \in Byte
  BY <1>1, Bit DEF Byte, ROL
<1>3. Short(p3, 1)
  BY <1>2, OneByte
<1>4. /\ Short(p1, 1) /\ Short(p2, 1) /\ Short(p4, 1) /\ Short(p5, 1)
      /\ Short(p6, 4) /\ Short(tail, 4)
  <2>1. Short(last, 4)
    BY <1>1, InsetImmediate
  <2>2. Short(<<>>, 4)
    BY ShortEmpty, Longer
  <2> HIDE DEF group, last
  <2> QED
    BY <1>1, <2>1, <2>2, Inset, ShortPrefix, LongPrefix
<1> HIDE DEF p1, p2, p3, p4, p5, p6, tail
<1>5. Short(p1 \o p2 \o p3 \o p4 \o p5 \o p6, 9)
  BY <1>3, <1>4, JoinedShort
<1>6. FieldOk(OneField(to, destination, "relative"), 5)
  BY <1>1, OneFieldIsOk DEF Bases
<1>7. Modest(Built(p1 \o p2 \o p3 \o p4 \o p5 \o p6,
                   OneField(to, destination, "relative"), tail, 5))
  BY <1>4, <1>5, <1>6, BuiltIsModest
<1> QED
  BY <1>7 DEF build_shift, p1, p2, p3, p4, p5, p6, tail

LEMMA OfSetIf ==
    ASSUME NEW a \in [0 .. 6 -> Int],
           a[0] \in SETO .. SETG
    PROVE  Modest(build_set_if(a))
<1> DEFINE to == a[2]  destination == a[3]
           p1 == inset(to = REG /\ front(destination), \h40)
           p2 == inset(to = REG /\ upper(destination), \h41)
           p3 == <<\h0f, \h90 + a[0] - SETO>>
           p4 == inset(to = REG, \hc0 + (destination % 8))
           p5 == inset(to = MEM, 5)
<1>1. a[0] \in Int /\ destination \in Int
  BY DEF SETO, SETG
<1>2. \h0f \in Byte /\ \h90 + a[0] - SETO \in Byte
  BY <1>1 DEF Byte, SETO, SETG
<1>3. Short(p3, 2)
  BY <1>2, TwoBytes
<1>4. /\ Short(p1, 1) /\ Short(p2, 1) /\ Short(p4, 1) /\ Short(p5, 1)
  BY <1>1, Inset
<1> HIDE DEF p1, p2, p3, p4, p5
<1>5. Short(p1 \o p2 \o p3 \o p4 \o p5, 6)
  BY <1>3, <1>4, JoinedShort
<1>6. FieldOk(OneField(to, destination, "relative"), 3)
  BY <1>1, OneFieldIsOk DEF Bases
<1>7. Modest(Built(p1 \o p2 \o p3 \o p4 \o p5, OneField(to, destination, "relative"), <<>>, 3))
  BY <1>5, <1>6, BuiltIsModest, ShortEmpty
<1> QED
  BY <1>7 DEF build_set_if, p1, p2, p3, p4, p5

LEMMA OfPop ==
    ASSUME NEW a \in [0 .. 6 -> Int]
    PROVE  Modest(build_pop(a))
<1> DEFINE size == a[1]  to == a[2]  destination == a[3]
           p1 == short_prefix(size)
           p2 == inset(to = REG /\ upper(destination), \h41)
           p3 == inset(to = REG, \h58 + (destination % 8))
           p4 == inset(to = MEM, \h8f)
           p5 == inset(to = MEM, 5)
<1>1. destination \in Int
  OBVIOUS
<1>2. /\ Short(p1, 1) /\ Short(p2, 1) /\ Short(p3, 1) /\ Short(p4, 1)
      /\ Short(p5, 1)
  BY <1>1, Inset, ShortPrefix
<1> HIDE DEF p1, p2, p3, p4, p5
<1>3. Short(p1 \o p2 \o p3 \o p4 \o p5, 5)
  BY <1>2, JoinedShort
<1>4. FieldOk(OneField(to, destination, "zero"), 3)
  BY <1>1, OneFieldIsOk DEF Bases
<1>5. Modest(Built(p1 \o p2 \o p3 \o p4 \o p5, OneField(to, destination, "zero"), <<>>, 3))
  BY <1>3, <1>4, BuiltIsModest, ShortEmpty
<1> QED
  BY <1>5 DEF build_pop, p1, p2, p3, p4, p5

LEMMA OfPush ==
    ASSUME NEW a \in [0 .. 6 -> Int]
    PROVE  Modest(build_push(a))
<1> DEFINE size == a[1]  from == a[2]  source == a[3]
           p1 == short_prefix(size)
           p2 == inset(from = REG /\ upper(source), \h41)
           p3 == inset(from = REG, \h50 + (source % 8))
           p4 == inset(from = MEM, \hff)
           p5 == inset(from = MEM, \h35)
           p6 == inset(from = IMM, \h68 + (2 * B(size = D8)))
           p7 == inset_immediate(from = IMM, size, source)
<1>1. source \in Int
  OBVIOUS
<1>2. /\ Short(p1, 1) /\ Short(p2, 1) /\ Short(p3, 1) /\ Short(p4, 1)
      /\ Short(p5, 1) /\ Short(p6, 1) /\ Short(p7, 4)
  BY <1>1, Bit, Inset, InsetImmediate, ShortPrefix
<1> HIDE DEF p1, p2, p3, p4, p5, p6, p7
<1>3. Short(p1 \o p2 \o p3 \o p4 \o p5 \o p6 \o p7, 10)
  BY <1>2, JoinedShort
<1>4. FieldOk(OneField(from, source, "zero"), 3)
  BY <1>1, OneFieldIsOk DEF Bases
<1>5. Modest(Built(p1 \o p2 \o p3 \o p4 \o p5 \o p6 \o p7, OneField(from, source, "zero"), <<>>, 3))
  BY <1>3, <1>4, BuiltIsModest, ShortEmpty
<1> QED
  BY <1>5 DEF build_push, p1, p2, p3, p4, p5, p6, p7

LEMMA OfSwap ==
    ASSUME NEW a \in [0 .. 6 -> Int]
    PROVE  Modest(build_swap(a))
<1> DEFINE size == a[1]
           p1 == long_prefix(size, REG, a[3], 0, 0)
           p2 == <<\h0f, \hc8 + (a[3] % 8)>>
<1>1. a[3] \in Int
  OBVIOUS
<1>2. \h0f \in Byte /\ \hc8 + (a[3] % 8) \in Byte
  BY <1>1 DEF Byte
<1>3. Short(p2, 2)
  BY <1>2, TwoBytes
<1>4. /\ Short(p1, 1)
  BY <1>1, LongPrefix
<1> HIDE DEF p1, p2
<1>5. Short(p1 \o p2, 3)
  BY <1>3, <1>4, JoinedShort
<1>6. FieldOk(NoField, 3)
  BY DEF FieldOk
<1>7. Modest(Built(p1 \o p2, NoField, <<>>, 3))
  BY <1>5, <1>6, BuiltIsModest, ShortEmpty
<1> QED
  BY <1>7 DEF build_swap, p1, p2

LEMMA OfInOut ==
    ASSUME NEW a \in [0 .. 6 -> Int]
    PROVE  Modest(build_in_out(a))
<1> DEFINE size == a[1]  type == a[2]  port == a[3]
           p1 == short_prefix(size)
           p2 == <<\he4 + B(size # D8) + (2 * B(a[0] = IN_)) + (8 * B(type = REG))>>
           p3 == inset_immediate(type = IMM, D8, port)
<1>1. port \in Int
  OBVIOUS
<1>2. \he4 + B(size # D8) + (2 * B(a[0] = IN_)) + (8 * B(type = REG)) \in Byte
  BY <1>1, Bit DEF Byte
<1>3. Short(p2, 1)
  BY <1>2, OneByte
<1>4. /\ Short(p1, 1) /\ Short(p3, 4)
  BY <1>1, Bit, InsetImmediate, ShortPrefix
<1> HIDE DEF p1, p2, p3
<1>5. Short(p1 \o p2 \o p3, 6)
  BY <1>3, <1>4, JoinedShort
<1>6. FieldOk(NoField, 3)
  BY DEF FieldOk
<1>7. Modest(Built(p1 \o p2 \o p3, NoField, <<>>, 3))
  BY <1>5, <1>6, BuiltIsModest, ShortEmpty
<1> QED
  BY <1>7 DEF build_in_out, p1, p2, p3

LEMMA OfEnter ==
    ASSUME NEW a \in [0 .. 6 -> Int]
    PROVE  Modest(build_enter(a))
<1> DEFINE p1 == <<\hc8>>
           p2 == inset_immediate(TRUE, D16, a[1])
           p3 == inset_immediate(TRUE, D8, a[2] % 32)
<1>1. a[1] \in Int /\ a[2] % 32 \in Int
  OBVIOUS
<1>2. \hc8 \in Byte
  BY <1>1 DEF Byte
<1>3. Short(p1, 1)
  BY <1>2, OneByte
<1>4. /\ Short(p2, 4) /\ Short(p3, 4)
  BY <1>1, InsetImmediate
<1> HIDE DEF p1, p2, p3
<1>5. Short(p1 \o p2 \o p3, 9)
  BY <1>3, <1>4, JoinedShort
<1>6. FieldOk(NoField, 2)
  BY DEF FieldOk
<1>7. Modest(Built(p1 \o p2 \o p3, NoField, <<>>, 2))
  BY <1>5, <1>6, BuiltIsModest, ShortEmpty
<1> QED
  BY <1>7 DEF build_enter, p1, p2, p3

LEMMA OfJumpIf ==
    ASSUME NEW a \in [0 .. 6 -> Int]
    PROVE  Modest(build_jump_if(a))
<1> DEFINE operation == a[0]  size == a[1]  location == a[3]
           p1 == inset(far(location) /\ size = D32, \h0f)
           p2 == inset(far(location), \h80 + operation - JO)
<1>1. operation \in Int /\ location \in Int /\ JO \in Int
  BY DEF JO
<1>2. /\ Short(p1, 1) /\ Short(p2, 1)
  BY <1>1, Inset
<1> HIDE DEF p1, p2
<1>3. Short(p1 \o p2, 2)
  BY <1>2, JoinedShort
<1>4. FieldOk(Field(D32, location, "unsorted"), 3)
  BY <1>1, FieldIsOk DEF Bases
<1>5. Modest(Built(p1 \o p2, Field(D32, location, "unsorted"), <<>>, 3))
  BY <1>3, <1>4, BuiltIsModest, ShortEmpty
<1> QED
  BY <1>5 DEF build_jump_if, p1, p2

LEMMA OfJump ==
    ASSUME NEW a \in [0 .. 6 -> Int]
    PROVE  Modest(build_jump(a))
<1> DEFINE size == a[1]  to == a[2]  destination == a[3]
           p1 == inset(to = REG /\ upper(destination), \h41)
           p2 == inset(to = REL, \he9 + (2 * B(size = D8)))
           p3 == inset(to \in {REG, MEM}, \hff)
           p4 == inset(to = REG, \he0 + (destination % 8))
           p5 == inset(to = MEM, \h25)
<1>1. destination \in Int
  OBVIOUS
<1>2. /\ Short(p1, 1) /\ Short(p2, 1) /\ Short(p3, 1) /\ Short(p4, 1)
      /\ Short(p5, 1)
  BY <1>1, Bit, Inset
<1> HIDE DEF p1, p2, p3, p4, p5
<1>3. Short(p1 \o p2 \o p3 \o p4 \o p5, 5)
  BY <1>2, JoinedShort
<1>4. FieldOk((IF to = REL THEN Field(D32, destination, "unsorted")
            ELSE OneField(to, destination, "data")), 3)
  BY <1>1, FieldIsOk, OneFieldIsOk DEF FieldOk, Bases
<1>5. Modest(Built(p1 \o p2 \o p3 \o p4 \o p5, (IF to = REL THEN Field(D32, destination, "unsorted")
            ELSE OneField(to, destination, "data")), <<>>, 3))
  BY <1>3, <1>4, BuiltIsModest, ShortEmpty
<1> QED
  BY <1>5 DEF build_jump, p1, p2, p3, p4, p5

LEMMA OfCall ==
    ASSUME NEW a \in [0 .. 6 -> Int]
    PROVE  Modest(build_call(a))
<1> DEFINE from == a[1]  source == a[2]
           p1 == inset(from = REG /\ upper(source), \h41)
           p2 == inset(from = REL, \he8)
           p3 == inset(from = REG, \hff)
           p4 == inset(from = REG, \hd0 + (source % 8))
<1>1. source \in Int
  OBVIOUS
<1>2. /\ Short(p1, 1) /\ Short(p2, 1) /\ Short(p3, 1) /\ Short(p4, 1)
  BY <1>1, Inset
<1> HIDE DEF p1, p2, p3, p4
<1>3. Short(p1 \o p2 \o p3 \o p4, 4)
  BY <1>2, JoinedShort
<1>4. FieldOk((IF from = REL THEN Field(D32, source, "unsorted") ELSE NoField), 2)
  BY <1>1, FieldIsOk DEF FieldOk, Bases
<1>5. Modest(Built(p1 \o p2 \o p3 \o p4,
                   (IF from = REL THEN Field(D32, source, "unsorted") ELSE NoField), <<>>, 2))
  BY <1>3, <1>4, BuiltIsModest, ShortEmpty
<1> QED
  BY <1>5 DEF build_call, p1, p2, p3, p4

LEMMA OfLoop ==
    ASSUME NEW a \in [0 .. 6 -> Int],
           a[0] \in LOOP .. LOOPNE
    PROVE  Modest(build_loop(a))
<1> DEFINE p1 == <<CASE a[0] = LOOPNE -> \he0 [] a[0] = LOOPE -> \he1 [] a[0] = LOOP -> \he2>>
<1>1. a[3] \in Int
  BY DEF LOOP, LOOPE, LOOPNE
<1>2. (CASE a[0] = LOOPNE -> \he0 [] a[0] = LOOPE -> \he1 [] a[0] = LOOP -> \he2) \in Byte
  BY <1>1 DEF Byte, LOOP, LOOPE, LOOPNE
<1>3. Short(p1, 1)
  BY <1>2, OneByte
<1> HIDE DEF p1
<1>4. Short(p1, 1)
  BY <1>3
<1>5. FieldOk(Field(D8, a[3], "loop"), 3)
  BY <1>1, FieldIsOk DEF Bases
<1>6. Modest(Built(p1, Field(D8, a[3], "loop"), <<>>, 3))
  BY <1>4, <1>5, BuiltIsModest, ShortEmpty
<1> QED
  BY <1>6 DEF build_loop, p1

LEMMA OfFloat ==
    ASSUME NEW a \in [0 .. 6 -> Int]
    PROVE  Modest(build_float(a))
<1> DEFINE operation == a[0]  size == a[1]  from == a[2]
           p1 == inset(from = MEM, \hd8 + (4 * B(size = D64)))
           p2 == modify_memory(operation - FADD, 0, from)
<1>1. operation \in Int /\ a[3] \in Int /\ FADD \in Int
  BY DEF FADD
<1>2. /\ Short(p1, 1) /\ Short(p2, 1)
  BY <1>1, Bit, Inset, ModifyMemory
<1> HIDE DEF p1, p2
<1>3. Short(p1 \o p2, 2)
  BY <1>2, JoinedShort
<1>4. FieldOk((IF from = MEM THEN Field(size, a[3], "zero") ELSE NoField), 3)
  BY <1>1, FieldIsOk DEF FieldOk, Bases
<1>5. Modest(Built(p1 \o p2, (IF from = MEM THEN Field(size, a[3], "zero") ELSE NoField), <<>>, 3))
  BY <1>3, <1>4, BuiltIsModest, ShortEmpty
<1> QED
  BY <1>5 DEF build_float, p1, p2

LEMMA OfFloatl ==
    ASSUME NEW a \in [0 .. 6 -> Int]
    PROVE  Modest(build_floatl(a))
<1> DEFINE size == a[1]  type == a[2]  from == a[3]  source == a[4]
           p1 == inset(from = DER /\ size = D32, \h67)
           p2 == inset(from = DER /\ upper(source), \h41)
           p3 == inset(type = BCF /\ size = D32, \hd8)
           p4 == inset(type = INT /\ size = D32, \hda)
           p5 == inset(type = BCF /\ size = D64, \hdc)
           p6 == inset(type = INT /\ size = D16, \hde)
           p7 == (IF from = DER THEN m072445(source) ELSE <<>>)
<1>1. source \in Int
  OBVIOUS
<1>2. /\ Short(p1, 1) /\ Short(p2, 1) /\ Short(p3, 1) /\ Short(p4, 1)
      /\ Short(p5, 1) /\ Short(p6, 1) /\ Short(p7, 2)
  BY <1>1, Inset, ShortEmpty, ReferenceBytes, Longer
<1> HIDE DEF p1, p2, p3, p4, p5, p6, p7
<1>3. Short(p1 \o p2 \o p3 \o p4 \o p5 \o p6 \o p7, 8)
  BY <1>2, JoinedShort
<1>4. FieldOk(OneField(from, source, "relative"), 4)
  BY <1>1, OneFieldIsOk DEF Bases
<1>5. Modest(Built(p1 \o p2 \o p3 \o p4 \o p5 \o p6 \o p7,
                   OneField(from, source, "relative"), <<>>, 4))
  BY <1>3, <1>4, BuiltIsModest, ShortEmpty
<1> QED
  BY <1>5 DEF build_floatl, p1, p2, p3, p4, p5, p6, p7

LEMMA OfFMoveIf ==
    ASSUME NEW a \in [0 .. 6 -> Int]
    PROVE  Modest(build_fmove_if(a))
<1> DEFINE below == a[0] < FCMOVAE
           offset == a[0] - FCMOVB - (IF below THEN 0 ELSE 4)
           opcode == IF below THEN \hda ELSE \hdb
           second == (\hc0 + (8 * offset) + a[1]) % 256
           p1 == <<opcode, second>>
<1>1. \hc0 + (8 * offset) + a[1] \in Int
  BY DEF FCMOVB
<1>2. opcode \in Byte /\ second \in Byte
  <2>1. opcode \in Byte
    BY DEF Byte
  <2> HIDE DEF offset, opcode
  <2> QED
    BY <1>1, <2>1, ByteOf
<1> HIDE DEF opcode, second
<1>3. Short(p1, 2)
  BY <1>2, TwoBytes
<1> HIDE DEF p1
<1>4. Short(p1, 2)
  BY <1>3
<1>5. FieldOk(NoField, 1)
  BY DEF FieldOk
<1>6. Modest(Built(p1, NoField, <<>>, 1))
  BY <1>4, <1>5, BuiltIsModest, ShortEmpty
<1> QED
  BY <1>6 DEF build_fmove_if, p1, opcode, second

\* The tables of instructions without operands are as long as the operations they are for.
LEMMA Tables ==
    /\ \A n \in 1 .. 17 : static_1[n] \in Byte
    /\ \A n \in 1 .. 48 : static_2[n] \in Int
    /\ \A n \in 1 .. 10 : Short(static_3[n], 3)
<1>1. static_1 \in Seq(Byte) /\ Len(static_1) = 17
  BY DEF static_1, Byte
<1>2. static_2 \in Seq(Int) /\ Len(static_2) = 48
  BY DEF static_2
<1>3. ASSUME NEW n \in 1 .. 10 PROVE Short(static_3[n], 3)
  <2>1. /\ static_3 \in Seq(Seq(Byte)) /\ Len(static_3) = 10
        /\ \A k \in 1 .. 10 : Len(static_3[k]) = 3
    BY DEF static_3, Byte
  <2>2. static_3[n] \in Seq(Byte)
    BY <2>1, ElementOfSeq
  <2>3. Len(static_3[n]) = 3
    BY <2>1
  <2> QED
    BY <2>2, <2>3 DEF Short
<1> QED
  BY <1>1, <1>2, <1>3, ElementOfSeq

LEMMA OfStatic ==
    ASSUME NEW a \in [0 .. 6 -> Int]
    PROVE  /\ a[0] \in NOP .. RETF => Modest(build_static_1(a))
           /\ a[0] \in SYSCALL .. FNCLEX => Modest(build_static_2(a))
           /\ a[0] \in MONITOR .. FCLEX => Modest(build_static_3(a))
<1>1. FieldOk(NoField, 0)
  BY DEF FieldOk
<1>2. ASSUME a[0] \in NOP .. RETF PROVE Modest(build_static_1(a))
  <2>1. a[0] - NOP + 1 \in 1 .. 17
    BY <1>2 DEF NOP, RETF
  <2>2. Short(<<static_1[a[0] - NOP + 1]>>, 1)
    BY <2>1, Tables, OneByte
  <2> QED
    BY <1>1, <2>2, ShortEmpty, BuiltIsModest DEF build_static_1
<1>3. ASSUME a[0] \in SYSCALL .. FNCLEX PROVE Modest(build_static_2(a))
  <2>1. a[0] - SYSCALL + 1 \in 1 .. 48
    BY <1>3 DEF SYSCALL, FNCLEX
  <2> DEFINE head == inset_immediate(TRUE, D16, static_2[a[0] - SYSCALL + 1])
  <2>2. Short(head, 2)
    BY <2>1, Tables, InsetImmediate
  <2> HIDE DEF head
  <2>3. Modest(Built(head, NoField, <<>>, 0))
    BY <1>1, <2>2, ShortEmpty, BuiltIsModest
  <2> QED
    BY <2>3 DEF build_static_2, head
<1>4. ASSUME a[0] \in MONITOR .. FCLEX PROVE Modest(build_static_3(a))
  <2>1. a[0] - MONITOR + 1 \in 1 .. 10
    BY <1>4 DEF MONITOR, FCLEX
  <2>2. Short(static_3[a[0] - MONITOR + 1], 3)
    BY <2>1, Tables
  <2> QED
    BY <1>1, <2>2, ShortEmpty, BuiltIsModest DEF build_static_3
<1> QED
  BY <1>2, <1>3, <1>4

\* Which builder is called: the ranges of the table build_instruction are all there are.
LEMMA Ranges ==
    ASSUME NEW o \in Instructions
    PROVE  \/ o \in ADD .. CMP
           \/ o \in INC .. IDIV
           \/ o \in ROL .. SAR
           \/ o \in FADD .. FDIVR
           \/ o \in FLADD .. FLDIVR
           \/ o \in FCMOVB .. FCMOVNU
           \/ o \in NOP .. RETF
           \/ o \in SYSCALL .. FNCLEX
           \/ o \in MONITOR .. FCLEX
           \/ o = ENTER
           \/ o = CALL
           \/ o \in {IN_, OUT}
           \/ o = JMP
           \/ o = MOV
           \/ o = POP
           \/ o = PUSH
           \/ o \in JO .. JG
           \/ o \in CMOVO .. CMOVG
           \/ o \in SETO .. SETG
           \/ o \in BT .. BTC
           \/ o \in {BSF, BSR}
           \/ o = BSWAP
           \/ o \in LOOP .. LOOPNE
BY DEF Instructions, OPERATION_END, ADD, CMP, INC, IDIV, ROL, SAR, FADD, FDIVR, FLADD,
       FLDIVR, FCMOVB, FCMOVNU, NOP, RETF, SYSCALL, FNCLEX, MONITOR, FCLEX, ENTER, CALL,
       IN_, OUT, JMP, MOV, POP, PUSH, JO, JG, CMOVO, CMOVG, SETO, SETG, BT, BTC, BSF,
       BSR, BSWAP, LOOP, LOOPNE

LEMMA Table ==
    ASSUME NEW a \in [0 .. 6 -> Int]
    PROVE  /\ a[0] \in ADD .. CMP => build_instruction(a) = build_double(a)
           /\ a[0] \in INC .. IDIV => build_instruction(a) = build_single(a)
           /\ a[0] \in ROL .. SAR => build_instruction(a) = build_shift(a)
           /\ a[0] \in FADD .. FDIVR => build_instruction(a) = build_float(a)
           /\ a[0] \in FLADD .. FLDIVR => build_instruction(a) = build_floatl(a)
           /\ a[0] \in FCMOVB .. FCMOVNU => build_instruction(a) = build_fmove_if(a)
           /\ a[0] \in NOP .. RETF => build_instruction(a) = build_static_1(a)
           /\ a[0] \in SYSCALL .. FNCLEX => build_instruction(a) = build_static_2(a)
           /\ a[0] \in MONITOR .. FCLEX => build_instruction(a) = build_static_3(a)
           /\ a[0] = ENTER => build_instruction(a) = build_enter(a)
           /\ a[0] = CALL => build_instruction(a) = build_call(a)
           /\ a[0] \in {IN_, OUT} => build_instruction(a) = build_in_out(a)
           /\ a[0] = JMP => build_instruction(a) = build_jump(a)
           /\ a[0] = MOV => build_instruction(a) = build_move(a)
           /\ a[0] = POP => build_instruction(a) = build_pop(a)
           /\ a[0] = PUSH => build_instruction(a) = build_push(a)
           /\ a[0] \in JO .. JG => build_instruction(a) = build_jump_if(a)
           /\ a[0] \in CMOVO .. CMOVG => build_instruction(a) = build_move_if(a)
           /\ a[0] \in SETO .. SETG => build_instruction(a) = build_set_if(a)
           /\ a[0] \in BT .. BTC => build_instruction(a) = build_bit_test(a)
           /\ a[0] \in {BSF, BSR} => build_instruction(a) = build_bit_scan(a)
           /\ a[0] = BSWAP => build_instruction(a) = build_swap(a)
           /\ a[0] \in LOOP .. LOOPNE => build_instruction(a) = build_loop(a)
<1> USE DEF build_instruction, ADD, CMP, INC, IDIV, ROL, SAR, FADD, FDIVR, FLADD, FLDIVR,
            FCMOVB, FCMOVNU, NOP, RETF, SYSCALL, FNCLEX, MONITOR, FCLEX, ENTER, CALL, IN_,
            OUT, JMP, MOV, POP, PUSH, JO, JG, CMOVO, CMOVG, SETO, SETG, BT, BTC, BSF, BSR,
            BSWAP, LOOP, LOOPNE
<1>1. a[0] \in ADD .. CMP => build_instruction(a) = build_double(a)
  OBVIOUS
<1>2. a[0] \in INC .. IDIV => build_instruction(a) = build_single(a)
  OBVIOUS
<1>3. a[0] \in ROL .. SAR => build_instruction(a) = build_shift(a)
  OBVIOUS
<1>4. a[0] \in FADD .. FDIVR => build_instruction(a) = build_float(a)
  OBVIOUS
<1>5. a[0] \in FLADD .. FLDIVR => build_instruction(a) = build_floatl(a)
  OBVIOUS
<1>6. a[0] \in FCMOVB .. FCMOVNU => build_instruction(a) = build_fmove_if(a)
  OBVIOUS
<1>7. a[0] \in NOP .. RETF => build_instruction(a) = build_static_1(a)
  OBVIOUS
<1>8. a[0] \in SYSCALL .. FNCLEX => build_instruction(a) = build_static_2(a)
  OBVIOUS
<1>9. a[0] \in MONITOR .. FCLEX => build_instruction(a) = build_static_3(a)
  OBVIOUS
<1>10. a[0] = ENTER => build_instruction(a) = build_enter(a)
  OBVIOUS
<1>11. a[0] = CALL => build_instruction(a) = build_call(a)
  OBVIOUS
<1>12. a[0] \in {IN_, OUT} => build_instruction(a) = build_in_out(a)
  OBVIOUS
<1>13. a[0] = JMP => build_instruction(a) = build_jump(a)
  OBVIOUS
<1>14. a[0] = MOV => build_instruction(a) = build_move(a)
  OBVIOUS
<1>15. a[0] = POP => build_instruction(a) = build_pop(a)
  OBVIOUS
<1>16. a[0] = PUSH => build_instruction(a) = build_push(a)
  OBVIOUS
<1>17. a[0] \in JO .. JG => build_instruction(a) = build_jump_if(a)
  OBVIOUS
<1>18. a[0] \in CMOVO .. CMOVG => build_instruction(a) = build_move_if(a)
  OBVIOUS
<1>19. a[0] \in SETO .. SETG => build_instruction(a) = build_set_if(a)
  OBVIOUS
<1>20. a[0] \in BT .. BTC => build_instruction(a) = build_bit_test(a)
  OBVIOUS
<1>21. a[0] \in {BSF, BSR} => build_instruction(a) = build_bit_scan(a)
  OBVIOUS
<1>22. a[0] = BSWAP => build_instruction(a) = build_swap(a)
  OBVIOUS
<1>23. a[0] \in LOOP .. LOOPNE => build_instruction(a) = build_loop(a)
  OBVIOUS
<1> QED
  BY <1>1, <1>2, <1>3, <1>4, <1>5, <1>6, <1>7, <1>8, <1>9, <1>10, <1>11, <1>12, <1>13,
     <1>14, <1>15, <1>16, <1>17, <1>18, <1>19, <1>20, <1>21, <1>22, <1>23

\* Whatever the tokens, a builder emits at most four bytes for each that it takes.
THEOREM BuildersAreModest ==
    \A a \in [0 .. 6 -> Int] : a[0] \in Instructions => Modest(build_instruction(a))
<1> SUFFICES ASSUME NEW a \in [0 .. 6 -> Int], a[0] \in Instructions
             PROVE  Modest(build_instruction(a))
  OBVIOUS
<1> QED
  BY Ranges, Table, OfDouble, OfSingle, OfShift, OfFloat, OfFloatl, OfFMoveIf, OfStatic, OfEnter,
     OfCall, OfInOut, OfJump, OfMove, OfPop, OfPush, OfJumpIf, OfMoveIf, OfSetIf, OfBitTest,
     OfBitScan, OfSwap, OfLoop

-----------------------------------------------------------------------------
(***************************************************************************)
(* Numbers of four bytes, as two halves of two bytes each.                 *)
(***************************************************************************)
\* What is written as four bytes is read as the number it was.
LEMMA ReadBack ==
    ASSUME NEW v \in Int, IsWord(v)
    PROVE  Signed32(LittleEndian(v)) = v
BY SMT DEF IsWord, Signed32, LittleEndian, Signed8

Low(v)    == v % 65536
High(v)   == v \div 65536
First(v)  == v % 256
Second(v) == (v \div 256) % 256

LEMMA Halves ==
    \A v \in Int : Low(v) \in Int /\ High(v) \in Int
BY SMT DEF Low, High

LEMMA BytesOf ==
    \A v \in Int : First(v) \in 0 .. 255 /\ Second(v) \in 0 .. 255
BY SMT DEF First, Second

LEMMA BytesInt ==
    \A v \in Int : First(v) \in Int /\ Second(v) \in Int
BY SMT DEF First, Second

LEMMA HalfOfBytes ==
    \A v \in Int : First(v) + (256 * Second(v)) = Low(v)
BY SMT DEF First, Second, Low

LEMMA TwoHalves ==
    \A v \in Int : LittleEndian(v) = <<First(v), Second(v), First(High(v)), Second(High(v))>>
<1>1. \A v \in Int : v \div 16777216 = (v \div 65536) \div 256
  BY SMT
<1>2. QED
  BY <1>1, SMT DEF LittleEndian, First, Second, High

\* Adding to the two halves, with the carry of the lower one, adds to the number.
LEMMA Carry ==
    \A v \in Int, store \in Nat, low \in Int, high \in Int :
        /\ low = Low(v) + Low(store)
        /\ high = Low(High(v)) + High(store) + High(low)
        => /\ Low(low) = Low(v + store)
           /\ Low(high) = Low(High(v + store))
BY SMT DEF Low, High

LEMMA Parts ==
    \A x, y \in Int : Low(x) = Low(y) => First(x) = First(y) /\ Second(x) = Second(y)
BY SMT DEF Low, First, Second

\* The sum of the halves has the bytes of the sum.
LEMMA SumOfHalves ==
    ASSUME NEW w \in Int, NEW low \in Int, NEW high \in Int,
           Low(low) = Low(w), Low(high) = Low(High(w))
    PROVE  LittleEndian(w) = <<First(low), Second(low), First(high), Second(high)>>
<1>1. High(w) \in Int
  BY Halves, Zenon
<1>2. First(low) = First(w) /\ Second(low) = Second(w)
  BY Parts
<1>3. First(high) = First(High(w)) /\ Second(high) = Second(High(w))
  BY <1>1, Parts
<1>4. QED
  BY <1>2, <1>3, TwoHalves

LEMMA Summed ==
    ASSUME NEW v \in Int, NEW store \in Nat, NEW low \in Int, NEW high \in Int,
           low = Low(v) + Low(store),
           high = Low(High(v)) + High(store) + High(low)
    PROVE  LittleEndian(v + store) = <<First(low), Second(low), First(high), Second(high)>>
<1>1. v + store \in Int
  OBVIOUS
<1>2. Low(low) = Low(v + store) /\ Low(high) = Low(High(v + store))
  BY Carry
<1>3. QED
  BY <1>1, <1>2, SumOfHalves

\* What the second pass makes of four bytes.
Sum(a, b, c, d, store) ==
    LET low  == a + (256 * b) + Low(store)
        high == c + (256 * d) + High(store) + High(low)
    IN  <<First(low), Second(low), First(high), Second(high)>>

LEMMA SumOfBytes ==
    ASSUME NEW v \in Int, NEW store \in Nat
    PROVE  Sum(First(v), Second(v), First(High(v)), Second(High(v)), store)
               = LittleEndian(v + store)
<1> DEFINE low  == Low(v) + Low(store)
           high == Low(High(v)) + High(store) + High(low)
<1>1. store \in Int
  OBVIOUS
<1>2. /\ High(v) \in Int /\ Low(v) \in Int /\ Low(store) \in Int /\ High(store) \in Int
  BY <1>1, Halves, Zenon
<1>3. Low(High(v)) \in Int
  BY <1>2, Halves, Zenon
<1>4. low \in Int
  BY <1>2
<1> HIDE DEF low
<1>5. High(low) \in Int
  BY <1>4, Halves, Zenon
<1>6. high \in Int
  BY <1>2, <1>3, <1>5
<1> HIDE DEF high
<1>7. LittleEndian(v + store) = <<First(low), Second(low), First(high), Second(high)>>
  BY <1>4, <1>6, Summed, Zenon DEF low, high
<1>8. /\ First(v) + (256 * Second(v)) = Low(v)
      /\ First(High(v)) + (256 * Second(High(v))) = Low(High(v))
  BY <1>2, HalfOfBytes
<1>9. Sum(First(v), Second(v), First(High(v)), Second(High(v)), store)
          = <<First(low), Second(low), First(high), Second(high)>>
  BY <1>8, SMT DEF Sum, low, high
<1>10. QED
  BY <1>7, <1>9, Zenon

\* The bytes are at that offset of the code.
Holds(code, at, bytes) ==
    /\ at + Len(bytes) <= Len(code)
    /\ \A i \in 1 .. Len(bytes) : code[at + i] = bytes[i]

LEMMA HeldFour ==
    ASSUME NEW code, NEW at \in Nat, NEW v \in Int, Len(code) \in Nat,
           Holds(code, at, LittleEndian(v))
    PROVE  /\ at + 4 <= Len(code)
           /\ code[at + 1] = First(v) /\ code[at + 2] = Second(v)
           /\ code[at + 3] = First(High(v)) /\ code[at + 4] = Second(High(v))
<1>1. LittleEndian(v) = <<First(v), Second(v), First(High(v)), Second(High(v))>>
  BY TwoHalves, Zenon
<1>2. \A a, b, c, d : Holds(code, at, <<a, b, c, d>>) =>
          /\ at + 4 <= Len(code)
          /\ code[at + 1] = a /\ code[at + 2] = b /\ code[at + 3] = c /\ code[at + 4] = d
  BY DEF Holds
<1>3. Holds(code, at, <<First(v), Second(v), First(High(v)), Second(High(v))>>)
  BY <1>1
<1>4. QED
  BY <1>2, <1>3

\* Filling in adds the place to what was there.
LEMMA AddedToBase ==
    ASSUME NEW text \in Seq(0 .. 255), NEW at \in Nat, NEW v \in Int, NEW store \in Nat,
           Holds(text, at, LittleEndian(v))
    PROVE  Added(text, at, store) = LittleEndian(v + store)
<1>1. Len(text) \in Nat
  OBVIOUS
<1>2. at + 4 <= Len(text)
      /\ text[at + 1] = First(v) /\ text[at + 2] = Second(v)
      /\ text[at + 3] = First(High(v)) /\ text[at + 4] = Second(High(v))
  BY <1>1, HeldFour, Zenon
<1>3. at + 4 <= Len(text) =>
          Added(text, at, store) = Sum(text[at + 1], text[at + 2], text[at + 3], text[at + 4], store)
  BY <1>1, SMT DEF Added, Sum, Low, High, First, Second
<1>4. QED
  BY <1>2, <1>3, SumOfBytes, Zenon

-----------------------------------------------------------------------------
(***************************************************************************)
(* Instructions with their prefixes, and what the processor fetches.       *)
(***************************************************************************)
LEMMA HeldByte ==
    ASSUME NEW code, Len(code) \in Nat, NEW at \in Nat, NEW bytes, Len(bytes) \in Nat,
           Holds(code, at, bytes), NEW k \in Nat, k < Len(bytes)
    PROVE  ByteAt(code, at, k) = bytes[k + 1]
<1>1. k + 1 \in 1 .. Len(bytes) /\ at + Len(bytes) <= Len(code)
  BY DEF Holds
<1>2. code[at + (k + 1)] = bytes[k + 1]
  BY <1>1 DEF Holds
<1>3. at + (k + 1) = at + k + 1 /\ at + k < Len(code)
  BY <1>1
<1>4. QED
  BY <1>2, <1>3 DEF ByteAt

OneOf(when, byte) == IF when THEN <<byte>> ELSE <<>>

\* The instruction behind the prefix for 16 bits and the REX prefix, 0 for none.
Prefixed(half, rex, rest) == OneOf(half = 1, \h66) \o OneOf(rex # 0, rex) \o rest
Ahead(half, rex) == half + (IF rex = 0 THEN 0 ELSE 1)

\* Whether there is a prefix for 16 bits; a REX prefix or 0 for none.
Half == {0, 1}
Rex  == {0} \union (64 .. 79)

LEMMA PrefixedBytes ==
    ASSUME NEW half \in Half, NEW rex \in Rex, NEW rest \in Seq(Byte)
    PROVE  /\ Ahead(half, rex) \in Nat
           /\ Prefixed(half, rex, rest) \in Seq(Byte)
           /\ Len(Prefixed(half, rex, rest)) = Ahead(half, rex) + Len(rest)
           /\ half = 1 => Prefixed(half, rex, rest)[1] = \h66
           /\ rex # 0 => Prefixed(half, rex, rest)[half + 1] = rex
           /\ \A k \in 1 .. Len(rest) :
                  Prefixed(half, rex, rest)[Ahead(half, rex) + k] = rest[k]
<1> DEFINE p == OneOf(half = 1, \h66)
           q == OneOf(rex # 0, rex)
           ahead == p \o q
           n == Ahead(half, rex)
<1> HIDE DEF p, q, n
<1>1. /\ ahead \in Seq(Byte) /\ Len(ahead) = n /\ n \in Nat
      /\ half = 1 => ahead[1] = \h66 /\ n >= 1
      /\ rex # 0 => ahead[half + 1] = rex /\ n >= half + 1
  <2>1. rex \in Byte /\ \h66 \in Byte /\ half \in {0, 1}
    BY DEF Half, Rex, Byte
  <2>2. \A x \in Byte : <<x>> \in Seq(Byte) /\ Len(<<x>>) = 1 /\ <<x>>[1] = x
    OBVIOUS
  <2>3. p \in Seq(Byte) /\ Len(p) = half /\ (half = 1 => p[1] = \h66)
    BY <2>1, <2>2 DEF p, OneOf
  <2>4. q \in Seq(Byte) /\ Len(q) = n - half /\ (rex # 0 => q[1] = rex)
    BY <2>1, <2>2 DEF q, OneOf, n, Ahead
  <2>5. n \in Nat /\ n >= half /\ (rex # 0 => n >= half + 1)
    BY DEF n, Ahead, Half
  <2>6. QED
    BY <2>3, <2>4, <2>5
<1> HIDE DEF ahead
<1>2. Prefixed(half, rex, rest) = ahead \o rest
  BY DEF Prefixed, ahead, p, q
<1>3. /\ ahead \o rest \in Seq(Byte) /\ Len(ahead \o rest) = n + Len(rest)
      /\ \A i \in 1 .. n : (ahead \o rest)[i] = ahead[i]
      /\ \A k \in 1 .. Len(rest) : (ahead \o rest)[n + k] = rest[k]
  BY <1>1
<1>4. /\ half = 1 => (ahead \o rest)[1] = \h66
      /\ rex # 0 => (ahead \o rest)[half + 1] = rex
  <2>1. half \in 0 .. 1
    BY DEF Half
  <2>2. QED
    BY <1>1, <1>3, <2>1
<1>5. QED
  BY <1>1, <1>2, <1>3, <1>4 DEF n

\* A byte that is no prefix, and opens no long opcode.
Opens(byte) == byte \in Byte /\ byte # \h66 /\ byte # \h0f /\ ~IsRex(byte)

ShortAt(code, at, half, rex, opcode) ==
    [code |-> code, at |-> at, half |-> half, long |-> FALSE, m |-> Ahead(half, rex) + 1,
     rex |-> rex, opcode |-> opcode]

LEMMA FetchedShort ==
    ASSUME NEW code, Len(code) \in Nat, NEW at \in Nat,
           NEW half \in Half, NEW rex \in Rex,
           NEW rest \in Seq(Byte), Len(rest) >= 1, Opens(rest[1]),
           Holds(code, at, Prefixed(half, rex, rest))
    PROVE  /\ Fetched(code, at) = ShortAt(code, at, half, rex, rest[1])
           /\ \A k \in 1 .. Len(rest) - 1 :
                  ByteAt(code, at, Ahead(half, rex) + k) = rest[k + 1]
<1> DEFINE bytes == Prefixed(half, rex, rest)
           b == Ahead(half, rex)
           y(k) == ByteAt(code, at, k)
<1>1. /\ b \in Nat /\ bytes \in Seq(Byte) /\ Len(bytes) = b + Len(rest)
      /\ half = 1 => bytes[1] = \h66
      /\ rex # 0 => bytes[half + 1] = rex
      /\ \A k \in 1 .. Len(rest) : bytes[b + k] = rest[k]
  BY PrefixedBytes
<1>2. b = half + (IF rex = 0 THEN 0 ELSE 1) /\ half \in Nat /\ Len(rest) \in Nat
  BY DEF Ahead, Half
<1> HIDE DEF bytes, b
<1>3. Len(bytes) \in Nat /\ Holds(code, at, bytes)
  BY <1>1, <1>2 DEF bytes
<1>4. \A k \in Nat : k < Len(bytes) => y(k) = bytes[k + 1]
  BY <1>3, HeldByte
<1>5. \A k \in 0 .. Len(rest) - 1 : y(b + k) = rest[k + 1]
  <2> TAKE k \in 0 .. Len(rest) - 1
  <2>1. b + k \in Nat /\ b + k < Len(bytes) /\ k + 1 \in 1 .. Len(rest)
    BY <1>1, <1>2
  <2>2. b + k + 1 = b + (k + 1)
    BY <1>1
  <2>3. QED
    BY <1>1, <1>4, <2>1, <2>2
<1>6. y(b) = rest[1]
  <2>1. b < Len(bytes) /\ 1 \in 1 .. Len(rest)
    BY <1>1, <1>2
  <2>2. QED
    BY <1>1, <1>4, <2>1
<1>7. half = 1 => y(0) = \h66
  BY <1>1, <1>2, <1>4
<1>8. rex # 0 => y(half) = rex /\ b = half + 1
  BY <1>1, <1>2, <1>4
<1>9. rex = 0 => b = half
  BY <1>2
<1> HIDE DEF y
<1>10. half = 0 => y(0) # \h66
  <2>1. CASE rex = 0
    BY <1>6, <1>9, <2>1 DEF Opens
  <2>2. CASE rex # 0
    BY <1>8, <2>2 DEF Rex
  <2>3. QED
    BY <2>1, <2>2
<1>11. OpcodeAt(code, at, half) = b
  <2>1. CASE rex = 0
    <3>1. ~IsRex(y(half))
      BY <1>6, <1>9, <2>1 DEF Opens
    <3>2. QED
      BY <1>9, <2>1, <3>1 DEF OpcodeAt, y
  <2>2. CASE rex # 0
    <3>1. IsRex(y(half)) /\ ~IsRex(y(half + 1))
      BY <1>6, <1>8, <2>2 DEF Opens, IsRex, Rex
    <3>2. QED
      BY <1>8, <2>2, <3>1 DEF OpcodeAt, y
  <2>3. QED
    BY <2>1, <2>2
<1>12. (IF y(0) = \h66 THEN 1 ELSE 0) = half
  BY <1>7, <1>10 DEF Half
<1>13. (y(b) = \h0f) = FALSE
  BY <1>6 DEF Opens
<1>14. Fetched(code, at) = Opcode(code, at, half, b, FALSE)
  BY <1>11, <1>12, <1>13 DEF Fetched, y
<1>15. Opcode(code, at, half, b, FALSE) =
          [code |-> code, at |-> at, half |-> half, long |-> FALSE, m |-> b + 1,
           rex |-> IF b > half THEN y(b - 1) ELSE 0, opcode |-> y((b + 1) - 1)]
  BY DEF Opcode, y
<1>16. (IF b > half THEN y(b - 1) ELSE 0) = rex
  BY <1>1, <1>2, <1>8, <1>9
<1>17. y((b + 1) - 1) = rest[1]
  BY <1>1, <1>6
<1>18. Fetched(code, at) = ShortAt(code, at, half, rex, rest[1])
  BY <1>14, <1>15, <1>16, <1>17 DEF ShortAt, b
<1>19. QED
  BY <1>5, <1>18 DEF y, b

-----------------------------------------------------------------------------
(***************************************************************************)
(* Sizes and registers, as the prefixes and the ModRM byte give them.      *)
(***************************************************************************)
HalfOf(size) == B(size = D16)

\* The REX prefix for a new register as the first or the second operand, for 64 bits, or
\* for the sake of its being there.
RexOf(size, b, r, plain) ==
    IF b \/ r \/ size = D64 THEN \h40 + B(b) + (4 * B(r)) + (8 * B(size = D64))
    ELSE IF plain THEN \h40 ELSE 0

LEMMA RexBits ==
    \A b, r, w \in {0, 1} :
        LET rex == 64 + b + (4 * r) + (8 * w)
        IN  /\ rex \in 64 .. 79
            /\ (rex \div 8) % 2 = w /\ (rex \div 4) % 2 = r /\ rex % 2 = b
BY SMT

LEMMA RexIs ==
    ASSUME NEW size \in AllSizes, NEW b \in BOOLEAN, NEW r \in BOOLEAN, NEW plain \in BOOLEAN
    PROVE  LET rex == RexOf(size, b, r, plain)
           IN  /\ rex \in Rex
               /\ (rex \div 8) % 2 = B(size = D64)
               /\ (rex \div 4) % 2 = B(r)
               /\ rex % 2 = B(b)
               /\ rex = 0 <=> ~(b \/ r \/ plain \/ size = D64)
<1> DEFINE w == size = D64
           value == 64 + B(b) + (4 * B(r)) + (8 * B(w))
           rex == RexOf(size, b, r, plain)
<1>1. B(b) \in {0, 1} /\ B(r) \in {0, 1} /\ B(w) \in {0, 1}
  BY DEF B
<1>2. /\ value \in 64 .. 79
      /\ (value \div 8) % 2 = B(w) /\ (value \div 4) % 2 = B(r) /\ value % 2 = B(b)
  BY <1>1, RexBits
<1>3. /\ b \/ r \/ w => rex = value
      /\ ~(b \/ r \/ w) /\ plain => rex = 64
      /\ ~(b \/ r \/ w) /\ ~plain => rex = 0
  BY DEF RexOf
<1> HIDE DEF value, w, rex
<1>4. CASE b \/ r \/ w
  BY <1>2, <1>3, <1>4 DEF Rex, rex, w
<1>5. CASE ~(b \/ r \/ w)
  <2>1. B(b) = 0 /\ B(r) = 0 /\ B(w) = 0
    BY <1>5 DEF B
  <2>2. rex \in Rex /\ (rex \div 8) % 2 = 0 /\ (rex \div 4) % 2 = 0 /\ rex % 2 = 0
    BY <1>3, <1>5 DEF Rex
  <2>3. rex = 0 <=> ~plain
    BY <1>3, <1>5
  <2>4. QED
    BY <1>5, <2>1, <2>2, <2>3 DEF rex, w
<1>6. QED
  BY <1>4, <1>5

Instruction(code, at, size, b, r, plain, opcode) ==
    ShortAt(code, at, HalfOf(size), RexOf(size, b, r, plain), opcode)

LEMMA Selecting ==
    ASSUME NEW code, NEW at, NEW opcode, NEW size \in AllSizes,
           NEW b \in BOOLEAN, NEW r \in BOOLEAN, NEW plain \in BOOLEAN
    PROVE  LET x == Instruction(code, at, size, b, r, plain, opcode)
           IN  /\ x.code = code /\ x.at = at /\ x.long = FALSE /\ x.opcode = opcode
               /\ x.m = Ahead(HalfOf(size), RexOf(size, b, r, plain)) + 1
               /\ full(x) = IF size = D8 THEN D32 ELSE size
               /\ x.half = HalfOf(size)
               /\ rexB(x) = 8 * B(b) /\ rexR(x) = 8 * B(r)
               /\ x.rex = 0 <=> ~(b \/ r \/ plain \/ size = D64)
<1> DEFINE x == Instruction(code, at, size, b, r, plain, opcode)
           rex == RexOf(size, b, r, plain)
<1>1. /\ x.code = code /\ x.at = at /\ x.long = FALSE /\ x.opcode = opcode
      /\ x.half = HalfOf(size) /\ x.rex = rex /\ x.m = Ahead(HalfOf(size), rex) + 1
  BY DEF Instruction, ShortAt
<1>2. /\ (rex \div 8) % 2 = B(size = D64) /\ (rex \div 4) % 2 = B(r) /\ rex % 2 = B(b)
      /\ rex = 0 <=> ~(b \/ r \/ plain \/ size = D64)
  BY RexIs
<1> HIDE DEF x, rex
<1>3. rexB(x) = 8 * B(b) /\ rexR(x) = 8 * B(r) /\ rexW(x) = B(size = D64)
  BY <1>1, <1>2 DEF rexB, rexR, rexW
<1>4. full(x) = IF size = D8 THEN D32 ELSE size
  BY <1>1, <1>3 DEF full, HalfOf, B, AllSizes, D8, D16, D32, D64
<1>5. QED
  BY <1>1, <1>2, <1>3, <1>4 DEF x, rex

LEMMA RegisterNumbers ==
    ASSUME NEW n \in Registry
    PROVE  /\ n % 8 \in 0 .. 7
           /\ (n % 8) + (8 * B(upper(n))) = n
           /\ upper(n) \in BOOLEAN /\ lower(n) \in BOOLEAN /\ front(n) \in BOOLEAN
           /\ lower(n) <=> ~upper(n)
           /\ front(n) <=> n \in 4 .. 7
           /\ front(n) => lower(n)
BY DEF Registry, B, upper, lower, front

LEMMA ModRMBits ==
    \A a, b \in 0 .. 7 :
        /\ (192 + a + (8 * b)) \div 64 = 3
        /\ ((192 + a + (8 * b)) \div 8) % 8 = b
        /\ (192 + a + (8 * b)) % 8 = a
        /\ 192 + a + (8 * b) \in Byte
        /\ (5 + (8 * b)) \div 64 = 0
        /\ ((5 + (8 * b)) \div 8) % 8 = b
        /\ (5 + (8 * b)) % 8 = 5
        /\ 5 + (8 * b) \in Byte
BY SMT DEF Byte

\* The operands a ModRM byte of two registers names.
LEMMA TwoRegisters ==
    ASSUME NEW x, NEW a \in 0 .. 7, NEW b \in 0 .. 7, NEW size, NEW rest,
           byteAt(x, x.m) = 192 + a + (8 * b)
    PROVE  /\ known(x) /\ next(x) = x.m + 1 /\ regBits(x) = b
           /\ rm(x, size, rest) = numbered(x, a + rexB(x), size)
           /\ register(x, size) = numbered(x, b + rexR(x), size)
<1>1. modBits(x) = 3 /\ regBits(x) = b /\ rmBits(x) = a
  BY ModRMBits DEF modBits, regBits, rmBits
<1>2. QED
  BY <1>1 DEF known, next, rm, register

\* An offset of the text, far below the numbers four bytes have no room for.
Near(n) == n \in Nat /\ n < \h10000

\* The place in memory one with an address names: the bytes behind it were counted from
\* where they are.
LEMMA OneMemory ==
    ASSUME NEW x, NEW b \in 0 .. 7, NEW size, x.at \in Nat, x.m \in Nat,
           byteAt(x, x.m) = 5 + (8 * b), NEW target, Near(x.at + x.m), Near(target),
           bytesAt(x, x.m + 1, 4) =
               LittleEndian(Base("relative", x.at + x.m + 1) + target)
    PROVE  /\ known(x) /\ next(x) = x.m + 5 /\ regBits(x) = b
           /\ rm(x, size, 0) = Memory(target)
<1>1. modBits(x) = 0 /\ regBits(x) = b /\ rmBits(x) = 5
  BY ModRMBits DEF modBits, regBits, rmBits
<1> DEFINE v == Base("relative", x.at + x.m + 1) + target
<1>2. v = 4096 - (x.at + x.m + 1) - 4 + target
  BY DEF Base
<1>3. IsWord(v)
  BY <1>2, SMT DEF IsWord, Near
<1> DEFINE place == x.at + (x.m + 5) + 0 + v - 4096
<1> HIDE DEF v
<1>4. Signed32(LittleEndian(v)) = v
  BY <1>3, ReadBack DEF IsWord
<1>5. known(x) /\ next(x) = x.m + 5
  BY <1>1 DEF known, next
<1>6. rm(x, size, 0) = Memory(place)
  BY <1>1, <1>4, <1>5 DEF rm, v, DATA_SEGMENT
<1>7. place = target
  <2>1. \A p, m, t \in Nat :
            \A w : w = 4096 - (p + m + 1) - 4 + t => p + (m + 5) + 0 + w - 4096 = t
    OBVIOUS
  <2>2. target \in Nat
    BY DEF Near
  <2>3. QED
    BY <1>2, <2>1, <2>2, SMT
<1> HIDE DEF place
<1>8. rm(x, size, 0) = Memory(target)
  BY <1>6, <1>7
<1>9. QED
  BY <1>1, <1>5, <1>8

-----------------------------------------------------------------------------
(***************************************************************************)
(* Bytes in their order.                                                   *)
(***************************************************************************)
LEMMA Pair ==
    ASSUME NEW x \in Byte, NEW y \in Byte
    PROVE  <<x>> \in Seq(Byte) /\ <<x>> \o <<y>> = <<x, y>>
<1> DEFINE s == <<x>> \o <<y>>
           t == <<x, y>>
<1>1. <<x>> \in Seq(Byte) /\ Len(<<x>>) = 1 /\ <<x>>[1] = x
  OBVIOUS
<1>2. <<y>> \in Seq(Byte) /\ Len(<<y>>) = 1 /\ <<y>>[1] = y
  OBVIOUS
<1>3. t \in Seq(Byte) /\ Len(t) = 2 /\ t[1] = x /\ t[2] = y
  OBVIOUS
<1>4. /\ s \in Seq(Byte) /\ Len(s) = 2 /\ s[1] = x /\ s[2] = y
  <2> DEFINE p == <<x>>
             q == <<y>>
  <2> HIDE DEF p, q
  <2>1. /\ p \in Seq(Byte) /\ Len(p) = 1 /\ p[1] = x
        /\ q \in Seq(Byte) /\ Len(q) = 1 /\ q[1] = y
    BY <1>1, <1>2 DEF p, q
  <2>2. p \o q \in Seq(Byte) /\ Len(p \o q) = 2 /\ (p \o q)[1] = x /\ (p \o q)[2] = y
    <3>1. /\ p \o q \in Seq(Byte) /\ Len(p \o q) = Len(p) + Len(q)
          /\ \A i \in 1 .. Len(p) + Len(q) :
                 (p \o q)[i] = IF i <= Len(p) THEN p[i] ELSE q[i - Len(p)]
      BY <2>1, ConcatProperties
    <3>2. QED
      BY <2>1, <3>1
  <2>3. QED
    BY <2>2 DEF p, q
<1> HIDE DEF s, t
<1>5. s = t
  BY <1>3, <1>4, SeqEqual
<1>6. QED
  BY <1>1, <1>5 DEF s, t

LEMMA Joining ==
    ASSUME NEW p \in Seq(Byte)
    PROVE  /\ p \o <<>> = p /\ <<>> \o p = p
           /\ \A x, y \in Byte : (p \o <<x>>) \o <<y>> = p \o <<x, y>>
           /\ \A q, r \in Seq(Byte) : (p \o q) \o r = p \o (q \o r)
<1>1. p \o <<>> = p /\ <<>> \o p = p
  OBVIOUS
<1>2. \A x, y \in Byte : (p \o <<x>>) \o <<y>> = p \o <<x, y>>
  <2> TAKE x, y \in Byte
  <2>1. <<x>> \in Seq(Byte) /\ <<y>> \in Seq(Byte) /\ <<x>> \o <<y>> = <<x, y>>
    BY Pair
  <2>2. \A q, r \in Seq(Byte) : (p \o q) \o r = p \o (q \o r)
    BY ConcatAssociative
  <2>3. (p \o <<x>>) \o <<y>> = p \o (<<x>> \o <<y>>)
    BY <2>1, <2>2, Zenon
  <2>4. QED
    BY <2>1, <2>3, Zenon
<1>3. \A q, r \in Seq(Byte) : (p \o q) \o r = p \o (q \o r)
  BY ConcatAssociative
<1>4. QED
  BY <1>1, <1>2, <1>3, Zenon

LEMMA HoldsJoined ==
    ASSUME NEW code, Len(code) \in Nat, NEW at \in Nat, NEW p \in Seq(Byte), NEW q \in Seq(Byte),
           Holds(code, at, p \o q)
    PROVE  Holds(code, at, p) /\ Holds(code, at + Len(p), q)
<1>1. /\ Len(p \o q) = Len(p) + Len(q) /\ Len(p) \in Nat /\ Len(q) \in Nat
      /\ \A i \in 1 .. Len(p) : (p \o q)[i] = p[i]
      /\ \A i \in 1 .. Len(q) : (p \o q)[Len(p) + i] = q[i]
  OBVIOUS
<1> DEFINE s == p \o q
<1> HIDE DEF s
<1>2. at + Len(s) <= Len(code) /\ \A i \in 1 .. Len(s) : code[at + i] = s[i]
  BY DEF Holds, s
<1>3. Holds(code, at, p)
  BY <1>1, <1>2 DEF Holds, s
<1>4. at + Len(p) + Len(q) <= Len(code)
  BY <1>1, <1>2 DEF s
<1>5. \A i \in 1 .. Len(q) : code[at + Len(p) + i] = q[i]
  <2> TAKE i \in 1 .. Len(q)
  <2>1. Len(p) + i \in 1 .. Len(s) /\ at + (Len(p) + i) = at + Len(p) + i
    BY <1>1 DEF s
  <2>2. QED
    BY <1>1, <1>2, <2>1 DEF s
<1>6. QED
  BY <1>3, <1>4, <1>5 DEF Holds

LEMMA BytesRead ==
    ASSUME NEW x, NEW n \in Nat, NEW bytes \in Seq(Byte), Len(x.code) \in Nat, x.at \in Nat,
           Holds(x.code, x.at + n, bytes), NEW width, width = Len(bytes)
    PROVE  bytesAt(x, n, width) = bytes
<1> DEFINE code == x.code
           at == x.at
<1>1. width \in Nat /\ bytes \in [1 .. width -> Byte]
  OBVIOUS
<1> HIDE DEF code, at
<1>2. (at + n) + width <= Len(code) /\ \A i \in 1 .. width : code[(at + n) + i] = bytes[i]
  BY DEF Holds, code, at
<1>3. \A i \in 1 .. width : ByteAt(code, at, n + i - 1) = bytes[i]
  <2> TAKE i \in 1 .. width
  <2>1. /\ at + (n + i - 1) < Len(code)
        /\ at + (n + i - 1) + 1 = (at + n) + i
    BY <1>1, <1>2 DEF code, at
  <2>2. QED
    BY <1>2, <2>1 DEF ByteAt
<1>4. bytesAt(x, n, width) = [i \in 1 .. width |-> ByteAt(code, at, n + i - 1)]
  BY DEF bytesAt, byteAt, code, at
<1>5. QED
  BY <1>1, <1>3, <1>4

-----------------------------------------------------------------------------
(***************************************************************************)
(* The opcodes.                                                            *)
(***************************************************************************)
LEMMA ShortOpcodes ==
    ASSUME NEW x
    PROVE  /\ x.opcode \in 0 .. 63 => DecodeShort(x) = DecodeArithmetic(x)
           /\ x.opcode \in {\h80, \h81} =>
                  DecodeShort(x) =
                      withImmediate(x, ADD + regBits(x), sized(x), ImmediateWidth(sized(x)))
           /\ x.opcode \in {\h88, \h89} =>
                  DecodeShort(x) =
                      modrm(x, MOV, sized(x), <<rm(x, sized(x), 0), register(x, sized(x))>>)
           /\ x.opcode \in \hb0 .. \hb7 => DecodeShort(x) = moveImmediate(x, D8, 1)
           /\ x.opcode \in \hb8 .. \hbf =>
                  DecodeShort(x) =
                      moveImmediate(x, full(x), IF full(x) = D64 THEN 8 ELSE ImmediateWidth(full(x)))
           /\ x.opcode \in {\hf6, \hf7} /\ regBits(x) \in 2 .. 7 =>
                  DecodeShort(x) = modrm(x, INC + regBits(x), sized(x), <<rm(x, sized(x), 0)>>)
           /\ x.opcode \in {\hfe, \hff} /\ regBits(x) \in {0, 1} =>
                  DecodeShort(x) = modrm(x, INC + regBits(x), sized(x), <<rm(x, sized(x), 0)>>)
           /\ x.opcode \in \h50 .. \h57 =>
                  DecodeShort(x) =
                      instruction(PUSH, stack(x), <<Register(x.opcode - \h50 + rexB(x))>>, x.m)
           /\ x.opcode \in \h58 .. \h5f =>
                  DecodeShort(x) =
                      instruction(POP, stack(x), <<Register(x.opcode - \h58 + rexB(x))>>, x.m)
           /\ x.opcode = \he8 => DecodeShort(x) = jump(x, CALL)
           /\ x.opcode = \he9 => DecodeShort(x) = jump(x, JMP)
           /\ x.opcode = \h90 => DecodeShort(x) = static(x, NOP)
           /\ x.opcode = \hc3 => DecodeShort(x) = static(x, RETN)
           /\ x.opcode = \hcb => DecodeShort(x) = static(x, RETF)
           /\ x.opcode = \hc9 => DecodeShort(x) = static(x, LEAVE)
           /\ x.opcode = \h9c => DecodeShort(x) = static(x, PUSHF)
           /\ x.opcode = \h9d => DecodeShort(x) = static(x, POPF)
           /\ x.opcode = \hd9 =>
                  DecodeShort(x) = instruction(FloatOperation(byteAt(x, x.m)), D32, <<>>, x.m + 1)
<1>1. x.opcode \in 0 .. 63 => DecodeShort(x) = DecodeArithmetic(x)
  <2> HAVE x.opcode \in 0 .. 63
  <2>1. x.opcode < \h40
    OBVIOUS
  <2>2. /\ ~(x.opcode \in {\h80, \h81})
        /\ ~(x.opcode \in {\h88, \h89})
        /\ ~(x.opcode \in {\h8a, \h8b})
        /\ ~(x.opcode \in \hb0 .. \hb7)
        /\ ~(x.opcode \in \hb8 .. \hbf)
        /\ ~(x.opcode \in {\hc6, \hc7})
        /\ ~(x.opcode \in {\hc0, \hc1})
        /\ ~(x.opcode \in {\hf6, \hf7})
        /\ ~(x.opcode \in {\hfe, \hff})
        /\ ~(x.opcode = \hff)
        /\ ~(x.opcode = \h8f)
        /\ ~(x.opcode \in \h50 .. \h57)
        /\ ~(x.opcode \in \h58 .. \h5f)
        /\ ~(x.opcode \in {\he4, \he5})
        /\ ~(x.opcode \in {\he6, \he7})
        /\ ~(x.opcode = \he8)
        /\ ~(x.opcode = \he9)
        /\ ~(x.opcode = \heb)
        /\ ~(x.opcode = \he0)
        /\ ~(x.opcode = \he1)
        /\ ~(x.opcode = \he2)
        /\ ~(x.opcode = \h90)
        /\ ~(x.opcode = \hc3)
        /\ ~(x.opcode = \hcb)
        /\ ~(x.opcode = \hc9)
        /\ ~(x.opcode = \h9c)
        /\ ~(x.opcode = \h9d)
        /\ ~(x.opcode = \hd9)
    BY SMT
  <2>3. QED
    BY <2>1, <2>2, SMT DEF DecodeShort
<1>2. x.opcode \in {\h80, \h81} =>
          DecodeShort(x) = withImmediate(x, ADD + regBits(x), sized(x), ImmediateWidth(sized(x)))
  <2>1. x.opcode = \h80 =>
            DecodeShort(x) =
                withImmediate(x, ADD + regBits(x), sized(x), ImmediateWidth(sized(x)))
    BY SMT DEF DecodeShort
  <2>2. x.opcode = \h81 =>
            DecodeShort(x) =
                withImmediate(x, ADD + regBits(x), sized(x), ImmediateWidth(sized(x)))
    BY SMT DEF DecodeShort
  <2>3. QED
    BY <2>1, <2>2
<1>3. x.opcode \in {\h88, \h89} =>
          DecodeShort(x) = modrm(x, MOV, sized(x), <<rm(x, sized(x), 0), register(x, sized(x))>>)
  <2>1. x.opcode = \h88 =>
            DecodeShort(x) =
                modrm(x, MOV, sized(x), <<rm(x, sized(x), 0), register(x, sized(x))>>)
    BY SMT DEF DecodeShort
  <2>2. x.opcode = \h89 =>
            DecodeShort(x) =
                modrm(x, MOV, sized(x), <<rm(x, sized(x), 0), register(x, sized(x))>>)
    BY SMT DEF DecodeShort
  <2>3. QED
    BY <2>1, <2>2
<1>4. x.opcode \in \hb0 .. \hb7 => DecodeShort(x) = moveImmediate(x, D8, 1)
  <2> HAVE x.opcode \in \hb0 .. \hb7
  <2>1. x.opcode \in \hb0 .. \hb7
    OBVIOUS
  <2>2. /\ ~(x.opcode < \h40)
        /\ ~(x.opcode \in {\h80, \h81})
        /\ ~(x.opcode \in {\h88, \h89})
        /\ ~(x.opcode \in {\h8a, \h8b})
        /\ ~(x.opcode \in \hb8 .. \hbf)
        /\ ~(x.opcode \in {\hc6, \hc7})
        /\ ~(x.opcode \in {\hc0, \hc1})
        /\ ~(x.opcode \in {\hf6, \hf7})
        /\ ~(x.opcode \in {\hfe, \hff})
        /\ ~(x.opcode = \hff)
        /\ ~(x.opcode = \h8f)
        /\ ~(x.opcode \in \h50 .. \h57)
        /\ ~(x.opcode \in \h58 .. \h5f)
        /\ ~(x.opcode \in {\he4, \he5})
        /\ ~(x.opcode \in {\he6, \he7})
        /\ ~(x.opcode = \he8)
        /\ ~(x.opcode = \he9)
        /\ ~(x.opcode = \heb)
        /\ ~(x.opcode = \he0)
        /\ ~(x.opcode = \he1)
        /\ ~(x.opcode = \he2)
        /\ ~(x.opcode = \h90)
        /\ ~(x.opcode = \hc3)
        /\ ~(x.opcode = \hcb)
        /\ ~(x.opcode = \hc9)
        /\ ~(x.opcode = \h9c)
        /\ ~(x.opcode = \h9d)
        /\ ~(x.opcode = \hd9)
    BY SMT
  <2>3. QED
    BY <2>1, <2>2, SMT DEF DecodeShort
<1>5. x.opcode \in \hb8 .. \hbf =>
          DecodeShort(x) =
              moveImmediate(x, full(x), IF full(x) = D64 THEN 8 ELSE ImmediateWidth(full(x)))
  <2> HAVE x.opcode \in \hb8 .. \hbf
  <2>1. x.opcode \in \hb8 .. \hbf
    OBVIOUS
  <2>2. /\ ~(x.opcode < \h40)
        /\ ~(x.opcode \in {\h80, \h81})
        /\ ~(x.opcode \in {\h88, \h89})
        /\ ~(x.opcode \in {\h8a, \h8b})
        /\ ~(x.opcode \in \hb0 .. \hb7)
        /\ ~(x.opcode \in {\hc6, \hc7})
        /\ ~(x.opcode \in {\hc0, \hc1})
        /\ ~(x.opcode \in {\hf6, \hf7})
        /\ ~(x.opcode \in {\hfe, \hff})
        /\ ~(x.opcode = \hff)
        /\ ~(x.opcode = \h8f)
        /\ ~(x.opcode \in \h50 .. \h57)
        /\ ~(x.opcode \in \h58 .. \h5f)
        /\ ~(x.opcode \in {\he4, \he5})
        /\ ~(x.opcode \in {\he6, \he7})
        /\ ~(x.opcode = \he8)
        /\ ~(x.opcode = \he9)
        /\ ~(x.opcode = \heb)
        /\ ~(x.opcode = \he0)
        /\ ~(x.opcode = \he1)
        /\ ~(x.opcode = \he2)
        /\ ~(x.opcode = \h90)
        /\ ~(x.opcode = \hc3)
        /\ ~(x.opcode = \hcb)
        /\ ~(x.opcode = \hc9)
        /\ ~(x.opcode = \h9c)
        /\ ~(x.opcode = \h9d)
        /\ ~(x.opcode = \hd9)
    BY SMT
  <2>3. QED
    BY <2>1, <2>2, SMT DEF DecodeShort
<1>6. x.opcode \in {\hf6, \hf7} /\ regBits(x) \in 2 .. 7 =>
          DecodeShort(x) = modrm(x, INC + regBits(x), sized(x), <<rm(x, sized(x), 0)>>)
  <2>1. x.opcode = \hf6 /\ regBits(x) \in 2 .. 7 =>
            DecodeShort(x) = modrm(x, INC + regBits(x), sized(x), <<rm(x, sized(x), 0)>>)
    BY SMT DEF DecodeShort
  <2>2. x.opcode = \hf7 /\ regBits(x) \in 2 .. 7 =>
            DecodeShort(x) = modrm(x, INC + regBits(x), sized(x), <<rm(x, sized(x), 0)>>)
    BY SMT DEF DecodeShort
  <2>3. QED
    BY <2>1, <2>2
<1>7. x.opcode \in {\hfe, \hff} /\ regBits(x) \in {0, 1} =>
          DecodeShort(x) = modrm(x, INC + regBits(x), sized(x), <<rm(x, sized(x), 0)>>)
  <2>1. x.opcode = \hfe /\ regBits(x) \in {0, 1} =>
            DecodeShort(x) = modrm(x, INC + regBits(x), sized(x), <<rm(x, sized(x), 0)>>)
    BY SMT DEF DecodeShort
  <2>2. x.opcode = \hff /\ regBits(x) \in {0, 1} =>
            DecodeShort(x) = modrm(x, INC + regBits(x), sized(x), <<rm(x, sized(x), 0)>>)
    BY SMT DEF DecodeShort
  <2>3. QED
    BY <2>1, <2>2
<1>8. x.opcode \in \h50 .. \h57 =>
          DecodeShort(x) =
              instruction(PUSH, stack(x), <<Register(x.opcode - \h50 + rexB(x))>>, x.m)
  <2> HAVE x.opcode \in \h50 .. \h57
  <2>1. x.opcode \in \h50 .. \h57
    OBVIOUS
  <2>2. /\ ~(x.opcode < \h40)
        /\ ~(x.opcode \in {\h80, \h81})
        /\ ~(x.opcode \in {\h88, \h89})
        /\ ~(x.opcode \in {\h8a, \h8b})
        /\ ~(x.opcode \in \hb0 .. \hb7)
        /\ ~(x.opcode \in \hb8 .. \hbf)
        /\ ~(x.opcode \in {\hc6, \hc7})
        /\ ~(x.opcode \in {\hc0, \hc1})
        /\ ~(x.opcode \in {\hf6, \hf7})
        /\ ~(x.opcode \in {\hfe, \hff})
        /\ ~(x.opcode = \hff)
        /\ ~(x.opcode = \h8f)
        /\ ~(x.opcode \in \h58 .. \h5f)
        /\ ~(x.opcode \in {\he4, \he5})
        /\ ~(x.opcode \in {\he6, \he7})
        /\ ~(x.opcode = \he8)
        /\ ~(x.opcode = \he9)
        /\ ~(x.opcode = \heb)
        /\ ~(x.opcode = \he0)
        /\ ~(x.opcode = \he1)
        /\ ~(x.opcode = \he2)
        /\ ~(x.opcode = \h90)
        /\ ~(x.opcode = \hc3)
        /\ ~(x.opcode = \hcb)
        /\ ~(x.opcode = \hc9)
        /\ ~(x.opcode = \h9c)
        /\ ~(x.opcode = \h9d)
        /\ ~(x.opcode = \hd9)
    BY SMT
  <2>3. QED
    BY <2>1, <2>2, SMT DEF DecodeShort
<1>9. x.opcode \in \h58 .. \h5f =>
          DecodeShort(x) =
              instruction(POP, stack(x), <<Register(x.opcode - \h58 + rexB(x))>>, x.m)
  <2> HAVE x.opcode \in \h58 .. \h5f
  <2>1. x.opcode \in \h58 .. \h5f
    OBVIOUS
  <2>2. /\ ~(x.opcode < \h40)
        /\ ~(x.opcode \in {\h80, \h81})
        /\ ~(x.opcode \in {\h88, \h89})
        /\ ~(x.opcode \in {\h8a, \h8b})
        /\ ~(x.opcode \in \hb0 .. \hb7)
        /\ ~(x.opcode \in \hb8 .. \hbf)
        /\ ~(x.opcode \in {\hc6, \hc7})
        /\ ~(x.opcode \in {\hc0, \hc1})
        /\ ~(x.opcode \in {\hf6, \hf7})
        /\ ~(x.opcode \in {\hfe, \hff})
        /\ ~(x.opcode = \hff)
        /\ ~(x.opcode = \h8f)
        /\ ~(x.opcode \in \h50 .. \h57)
        /\ ~(x.opcode \in {\he4, \he5})
        /\ ~(x.opcode \in {\he6, \he7})
        /\ ~(x.opcode = \he8)
        /\ ~(x.opcode = \he9)
        /\ ~(x.opcode = \heb)
        /\ ~(x.opcode = \he0)
        /\ ~(x.opcode = \he1)
        /\ ~(x.opcode = \he2)
        /\ ~(x.opcode = \h90)
        /\ ~(x.opcode = \hc3)
        /\ ~(x.opcode = \hcb)
        /\ ~(x.opcode = \hc9)
        /\ ~(x.opcode = \h9c)
        /\ ~(x.opcode = \h9d)
        /\ ~(x.opcode = \hd9)
    BY SMT
  <2>3. QED
    BY <2>1, <2>2, SMT DEF DecodeShort
<1>10. x.opcode = \he8 => DecodeShort(x) = jump(x, CALL)
  BY SMT DEF DecodeShort
<1>11. x.opcode = \he9 => DecodeShort(x) = jump(x, JMP)
  BY SMT DEF DecodeShort
<1>12. x.opcode = \h90 => DecodeShort(x) = static(x, NOP)
  BY SMT DEF DecodeShort
<1>13. x.opcode = \hc3 => DecodeShort(x) = static(x, RETN)
  BY SMT DEF DecodeShort
<1>14. x.opcode = \hcb => DecodeShort(x) = static(x, RETF)
  BY SMT DEF DecodeShort
<1>15. x.opcode = \hc9 => DecodeShort(x) = static(x, LEAVE)
  BY SMT DEF DecodeShort
<1>16. x.opcode = \h9c => DecodeShort(x) = static(x, PUSHF)
  BY SMT DEF DecodeShort
<1>17. x.opcode = \h9d => DecodeShort(x) = static(x, POPF)
  BY SMT DEF DecodeShort
<1>18. x.opcode = \hd9 =>
          DecodeShort(x) = instruction(FloatOperation(byteAt(x, x.m)), D32, <<>>, x.m + 1)
  BY SMT DEF DecodeShort
<1> QED
  BY <1>1, <1>2, <1>3, <1>4, <1>5, <1>6, <1>7, <1>8, <1>9, <1>10, <1>11, <1>12, <1>13, <1>14,
     <1>15, <1>16, <1>17, <1>18, Zenon

LEMMA ArithmeticOpcode ==
    ASSUME NEW x, NEW operation \in ADD .. CMP, NEW size \in AllSizes, full(x) = size \/ size = D8,
           x.opcode = (8 * (operation - ADD)) + B(size # D8)
    PROVE  /\ DecodeShort(x) = modrm(x, operation, size, <<rm(x, size, 0), register(x, size)>>)
           /\ Opens(x.opcode)
<1> DEFINE k == operation - ADD
           odd == B(size # D8)
<1>1. k \in 0 .. 7 /\ odd \in {0, 1} /\ (odd = 0 <=> size = D8)
  BY DEF ADD, CMP, B
<1>2. operation = ADD + k
  BY DEF ADD, CMP
<1> HIDE DEF k, odd
<1>3. \A i \in 0 .. 7, j \in {0, 1} :
          LET o == (8 * i) + j
          IN  o < 64 /\ o >= 0 /\ o \div 8 = i /\ o % 8 = j /\ o % 2 = j /\ o # 15
  BY SMT
<1> DEFINE o == x.opcode
<1>4. o \in 0 .. 63 /\ o \div 8 = k /\ o % 8 = odd /\ o % 2 = odd /\ o # 15
  <2>1. o = (8 * k) + odd
    BY DEF k, odd
  <2> HIDE DEF o
  <2>2. QED
    BY <1>1, <1>3, <2>1
<1> HIDE DEF o
<1>5. Opens(o)
  BY <1>4 DEF Opens, Byte, IsRex
<1>6. sized(x) = size
  BY <1>1, <1>4 DEF sized, o
<1>7. DecodeShort(x) = DecodeArithmetic(x)
  BY <1>4, ShortOpcodes DEF o
<1>8. DecodeArithmetic(x) = modrm(x, ADD + (o \div 8), size, <<rm(x, size, 0), register(x, size)>>)
  BY <1>1, <1>4, <1>6 DEF DecodeArithmetic, o
<1>9. QED
  BY <1>2, <1>4, <1>5, <1>7, <1>8 DEF o

LEMMA MoveOpcode ==
    ASSUME NEW x, NEW size \in AllSizes, full(x) = size \/ size = D8,
           x.opcode = \h88 + B(size # D8)
    PROVE  /\ DecodeShort(x) = modrm(x, MOV, size, <<rm(x, size, 0), register(x, size)>>)
           /\ Opens(x.opcode)
<1>1. CASE size = D8
  <2>1. x.opcode = 136
    BY <1>1 DEF B
  <2>2. sized(x) = size
    BY <1>1, <2>1 DEF sized
  <2>3. DecodeShort(x) = modrm(x, MOV, sized(x), <<rm(x, sized(x), 0), register(x, sized(x))>>)
    BY <2>1, ShortOpcodes
  <2>4. QED
    BY <2>1, <2>2, <2>3 DEF Opens, Byte, IsRex
<1>2. CASE size # D8
  <2>1. x.opcode = 137
    BY <1>2 DEF B
  <2>2. sized(x) = size
    BY <1>2, <2>1 DEF sized
  <2>3. DecodeShort(x) = modrm(x, MOV, sized(x), <<rm(x, sized(x), 0), register(x, sized(x))>>)
    BY <2>1, ShortOpcodes
  <2>4. QED
    BY <2>1, <2>2, <2>3 DEF Opens, Byte, IsRex
<1>3. QED
  BY <1>1, <1>2

-----------------------------------------------------------------------------
(***************************************************************************)
(* The prefixes the builders make.                                         *)
(***************************************************************************)
PrefixOf(size, b, r, plain) ==
    OneOf(HalfOf(size) = 1, \h66)
        \o OneOf(RexOf(size, b, r, plain) # 0, RexOf(size, b, r, plain))

LEMMA Insets ==
    ASSUME NEW when \in BOOLEAN, NEW byte \in Byte
    PROVE  inset(when, byte) = OneOf(when, byte) /\ OneOf(when, byte) \in Seq(Byte)
<1>1. byte % 256 = byte
  BY DEF Byte
<1>2. <<byte>> \in Seq(Byte) /\ <<>> \in Seq(Byte)
  OBVIOUS
<1>3. QED
  BY <1>1, <1>2 DEF inset, OneOf

LEMMA HalfIs ==
    ASSUME NEW size \in AllSizes
    PROVE  /\ HalfOf(size) \in Half
           /\ HalfOf(size) = 1 <=> size = D16
BY DEF HalfOf, Half, B

LEMMA PrefixType ==
    ASSUME NEW size \in AllSizes, NEW b \in BOOLEAN, NEW r \in BOOLEAN, NEW plain \in BOOLEAN
    PROVE  /\ PrefixOf(size, b, r, plain) \in Seq(Byte)
           /\ Len(PrefixOf(size, b, r, plain)) = Ahead(HalfOf(size), RexOf(size, b, r, plain))
           /\ Ahead(HalfOf(size), RexOf(size, b, r, plain)) \in Nat
           /\ \A rest \in Seq(Byte) :
                  PrefixOf(size, b, r, plain) \o rest
                      = Prefixed(HalfOf(size), RexOf(size, b, r, plain), rest)
<1> DEFINE h == HalfOf(size)
           x == RexOf(size, b, r, plain)
           p == PrefixOf(size, b, r, plain)
<1>1. h \in Half /\ x \in Rex
  BY HalfIs, RexIs
<1> HIDE DEF h, x
<1>2. OneOf(h = 1, \h66) \in Seq(Byte) /\ OneOf(x # 0, x) \in Seq(Byte)
  <2>1. \h66 \in Byte /\ x \in Byte /\ <<>> \in Seq(Byte)
    BY <1>1 DEF Byte, Rex
  <2>2. \A y \in Byte : <<y>> \in Seq(Byte)
    OBVIOUS
  <2>3. QED
    BY <2>1, <2>2 DEF OneOf
<1>3. p = OneOf(h = 1, \h66) \o OneOf(x # 0, x)
  BY DEF PrefixOf, h, x
<1>4. p \in Seq(Byte)
  BY <1>2, <1>3
<1>5. \A rest \in Seq(Byte) : p \o rest = Prefixed(h, x, rest)
  BY <1>3 DEF Prefixed
<1>6. Len(Prefixed(h, x, <<>>)) = Ahead(h, x) + 0 /\ Ahead(h, x) \in Nat
  <2>1. <<>> \in Seq(Byte) /\ Len(<<>>) = 0
    OBVIOUS
  <2>2. QED
    BY <1>1, <2>1, PrefixedBytes
<1> HIDE DEF p
<1>7. p \o <<>> = p /\ Prefixed(h, x, <<>>) = p \o <<>>
  <2>1. <<>> \in Seq(Byte)
    OBVIOUS
  <2>2. p \o <<>> = p
    BY <1>4, Joining
  <2>3. Prefixed(h, x, <<>>) = p \o <<>>
    BY <1>5, <2>1
  <2>4. QED
    BY <2>2, <2>3
<1>8. Len(p) = Ahead(h, x)
  BY <1>6, <1>7
<1>9. QED
  BY <1>4, <1>5, <1>6, <1>8 DEF h, x, p

\* The prefixes a builder makes of its operands, and one for its own sake.
MadePrefix(size, to, destination, from, source, plain) ==
    short_prefix(size) \o long_prefix(size, to, destination, from, source) \o inset(plain, \h40)

\* Those registers call for that prefix.
Prefixing(size, to, destination, from, source, b, r, plain) ==
    /\ size \in AllSizes /\ b \in BOOLEAN /\ r \in BOOLEAN /\ plain \in BOOLEAN
    /\ b <=> (to = REG /\ upper(destination))
    /\ r <=> (from = REG /\ upper(source))
    /\ plain => ~b /\ ~r /\ size # D64

LEMMA PrefixBuilt ==
    ASSUME NEW size, NEW to, NEW destination, NEW from, NEW source, NEW b, NEW r, NEW plain,
           Prefixing(size, to, destination, from, source, b, r, plain)
    PROVE  MadePrefix(size, to, destination, from, source, plain) = PrefixOf(size, b, r, plain)
<1> USE DEF Prefixing
<1> DEFINE w == size = D64
           value == 64 + B(b) + (4 * B(r)) + (8 * B(w))
           x == RexOf(size, b, r, plain)
           short == OneOf(HalfOf(size) = 1, \h66)
           long == long_prefix(size, to, destination, from, source)
<1>1. value \in 64 .. 79
  <2>1. B(b) \in {0, 1} /\ B(r) \in {0, 1} /\ B(w) \in {0, 1}
    BY DEF B
  <2>2. QED
    BY <2>1, RexBits
<1>2. value \in Byte /\ \h66 \in Byte /\ \h40 \in Byte
  BY <1>1 DEF Byte
<1>3. short_prefix(size) = short /\ short \in Seq(Byte)
  <2>1. short_prefix(size) = inset(size = D16, \h66)
    BY DEF short_prefix
  <2>2. (HalfOf(size) = 1) = (size = D16)
    BY HalfIs
  <2>3. (size = D16) \in BOOLEAN
    OBVIOUS
  <2>4. QED
    BY <1>2, <2>1, <2>2, <2>3, Insets
<1>4. long = inset(b \/ r \/ w, value)
  <2>1. (to = REG /\ upper(destination)) = b /\ (from = REG /\ upper(source)) = r
    OBVIOUS
  <2>2. QED
    BY <2>1 DEF long_prefix
<1>5. long = OneOf(b \/ r \/ w, value)
  <2>1. (b \/ r \/ w) \in BOOLEAN
    OBVIOUS
  <2>2. QED
    BY <1>2, <1>4, <2>1, Insets
<1>6. inset(plain, \h40) = OneOf(plain, \h40)
  BY <1>2, Insets
<1>7. /\ b \/ r \/ w => x = value /\ ~plain
      /\ ~(b \/ r \/ w) /\ plain => x = 64
      /\ ~(b \/ r \/ w) /\ ~plain => x = 0
  BY DEF RexOf
<1> HIDE DEF x, short, long, value
<1>8. short \o OneOf(b \/ r \/ w, value) \o OneOf(plain, \h40) = short \o OneOf(x # 0, x)
  <2>1. \A y \in Byte : short \o <<y>> \in Seq(Byte) /\ (short \o <<y>>) \o <<>> = short \o <<y>>
    BY <1>3
  <2>2. short \o <<>> = short
    BY <1>3
  <2>3. CASE b \/ r \/ w
    <3>1. x = value /\ ~plain /\ x # 0
      BY <1>1, <1>7, <2>3
    <3>2. /\ OneOf(b \/ r \/ w, value) = <<x>> /\ OneOf(plain, \h40) = <<>>
          /\ OneOf(x # 0, x) = <<x>>
      BY <2>3, <3>1 DEF OneOf
    <3>3. QED
      BY <1>2, <2>1, <3>1, <3>2
  <2>4. CASE ~(b \/ r \/ w)
    <3>1. OneOf(b \/ r \/ w, value) = <<>>
      BY <2>4 DEF OneOf
    <3>2. OneOf(plain, \h40) = OneOf(x # 0, x)
      BY <1>7, <2>4 DEF OneOf
    <3>3. QED
      BY <2>2, <3>1, <3>2
  <2>5. QED
    BY <2>3, <2>4
<1>9. PrefixOf(size, b, r, plain) = short \o OneOf(x # 0, x)
  BY DEF PrefixOf, short, x
<1>10. QED
  BY <1>3, <1>5, <1>6, <1>8, <1>9 DEF long, MadePrefix

-----------------------------------------------------------------------------
(***************************************************************************)
(* An instruction in the code, and what the processor selects by it.       *)
(***************************************************************************)
Selected(x, code, at, size, b, r, plain, opcode) ==
    /\ x.code = code /\ x.at = at /\ x.opcode = opcode
    /\ x.m = Len(PrefixOf(size, b, r, plain)) + 1 /\ x.m \in Nat
    /\ full(x) = IF size = D8 THEN D32 ELSE size
    /\ x.half = HalfOf(size)
    /\ rexB(x) = 8 * B(b) /\ rexR(x) = 8 * B(r)
    /\ x.rex = 0 <=> ~(b \/ r \/ plain \/ size = D64)

LEMMA IsSelected ==
    ASSUME NEW code, NEW at, NEW opcode, NEW size \in AllSizes,
           NEW b \in BOOLEAN, NEW r \in BOOLEAN, NEW plain \in BOOLEAN
    PROVE  Selected(Instruction(code, at, size, b, r, plain, opcode),
                    code, at, size, b, r, plain, opcode)
<1> DEFINE x == Instruction(code, at, size, b, r, plain, opcode)
           rex == RexOf(size, b, r, plain)
<1>1. /\ x.code = code /\ x.at = at /\ x.long = FALSE /\ x.opcode = opcode
      /\ x.half = HalfOf(size) /\ x.rex = rex /\ x.m = Ahead(HalfOf(size), rex) + 1
  BY DEF Instruction, ShortAt
<1>2. /\ (rex \div 8) % 2 = B(size = D64) /\ (rex \div 4) % 2 = B(r) /\ rex % 2 = B(b)
      /\ rex = 0 <=> ~(b \/ r \/ plain \/ size = D64)
  BY RexIs
<1>3. /\ Len(PrefixOf(size, b, r, plain)) = Ahead(HalfOf(size), rex)
      /\ Ahead(HalfOf(size), rex) \in Nat
  BY PrefixType
<1> HIDE DEF x, rex
<1>4. rexB(x) = 8 * B(b) /\ rexR(x) = 8 * B(r) /\ rexW(x) = B(size = D64)
  BY <1>1, <1>2 DEF rexB, rexR, rexW
<1>5. full(x) = IF size = D8 THEN D32 ELSE size
  BY <1>1, <1>4 DEF full, HalfOf, B, AllSizes, D8, D16, D32, D64
<1>6. x.m \in Nat
  BY <1>1, <1>3
<1>7. Selected(x, code, at, size, b, r, plain, opcode)
  BY <1>1, <1>2, <1>3, <1>4, <1>5, <1>6 DEF Selected
<1>8. QED
  BY <1>1, <1>7 DEF x

\* The processor finds that instruction, and the rest of it behind the opcode.
Finds(code, at, size, b, r, plain, rest) ==
    \E x : /\ Selected(x, code, at, size, b, r, plain, rest[1])
           /\ Decode(code, at) = DecodeShort(x)
           /\ \A k \in 1 .. Len(rest) - 1 : byteAt(x, x.m + k - 1) = rest[k + 1]

LEMMA Fetching ==
    ASSUME NEW code, Len(code) \in Nat, NEW at \in Nat, NEW size \in AllSizes,
           NEW b \in BOOLEAN, NEW r \in BOOLEAN, NEW plain \in BOOLEAN,
           NEW rest \in Seq(Byte), Len(rest) >= 1, Opens(rest[1]),
           Holds(code, at, PrefixOf(size, b, r, plain) \o rest)
    PROVE  Finds(code, at, size, b, r, plain, rest)
<1> DEFINE h == HalfOf(size)
           q == RexOf(size, b, r, plain)
           p == PrefixOf(size, b, r, plain)
           n == Ahead(h, q)
           opcode == rest[1]
           x == Instruction(code, at, size, b, r, plain, opcode)
<1>1. h \in Half
  BY HalfIs
<1>2. q \in Rex
  BY RexIs
<1>3. /\ Len(p) = n /\ n \in Nat /\ p \o rest = Prefixed(h, q, rest)
  <2>1. Len(p) = n /\ n \in Nat
    BY PrefixType
  <2>2. p \o rest = Prefixed(h, q, rest)
    BY DEF PrefixOf, Prefixed
  <2>3. QED
    BY <2>1, <2>2
<1>4. Selected(x, code, at, size, b, r, plain, opcode)
  BY IsSelected, Zenon
<1>5. x = ShortAt(code, at, h, q, opcode)
  BY DEF Instruction
<1> HIDE DEF x, h, q, opcode
<1>6. Holds(code, at, Prefixed(h, q, rest))
  BY <1>3
<1> HIDE DEF n, p
<1>7. /\ Fetched(code, at) = ShortAt(code, at, h, q, rest[1])
      /\ \A k \in 1 .. Len(rest) - 1 : ByteAt(code, at, Ahead(h, q) + k) = rest[k + 1]
  BY <1>1, <1>2, <1>6, FetchedShort, Zenon
<1>8. Fetched(code, at) = x
  BY <1>5, <1>7 DEF opcode
<1>9. Decode(code, at) = DecodeShort(x)
  <2>1. ~x.long
    BY <1>5 DEF ShortAt
  <2>2. QED
    BY <1>8, <2>1 DEF Decode
<1>10. \A k \in 1 .. Len(rest) - 1 : byteAt(x, x.m + k - 1) = rest[k + 1]
  <2> TAKE k \in 1 .. Len(rest) - 1
  <2>1. x.code = code /\ x.at = at /\ x.m = Len(p) + 1
    BY <1>4 DEF Selected, p
  <2>2. x.m + k - 1 = n + k
    BY <1>3, <2>1
  <2>3. QED
    BY <1>7, <2>1, <2>2 DEF byteAt, n
<1>11. QED
  BY <1>4, <1>9, <1>10, Zenon DEF Finds, opcode

-----------------------------------------------------------------------------
(***************************************************************************)
(* Two registers.                                                          *)
(***************************************************************************)
\* The registers 4 to 7 of a byte instruction are the new ones with any REX prefix.
LEMMA NumberedIs ==
    ASSUME NEW x, NEW n, NEW size, ~(size = D8 /\ x.rex = 0 /\ n \in 4 .. 7)
    PROVE  numbered(x, n, size) = Register(n)
BY DEF numbered

\* The operations with an opcode for two operands, the first not read from memory.
Opcode2(operation, size, opcode) ==
    \/ operation \in ADD .. CMP /\ opcode = (8 * (operation - ADD)) + B(size # D8)
    \/ operation = MOV /\ opcode = \h88 + B(size # D8)

LEMMA OpcodeOfTwo ==
    ASSUME NEW x, NEW operation, NEW size \in AllSizes, full(x) = size \/ size = D8,
           Opcode2(operation, size, x.opcode)
    PROVE  DecodeShort(x) = modrm(x, operation, size, <<rm(x, size, 0), register(x, size)>>)
<1>1. CASE operation \in ADD .. CMP /\ x.opcode = (8 * (operation - ADD)) + B(size # D8)
  BY <1>1, ArithmeticOpcode
<1>2. CASE operation = MOV /\ x.opcode = \h88 + B(size # D8)
  BY <1>2, MoveOpcode
<1>3. QED
  BY <1>1, <1>2 DEF Opcode2

LEMMA OpcodeOfTwoOpens ==
    ASSUME NEW operation, NEW size, NEW opcode, Opcode2(operation, size, opcode)
    PROVE  Opens(opcode) /\ opcode \in Byte
<1>1. B(size # D8) \in {0, 1}
  BY DEF B
<1>2. CASE operation \in ADD .. CMP /\ opcode = (8 * (operation - ADD)) + B(size # D8)
  <2>1. \A i \in 0 .. 7, j \in {0, 1} : (8 * i) + j \in 0 .. 57 /\ (8 * i) + j # 15
    BY SMT
  <2>2. operation - ADD \in 0 .. 7
    BY <1>2 DEF ADD, CMP
  <2> DEFINE i == operation - ADD
             j == B(size # D8)
  <2> HIDE DEF i, j
  <2>3. opcode = (8 * i) + j /\ i \in 0 .. 7 /\ j \in {0, 1}
    BY <1>1, <1>2, <2>2 DEF i, j
  <2>4. opcode \in 0 .. 57 /\ opcode # 15
    BY <2>1, <2>3
  <2>5. QED
    BY <2>4 DEF Opens, Byte, IsRex
<1>3. CASE operation = MOV /\ opcode = \h88 + B(size # D8)
  BY <1>1, <1>3 DEF Opens, Byte, IsRex
<1>4. QED
  BY <1>2, <1>3 DEF Opcode2

LEMMA ModRMOfTwo ==
    ASSUME NEW d \in Registry, NEW e \in Registry
    PROVE  /\ mc0(d, e) = 192 + (d % 8) + (8 * (e % 8))
           /\ mc0(d, e) \in Byte
<1>1. d % 8 \in 0 .. 7 /\ e % 8 \in 0 .. 7
  BY RegisterNumbers
<1>2. mc0(d, e) = 192 + (d % 8) + (8 * (e % 8))
  BY DEF mc0
<1>3. QED
  BY <1>1, <1>2, ModRMBits

\* The ModRM byte of two registers, with the bits of the REX prefix.
NamesTwo(x, size, d, e) ==
    /\ known(x) /\ next(x) = x.m + 1
    /\ rm(x, size, 0) = Register(d) /\ register(x, size) = Register(e)

LEMMA NamingTwo ==
    ASSUME NEW x, NEW d \in Registry, NEW e \in Registry, NEW size,
           byteAt(x, x.m) = mc0(d, e),
           rexB(x) = 8 * B(upper(d)), rexR(x) = 8 * B(upper(e)),
           ~(size = D8 /\ x.rex = 0 /\ (front(d) \/ front(e)))
    PROVE  NamesTwo(x, size, d, e)
<1> DEFINE a == d % 8
           c == e % 8
<1>1. /\ a \in 0 .. 7 /\ c \in 0 .. 7
      /\ a + rexB(x) = d /\ c + rexR(x) = e
      /\ front(d) <=> d \in 4 .. 7
      /\ front(e) <=> e \in 4 .. 7
  BY RegisterNumbers
<1>2. byteAt(x, x.m) = 192 + a + (8 * c)
  BY ModRMOfTwo
<1> HIDE DEF a, c
<1>3. known(x) /\ next(x) = x.m + 1
  BY <1>1, <1>2, TwoRegisters
<1>4. rm(x, size, 0) = numbered(x, a + rexB(x), size)
  BY <1>1, <1>2, TwoRegisters
<1>5. register(x, size) = numbered(x, c + rexR(x), size)
  <2>1. regBits(x) = c
    BY <1>1, <1>2, ModRMBits DEF regBits
  <2>2. QED
    BY <2>1 DEF register
<1>6. numbered(x, d, size) = Register(d) /\ numbered(x, e, size) = Register(e)
  <2>1. ~(size = D8 /\ x.rex = 0 /\ d \in 4 .. 7)
    BY <1>1
  <2>2. ~(size = D8 /\ x.rex = 0 /\ e \in 4 .. 7)
    BY <1>1
  <2>3. QED
    BY <2>1, <2>2, NumberedIs
<1>7. QED
  BY <1>1, <1>3, <1>4, <1>5, <1>6 DEF NamesTwo

LEMMA DecodesRegisters ==
    ASSUME NEW code, Len(code) \in Nat, NEW at \in Nat,
           NEW size \in AllSizes, NEW d \in Registry, NEW e \in Registry, NEW plain \in BOOLEAN,
           size = D8 /\ (front(d) \/ front(e)) => plain \/ upper(d) \/ upper(e),
           NEW operation, NEW opcode, Opcode2(operation, size, opcode),
           Holds(code, at, PrefixOf(size, upper(d), upper(e), plain)
                               \o <<opcode, mc0(d, e)>>)
    PROVE  Decode(code, at) =
               instruction(operation, size, <<Register(d), Register(e)>>,
                           Len(PrefixOf(size, upper(d), upper(e), plain)) + 2)
<1> DEFINE b == upper(d)
           r == upper(e)
           m == mc0(d, e)
           rest == <<opcode, m>>
<1>1. /\ d % 8 \in 0 .. 7 /\ e % 8 \in 0 .. 7
      /\ (d % 8) + (8 * B(b)) = d /\ (e % 8) + (8 * B(r)) = e
      /\ b \in BOOLEAN /\ r \in BOOLEAN
      /\ front(d) <=> d \in 4 .. 7
      /\ front(e) <=> e \in 4 .. 7
  BY RegisterNumbers
<1>2. m = 192 + (d % 8) + (8 * (e % 8)) /\ m \in Byte
  BY ModRMOfTwo
<1>3. opcode \in Byte /\ Opens(opcode)
  BY OpcodeOfTwoOpens
<1> HIDE DEF m, b, r
<1>4. rest \in Seq(Byte) /\ Len(rest) = 2 /\ rest[1] = opcode /\ rest[2] = m
  BY <1>2, <1>3
<1> HIDE DEF rest
<1>5. Holds(code, at, PrefixOf(size, b, r, plain) \o rest)
  BY DEF b, r, rest, m
<1>6. Len(rest) >= 1
  BY <1>4
<1>7. PICK x : /\ Selected(x, code, at, size, b, r, plain, opcode)
               /\ Decode(code, at) = DecodeShort(x)
               /\ \A k \in 1 .. Len(rest) - 1 : byteAt(x, x.m + k - 1) = rest[k + 1]
  <2>1. Opens(rest[1])
    BY <1>3, <1>4
  <2>2. Finds(code, at, size, b, r, plain, rest)
    BY <1>1, <1>4, <1>5, <1>6, <2>1, Fetching, Zenon
  <2>3. QED
    BY <1>4, <2>2 DEF Finds
<1>8. /\ x.opcode = opcode /\ x.m \in Nat
      /\ x.m = Len(PrefixOf(size, b, r, plain)) + 1
      /\ full(x) = IF size = D8 THEN D32 ELSE size
      /\ rexB(x) = 8 * B(b) /\ rexR(x) = 8 * B(r)
      /\ x.rex = 0 <=> ~(b \/ r \/ plain \/ size = D64)
  BY <1>7 DEF Selected
<1>9. byteAt(x, x.m) = m
  <2>1. 1 \in 1 .. Len(rest) - 1 /\ x.m + 1 - 1 = x.m
    BY <1>4, <1>8
  <2>2. byteAt(x, x.m + 1 - 1) = rest[1 + 1]
    BY <1>7, <2>1
  <2>3. QED
    BY <1>4, <2>1, <2>2
<1>13. NamesTwo(x, size, d, e)
  <2>1. byteAt(x, x.m) = mc0(d, e)
    BY <1>9 DEF m
  <2>2. ~(size = D8 /\ x.rex = 0 /\ (front(d) \/ front(e)))
    BY <1>8 DEF b, r
  <2>3. rexB(x) = 8 * B(upper(d)) /\ rexR(x) = 8 * B(upper(e))
    BY <1>8 DEF b, r
  <2>4. QED
    BY <2>1, <2>2, <2>3, NamingTwo, Zenon
<1>14. DecodeShort(x) = modrm(x, operation, size, <<rm(x, size, 0), register(x, size)>>)
  BY <1>8, OpcodeOfTwo
<1>15. Decode(code, at) = instruction(operation, size, <<Register(d), Register(e)>>, next(x))
  BY <1>7, <1>13, <1>14 DEF modrm, NamesTwo
<1>16. next(x) = Len(PrefixOf(size, b, r, plain)) + 2
  <2>1. \A n : n \in Nat /\ n = Len(PrefixOf(size, b, r, plain)) + 1
              => n + 1 = Len(PrefixOf(size, b, r, plain)) + 2
    <3>1. Len(PrefixOf(size, b, r, plain)) \in Nat
      BY <1>1, PrefixType
    <3>2. QED
      BY <3>1
  <2>2. QED
    BY <1>8, <1>13, <2>1 DEF NamesTwo
<1>17. QED
  BY <1>15, <1>16 DEF b, r

-----------------------------------------------------------------------------
(***************************************************************************)
(* What is behind the opcode: bytes, or the ModRM byte and bytes.          *)
(***************************************************************************)
FindsBytes(code, at, size, b, r, plain, opcode, bytes) ==
    \E x : /\ Selected(x, code, at, size, b, r, plain, opcode)
           /\ Decode(code, at) = DecodeShort(x)
           /\ bytesAt(x, x.m, Len(bytes)) = bytes

FindsModRM(code, at, size, b, r, plain, opcode, m, bytes) ==
    \E x : /\ Selected(x, code, at, size, b, r, plain, opcode)
           /\ Decode(code, at) = DecodeShort(x)
           /\ byteAt(x, x.m) = m
           /\ bytesAt(x, x.m + 1, Len(bytes)) = bytes

LEMMA BytesAre ==
    ASSUME NEW x, NEW n, NEW bytes \in Seq(Byte),
           \A k \in 1 .. Len(bytes) : byteAt(x, n + k - 1) = bytes[k]
    PROVE  bytesAt(x, n, Len(bytes)) = bytes
<1>1. bytes \in [1 .. Len(bytes) -> Byte]
  OBVIOUS
<1>2. bytesAt(x, n, Len(bytes)) = [i \in 1 .. Len(bytes) |-> byteAt(x, n + i - 1)]
  BY DEF bytesAt
<1>3. QED
  BY <1>1, <1>2

LEMMA Opening ==
    ASSUME NEW opcode \in Byte, NEW bytes \in Seq(Byte)
    PROVE  /\ <<opcode>> \o bytes \in Seq(Byte)
           /\ Len(<<opcode>> \o bytes) = 1 + Len(bytes)
           /\ (<<opcode>> \o bytes)[1] = opcode
           /\ \A k \in 1 .. Len(bytes) : (<<opcode>> \o bytes)[1 + k] = bytes[k]
<1> DEFINE p == <<opcode>>
<1>1. p \in Seq(Byte) /\ Len(p) = 1 /\ p[1] = opcode
  OBVIOUS
<1> HIDE DEF p
<1>2. /\ p \o bytes \in Seq(Byte) /\ Len(p \o bytes) = Len(p) + Len(bytes)
      /\ Len(bytes) \in Nat
      /\ \A i \in 1 .. Len(p) + Len(bytes) :
             (p \o bytes)[i] = IF i <= Len(p) THEN p[i] ELSE bytes[i - Len(p)]
  <2>1. p \o bytes \in Seq(Byte) /\ Len(p \o bytes) = Len(p) + Len(bytes)
    BY <1>1, ConcatProperties
  <2>2. \A i \in 1 .. Len(p) + Len(bytes) :
             (p \o bytes)[i] = IF i <= Len(p) THEN p[i] ELSE bytes[i - Len(p)]
    BY <1>1, ConcatProperties
  <2>3. Len(bytes) \in Nat
    OBVIOUS
  <2>4. QED
    BY <2>1, <2>2, <2>3
<1>3. (p \o bytes)[1] = opcode
  BY <1>1, <1>2
<1>4. \A k \in 1 .. Len(bytes) : (p \o bytes)[1 + k] = bytes[k]
  BY <1>1, <1>2
<1>5. QED
  BY <1>1, <1>2, <1>3, <1>4 DEF p

LEMMA FindingBytes ==
    ASSUME NEW code, Len(code) \in Nat, NEW at \in Nat, NEW size \in AllSizes,
           NEW b \in BOOLEAN, NEW r \in BOOLEAN, NEW plain \in BOOLEAN,
           NEW opcode, Opens(opcode), NEW bytes \in Seq(Byte),
           Holds(code, at, PrefixOf(size, b, r, plain) \o (<<opcode>> \o bytes))
    PROVE  FindsBytes(code, at, size, b, r, plain, opcode, bytes)
<1> DEFINE rest == <<opcode>> \o bytes
<1>1. opcode \in Byte
  BY DEF Opens
<1>2. /\ rest \in Seq(Byte) /\ Len(rest) = 1 + Len(bytes) /\ rest[1] = opcode
      /\ \A k \in 1 .. Len(bytes) : rest[1 + k] = bytes[k]
  BY <1>1, Opening
<1>3. Holds(code, at, PrefixOf(size, b, r, plain) \o rest)
  OBVIOUS
<1> HIDE DEF rest
<1>4. Len(bytes) \in Nat
  OBVIOUS
<1>5. Len(rest) >= 1 /\ Opens(rest[1])
  BY <1>2, <1>4
<1>6. Finds(code, at, size, b, r, plain, rest)
  BY <1>2, <1>3, <1>5, Fetching, Zenon
<1>7. PICK x : /\ Selected(x, code, at, size, b, r, plain, rest[1])
               /\ Decode(code, at) = DecodeShort(x)
               /\ \A k \in 1 .. Len(rest) - 1 : byteAt(x, x.m + k - 1) = rest[k + 1]
  BY <1>6, Zenon DEF Finds
<1>8. x.m \in Nat
  BY <1>7 DEF Selected
<1>9. \A k \in 1 .. Len(bytes) : byteAt(x, x.m + k - 1) = rest[1 + k]
  <2> TAKE k \in 1 .. Len(bytes)
  <2>1. k \in 1 .. Len(rest) - 1 /\ k + 1 = 1 + k
    BY <1>2, <1>4
  <2>2. QED
    BY <1>7, <2>1
<1>10. bytesAt(x, x.m, Len(bytes)) = bytes
  <2>1. \A k \in 1 .. Len(bytes) : byteAt(x, x.m + k - 1) = bytes[k]
    BY <1>2, <1>9
  <2>2. QED
    BY <2>1, BytesAre, Zenon
<1>11. QED
  BY <1>2, <1>7, <1>10, Zenon DEF FindsBytes

LEMMA FindingModRM ==
    ASSUME NEW code, Len(code) \in Nat, NEW at \in Nat, NEW size \in AllSizes,
           NEW b \in BOOLEAN, NEW r \in BOOLEAN, NEW plain \in BOOLEAN,
           NEW opcode, Opens(opcode), NEW m \in Byte, NEW bytes \in Seq(Byte),
           Holds(code, at, PrefixOf(size, b, r, plain) \o (<<opcode>> \o (<<m>> \o bytes)))
    PROVE  FindsModRM(code, at, size, b, r, plain, opcode, m, bytes)
<1> DEFINE all == <<m>> \o bytes
<1>1. /\ all \in Seq(Byte) /\ Len(all) = 1 + Len(bytes) /\ all[1] = m
      /\ \A k \in 1 .. Len(bytes) : all[1 + k] = bytes[k]
  BY Opening
<1>2. Holds(code, at, PrefixOf(size, b, r, plain) \o (<<opcode>> \o all))
  OBVIOUS
<1> HIDE DEF all
<1>3. Len(bytes) \in Nat
  OBVIOUS
<1>4. FindsBytes(code, at, size, b, r, plain, opcode, all)
  BY <1>1, <1>2, FindingBytes, Zenon
<1>5. PICK x : /\ Selected(x, code, at, size, b, r, plain, opcode)
               /\ Decode(code, at) = DecodeShort(x)
               /\ bytesAt(x, x.m, Len(all)) = all
  BY <1>4, Zenon DEF FindsBytes
<1>6. x.m \in Nat
  BY <1>5 DEF Selected
<1>7. \A k \in 1 .. 1 + Len(bytes) : byteAt(x, x.m + k - 1) = all[k]
  <2> TAKE k \in 1 .. 1 + Len(bytes)
  <2>1. bytesAt(x, x.m, Len(all))[k] = byteAt(x, x.m + k - 1)
    BY <1>1 DEF bytesAt
  <2>2. QED
    BY <1>5, <2>1
<1>8. byteAt(x, x.m) = m
  <2>1. 1 \in 1 .. 1 + Len(bytes) /\ x.m + 1 - 1 = x.m
    BY <1>3, <1>6
  <2>2. QED
    BY <1>1, <1>7, <2>1
<1>9. \A k \in 1 .. Len(bytes) : byteAt(x, (x.m + 1) + k - 1) = all[1 + k]
  <2> TAKE k \in 1 .. Len(bytes)
  <2>1. 1 + k \in 1 .. 1 + Len(bytes) /\ x.m + (1 + k) - 1 = (x.m + 1) + k - 1
    BY <1>3, <1>6
  <2>2. QED
    BY <1>7, <2>1
<1>10. bytesAt(x, x.m + 1, Len(bytes)) = bytes
  <2>1. \A k \in 1 .. Len(bytes) : byteAt(x, (x.m + 1) + k - 1) = bytes[k]
    BY <1>1, <1>9
  <2>2. QED
    BY <2>1, BytesAre, Zenon
<1>11. QED
  BY <1>5, <1>8, <1>10, Zenon DEF FindsModRM

\* What is held in two parts is held.
LEMMA JoinHeld ==
    ASSUME NEW code, Len(code) \in Nat, NEW at \in Nat, NEW p \in Seq(Byte), NEW q \in Seq(Byte),
           Holds(code, at, p), Holds(code, at + Len(p), q)
    PROVE  Holds(code, at, p \o q)
<1> DEFINE s == p \o q
<1>1. /\ Len(s) = Len(p) + Len(q) /\ Len(p) \in Nat /\ Len(q) \in Nat
      /\ \A i \in 1 .. Len(p) : s[i] = p[i]
      /\ \A i \in 1 .. Len(q) : s[Len(p) + i] = q[i]
  OBVIOUS
<1> HIDE DEF s
<1>2. \A i \in 1 .. Len(p) : code[at + i] = p[i]
  BY DEF Holds
<1>3. /\ (at + Len(p)) + Len(q) <= Len(code)
      /\ \A i \in 1 .. Len(q) : code[(at + Len(p)) + i] = q[i]
  BY DEF Holds
<1>4. \A i \in 1 .. Len(s) : code[at + i] = s[i]
  <2> TAKE i \in 1 .. Len(s)
  <2>1. CASE i <= Len(p)
    <3>1. i \in 1 .. Len(p)
      BY <1>1, <2>1
    <3>2. QED
      BY <1>1, <1>2, <3>1
  <2>2. CASE i > Len(p)
    <3> DEFINE k == i - Len(p)
    <3>1. k \in 1 .. Len(q) /\ Len(p) + k = i /\ (at + Len(p)) + k = at + i
      BY <1>1, <2>2
    <3> HIDE DEF k
    <3>2. QED
      BY <1>1, <1>3, <3>1
  <2>3. QED
    BY <1>1, <2>1, <2>2
<1>5. at + Len(s) <= Len(code)
  BY <1>1, <1>3
<1>6. QED
  BY <1>4, <1>5 DEF Holds, s

-----------------------------------------------------------------------------
(***************************************************************************)
(* One register or one place in memory, and the group of the operation in  *)
(* the rest of the ModRM byte.                                             *)
(***************************************************************************)
NamesOne(x, size, d, group, rest) ==
    /\ known(x) /\ next(x) = x.m + 1 /\ regBits(x) = group
    /\ rm(x, size, rest) = Register(d)

LEMMA NamingOne ==
    ASSUME NEW x, NEW d \in Registry, NEW size, NEW group \in 0 .. 7, NEW rest,
           byteAt(x, x.m) = 192 + (d % 8) + (8 * group),
           rexB(x) = 8 * B(upper(d)),
           ~(size = D8 /\ x.rex = 0 /\ front(d))
    PROVE  NamesOne(x, size, d, group, rest)
<1> DEFINE a == d % 8
<1>1. /\ a \in 0 .. 7 /\ a + rexB(x) = d
      /\ front(d) <=> d \in 4 .. 7
  BY RegisterNumbers
<1>2. byteAt(x, x.m) = 192 + a + (8 * group)
  OBVIOUS
<1> HIDE DEF a
<1>3. known(x) /\ next(x) = x.m + 1
  BY <1>1, <1>2, TwoRegisters
<1>4. rm(x, size, rest) = numbered(x, a + rexB(x), size)
  BY <1>1, <1>2, TwoRegisters
<1>5. regBits(x) = group
  BY <1>1, <1>2, ModRMBits DEF regBits
<1>6. numbered(x, d, size) = Register(d)
  <2>1. ~(size = D8 /\ x.rex = 0 /\ d \in 4 .. 7)
    BY <1>1
  <2>2. QED
    BY <2>1, NumberedIs
<1>7. QED
  BY <1>1, <1>3, <1>4, <1>5, <1>6 DEF NamesOne

GroupByte(d, group) == 192 + (d % 8) + (8 * group)

LEMMA GroupBytes ==
    ASSUME NEW d \in Registry, NEW group \in 0 .. 7
    PROVE  GroupByte(d, group) \in Byte
<1>1. d % 8 \in 0 .. 7
  BY RegisterNumbers
<1>2. QED
  BY <1>1, ModRMBits DEF GroupByte

-----------------------------------------------------------------------------
(***************************************************************************)
(* An immediate, for the arithmetic operations and for a move.             *)
(***************************************************************************)
LEMMA WidthIs ==
    ASSUME NEW size \in AllSizes
    PROVE  ImmediateWidth(size) = WidthOf(size) /\ WidthOf(size) \in Nat
BY DEF ImmediateWidth, WidthOf, AllSizes, D8, D16, D32, D64

ImmediateOpcode(size) == \h81 - B(size = D8)

LEMMA DecodesWithImmediate ==
    ASSUME NEW x, NEW size \in AllSizes, full(x) = IF size = D8 THEN D32 ELSE size,
           x.opcode = ImmediateOpcode(size)
    PROVE  DecodeShort(x) = withImmediate(x, ADD + regBits(x), size, WidthOf(size))
<1>1. CASE size = D8
  <2>1. x.opcode = 128
    BY <1>1 DEF B, ImmediateOpcode
  <2>2. sized(x) = size
    BY <1>1, <2>1 DEF sized
  <2>3. DecodeShort(x) = withImmediate(x, ADD + regBits(x), sized(x), ImmediateWidth(sized(x)))
    BY <2>1, ShortOpcodes
  <2>4. QED
    BY <2>2, <2>3, WidthIs
<1>2. CASE size # D8
  <2>1. x.opcode = 129
    BY <1>2 DEF B, ImmediateOpcode
  <2>2. sized(x) = size
    BY <1>2, <2>1 DEF sized
  <2>3. DecodeShort(x) = withImmediate(x, ADD + regBits(x), sized(x), ImmediateWidth(sized(x)))
    BY <2>1, ShortOpcodes
  <2>4. QED
    BY <2>2, <2>3, WidthIs
<1>3. QED
  BY <1>1, <1>2

LEMMA ImmediateOpens ==
    ASSUME NEW size
    PROVE  Opens(ImmediateOpcode(size)) /\ ImmediateOpcode(size) \in Byte
<1>1. ImmediateOpcode(size) \in {128, 129}
  BY DEF ImmediateOpcode, B
<1>2. QED
  BY <1>1 DEF Opens, Byte, IsRex

LEMMA PrefixLength ==
    ASSUME NEW size \in AllSizes, NEW b \in BOOLEAN, NEW r \in BOOLEAN, NEW plain \in BOOLEAN
    PROVE  Len(PrefixOf(size, b, r, plain)) \in Nat
BY PrefixType

LEMMA DecodesImmediate ==
    ASSUME NEW code, Len(code) \in Nat, NEW at \in Nat,
           NEW size \in AllSizes, NEW d \in Registry, NEW plain \in BOOLEAN,
           size = D8 /\ front(d) => plain,
           NEW operation \in ADD .. CMP, NEW bytes \in Seq(Byte), Len(bytes) = WidthOf(size),
           Holds(code, at, PrefixOf(size, upper(d), FALSE, plain)
                   \o (<<ImmediateOpcode(size)>>
                           \o (<<GroupByte(d, operation - ADD)>> \o bytes)))
    PROVE  Decode(code, at) =
               instruction(operation, size, <<Register(d), Immediate(bytes)>>,
                           Len(PrefixOf(size, upper(d), FALSE, plain)) + 2 + WidthOf(size))
<1> DEFINE b == upper(d)
           r == FALSE
           group == operation - ADD
           m == GroupByte(d, group)
           opcode == ImmediateOpcode(size)
           width == WidthOf(size)
           n == Len(PrefixOf(size, b, r, plain))
<1>1. b \in BOOLEAN /\ r \in BOOLEAN
  BY RegisterNumbers
<1>2. group \in 0 .. 7 /\ ADD + group = operation
  BY DEF ADD, CMP
<1>3. opcode \in Byte /\ Opens(opcode)
  BY ImmediateOpens
<1>4. n \in Nat
  BY <1>1, PrefixLength, Zenon
<1>5. width \in Nat /\ Len(bytes) = width
  BY WidthIs
<1> HIDE DEF group
<1>6. m \in Byte
  BY <1>2, GroupBytes
<1>7. Holds(code, at, PrefixOf(size, b, r, plain) \o (<<opcode>> \o (<<m>> \o bytes)))
  BY DEF group
<1> HIDE DEF b, r, m, opcode, width, n
<1>8. FindsModRM(code, at, size, b, r, plain, opcode, m, bytes)
  BY <1>1, <1>3, <1>6, <1>7, FindingModRM, Zenon
<1>9. PICK x : /\ Selected(x, code, at, size, b, r, plain, opcode)
               /\ Decode(code, at) = DecodeShort(x)
               /\ byteAt(x, x.m) = m
               /\ bytesAt(x, x.m + 1, Len(bytes)) = bytes
  BY <1>8, Zenon DEF FindsModRM
<1>10. /\ x.opcode = opcode
       /\ x.m = n + 1
       /\ full(x) = IF size = D8 THEN D32 ELSE size
       /\ rexB(x) = 8 * B(b)
       /\ x.rex = 0 <=> ~(b \/ r \/ plain \/ size = D64)
  BY <1>9 DEF Selected, n
<1>11. NamesOne(x, size, d, group, width)
  <2>1. byteAt(x, x.m) = 192 + (d % 8) + (8 * group)
    BY <1>9 DEF m, GroupByte
  <2>2. ~(size = D8 /\ x.rex = 0 /\ front(d))
    BY <1>10
  <2>3. rexB(x) = 8 * B(upper(d))
    BY <1>10 DEF b
  <2>4. QED
    BY <1>2, <2>1, <2>2, <2>3, NamingOne, Zenon
<1>12. DecodeShort(x) = withImmediate(x, ADD + regBits(x), size, width)
  BY <1>10, DecodesWithImmediate DEF opcode, width
<1>13. DecodeShort(x) =
           instruction(operation, size, <<Register(d), Immediate(bytesAt(x, x.m + 1, width))>>,
                       (x.m + 1) + width)
  BY <1>2, <1>11, <1>12 DEF NamesOne, withImmediate
<1>14. bytesAt(x, x.m + 1, width) = bytes
  BY <1>5, <1>9
<1>15. (x.m + 1) + width = n + 2 + width
  BY <1>4, <1>5, <1>10
<1>16. QED
  BY <1>9, <1>13, <1>14, <1>15 DEF b, r, n, width

\* A move has the register in its opcode.
MoveByte(size, d) == \hb0 + (8 * B(size # D8)) + (d % 8)

LEMMA MoveBytes ==
    ASSUME NEW size, NEW d \in Registry
    PROVE  /\ MoveByte(size, d) \in Byte /\ Opens(MoveByte(size, d))
           /\ MoveByte(size, d) % 8 = d % 8
           /\ size = D8 => MoveByte(size, d) \in \hb0 .. \hb7
           /\ size # D8 => MoveByte(size, d) \in \hb8 .. \hbf
<1> DEFINE a == d % 8
           k == B(size # D8)
<1>1. a \in 0 .. 7 /\ k \in {0, 1} /\ (size = D8 => k = 0) /\ (size # D8 => k = 1)
  BY RegisterNumbers DEF B
<1>2. MoveByte(size, d) = 176 + (8 * k) + a
  BY DEF MoveByte
<1> HIDE DEF a, k
<1>3. \A i \in 0 .. 7, j \in {0, 1} :
          LET o == 176 + (8 * j) + i
          IN  /\ o % 8 = i /\ o \in 176 .. 191
              /\ j = 0 => o \in 176 .. 183
              /\ j = 1 => o \in 184 .. 191
  BY SMT
<1> DEFINE o == MoveByte(size, d)
<1>4. /\ o % 8 = a /\ o \in 176 .. 191
      /\ size = D8 => o \in 176 .. 183
      /\ size # D8 => o \in 184 .. 191
  BY <1>1, <1>2, <1>3
<1> HIDE DEF o
<1>5. o \in Byte /\ Opens(o)
  BY <1>4 DEF Opens, Byte, IsRex
<1>6. QED
  BY <1>4, <1>5 DEF o, a

LEMMA DecodesMoveOf ==
    ASSUME NEW x, NEW size \in {D8, D16, D32}, full(x) = IF size = D8 THEN D32 ELSE size,
           NEW d \in Registry, x.opcode = MoveByte(size, d)
    PROVE  DecodeShort(x) = moveImmediate(x, size, WidthOf(size))
<1>1. WidthOf(size) = ImmediateWidth(size) /\ (size = D8 => WidthOf(size) = 1)
  BY WidthIs DEF AllSizes, WidthOf
<1>2. CASE size = D8
  <2>1. x.opcode \in \hb0 .. \hb7
    BY <1>2, MoveBytes
  <2>2. DecodeShort(x) = moveImmediate(x, D8, 1)
    BY <2>1, ShortOpcodes
  <2>3. QED
    BY <1>1, <1>2, <2>2
<1>3. CASE size # D8
  <2>1. x.opcode \in \hb8 .. \hbf
    BY <1>3, MoveBytes
  <2>2. DecodeShort(x) =
            moveImmediate(x, full(x), IF full(x) = D64 THEN 8 ELSE ImmediateWidth(full(x)))
    BY <2>1, ShortOpcodes
  <2>3. full(x) = size /\ size # D64
    BY <1>3 DEF D8, D16, D32, D64
  <2>4. QED
    BY <1>1, <2>2, <2>3
<1>4. QED
  BY <1>2, <1>3

LEMMA DecodesMove ==
    ASSUME NEW code, Len(code) \in Nat, NEW at \in Nat,
           NEW size \in {D8, D16, D32}, NEW d \in Registry, NEW plain \in BOOLEAN,
           size = D8 /\ front(d) => plain,
           NEW bytes \in Seq(Byte), Len(bytes) = WidthOf(size),
           Holds(code, at, PrefixOf(size, upper(d), FALSE, plain) \o (<<MoveByte(size, d)>> \o bytes))
    PROVE  Decode(code, at) =
               instruction(MOV, size, <<Register(d), Immediate(bytes)>>,
                           Len(PrefixOf(size, upper(d), FALSE, plain)) + 1 + WidthOf(size))
<1> DEFINE b == upper(d)
           r == FALSE
           opcode == MoveByte(size, d)
           width == WidthOf(size)
           n == Len(PrefixOf(size, b, r, plain))
<1>1. /\ b \in BOOLEAN /\ r \in BOOLEAN /\ (d % 8) + (8 * B(b)) = d
      /\ front(d) <=> d \in 4 .. 7
  BY RegisterNumbers
<1>2. size \in AllSizes
  BY DEF AllSizes
<1>3. opcode \in Byte /\ Opens(opcode) /\ opcode % 8 = d % 8
  BY MoveBytes
<1>4. n \in Nat
  BY <1>1, <1>2, PrefixLength, Zenon
<1>5. width \in Nat /\ Len(bytes) = width
  BY <1>2, WidthIs
<1>6. Holds(code, at, PrefixOf(size, b, r, plain) \o (<<opcode>> \o bytes))
  OBVIOUS
<1> HIDE DEF b, r, opcode, width, n
<1>7. FindsBytes(code, at, size, b, r, plain, opcode, bytes)
  BY <1>1, <1>2, <1>3, <1>6, FindingBytes, Zenon
<1>8. PICK x : /\ Selected(x, code, at, size, b, r, plain, opcode)
               /\ Decode(code, at) = DecodeShort(x)
               /\ bytesAt(x, x.m, Len(bytes)) = bytes
  BY <1>7, Zenon DEF FindsBytes
<1>9. /\ x.opcode = opcode
      /\ x.m = n + 1
      /\ full(x) = IF size = D8 THEN D32 ELSE size
      /\ rexB(x) = 8 * B(b)
      /\ x.rex = 0 <=> ~(b \/ r \/ plain \/ size = D64)
  BY <1>8 DEF Selected, n
<1>10. DecodeShort(x) = moveImmediate(x, size, width)
  BY <1>9, DecodesMoveOf DEF opcode, width
<1>11. numbered(x, (x.opcode % 8) + rexB(x), size) = Register(d)
  <2>1. (x.opcode % 8) + rexB(x) = d
    BY <1>1, <1>3, <1>9
  <2>2. ~(size = D8 /\ x.rex = 0 /\ d \in 4 .. 7)
    BY <1>1, <1>9
  <2>3. QED
    BY <2>1, <2>2, NumberedIs
<1>12. bytesAt(x, x.m, width) = bytes
  BY <1>5, <1>8
<1>13. x.m + width = n + 1 + width
  BY <1>4, <1>5, <1>9
<1>14. DecodeShort(x) = instruction(MOV, size, <<Register(d), Immediate(bytes)>>, n + 1 + width)
  BY <1>10, <1>11, <1>12, <1>13 DEF moveImmediate
<1>15. QED
  BY <1>8, <1>14 DEF b, r, n, width

-----------------------------------------------------------------------------
(***************************************************************************)
(* Operations with one operand.                                            *)
(***************************************************************************)
OneOpcode(operation, size) == \hf7 + (8 * B(IsStep(operation))) - B(size = D8)

LEMMA OneOpens ==
    ASSUME NEW operation, NEW size
    PROVE  /\ OneOpcode(operation, size) \in Byte /\ Opens(OneOpcode(operation, size))
<1>1. OneOpcode(operation, size) \in {246, 247, 254, 255}
  BY DEF OneOpcode, B
<1>2. QED
  BY <1>1 DEF Opens, Byte, IsRex

LEMMA DecodesOneOf ==
    ASSUME NEW x, NEW size \in AllSizes, full(x) = IF size = D8 THEN D32 ELSE size,
           NEW operation \in INC .. IDIV, x.opcode = OneOpcode(operation, size),
           regBits(x) = operation - INC
    PROVE  DecodeShort(x) = modrm(x, operation, size, <<rm(x, size, 0)>>)
<1>1. /\ regBits(x) \in 0 .. 7
      /\ IsStep(operation) <=> regBits(x) \in {0, 1}
      /\ INC + regBits(x) = operation
  BY DEF INC, DEC, IDIV, IsStep
<1>2. sized(x) = size
  <2>1. CASE size = D8
    <3>1. x.opcode \in {246, 254}
      BY <2>1 DEF OneOpcode, B
    <3>2. QED
      BY <2>1, <3>1 DEF sized
  <2>2. CASE size # D8
    <3>1. x.opcode \in {247, 255}
      BY <2>2 DEF OneOpcode, B
    <3>2. QED
      BY <2>2, <3>1 DEF sized
  <2>3. QED
    BY <2>1, <2>2
<1>3. CASE IsStep(operation)
  <2>1. x.opcode \in {254, 255}
    BY <1>3 DEF OneOpcode, B
  <2>2. regBits(x) \in {0, 1}
    BY <1>1, <1>3
  <2>3. DecodeShort(x) = modrm(x, INC + regBits(x), sized(x), <<rm(x, sized(x), 0)>>)
    BY <2>1, <2>2, ShortOpcodes
  <2>4. QED
    BY <1>1, <1>2, <2>3
<1>4. CASE ~IsStep(operation)
  <2>1. x.opcode \in {246, 247}
    BY <1>4 DEF OneOpcode, B
  <2>2. regBits(x) \in 2 .. 7
    BY <1>1, <1>4
  <2>3. DecodeShort(x) = modrm(x, INC + regBits(x), sized(x), <<rm(x, sized(x), 0)>>)
    BY <2>1, <2>2, ShortOpcodes
  <2>4. QED
    BY <1>1, <1>2, <2>3
<1>5. QED
  BY <1>3, <1>4

LEMMA DecodesOneRegister ==
    ASSUME NEW code, Len(code) \in Nat, NEW at \in Nat,
           NEW size \in AllSizes, NEW d \in Registry, NEW plain \in BOOLEAN,
           size = D8 /\ front(d) => plain,
           NEW operation \in INC .. IDIV,
           Holds(code, at, PrefixOf(size, upper(d), FALSE, plain)
                   \o (<<OneOpcode(operation, size)>>
                           \o (<<GroupByte(d, operation - INC)>> \o <<>>)))
    PROVE  Decode(code, at) =
               instruction(operation, size, <<Register(d)>>,
                           Len(PrefixOf(size, upper(d), FALSE, plain)) + 2)
<1> DEFINE b == upper(d)
           r == FALSE
           group == operation - INC
           m == GroupByte(d, group)
           opcode == OneOpcode(operation, size)
           n == Len(PrefixOf(size, b, r, plain))
           bytes == <<>>
<1>1. b \in BOOLEAN /\ r \in BOOLEAN
  BY RegisterNumbers
<1>2. group \in 0 .. 7 /\ group = operation - INC
  BY DEF INC, IDIV
<1>3. opcode \in Byte /\ Opens(opcode)
  BY OneOpens
<1>4. n \in Nat
  BY <1>1, PrefixLength, Zenon
<1>5. bytes \in Seq(Byte)
  OBVIOUS
<1> HIDE DEF group
<1>6. m \in Byte
  BY <1>2, GroupBytes
<1>7. Holds(code, at, PrefixOf(size, b, r, plain) \o (<<opcode>> \o (<<m>> \o bytes)))
  BY DEF group
<1> HIDE DEF b, r, m, opcode, n, bytes
<1>8. FindsModRM(code, at, size, b, r, plain, opcode, m, bytes)
  BY <1>1, <1>3, <1>5, <1>6, <1>7, FindingModRM, Zenon
<1>9. PICK x : /\ Selected(x, code, at, size, b, r, plain, opcode)
               /\ Decode(code, at) = DecodeShort(x)
               /\ byteAt(x, x.m) = m
               /\ bytesAt(x, x.m + 1, Len(bytes)) = bytes
  BY <1>8, Zenon DEF FindsModRM
<1>10. /\ x.opcode = opcode
       /\ x.m = n + 1
       /\ full(x) = IF size = D8 THEN D32 ELSE size
       /\ rexB(x) = 8 * B(b)
       /\ x.rex = 0 <=> ~(b \/ r \/ plain \/ size = D64)
  BY <1>9 DEF Selected, n
<1>11. NamesOne(x, size, d, group, 0)
  <2>1. byteAt(x, x.m) = 192 + (d % 8) + (8 * group)
    BY <1>9 DEF m, GroupByte
  <2>2. ~(size = D8 /\ x.rex = 0 /\ front(d))
    BY <1>10
  <2>3. rexB(x) = 8 * B(upper(d))
    BY <1>10 DEF b
  <2>4. QED
    BY <1>2, <2>1, <2>2, <2>3, NamingOne, Zenon
<1>12. regBits(x) = operation - INC
  BY <1>2, <1>11 DEF NamesOne
<1>13. DecodeShort(x) = modrm(x, operation, size, <<rm(x, size, 0)>>)
  BY <1>10, <1>12, DecodesOneOf DEF opcode
<1>14. DecodeShort(x) = instruction(operation, size, <<Register(d)>>, x.m + 1)
  BY <1>11, <1>13 DEF NamesOne, modrm
<1>15. x.m + 1 = n + 2
  BY <1>4, <1>10
<1>16. QED
  BY <1>9, <1>14, <1>15 DEF b, r, n

NamesMemory(x, size, target, group) ==
    /\ known(x) /\ next(x) = x.m + 5 /\ regBits(x) = group
    /\ rm(x, size, 0) = Memory(target)

LEMMA NamingMemory ==
    ASSUME NEW x, NEW group \in 0 .. 7, NEW size, x.at \in Nat, x.m \in Nat,
           byteAt(x, x.m) = m05(group), NEW target, Near(x.at + x.m), Near(target),
           NEW bytes, Len(bytes) = 4, bytesAt(x, x.m + 1, Len(bytes)) = bytes,
           bytes = LittleEndian(Base("relative", x.at + x.m + 1) + target)
    PROVE  NamesMemory(x, size, target, group)
<1>1. byteAt(x, x.m) = 5 + (8 * group)
  BY DEF m05
<1>2. bytesAt(x, x.m + 1, 4) = LittleEndian(Base("relative", x.at + x.m + 1) + target)
  OBVIOUS
<1>3. /\ known(x) /\ next(x) = x.m + 5 /\ regBits(x) = group
      /\ rm(x, size, 0) = Memory(target)
  BY <1>1, <1>2, OneMemory, Zenon
<1>4. QED
  BY <1>3 DEF NamesMemory

LEMMA MemoryBytes ==
    ASSUME NEW group \in 0 .. 7
    PROVE  m05(group) \in Byte
BY ModRMBits DEF m05

LEMMA Distances ==
    \A at, n \in Nat : \A y, z :
        y = at /\ z = n + 1 =>
            y \in Nat /\ z \in Nat /\ y + z = at + n + 1 /\ y + z + 1 = at + n + 2
OBVIOUS

\* Such an instruction with its field in place.
InMemory(code, at, size, operation, n, target, bytes) ==
    /\ Len(code) \in Nat /\ at \in Nat
    /\ size \in AllSizes /\ operation \in INC .. IDIV
    /\ n = Len(PrefixOf(size, FALSE, FALSE, FALSE))
    /\ Near(target) /\ Near(at + n + 1)
    /\ bytes \in Seq(Byte) /\ Len(bytes) = 4
    /\ bytes = LittleEndian(Base("relative", at + n + 2) + target)
    /\ Holds(code, at, PrefixOf(size, FALSE, FALSE, FALSE)
                   \o (<<OneOpcode(operation, size)>> \o (<<m05(operation - INC)>> \o bytes)))

LEMMA DecodesOneMemory ==
    ASSUME NEW code, NEW at, NEW size, NEW operation, NEW n, NEW target, NEW bytes,
           InMemory(code, at, size, operation, n, target, bytes)
    PROVE  Decode(code, at) = instruction(operation, size, <<Memory(target)>>, n + 6)
<1> USE DEF InMemory
<1> DEFINE b == FALSE
           group == operation - INC
           m == m05(group)
           opcode == OneOpcode(operation, size)
<1>1. b \in BOOLEAN
  OBVIOUS
<1>2. group \in 0 .. 7 /\ group = operation - INC
  BY DEF INC, IDIV
<1>3. opcode \in Byte /\ Opens(opcode)
  BY OneOpens
<1>4. n \in Nat
  BY PrefixLength, Zenon
<1> HIDE DEF group
<1>5. m \in Byte
  BY <1>2, MemoryBytes
<1>6. Holds(code, at, PrefixOf(size, b, b, b) \o (<<opcode>> \o (<<m>> \o bytes)))
  BY DEF group
<1>7. n = Len(PrefixOf(size, b, b, b))
  OBVIOUS
<1> HIDE DEF b, m, opcode
<1>8. FindsModRM(code, at, size, b, b, b, opcode, m, bytes)
  BY <1>1, <1>3, <1>5, <1>6, FindingModRM, Zenon
<1>9. PICK x : /\ Selected(x, code, at, size, b, b, b, opcode)
               /\ Decode(code, at) = DecodeShort(x)
               /\ byteAt(x, x.m) = m
               /\ bytesAt(x, x.m + 1, Len(bytes)) = bytes
  BY <1>8, Zenon DEF FindsModRM
<1>10. /\ x.opcode = opcode /\ x.at = at
       /\ x.m = n + 1
       /\ full(x) = IF size = D8 THEN D32 ELSE size
  BY <1>7, <1>9 DEF Selected
<1>11. NamesMemory(x, size, target, group)
  <2>1. byteAt(x, x.m) = m05(group)
    BY <1>9 DEF m
  <2>2. \A y, z : y = at /\ z = n + 1 =>
            y \in Nat /\ z \in Nat /\ y + z = at + n + 1 /\ y + z + 1 = at + n + 2
    BY <1>4, Distances, Zenon
  <2>3. /\ x.at \in Nat /\ x.m \in Nat
        /\ x.at + x.m = at + n + 1 /\ x.at + x.m + 1 = at + n + 2
    BY <1>10, <2>2, Zenon
  <2>4. Near(x.at + x.m) /\ bytes = LittleEndian(Base("relative", x.at + x.m + 1) + target)
    BY <2>3
  <2>5. QED
    BY <1>2, <1>9, <2>1, <2>3, <2>4, NamingMemory, Zenon
<1>12. regBits(x) = operation - INC
  BY <1>2, <1>11 DEF NamesMemory
<1>13. DecodeShort(x) = modrm(x, operation, size, <<rm(x, size, 0)>>)
  BY <1>10, <1>12, DecodesOneOf DEF opcode
<1>14. DecodeShort(x) = instruction(operation, size, <<Memory(target)>>, x.m + 5)
  BY <1>11, <1>13 DEF NamesMemory, modrm
<1>15. x.m + 5 = n + 6
  <2>1. \A z : z = n + 1 => z + 5 = n + 6
    BY <1>4
  <2>2. QED
    BY <1>10, <2>1, Zenon
<1>16. QED
  BY <1>9, <1>14, <1>15

-----------------------------------------------------------------------------
(***************************************************************************)
(* Pushes and pops.                                                        *)
(***************************************************************************)
\* Of 64 bits without a prefix for them.
StackSize(size) == IF size = D16 THEN D16 ELSE D32

StackByte(operation, d) == (IF operation = PUSH THEN \h50 ELSE \h58) + (d % 8)

LEMMA StackBytes ==
    ASSUME NEW operation \in {POP, PUSH}, NEW d \in Registry
    PROVE  /\ StackByte(operation, d) \in Byte /\ Opens(StackByte(operation, d))
           /\ operation = PUSH => /\ StackByte(operation, d) \in \h50 .. \h57
                                  /\ StackByte(operation, d) - \h50 = d % 8
           /\ operation = POP => /\ StackByte(operation, d) \in \h58 .. \h5f
                                 /\ StackByte(operation, d) - \h58 = d % 8
<1> DEFINE a == d % 8
           o == StackByte(operation, d)
<1>1. a \in 0 .. 7
  BY RegisterNumbers
<1>2. (operation = PUSH => o = 80 + a) /\ (operation = POP => o = 88 + a)
  BY DEF StackByte, PUSH, POP
<1> HIDE DEF a, o
<1>3. operation = PUSH \/ operation = POP
  OBVIOUS
<1>4. o \in 80 .. 95
  BY <1>1, <1>2, <1>3
<1>5. o \in Byte /\ Opens(o)
  BY <1>4 DEF Opens, Byte, IsRex
<1>6. /\ operation = PUSH => o \in \h50 .. \h57 /\ o - \h50 = a
      /\ operation = POP => o \in \h58 .. \h5f /\ o - \h58 = a
  BY <1>1, <1>2
<1>7. QED
  BY <1>5, <1>6 DEF o, a

LEMMA DecodesStack ==
    ASSUME NEW code, Len(code) \in Nat, NEW at \in Nat,
           NEW size \in {D16, D64}, NEW d \in Registry, NEW operation \in {POP, PUSH},
           Holds(code, at, PrefixOf(StackSize(size), upper(d), FALSE, FALSE)
                   \o (<<StackByte(operation, d)>> \o <<>>))
    PROVE  Decode(code, at) =
               instruction(operation, size, <<Register(d)>>,
                           Len(PrefixOf(StackSize(size), upper(d), FALSE, FALSE)) + 1)
<1> DEFINE b == upper(d)
           r == FALSE
           s == StackSize(size)
           opcode == StackByte(operation, d)
           n == Len(PrefixOf(s, b, r, r))
           bytes == <<>>
<1>1. b \in BOOLEAN /\ r \in BOOLEAN /\ (d % 8) + (8 * B(b)) = d
  BY RegisterNumbers
<1>2. s \in AllSizes /\ (s = D16 <=> size = D16)
  BY DEF AllSizes, StackSize, D16, D32, D64
<1>3. opcode \in Byte /\ Opens(opcode)
  BY StackBytes
<1>4. bytes \in Seq(Byte)
  OBVIOUS
<1>5. Holds(code, at, PrefixOf(s, b, r, r) \o (<<opcode>> \o bytes))
  OBVIOUS
<1> HIDE DEF b, r, s, opcode, n, bytes
<1>6. FindsBytes(code, at, s, b, r, r, opcode, bytes)
  BY <1>1, <1>2, <1>3, <1>4, <1>5, FindingBytes, Zenon
<1>7. PICK x : /\ Selected(x, code, at, s, b, r, r, opcode)
               /\ Decode(code, at) = DecodeShort(x)
               /\ bytesAt(x, x.m, Len(bytes)) = bytes
  BY <1>6, Zenon DEF FindsBytes
<1>8. x.opcode = opcode /\ x.m = n + 1 /\ x.half = HalfOf(s) /\ rexB(x) = 8 * B(b)
  BY <1>7 DEF Selected, n
<1>9. stack(x) = size
  <2>1. HalfOf(s) = 1 <=> size = D16
    BY <1>2 DEF HalfOf, B
  <2>2. QED
    BY <1>8, <2>1 DEF stack
<1>10. DecodeShort(x) = instruction(operation, size, <<Register(d)>>, x.m)
  <2>1. CASE operation = PUSH
    <3>1. x.opcode \in \h50 .. \h57 /\ x.opcode - \h50 = d % 8
      BY <1>8, <2>1, StackBytes DEF opcode
    <3>2. x.opcode - \h50 + rexB(x) = d
      BY <1>1, <1>8, <3>1
    <3>3. DecodeShort(x) =
              instruction(PUSH, stack(x), <<Register(x.opcode - \h50 + rexB(x))>>, x.m)
      BY <3>1, ShortOpcodes
    <3>4. QED
      BY <1>9, <2>1, <3>2, <3>3
  <2>2. CASE operation = POP
    <3>1. x.opcode \in \h58 .. \h5f /\ x.opcode - \h58 = d % 8
      BY <1>8, <2>2, StackBytes DEF opcode
    <3>2. x.opcode - \h58 + rexB(x) = d
      BY <1>1, <1>8, <3>1
    <3>3. DecodeShort(x) =
              instruction(POP, stack(x), <<Register(x.opcode - \h58 + rexB(x))>>, x.m)
      BY <3>1, ShortOpcodes
    <3>4. QED
      BY <1>9, <2>2, <3>2, <3>3
  <2>3. QED
    BY <2>1, <2>2
<1>11. QED
  BY <1>7, <1>8, <1>10 DEF b, r, s, n

-----------------------------------------------------------------------------
(***************************************************************************)
(* Opcodes without a prefix.                                               *)
(***************************************************************************)
LEMMA NoPrefix ==
    ASSUME NEW bytes \in Seq(Byte)
    PROVE  PrefixOf(D32, FALSE, FALSE, FALSE) \o bytes = bytes
<1>1. HalfOf(D32) = 0 /\ RexOf(D32, FALSE, FALSE, FALSE) = 0
  BY DEF HalfOf, RexOf, B, D16, D32, D64
<1>2. PrefixOf(D32, FALSE, FALSE, FALSE) = <<>>
  BY <1>1 DEF PrefixOf, OneOf
<1>3. <<>> \o bytes = bytes
  OBVIOUS
<1>4. QED
  BY <1>2, <1>3

LEMMA NoPrefixLength ==
    Len(PrefixOf(D32, FALSE, FALSE, FALSE)) = 0
<1>1. HalfOf(D32) = 0 /\ RexOf(D32, FALSE, FALSE, FALSE) = 0
  BY DEF HalfOf, RexOf, B, D16, D32, D64
<1>2. QED
  BY <1>1 DEF PrefixOf, OneOf

\* The processor finds that opcode at once, and the bytes behind it.
FindsBare(code, at, opcode, bytes) ==
    \E x : /\ x.opcode = opcode /\ x.m = 1 /\ x.at = at
           /\ Decode(code, at) = DecodeShort(x)
           /\ bytesAt(x, 1, Len(bytes)) = bytes

LEMMA FindingBare ==
    ASSUME NEW code, Len(code) \in Nat, NEW at \in Nat,
           NEW opcode, Opens(opcode), NEW bytes \in Seq(Byte),
           Holds(code, at, <<opcode>> \o bytes)
    PROVE  FindsBare(code, at, opcode, bytes)
<1> DEFINE f == FALSE
<1>1. f \in BOOLEAN /\ D32 \in AllSizes /\ opcode \in Byte
  BY DEF AllSizes, Opens
<1>2. <<opcode>> \o bytes \in Seq(Byte)
  BY <1>1, Opening
<1>3. Holds(code, at, PrefixOf(D32, f, f, f) \o (<<opcode>> \o bytes))
  BY <1>2, NoPrefix
<1>4. Len(PrefixOf(D32, f, f, f)) = 0
  BY NoPrefixLength
<1> HIDE DEF f
<1>5. FindsBytes(code, at, D32, f, f, f, opcode, bytes)
  BY <1>1, <1>3, FindingBytes, Zenon
<1>6. PICK x : /\ Selected(x, code, at, D32, f, f, f, opcode)
               /\ Decode(code, at) = DecodeShort(x)
               /\ bytesAt(x, x.m, Len(bytes)) = bytes
  BY <1>5, Zenon DEF FindsBytes
<1>7. x.opcode = opcode /\ x.m = 1 /\ x.at = at
  BY <1>4, <1>6 DEF Selected
<1>8. QED
  BY <1>6, <1>7 DEF FindsBare

\* Where a jump goes: the bytes behind it were counted from where they are.
LEMMA JumpTarget ==
    ASSUME NEW x, NEW m \in Nat, x.m = m, NEW at \in Nat, x.at = at, NEW operation,
           NEW target, Near(at + m), Near(target),
           bytesAt(x, m, 4) = LittleEndian(Base("unsorted", at + m) + target)
    PROVE  jump(x, operation) = instruction(operation, D32, <<Code(target)>>, m + 4)
<1> DEFINE v == Base("unsorted", at + m) + target
<1>1. v = 0 - (at + m) - 4 + target
  BY DEF Base
<1>2. IsWord(v)
  BY <1>1, SMT DEF IsWord, Near
<1>3. jump(x, operation) =
          instruction(operation, D32, <<Code(at + m + 4 + Signed32(LittleEndian(v)))>>, m + 4)
  BY DEF jump
<1> HIDE DEF v
<1>4. Signed32(LittleEndian(v)) = v
  BY <1>2, ReadBack DEF IsWord
<1>5. at + m + 4 + v = target
  <2>1. \A p, k, t \in Nat : \A w : w = 0 - (p + k) - 4 + t => p + k + 4 + w = t
    OBVIOUS
  <2>2. target \in Nat
    BY DEF Near
  <2>3. QED
    BY <1>1, <2>1, <2>2, SMT
<1>6. QED
  BY <1>3, <1>4, <1>5

JumpOpcode(operation, opcode) ==
    \/ opcode = \he9 /\ operation = JMP
    \/ opcode = \he8 /\ operation = CALL

LEMMA JumpOpens ==
    ASSUME NEW opcode, NEW operation, JumpOpcode(operation, opcode)
    PROVE  Opens(opcode)
BY DEF JumpOpcode, Opens, Byte, IsRex

LEMMA DecodesJumpOf ==
    ASSUME NEW x, NEW operation, JumpOpcode(operation, x.opcode)
    PROVE  DecodeShort(x) = jump(x, operation)
BY ShortOpcodes DEF JumpOpcode

LEMMA DecodesJump ==
    ASSUME NEW code, Len(code) \in Nat, NEW at \in Nat, NEW opcode, NEW operation,
           JumpOpcode(operation, opcode),
           NEW target, Near(at + 1), Near(target), NEW bytes \in Seq(Byte), Len(bytes) = 4,
           bytes = LittleEndian(Base("unsorted", at + 1) + target),
           Holds(code, at, <<opcode>> \o bytes)
    PROVE  Decode(code, at) = instruction(operation, D32, <<Code(target)>>, 5)
<1>1. Opens(opcode)
  BY JumpOpens
<1>2. FindsBare(code, at, opcode, bytes)
  BY <1>1, FindingBare, Zenon
<1>3. PICK x : /\ x.opcode = opcode /\ x.m = 1 /\ x.at = at
               /\ Decode(code, at) = DecodeShort(x)
               /\ bytesAt(x, 1, Len(bytes)) = bytes
  BY <1>2, Zenon DEF FindsBare
<1>4. DecodeShort(x) = jump(x, operation)
  BY <1>3, DecodesJumpOf
<1>5. bytesAt(x, 1, 4) = LittleEndian(Base("unsorted", at + 1) + target)
  BY <1>3
<1>6. jump(x, operation) = instruction(operation, D32, <<Code(target)>>, 1 + 4)
  <2> DEFINE m == 1
  <2>1. m \in Nat /\ x.m = m /\ x.at \in Nat
    BY <1>3
  <2>2. Near(at + m) /\ bytesAt(x, m, 4) = LittleEndian(Base("unsorted", at + m) + target)
    BY <1>5
  <2> HIDE DEF m
  <2>3. jump(x, operation) = instruction(operation, D32, <<Code(target)>>, m + 4)
    BY <1>3, <2>1, <2>2, JumpTarget
  <2>4. QED
    BY <2>3 DEF m
<1>7. QED
  BY <1>3, <1>4, <1>6

-----------------------------------------------------------------------------
(***************************************************************************)
(* Opcodes of two bytes.                                                   *)
(***************************************************************************)
FindsLong(code, at, opcode, bytes) ==
    \E x : /\ x.opcode = opcode /\ x.m = 2 /\ x.at = at
           /\ Decode(code, at) = DecodeLong(x)
           /\ bytesAt(x, 2, Len(bytes)) = bytes

LEMMA FindingLong ==
    ASSUME NEW code, Len(code) \in Nat, NEW at \in Nat,
           NEW opcode \in Byte, NEW bytes \in Seq(Byte),
           Holds(code, at, <<\h0f>> \o (<<opcode>> \o bytes))
    PROVE  FindsLong(code, at, opcode, bytes)
<1> DEFINE behind == <<opcode>> \o bytes
           all == <<15>> \o behind
           x == [code |-> code, at |-> at, half |-> 0, long |-> TRUE, m |-> 2, rex |-> 0,
                 opcode |-> opcode]
<1>1. /\ behind \in Seq(Byte) /\ Len(behind) = 1 + Len(bytes) /\ behind[1] = opcode
      /\ \A k \in 1 .. Len(bytes) : behind[1 + k] = bytes[k]
  BY Opening
<1>2. 15 \in Byte
  BY DEF Byte
<1> HIDE DEF behind
<1>3. /\ all \in Seq(Byte) /\ Len(all) = 1 + Len(behind) /\ all[1] = 15
      /\ \A k \in 1 .. Len(behind) : all[1 + k] = behind[k]
  BY <1>1, <1>2, Opening
<1>4. Holds(code, at, all) /\ Len(all) \in Nat
  BY <1>3 DEF behind
<1> HIDE DEF all
<1>5. Len(bytes) \in Nat
  OBVIOUS
<1>6. \A k \in Nat : k < Len(all) => ByteAt(code, at, k) = all[k + 1]
  BY <1>4, HeldByte
<1>7. ByteAt(code, at, 0) = 15 /\ ByteAt(code, at, 1) = opcode
  <2>1. 0 < Len(all) /\ 1 < Len(all) /\ 1 \in 1 .. Len(behind)
    BY <1>1, <1>3, <1>5
  <2>2. all[1 + 1] = opcode
    BY <1>1, <1>3, <2>1
  <2>3. QED
    BY <1>3, <1>6, <2>1, <2>2
<1>8. OpcodeAt(code, at, 0) = 0
  BY <1>7 DEF OpcodeAt, IsRex
<1>9. Fetched(code, at) = x
  <2>1. Fetched(code, at) = Opcode(code, at, 0, 0, TRUE)
    <3>1. (IF ByteAt(code, at, 0) = 102 THEN 1 ELSE 0) = 0
      BY <1>7
    <3>2. (ByteAt(code, at, 0) = 15) = TRUE
      BY <1>7
    <3>3. QED
      BY <1>8, <3>1, <3>2 DEF Fetched
  <2>2. Opcode(code, at, 0, 0, TRUE) =
            [code |-> code, at |-> at, half |-> 0, long |-> TRUE, m |-> 0 + 2, rex |-> 0,
             opcode |-> ByteAt(code, at, (0 + 2) - 1)]
    BY DEF Opcode
  <2>3. 0 + 2 = 2 /\ (0 + 2) - 1 = 1
    OBVIOUS
  <2>4. QED
    BY <1>7, <2>1, <2>2, <2>3
<1>10. x.code = code /\ x.at = at /\ x.long /\ x.m = 2 /\ x.opcode = opcode
  OBVIOUS
<1> HIDE DEF x
<1>11. Decode(code, at) = DecodeLong(x)
  BY <1>9, <1>10 DEF Decode
<1>12. \A k \in 1 .. Len(bytes) : byteAt(x, 2 + k - 1) = bytes[k]
  <2> TAKE k \in 1 .. Len(bytes)
  <2>1. 1 + k \in 1 .. Len(behind) /\ 1 + k \in Nat /\ 1 + k < Len(all) /\ 2 + k - 1 = 1 + k
        /\ (1 + k) + 1 = 1 + (1 + k)
    BY <1>1, <1>3, <1>5
  <2>2. ByteAt(code, at, 1 + k) = all[1 + (1 + k)]
    BY <1>6, <2>1
  <2>3. all[1 + (1 + k)] = bytes[k]
    BY <1>1, <1>3, <2>1
  <2>4. QED
    BY <1>10, <2>1, <2>2, <2>3 DEF byteAt
<1>13. bytesAt(x, 2, Len(bytes)) = bytes
  BY <1>12, BytesAre, Zenon
<1>14. QED
  BY <1>10, <1>11, <1>13, Zenon DEF FindsLong

LongJump(operation) == \h80 + operation - JO

LEMMA LongJumps ==
    ASSUME NEW operation \in JO .. JG
    PROVE  /\ LongJump(operation) \in Byte
           /\ \A x : x.opcode = LongJump(operation) => DecodeLong(x) = jump(x, operation)
<1>1. /\ LongJump(operation) \in \h80 .. \h8f
      /\ JO + LongJump(operation) - \h80 = operation
  BY DEF LongJump, JO, JG
<1>2. ASSUME NEW x, x.opcode = LongJump(operation) PROVE DecodeLong(x) = jump(x, operation)
  <2>1. /\ x.opcode \in \h80 .. \h8f
        /\ JO + x.opcode - \h80 = operation
    BY <1>1, <1>2
  <2>2. /\ ~(x.opcode \in \h40 .. \h4f)
        /\ ~(x.opcode \in \h90 .. \h9f)
        /\ ~(x.opcode \in {\ha3, \hab, \hb3, \hbb})
        /\ ~(x.opcode = \hba)
        /\ ~(x.opcode \in {\hbc, \hbd})
        /\ ~(x.opcode \in \hc8 .. \hcf)
        /\ ~(x.opcode = \h05)
        /\ ~(x.opcode = \ha2)
    BY <2>1, SMT
  <2>3. DecodeLong(x) = jump(x, JO + x.opcode - \h80)
    BY <2>1, <2>2, SMT DEF DecodeLong
  <2>4. QED
    BY <2>1, <2>3
<1>3. LongJump(operation) \in Byte
  BY <1>1 DEF Byte
<1>4. QED
  BY <1>2, <1>3

LEMMA DecodesLongJump ==
    ASSUME NEW code, Len(code) \in Nat, NEW at \in Nat, NEW operation \in JO .. JG,
           NEW target, Near(at + 2), Near(target), NEW bytes \in Seq(Byte), Len(bytes) = 4,
           bytes = LittleEndian(Base("unsorted", at + 2) + target),
           Holds(code, at, <<\h0f>> \o (<<LongJump(operation)>> \o bytes))
    PROVE  Decode(code, at) = instruction(operation, D32, <<Code(target)>>, 6)
<1> DEFINE opcode == LongJump(operation)
           m == 2
<1>1. opcode \in Byte
  BY LongJumps
<1>2. \A x : x.opcode = opcode => DecodeLong(x) = jump(x, operation)
  BY LongJumps
<1>3. /\ m \in Nat /\ Near(at + m)
      /\ bytes = LittleEndian(Base("unsorted", at + m) + target)
  OBVIOUS
<1>4. m = 2
  OBVIOUS
<1> HIDE DEF opcode, m
<1>5. FindsLong(code, at, opcode, bytes)
  BY <1>1, FindingLong DEF opcode
<1>6. PICK x : /\ x.opcode = opcode /\ x.m = 2 /\ x.at = at
               /\ Decode(code, at) = DecodeLong(x)
               /\ bytesAt(x, 2, Len(bytes)) = bytes
  BY <1>5, Zenon DEF FindsLong
<1>7. bytesAt(x, m, 4) = LittleEndian(Base("unsorted", at + m) + target)
  BY <1>3, <1>4, <1>6
<1>8. x.m = m /\ x.at \in Nat
  BY <1>4, <1>6
<1>9. jump(x, operation) = instruction(operation, D32, <<Code(target)>>, m + 4)
  BY <1>3, <1>6, <1>7, <1>8, JumpTarget
<1>10. QED
  BY <1>2, <1>4, <1>6, <1>9

-----------------------------------------------------------------------------
(***************************************************************************)
(* Operations without operands.                                            *)
(***************************************************************************)
LEMMA OneByteTable ==
    LET op(n) == static_1[n - NOP + 1]
    IN  /\ op(NOP) = \h90 /\ op(POPF) = \h9d /\ op(PUSHF) = \h9c /\ op(LEAVE) = \hc9
        /\ op(RETN) = \hc3 /\ op(RETF) = \hcb
BY DEF static_1, NOP, POPF, PUSHF, LEAVE, RETN, RETF

StaticByte(operation) == static_1[operation - NOP + 1]

LEMMA DecodesOneByteOf ==
    ASSUME NEW x, NEW operation \in OneByteOperations, x.opcode = StaticByte(operation)
    PROVE  DecodeShort(x) = static(x, operation)
<1>1. CASE operation = NOP
  <2>1. x.opcode = \h90
    BY <1>1, OneByteTable DEF StaticByte
  <2>2. QED
    BY <1>1, <2>1, ShortOpcodes
<1>2. CASE operation = POPF
  <2>1. x.opcode = \h9d
    BY <1>2, OneByteTable DEF StaticByte
  <2>2. QED
    BY <1>2, <2>1, ShortOpcodes
<1>3. CASE operation = PUSHF
  <2>1. x.opcode = \h9c
    BY <1>3, OneByteTable DEF StaticByte
  <2>2. QED
    BY <1>3, <2>1, ShortOpcodes
<1>4. CASE operation = LEAVE
  <2>1. x.opcode = \hc9
    BY <1>4, OneByteTable DEF StaticByte
  <2>2. QED
    BY <1>4, <2>1, ShortOpcodes
<1>5. CASE operation = RETN
  <2>1. x.opcode = \hc3
    BY <1>5, OneByteTable DEF StaticByte
  <2>2. QED
    BY <1>5, <2>1, ShortOpcodes
<1>6. CASE operation = RETF
  <2>1. x.opcode = \hcb
    BY <1>6, OneByteTable DEF StaticByte
  <2>2. QED
    BY <1>6, <2>1, ShortOpcodes
<1> QED
  BY <1>1, <1>2, <1>3, <1>4, <1>5, <1>6 DEF OneByteOperations

LEMMA OneByteOpens ==
    ASSUME NEW operation \in OneByteOperations
    PROVE  Opens(StaticByte(operation))
<1>1. StaticByte(operation) \in {144, 157, 156, 201, 195, 203}
  BY OneByteTable DEF OneByteOperations, StaticByte
<1>2. QED
  BY <1>1 DEF Opens, Byte, IsRex

LEMMA DecodesOneByte ==
    ASSUME NEW code, Len(code) \in Nat, NEW at \in Nat, NEW operation \in OneByteOperations,
           Holds(code, at, <<StaticByte(operation)>> \o <<>>)
    PROVE  Decode(code, at) = instruction(operation, D32, <<>>, 1)
<1> DEFINE opcode == StaticByte(operation)
           bytes == <<>>
<1>1. Opens(opcode)
  BY OneByteOpens
<1>2. bytes \in Seq(Byte) /\ Holds(code, at, <<opcode>> \o bytes)
  OBVIOUS
<1> HIDE DEF opcode, bytes
<1>3. FindsBare(code, at, opcode, bytes)
  BY <1>1, <1>2, FindingBare, Zenon
<1>4. PICK x : /\ x.opcode = opcode /\ x.m = 1 /\ x.at = at
               /\ Decode(code, at) = DecodeShort(x)
               /\ bytesAt(x, 1, Len(bytes)) = bytes
  BY <1>3, Zenon DEF FindsBare
<1>5. DecodeShort(x) = static(x, operation)
  BY <1>4, DecodesOneByteOf DEF opcode
<1>6. QED
  BY <1>4, <1>5 DEF static

StaticBytes(operation) == SubSeq(LittleEndian(static_2[operation - SYSCALL + 1]), 1, 2)

LEMMA TwoByteTable ==
    LET op(n) == static_2[n - SYSCALL + 1]
    IN
        /\ op(SYSCALL) = \h050f
        /\ op(CPUID) = \ha20f
        /\ op(FNOP) = \hd0d9
        /\ op(FCHS) = \he0d9
        /\ op(FABS) = \he1d9
        /\ op(FTST) = \he4d9
        /\ op(FXAM) = \he5d9
        /\ op(FLD1) = \he8d9
        /\ op(FLDL2T) = \he9d9
        /\ op(FLDL2E) = \head9
        /\ op(FLDPI) = \hebd9
        /\ op(FLDLG2) = \hecd9
        /\ op(FLDLN2) = \hedd9
        /\ op(FLDZ) = \heed9
        /\ op(F2XM1) = \hf0d9
        /\ op(FYL2X) = \hf1d9
        /\ op(FPTAN) = \hf2d9
        /\ op(FPATAN) = \hf3d9
        /\ op(FXTRACT) = \hf4d9
        /\ op(FPREM1) = \hf5d9
        /\ op(FDECSTP) = \hf6d9
        /\ op(FINCSTP) = \hf7d9
        /\ op(FPREM) = \hf8d9
        /\ op(FYL2XP1) = \hf9d9
        /\ op(FSQRT) = \hfad9
        /\ op(FSINCOS) = \hfbd9
        /\ op(FRNDINT) = \hfcd9
        /\ op(FSCALE) = \hfdd9
        /\ op(FSIN) = \hfed9
        /\ op(FCOS) = \hffd9
<1>1. /\ static_2 \in Seq(Int) /\ Len(static_2) = 48
      /\ static_2[1] = \h050f
      /\ static_2[5] = \ha20f
      /\ static_2[17] = \hd0d9
      /\ static_2[18] = \he0d9
      /\ static_2[21] = \he1d9
      /\ static_2[22] = \he4d9
      /\ static_2[23] = \he5d9
      /\ static_2[24] = \he8d9
      /\ static_2[25] = \he9d9
      /\ static_2[26] = \head9
      /\ static_2[27] = \hebd9
      /\ static_2[28] = \hecd9
      /\ static_2[29] = \hedd9
      /\ static_2[30] = \heed9
      /\ static_2[31] = \hf0d9
      /\ static_2[32] = \hf1d9
      /\ static_2[33] = \hf2d9
      /\ static_2[34] = \hf3d9
      /\ static_2[35] = \hf4d9
      /\ static_2[36] = \hf5d9
      /\ static_2[37] = \hf6d9
      /\ static_2[38] = \hf7d9
      /\ static_2[39] = \hf8d9
      /\ static_2[40] = \hf9d9
      /\ static_2[41] = \hfad9
      /\ static_2[42] = \hfbd9
      /\ static_2[43] = \hfcd9
      /\ static_2[44] = \hfdd9
      /\ static_2[19] = \hfed9
      /\ static_2[20] = \hffd9
  BY SMT DEF static_2
<1>2. /\ SYSCALL - SYSCALL + 1 = 1
      /\ CPUID - SYSCALL + 1 = 5
      /\ FNOP - SYSCALL + 1 = 17
      /\ FCHS - SYSCALL + 1 = 18
      /\ FABS - SYSCALL + 1 = 21
      /\ FTST - SYSCALL + 1 = 22
      /\ FXAM - SYSCALL + 1 = 23
      /\ FLD1 - SYSCALL + 1 = 24
      /\ FLDL2T - SYSCALL + 1 = 25
      /\ FLDL2E - SYSCALL + 1 = 26
      /\ FLDPI - SYSCALL + 1 = 27
      /\ FLDLG2 - SYSCALL + 1 = 28
      /\ FLDLN2 - SYSCALL + 1 = 29
      /\ FLDZ - SYSCALL + 1 = 30
      /\ F2XM1 - SYSCALL + 1 = 31
      /\ FYL2X - SYSCALL + 1 = 32
      /\ FPTAN - SYSCALL + 1 = 33
      /\ FPATAN - SYSCALL + 1 = 34
      /\ FXTRACT - SYSCALL + 1 = 35
      /\ FPREM1 - SYSCALL + 1 = 36
      /\ FDECSTP - SYSCALL + 1 = 37
      /\ FINCSTP - SYSCALL + 1 = 38
      /\ FPREM - SYSCALL + 1 = 39
      /\ FYL2XP1 - SYSCALL + 1 = 40
      /\ FSQRT - SYSCALL + 1 = 41
      /\ FSINCOS - SYSCALL + 1 = 42
      /\ FRNDINT - SYSCALL + 1 = 43
      /\ FSCALE - SYSCALL + 1 = 44
      /\ FSIN - SYSCALL + 1 = 19
      /\ FCOS - SYSCALL + 1 = 20
  BY DEF SYSCALL, CPUID, FNOP, FCHS, FABS, FTST, FXAM, FLD1, FLDL2T, FLDL2E, FLDPI, FLDLG2,
     FLDLN2, FLDZ, F2XM1, FYL2X, FPTAN, FPATAN, FXTRACT, FPREM1, FDECSTP, FINCSTP, FPREM,
     FYL2XP1, FSQRT, FSINCOS, FRNDINT, FSCALE, FSIN, FCOS
<1>3. QED
  BY <1>1, <1>2

LEMMA FirstTwo ==
    ASSUME NEW v \in Int
    PROVE  SubSeq(LittleEndian(v), 1, 2) = <<First(v), Second(v)>>
<1> DEFINE le == LittleEndian(v)
           s == SubSeq(le, 1, 2)
           t == <<First(v), Second(v)>>
<1>1. le \in Seq(Byte) /\ Len(le) = 4
  BY LittleEndianBytes
<1>2. le[1] = First(v) /\ le[2] = Second(v)
  BY TwoHalves
<1> HIDE DEF le
<1>3. /\ s \in Seq(Byte) /\ Len(s) = 2
      /\ \A i \in 1 .. 2 : s[i] = le[1 + i - 1]
  <2>1. \A i \in 1 .. 2 : le[i] \in Byte
    <3>1. 1 .. Len(le) = 1 .. 4
      BY <1>1
    <3>2. \A i \in 1 .. 4 : le[i] \in Byte
      BY <1>1, <3>1, ElementOfSeq
    <3>3. QED
      BY <3>2
  <2>2. 1 \in Int /\ 2 \in Int
    OBVIOUS
  <2>3. s \in Seq(Byte)
    BY <2>1, <2>2, SubSeqProperties
  <2>4. Len(s) = 2
    BY <2>1, <2>2, SubSeqProperties
  <2>5. \A i \in 1 .. 2 - 1 + 1 : s[i] = le[1 + i - 1]
    BY <2>1, <2>2, SubSeqProperties
  <2>6. QED
    BY <2>3, <2>4, <2>5
<1>4. t \in Seq(Byte) /\ Len(t) = 2 /\ t[1] = First(v) /\ t[2] = Second(v)
  BY BytesOf DEF Byte
<1> HIDE DEF s, t
<1>5. \A i \in 1 .. 2 : s[i] = t[i]
  BY <1>2, <1>3, <1>4
<1>6. s = t
  BY <1>3, <1>4, <1>5, SeqEqual
<1>7. QED
  BY <1>6 DEF s, t, le

\* The second byte of a floating point operation is that operation's.
IsFloat(operation, byte) ==
    /\ byte \in Byte /\ StaticBytes(operation) = <<\hd9, byte>>
    /\ FloatOperation(byte) = operation

LEMMA FloatRow ==
    ASSUME NEW operation, NEW v \in Int, static_2[operation - SYSCALL + 1] = v,
           NEW byte \in Byte, First(v) = \hd9, Second(v) = byte,
           FloatOperation(byte) = operation
    PROVE  IsFloat(operation, byte)
BY FirstTwo DEF IsFloat, StaticBytes

LEMMA FloatTable ==
    ASSUME NEW operation \in FNOP .. FSCALE
    PROVE  \E byte \in Byte : IsFloat(operation, byte)
<1>1. CASE operation = FNOP
  <2>1. static_2[operation - SYSCALL + 1] = \hd0d9
    BY <1>1, TwoByteTable
  <2>2. First(\hd0d9) = 217 /\ Second(\hd0d9) = 208 /\ 208 \in Byte /\ \hd0d9 \in Int
    BY DEF First, Second, Byte
  <2>3. FloatOperation(208) = FNOP
    BY SMT DEF FloatOperation
  <2>4. IsFloat(operation, 208)
    BY <1>1, <2>1, <2>2, <2>3, FloatRow
  <2>5. QED
    BY <2>2, <2>4
<1>2. CASE operation = FCHS
  <2>1. static_2[operation - SYSCALL + 1] = \he0d9
    BY <1>2, TwoByteTable
  <2>2. First(\he0d9) = 217 /\ Second(\he0d9) = 224 /\ 224 \in Byte /\ \he0d9 \in Int
    BY DEF First, Second, Byte
  <2>3. FloatOperation(224) = FCHS
    BY SMT DEF FloatOperation
  <2>4. IsFloat(operation, 224)
    BY <1>2, <2>1, <2>2, <2>3, FloatRow
  <2>5. QED
    BY <2>2, <2>4
<1>3. CASE operation = FABS
  <2>1. static_2[operation - SYSCALL + 1] = \he1d9
    BY <1>3, TwoByteTable
  <2>2. First(\he1d9) = 217 /\ Second(\he1d9) = 225 /\ 225 \in Byte /\ \he1d9 \in Int
    BY DEF First, Second, Byte
  <2>3. FloatOperation(225) = FABS
    BY SMT DEF FloatOperation
  <2>4. IsFloat(operation, 225)
    BY <1>3, <2>1, <2>2, <2>3, FloatRow
  <2>5. QED
    BY <2>2, <2>4
<1>4. CASE operation = FTST
  <2>1. static_2[operation - SYSCALL + 1] = \he4d9
    BY <1>4, TwoByteTable
  <2>2. First(\he4d9) = 217 /\ Second(\he4d9) = 228 /\ 228 \in Byte /\ \he4d9 \in Int
    BY DEF First, Second, Byte
  <2>3. FloatOperation(228) = FTST
    BY SMT DEF FloatOperation
  <2>4. IsFloat(operation, 228)
    BY <1>4, <2>1, <2>2, <2>3, FloatRow
  <2>5. QED
    BY <2>2, <2>4
<1>5. CASE operation = FXAM
  <2>1. static_2[operation - SYSCALL + 1] = \he5d9
    BY <1>5, TwoByteTable
  <2>2. First(\he5d9) = 217 /\ Second(\he5d9) = 229 /\ 229 \in Byte /\ \he5d9 \in Int
    BY DEF First, Second, Byte
  <2>3. FloatOperation(229) = FXAM
    BY SMT DEF FloatOperation
  <2>4. IsFloat(operation, 229)
    BY <1>5, <2>1, <2>2, <2>3, FloatRow
  <2>5. QED
    BY <2>2, <2>4
<1>6. CASE operation = FLD1
  <2>1. static_2[operation - SYSCALL + 1] = \he8d9
    BY <1>6, TwoByteTable
  <2>2. First(\he8d9) = 217 /\ Second(\he8d9) = 232 /\ 232 \in Byte /\ \he8d9 \in Int
    BY DEF First, Second, Byte
  <2>3. FloatOperation(232) = FLD1
    BY SMT DEF FloatOperation, FloatConstants, FloatFunctions
  <2>4. IsFloat(operation, 232)
    BY <1>6, <2>1, <2>2, <2>3, FloatRow
  <2>5. QED
    BY <2>2, <2>4
<1>7. CASE operation = FLDL2T
  <2>1. static_2[operation - SYSCALL + 1] = \he9d9
    BY <1>7, TwoByteTable
  <2>2. First(\he9d9) = 217 /\ Second(\he9d9) = 233 /\ 233 \in Byte /\ \he9d9 \in Int
    BY DEF First, Second, Byte
  <2>3. FloatOperation(233) = FLDL2T
    BY SMT DEF FloatOperation, FloatConstants, FloatFunctions
  <2>4. IsFloat(operation, 233)
    BY <1>7, <2>1, <2>2, <2>3, FloatRow
  <2>5. QED
    BY <2>2, <2>4
<1>8. CASE operation = FLDL2E
  <2>1. static_2[operation - SYSCALL + 1] = \head9
    BY <1>8, TwoByteTable
  <2>2. First(\head9) = 217 /\ Second(\head9) = 234 /\ 234 \in Byte /\ \head9 \in Int
    BY DEF First, Second, Byte
  <2>3. FloatOperation(234) = FLDL2E
    BY SMT DEF FloatOperation, FloatConstants, FloatFunctions
  <2>4. IsFloat(operation, 234)
    BY <1>8, <2>1, <2>2, <2>3, FloatRow
  <2>5. QED
    BY <2>2, <2>4
<1>9. CASE operation = FLDPI
  <2>1. static_2[operation - SYSCALL + 1] = \hebd9
    BY <1>9, TwoByteTable
  <2>2. First(\hebd9) = 217 /\ Second(\hebd9) = 235 /\ 235 \in Byte /\ \hebd9 \in Int
    BY DEF First, Second, Byte
  <2>3. FloatOperation(235) = FLDPI
    BY SMT DEF FloatOperation, FloatConstants, FloatFunctions
  <2>4. IsFloat(operation, 235)
    BY <1>9, <2>1, <2>2, <2>3, FloatRow
  <2>5. QED
    BY <2>2, <2>4
<1>10. CASE operation = FLDLG2
  <2>1. static_2[operation - SYSCALL + 1] = \hecd9
    BY <1>10, TwoByteTable
  <2>2. First(\hecd9) = 217 /\ Second(\hecd9) = 236 /\ 236 \in Byte /\ \hecd9 \in Int
    BY DEF First, Second, Byte
  <2>3. FloatOperation(236) = FLDLG2
    BY SMT DEF FloatOperation, FloatConstants, FloatFunctions
  <2>4. IsFloat(operation, 236)
    BY <1>10, <2>1, <2>2, <2>3, FloatRow
  <2>5. QED
    BY <2>2, <2>4
<1>11. CASE operation = FLDLN2
  <2>1. static_2[operation - SYSCALL + 1] = \hedd9
    BY <1>11, TwoByteTable
  <2>2. First(\hedd9) = 217 /\ Second(\hedd9) = 237 /\ 237 \in Byte /\ \hedd9 \in Int
    BY DEF First, Second, Byte
  <2>3. FloatOperation(237) = FLDLN2
    BY SMT DEF FloatOperation, FloatConstants, FloatFunctions
  <2>4. IsFloat(operation, 237)
    BY <1>11, <2>1, <2>2, <2>3, FloatRow
  <2>5. QED
    BY <2>2, <2>4
<1>12. CASE operation = FLDZ
  <2>1. static_2[operation - SYSCALL + 1] = \heed9
    BY <1>12, TwoByteTable
  <2>2. First(\heed9) = 217 /\ Second(\heed9) = 238 /\ 238 \in Byte /\ \heed9 \in Int
    BY DEF First, Second, Byte
  <2>3. FloatOperation(238) = FLDZ
    BY SMT DEF FloatOperation, FloatConstants, FloatFunctions
  <2>4. IsFloat(operation, 238)
    BY <1>12, <2>1, <2>2, <2>3, FloatRow
  <2>5. QED
    BY <2>2, <2>4
<1>13. CASE operation = F2XM1
  <2>1. static_2[operation - SYSCALL + 1] = \hf0d9
    BY <1>13, TwoByteTable
  <2>2. First(\hf0d9) = 217 /\ Second(\hf0d9) = 240 /\ 240 \in Byte /\ \hf0d9 \in Int
    BY DEF First, Second, Byte
  <2>3. FloatOperation(240) = F2XM1
    BY SMT DEF FloatOperation, FloatConstants, FloatFunctions
  <2>4. IsFloat(operation, 240)
    BY <1>13, <2>1, <2>2, <2>3, FloatRow
  <2>5. QED
    BY <2>2, <2>4
<1>14. CASE operation = FYL2X
  <2>1. static_2[operation - SYSCALL + 1] = \hf1d9
    BY <1>14, TwoByteTable
  <2>2. First(\hf1d9) = 217 /\ Second(\hf1d9) = 241 /\ 241 \in Byte /\ \hf1d9 \in Int
    BY DEF First, Second, Byte
  <2>3. FloatOperation(241) = FYL2X
    BY SMT DEF FloatOperation, FloatConstants, FloatFunctions
  <2>4. IsFloat(operation, 241)
    BY <1>14, <2>1, <2>2, <2>3, FloatRow
  <2>5. QED
    BY <2>2, <2>4
<1>15. CASE operation = FPTAN
  <2>1. static_2[operation - SYSCALL + 1] = \hf2d9
    BY <1>15, TwoByteTable
  <2>2. First(\hf2d9) = 217 /\ Second(\hf2d9) = 242 /\ 242 \in Byte /\ \hf2d9 \in Int
    BY DEF First, Second, Byte
  <2>3. FloatOperation(242) = FPTAN
    BY SMT DEF FloatOperation, FloatConstants, FloatFunctions
  <2>4. IsFloat(operation, 242)
    BY <1>15, <2>1, <2>2, <2>3, FloatRow
  <2>5. QED
    BY <2>2, <2>4
<1>16. CASE operation = FPATAN
  <2>1. static_2[operation - SYSCALL + 1] = \hf3d9
    BY <1>16, TwoByteTable
  <2>2. First(\hf3d9) = 217 /\ Second(\hf3d9) = 243 /\ 243 \in Byte /\ \hf3d9 \in Int
    BY DEF First, Second, Byte
  <2>3. FloatOperation(243) = FPATAN
    BY SMT DEF FloatOperation, FloatConstants, FloatFunctions
  <2>4. IsFloat(operation, 243)
    BY <1>16, <2>1, <2>2, <2>3, FloatRow
  <2>5. QED
    BY <2>2, <2>4
<1>17. CASE operation = FXTRACT
  <2>1. static_2[operation - SYSCALL + 1] = \hf4d9
    BY <1>17, TwoByteTable
  <2>2. First(\hf4d9) = 217 /\ Second(\hf4d9) = 244 /\ 244 \in Byte /\ \hf4d9 \in Int
    BY DEF First, Second, Byte
  <2>3. FloatOperation(244) = FXTRACT
    BY SMT DEF FloatOperation, FloatConstants, FloatFunctions
  <2>4. IsFloat(operation, 244)
    BY <1>17, <2>1, <2>2, <2>3, FloatRow
  <2>5. QED
    BY <2>2, <2>4
<1>18. CASE operation = FPREM1
  <2>1. static_2[operation - SYSCALL + 1] = \hf5d9
    BY <1>18, TwoByteTable
  <2>2. First(\hf5d9) = 217 /\ Second(\hf5d9) = 245 /\ 245 \in Byte /\ \hf5d9 \in Int
    BY DEF First, Second, Byte
  <2>3. FloatOperation(245) = FPREM1
    BY SMT DEF FloatOperation, FloatConstants, FloatFunctions
  <2>4. IsFloat(operation, 245)
    BY <1>18, <2>1, <2>2, <2>3, FloatRow
  <2>5. QED
    BY <2>2, <2>4
<1>19. CASE operation = FDECSTP
  <2>1. static_2[operation - SYSCALL + 1] = \hf6d9
    BY <1>19, TwoByteTable
  <2>2. First(\hf6d9) = 217 /\ Second(\hf6d9) = 246 /\ 246 \in Byte /\ \hf6d9 \in Int
    BY DEF First, Second, Byte
  <2>3. FloatOperation(246) = FDECSTP
    BY SMT DEF FloatOperation, FloatConstants, FloatFunctions
  <2>4. IsFloat(operation, 246)
    BY <1>19, <2>1, <2>2, <2>3, FloatRow
  <2>5. QED
    BY <2>2, <2>4
<1>20. CASE operation = FINCSTP
  <2>1. static_2[operation - SYSCALL + 1] = \hf7d9
    BY <1>20, TwoByteTable
  <2>2. First(\hf7d9) = 217 /\ Second(\hf7d9) = 247 /\ 247 \in Byte /\ \hf7d9 \in Int
    BY DEF First, Second, Byte
  <2>3. FloatOperation(247) = FINCSTP
    BY SMT DEF FloatOperation, FloatConstants, FloatFunctions
  <2>4. IsFloat(operation, 247)
    BY <1>20, <2>1, <2>2, <2>3, FloatRow
  <2>5. QED
    BY <2>2, <2>4
<1>21. CASE operation = FPREM
  <2>1. static_2[operation - SYSCALL + 1] = \hf8d9
    BY <1>21, TwoByteTable
  <2>2. First(\hf8d9) = 217 /\ Second(\hf8d9) = 248 /\ 248 \in Byte /\ \hf8d9 \in Int
    BY DEF First, Second, Byte
  <2>3. FloatOperation(248) = FPREM
    BY SMT DEF FloatOperation, FloatConstants, FloatFunctions
  <2>4. IsFloat(operation, 248)
    BY <1>21, <2>1, <2>2, <2>3, FloatRow
  <2>5. QED
    BY <2>2, <2>4
<1>22. CASE operation = FYL2XP1
  <2>1. static_2[operation - SYSCALL + 1] = \hf9d9
    BY <1>22, TwoByteTable
  <2>2. First(\hf9d9) = 217 /\ Second(\hf9d9) = 249 /\ 249 \in Byte /\ \hf9d9 \in Int
    BY DEF First, Second, Byte
  <2>3. FloatOperation(249) = FYL2XP1
    BY SMT DEF FloatOperation, FloatConstants, FloatFunctions
  <2>4. IsFloat(operation, 249)
    BY <1>22, <2>1, <2>2, <2>3, FloatRow
  <2>5. QED
    BY <2>2, <2>4
<1>23. CASE operation = FSQRT
  <2>1. static_2[operation - SYSCALL + 1] = \hfad9
    BY <1>23, TwoByteTable
  <2>2. First(\hfad9) = 217 /\ Second(\hfad9) = 250 /\ 250 \in Byte /\ \hfad9 \in Int
    BY DEF First, Second, Byte
  <2>3. FloatOperation(250) = FSQRT
    BY SMT DEF FloatOperation, FloatConstants, FloatFunctions
  <2>4. IsFloat(operation, 250)
    BY <1>23, <2>1, <2>2, <2>3, FloatRow
  <2>5. QED
    BY <2>2, <2>4
<1>24. CASE operation = FSINCOS
  <2>1. static_2[operation - SYSCALL + 1] = \hfbd9
    BY <1>24, TwoByteTable
  <2>2. First(\hfbd9) = 217 /\ Second(\hfbd9) = 251 /\ 251 \in Byte /\ \hfbd9 \in Int
    BY DEF First, Second, Byte
  <2>3. FloatOperation(251) = FSINCOS
    BY SMT DEF FloatOperation, FloatConstants, FloatFunctions
  <2>4. IsFloat(operation, 251)
    BY <1>24, <2>1, <2>2, <2>3, FloatRow
  <2>5. QED
    BY <2>2, <2>4
<1>25. CASE operation = FRNDINT
  <2>1. static_2[operation - SYSCALL + 1] = \hfcd9
    BY <1>25, TwoByteTable
  <2>2. First(\hfcd9) = 217 /\ Second(\hfcd9) = 252 /\ 252 \in Byte /\ \hfcd9 \in Int
    BY DEF First, Second, Byte
  <2>3. FloatOperation(252) = FRNDINT
    BY SMT DEF FloatOperation, FloatConstants, FloatFunctions
  <2>4. IsFloat(operation, 252)
    BY <1>25, <2>1, <2>2, <2>3, FloatRow
  <2>5. QED
    BY <2>2, <2>4
<1>26. CASE operation = FSCALE
  <2>1. static_2[operation - SYSCALL + 1] = \hfdd9
    BY <1>26, TwoByteTable
  <2>2. First(\hfdd9) = 217 /\ Second(\hfdd9) = 253 /\ 253 \in Byte /\ \hfdd9 \in Int
    BY DEF First, Second, Byte
  <2>3. FloatOperation(253) = FSCALE
    BY SMT DEF FloatOperation, FloatConstants, FloatFunctions
  <2>4. IsFloat(operation, 253)
    BY <1>26, <2>1, <2>2, <2>3, FloatRow
  <2>5. QED
    BY <2>2, <2>4
<1>27. CASE operation = FSIN
  <2>1. static_2[operation - SYSCALL + 1] = \hfed9
    BY <1>27, TwoByteTable
  <2>2. First(\hfed9) = 217 /\ Second(\hfed9) = 254 /\ 254 \in Byte /\ \hfed9 \in Int
    BY DEF First, Second, Byte
  <2>3. FloatOperation(254) = FSIN
    BY SMT DEF FloatOperation, FloatConstants, FloatFunctions
  <2>4. IsFloat(operation, 254)
    BY <1>27, <2>1, <2>2, <2>3, FloatRow
  <2>5. QED
    BY <2>2, <2>4
<1>28. CASE operation = FCOS
  <2>1. static_2[operation - SYSCALL + 1] = \hffd9
    BY <1>28, TwoByteTable
  <2>2. First(\hffd9) = 217 /\ Second(\hffd9) = 255 /\ 255 \in Byte /\ \hffd9 \in Int
    BY DEF First, Second, Byte
  <2>3. FloatOperation(255) = FCOS
    BY SMT DEF FloatOperation, FloatConstants, FloatFunctions
  <2>4. IsFloat(operation, 255)
    BY <1>28, <2>1, <2>2, <2>3, FloatRow
  <2>5. QED
    BY <2>2, <2>4
<1>29. \/ operation = FNOP
      \/ operation = FCHS
      \/ operation = FABS
      \/ operation = FTST
      \/ operation = FXAM
      \/ operation = FLD1
      \/ operation = FLDL2T
      \/ operation = FLDL2E
      \/ operation = FLDPI
      \/ operation = FLDLG2
      \/ operation = FLDLN2
      \/ operation = FLDZ
      \/ operation = F2XM1
      \/ operation = FYL2X
      \/ operation = FPTAN
      \/ operation = FPATAN
      \/ operation = FXTRACT
      \/ operation = FPREM1
      \/ operation = FDECSTP
      \/ operation = FINCSTP
      \/ operation = FPREM
      \/ operation = FYL2XP1
      \/ operation = FSQRT
      \/ operation = FSINCOS
      \/ operation = FRNDINT
      \/ operation = FSCALE
      \/ operation = FSIN
      \/ operation = FCOS
  BY SMT DEF FNOP, FCHS, FABS, FTST, FXAM, FLD1, FLDL2T, FLDL2E, FLDPI, FLDLG2, FLDLN2, FLDZ,
         F2XM1, FYL2X, FPTAN, FPATAN, FXTRACT, FPREM1, FDECSTP, FINCSTP, FPREM, FYL2XP1,
         FSQRT, FSINCOS, FRNDINT, FSCALE, FSIN, FCOS
<1> QED
  BY <1>1, <1>2, <1>3, <1>4, <1>5, <1>6, <1>7, <1>8, <1>9, <1>10, <1>11, <1>12, <1>13, <1>14,
     <1>15, <1>16, <1>17, <1>18, <1>19, <1>20, <1>21, <1>22, <1>23, <1>24, <1>25, <1>26,
     <1>27, <1>28, <1>29, Zenon

LEMMA DecodesFloat ==
    ASSUME NEW code, Len(code) \in Nat, NEW at \in Nat, NEW operation \in FNOP .. FSCALE,
           Holds(code, at, StaticBytes(operation))
    PROVE  /\ Len(StaticBytes(operation)) = 2
           /\ Decode(code, at) = instruction(operation, D32, <<>>, 2)
<1>1. PICK byte \in Byte : IsFloat(operation, byte)
  BY FloatTable
<1> DEFINE opcode == \hd9
           bytes == <<byte>>
<1>2. opcode \in Byte /\ Opens(opcode) /\ opcode = \hd9
  BY DEF Opens, Byte, IsRex
<1>3. bytes \in Seq(Byte) /\ Len(bytes) = 1 /\ bytes[1] = byte
  OBVIOUS
<1>4. StaticBytes(operation) = <<opcode, byte>> /\ FloatOperation(byte) = operation
  BY <1>1 DEF IsFloat
<1>5. Len(StaticBytes(operation)) = 2
  BY <1>4
<1>6. <<opcode, byte>> = <<opcode>> \o bytes
  BY <1>2, Pair
<1> HIDE DEF opcode, bytes
<1>7. Holds(code, at, <<opcode>> \o bytes)
  BY <1>4, <1>6
<1>8. FindsBare(code, at, opcode, bytes)
  BY <1>2, <1>3, <1>7, FindingBare
<1>9. PICK x : /\ x.opcode = opcode /\ x.m = 1 /\ x.at = at
               /\ Decode(code, at) = DecodeShort(x)
               /\ bytesAt(x, 1, Len(bytes)) = bytes
  BY <1>8, Zenon DEF FindsBare
<1>10. DecodeShort(x) = instruction(FloatOperation(byteAt(x, x.m)), D32, <<>>, x.m + 1)
  BY <1>2, <1>9, ShortOpcodes
<1>11. byteAt(x, 1) = byte
  <2>1. bytesAt(x, 1, 1)[1] = byteAt(x, 1 + 1 - 1)
    BY DEF bytesAt
  <2>2. QED
    BY <1>3, <1>9, <2>1
<1>12. QED
  BY <1>4, <1>5, <1>9, <1>10, <1>11

LEMMA DecodesSystem ==
    ASSUME NEW code, Len(code) \in Nat, NEW at \in Nat, NEW operation \in {SYSCALL, CPUID},
           Holds(code, at, StaticBytes(operation))
    PROVE  /\ Len(StaticBytes(operation)) = 2
           /\ Decode(code, at) = instruction(operation, D32, <<>>, 2)
<1> DEFINE opcode == IF operation = SYSCALL THEN 5 ELSE 162
           bytes == <<>>
<1>1. opcode \in Byte /\ bytes \in Seq(Byte)
  BY DEF Byte
<1>2. StaticBytes(operation) = <<15, opcode>>
  <2>1. /\ First(\h050f) = 15 /\ Second(\h050f) = 5 /\ First(\ha20f) = 15
        /\ Second(\ha20f) = 162
    BY DEF First, Second
  <2>2. static_2[SYSCALL - SYSCALL + 1] = \h050f /\ static_2[CPUID - SYSCALL + 1] = \ha20f
    BY TwoByteTable
  <2>3. /\ SubSeq(LittleEndian(\h050f), 1, 2) = <<15, 5>>
        /\ SubSeq(LittleEndian(\ha20f), 1, 2) = <<15, 162>>
    BY <2>1, FirstTwo
  <2>4. CASE operation = SYSCALL
    BY <2>2, <2>3, <2>4 DEF StaticBytes
  <2>5. CASE operation = CPUID
    BY <2>2, <2>3, <2>5 DEF StaticBytes, SYSCALL, CPUID
  <2>6. QED
    BY <2>4, <2>5
<1>3. Len(StaticBytes(operation)) = 2
  BY <1>2
<1>4. (operation = SYSCALL => opcode = 5) /\ (operation = CPUID => opcode = 162)
  BY DEF SYSCALL, CPUID
<1> HIDE DEF opcode
<1>5. <<15>> \o (<<opcode>> \o bytes) = <<15, opcode>>
  <2>1. 15 \in Byte /\ <<opcode>> \in Seq(Byte)
    BY <1>1 DEF Byte
  <2>2. <<opcode>> \o bytes = <<opcode>>
    BY <2>1, Joining
  <2>3. <<15>> \o <<opcode>> = <<15, opcode>>
    BY <1>1, <2>1, Pair
  <2>4. QED
    BY <2>2, <2>3
<1>6. Holds(code, at, <<15>> \o (<<opcode>> \o bytes))
  BY <1>2, <1>5
<1> HIDE DEF bytes
<1>7. FindsLong(code, at, opcode, bytes)
  BY <1>1, <1>6, FindingLong DEF bytes
<1>8. PICK x : /\ x.opcode = opcode /\ x.m = 2 /\ x.at = at
               /\ Decode(code, at) = DecodeLong(x)
               /\ bytesAt(x, 2, Len(bytes)) = bytes
  BY <1>7, Zenon DEF FindsLong
<1>9. DecodeLong(x) = static(x, operation)
  <2>1. CASE operation = SYSCALL
    <3>1. x.opcode = 5
      BY <1>4, <1>8, <2>1
    <3>2. DecodeLong(x) = static(x, SYSCALL)
      BY <3>1, SMT DEF DecodeLong
    <3>3. QED
      BY <2>1, <3>2
  <2>2. CASE operation = CPUID
    <3>1. x.opcode = 162
      BY <1>4, <1>8, <2>2
    <3>2. DecodeLong(x) = static(x, CPUID)
      BY <3>1, SMT DEF DecodeLong
    <3>3. QED
      BY <2>2, <3>2
  <2>3. QED
    BY <2>1, <2>2
<1>10. QED
  BY <1>3, <1>8, <1>9 DEF static

-----------------------------------------------------------------------------
(***************************************************************************)
(* What the builders make of the forms they encode right.                  *)
(***************************************************************************)
\* All a builder leaves: those bytes, and that field behind them.
Makes(result, head, field) == result.head = head /\ result.field = field /\ result.tail = <<>>

\* Two registers of bytes, one of 4 to 7 and the other below 8: a prefix for its own sake.
NeedsRex(size, d, e) ==
    size = D8 /\ ((front(d) /\ lower(e)) \/ (lower(d) /\ front(e)))

LEMMA NoRexElse ==
    ASSUME NEW size \in AllSizes, NEW d \in Registry, NEW e \in Registry
    PROVE  /\ NeedsRex(size, d, e) \in BOOLEAN
           /\ NeedsRex(size, d, e) => ~upper(d) /\ ~upper(e) /\ size # D64
           /\ size = D8 /\ (front(d) \/ front(e)) => NeedsRex(size, d, e) \/ upper(d) \/ upper(e)
<1>1. /\ lower(d) <=> ~upper(d)
      /\ lower(e) <=> ~upper(e)
      /\ front(d) => lower(d)
      /\ front(e) => lower(e)
  BY RegisterNumbers
<1>2. D8 # D64
  BY DEF D8, D64
<1>3. QED
  BY <1>1, <1>2 DEF NeedsRex

LEMMA Trailing ==
    ASSUME NEW p \in Seq(Byte), NEW x \in Byte, NEW y \in Byte
    PROVE  p \o <<>> \o <<>> \o <<x>> \o <<y>> \o <<>> \o <<>> \o <<>> = p \o <<x, y>>
<1>1. p \o <<>> = p
  BY Joining
<1>2. (p \o <<x>>) \o <<y>> = p \o <<x, y>>
  BY Joining
<1>3. <<x, y>> \in Seq(Byte)
  OBVIOUS
<1> DEFINE q == p \o <<x, y>>
<1>4. q \in Seq(Byte)
  BY <1>3
<1> HIDE DEF q
<1>5. q \o <<>> = q
  BY <1>4, Joining
<1>6. QED
  BY <1>1, <1>2, <1>5 DEF q

\* The code of build_double, of the values of its tokens.
DoubleHead(operation, size, to, destination, from, source) ==
    LET accumulator == attach(to, from) /\ destination = 0
    IN  short_prefix(size)
        \o long_prefix(size, to, destination, from, source)
        \o ByteRex(size, to, destination, from, source)
        \o inset(attach(to, from), \h81 - B(size = D8))
        \o inset(accumulator, 5 + (8 * (operation % 8)) - B(size = D8))
        \o inset(~accumulator,
                 (destination % 8) * B(attach(to, from)) + 8 * (operation - ADD)
                 + B(assign(to, from) /\ size = D8) - B(attach(to, from) /\ size # D8)
                 + B(size # D8) + 2 * B(import(to, from)) + 4 * B(assign(to, from))
                 + \hc0 * B(attach(to, from)))
        \o inset(transfer(to, from), mc0(destination, source))
        \o modify_memory(destination, to, from) \o modify_memory(source, to, from)
        \o inset_immediate(attach(to, from), size, source)

LEMMA BuildsDouble ==
    ASSUME NEW a
    PROVE  build_double(a) =
               Built(DoubleHead(a[0], a[1], a[2], a[3], a[4], a[5]),
                     MemoryField(a[2], a[3], a[4], a[5], "absolute"),
                     inset_immediate(assign(a[2], a[4]), a[1], a[5]), 5)
BY DEF build_double, DoubleHead

LEMMA BuiltParts ==
    ASSUME NEW head, NEW field, NEW tail, NEW skip
    PROVE  /\ Built(head, field, tail, skip).head = head
           /\ Built(head, field, tail, skip).field = field
           /\ Built(head, field, tail, skip).tail = tail
           /\ Built(head, field, tail, skip).skip = skip
BY DEF Built

LEMMA BuildsRegisters ==
    ASSUME NEW a, NEW operation \in ADD .. CMP, NEW size \in AllSizes,
           NEW d \in Registry, NEW e \in Registry,
           a[0] = operation, a[1] = size, a[2] = REG, a[3] = d, a[4] = REG, a[5] = e
    PROVE  Makes(build_double(a),
                 PrefixOf(size, upper(d), upper(e), NeedsRex(size, d, e))
                     \o <<(8 * (operation - ADD)) + B(size # D8), mc0(d, e)>>,
                 NoField)
<1> DEFINE p == PrefixOf(size, upper(d), upper(e), NeedsRex(size, d, e))
           opcode == (8 * (operation - ADD)) + B(size # D8)
           m == mc0(d, e)
<1>1. /\ upper(d) \in BOOLEAN /\ upper(e) \in BOOLEAN
      /\ NeedsRex(size, d, e) \in BOOLEAN
      /\ NeedsRex(size, d, e) => ~upper(d) /\ ~upper(e) /\ size # D64
  BY RegisterNumbers, NoRexElse
<1>2. short_prefix(size) \o long_prefix(size, REG, d, REG, e) \o inset(NeedsRex(size, d, e), \h40) = p
  <2> DEFINE b == upper(d)
             r == upper(e)
             plain == NeedsRex(size, d, e)
  <2>1. /\ b \in BOOLEAN /\ r \in BOOLEAN /\ plain \in BOOLEAN
        /\ plain => ~b /\ ~r /\ size # D64
        /\ b <=> (REG = REG /\ upper(d))
        /\ r <=> (REG = REG /\ upper(e))
    BY <1>1
  <2> HIDE DEF b, r, plain
  <2>2. MadePrefix(size, REG, d, REG, e, plain) = PrefixOf(size, b, r, plain)
    <3>1. Prefixing(size, REG, d, REG, e, b, r, plain)
      BY <2>1 DEF Prefixing
    <3>2. QED
      BY <3>1, PrefixBuilt
  <2>3. QED
    BY <2>2 DEF b, r, plain, MadePrefix
<1>3. p \in Seq(Byte)
  BY <1>1, PrefixType
<1>4. ByteRex(size, REG, d, REG, e) = inset(NeedsRex(size, d, e), \h40)
  BY DEF ByteRex, NeedsRex, attach, REG, IMM
<1>5. opcode \in Byte /\ m \in Byte
  <2>1. m \in Byte
    BY ModRMOfTwo
  <2>2. opcode \in Byte
    BY DEF ADD, CMP, Byte, B
  <2>3. QED
    BY <2>1, <2>2
<1> HIDE DEF p
<1> DEFINE attached == attach(REG, REG)
           accumulator == attached /\ d = 0
           second == 5 + (8 * (operation % 8)) - B(size = D8)
           third == (d % 8) * B(attached) + 8 * (operation - ADD)
                    + B(assign(REG, REG) /\ size = D8) - B(attached /\ size # D8)
                    + B(size # D8) + 2 * B(import(REG, REG)) + 4 * B(assign(REG, REG))
                    + \hc0 * B(attached)
<1>6. attached = FALSE /\ accumulator = FALSE
  BY DEF attach, REG, IMM
<1>7. third = opcode
  <2>1. /\ B(attached) = 0 /\ B(assign(REG, REG) /\ size = D8) = 0 /\ B(attached /\ size # D8) = 0
        /\ B(import(REG, REG)) = 0 /\ B(assign(REG, REG)) = 0
    BY DEF B, assign, import, attach, REG, MEM, IMM
  <2>2. d % 8 \in Int /\ B(size # D8) \in Int /\ operation - ADD \in Int
    BY RegisterNumbers DEF B, ADD, CMP
  <2> DEFINE o == operation - ADD
             g == B(size # D8)
             q == d % 8
  <2> HIDE DEF o, g, q, attached
  <2>3. q * 0 + 8 * o + 0 - 0 + g + 2 * 0 + 4 * 0 + \hc0 * 0 = (8 * o) + g
    BY <2>2 DEF o, g, q
  <2>4. QED
    BY <2>1, <2>3 DEF o, g, q
<1>9. build_double(a).head =
        p \o inset(attached, \h81 - B(size = D8)) \o inset(accumulator, second)
          \o inset(~accumulator, third) \o inset(transfer(REG, REG), mc0(d, e))
          \o modify_memory(d, REG, REG) \o modify_memory(e, REG, REG)
          \o inset_immediate(attached, size, e)
  <2>1. build_double(a).head = DoubleHead(operation, size, REG, d, REG, e)
    BY BuildsDouble, BuiltParts
  <2>2. QED
    BY <1>2, <1>4, <2>1 DEF DoubleHead
<1> HIDE DEF opcode, third, attached, accumulator, second, m
<1>8. /\ inset(attached, \h81 - B(size = D8)) = <<>>
      /\ inset(accumulator, second) = <<>>
      /\ inset(~accumulator, third) = <<opcode>>
      /\ inset(transfer(REG, REG), mc0(d, e)) = <<m>>
      /\ modify_memory(d, REG, REG) = <<>> /\ modify_memory(e, REG, REG) = <<>>
      /\ inset_immediate(attached, size, e) = <<>>
  <2>1. opcode % 256 = opcode /\ m % 256 = m
    BY <1>5 DEF Byte
  <2>2. inset(attached, \h81 - B(size = D8)) = <<>> /\ inset(accumulator, second) = <<>>
        /\ inset_immediate(attached, size, e) = <<>>
    BY <1>6 DEF inset, inset_immediate
  <2>3. inset(~accumulator, third) = <<opcode>>
    BY <1>6, <1>7, <2>1 DEF inset
  <2>4. inset(transfer(REG, REG), mc0(d, e)) = <<m>>
    BY <2>1 DEF inset, transfer, m
  <2>5. modify_memory(d, REG, REG) = <<>> /\ modify_memory(e, REG, REG) = <<>>
    BY DEF modify_memory, export, import, inset, REG, MEM
  <2>6. QED
    BY <2>2, <2>3, <2>4, <2>5
<1>10. build_double(a).head = p \o <<opcode, m>>
  <2>1. build_double(a).head =
            p \o <<>> \o <<>> \o <<opcode>> \o <<m>> \o <<>> \o <<>> \o <<>>
    BY <1>8, <1>9, Zenon
  <2>2. QED
    BY <1>3, <1>5, <2>1, Trailing, Zenon
<1>11. build_double(a).field = NoField /\ build_double(a).tail = <<>>
  BY DEF build_double, Built, MemoryField, import, export, assign, relate, inset_immediate,
         REG, MEM, IMM, REL
<1>12. QED
  BY <1>10, <1>11 DEF Makes, p, opcode, m

\* The bytes of an immediate.
BytesOfSize(size, data) == SubSeq(LittleEndian(data), 1, WidthOf(size))

LEMMA SizedBytes ==
    ASSUME NEW size, NEW data \in Int
    PROVE  /\ BytesOfSize(size, data) \in Seq(Byte)
           /\ Len(BytesOfSize(size, data)) = WidthOf(size)
           /\ \A when : when => inset_immediate(when, size, data) = BytesOfSize(size, data)
<1> DEFINE w == WidthOf(size)
           b == LittleEndian(data)
<1>1. w \in Nat /\ w \in 1 .. 4
  BY Width
<1>2. b \in Seq(Byte) /\ Len(b) = 4
  BY LittleEndianBytes
<1> HIDE DEF w, b
<1>3. SubSeq(b, 1, w) \in Seq(Byte) /\ Len(SubSeq(b, 1, w)) = w
  <2>1. \A i \in 1 .. w : b[i] \in Byte
    BY <1>1, <1>2
  <2>2. SubSeq(b, 1, w) \in Seq(Byte)
    BY <1>1, <2>1, SubSeqProperties
  <2>3. Len(SubSeq(b, 1, w)) = w
    BY <1>1, <2>1, SubSeqProperties
  <2>4. QED
    BY <2>2, <2>3
<1>4. \A when : when => inset_immediate(when, size, data) = SubSeq(b, 1, w)
  BY DEF inset_immediate, b, w
<1>5. QED
  BY <1>3, <1>4 DEF BytesOfSize, b, w

LEMMA BehindTwo ==
    ASSUME NEW p \in Seq(Byte), NEW x \in Byte, NEW y \in Byte, NEW bytes \in Seq(Byte)
    PROVE  p \o <<x>> \o <<>> \o <<y>> \o <<>> \o <<>> \o <<>> \o bytes
               = p \o (<<x>> \o (<<y>> \o bytes))
<1>1. <<x>> \in Seq(Byte) /\ <<y>> \in Seq(Byte)
  OBVIOUS
<1> DEFINE u == <<x>>
           v == <<y>>
<1>2. u \in Seq(Byte) /\ v \in Seq(Byte)
  BY <1>1
<1> HIDE DEF u, v
<1>3. \A s \in Seq(Byte) : s \o <<>> = s
  BY Joining
<1>4. p \o u \in Seq(Byte) /\ (p \o u) \o v \in Seq(Byte)
  BY <1>2
<1>5. p \o u \o <<>> \o v \o <<>> \o <<>> \o <<>> \o bytes = ((p \o u) \o v) \o bytes
  BY <1>3, <1>4
<1>6. ((p \o u) \o v) \o bytes = (p \o u) \o (v \o bytes)
  <2> DEFINE w == p \o u
  <2>1. w \in Seq(Byte)
    BY <1>4
  <2> HIDE DEF w
  <2>2. (w \o v) \o bytes = w \o (v \o bytes)
    BY <1>2, <2>1, Joining
  <2>3. QED
    BY <2>2 DEF w
<1>7. (p \o u) \o (v \o bytes) = p \o (u \o (v \o bytes))
  <2>1. v \o bytes \in Seq(Byte)
    BY <1>2
  <2>2. QED
    BY <1>2, <2>1, Joining
<1>8. QED
  BY <1>5, <1>6, <1>7 DEF u, v

\* With an immediate a byte register calls for the prefix too often, never too rarely.
RexOfImmediate(size, d, data) ==
    size = D8 /\ (front(d) \/ (lower(d) /\ front(data)))

LEMMA RexOfRegister ==
    ASSUME NEW size \in AllSizes, NEW d \in Registry, NEW data \in Int
    PROVE  /\ RexOfImmediate(size, d, data) \in BOOLEAN
           /\ RexOfImmediate(size, d, data) => ~upper(d) /\ size # D64
           /\ size = D8 /\ front(d) => RexOfImmediate(size, d, data)
<1>1. /\ lower(d) <=> ~upper(d)
      /\ front(d) => lower(d)
  BY RegisterNumbers
<1>2. D8 # D64
  BY DEF D8, D64
<1>3. QED
  BY <1>1, <1>2 DEF RexOfImmediate

LEMMA BuildsImmediate ==
    ASSUME NEW a, NEW operation \in ADD .. CMP, NEW size \in AllSizes,
           NEW d \in Registry, d # 0, NEW data \in Int,
           a[0] = operation, a[1] = size, a[2] = REG, a[3] = d, a[4] = IMM, a[5] = data
    PROVE  Makes(build_double(a),
                 PrefixOf(size, upper(d), FALSE, RexOfImmediate(size, d, data))
                     \o (<<ImmediateOpcode(size)>>
                             \o (<<GroupByte(d, operation - ADD)>> \o BytesOfSize(size, data))),
                 NoField)
<1> DEFINE plain == RexOfImmediate(size, d, data)
           p == PrefixOf(size, upper(d), FALSE, plain)
           opcode == ImmediateOpcode(size)
           m == GroupByte(d, operation - ADD)
           bytes == BytesOfSize(size, data)
<1>1. /\ upper(d) \in BOOLEAN
      /\ plain \in BOOLEAN
      /\ plain => ~upper(d) /\ size # D64
  BY RegisterNumbers, RexOfRegister
<1>2. short_prefix(size) \o long_prefix(size, REG, d, IMM, data) \o inset(plain, \h40) = p
  <2> DEFINE b == upper(d)
             r == FALSE
  <2>1. Prefixing(size, REG, d, IMM, data, b, r, plain)
    BY <1>1 DEF Prefixing, REG, IMM
  <2> HIDE DEF b, r, plain
  <2>2. MadePrefix(size, REG, d, IMM, data, plain) = PrefixOf(size, b, r, plain)
    BY <2>1, PrefixBuilt
  <2>3. QED
    BY <2>2 DEF b, r, MadePrefix
<1>3. p \in Seq(Byte)
  BY <1>1, PrefixType
<1>4. ByteRex(size, REG, d, IMM, data) = inset(plain, \h40)
  <2>1. (size = D8 /\ REG = REG /\ IMM \in {REG, IMM}
           /\ \/ front(d) /\ lower(data)
              \/ lower(d) /\ front(data)
              \/ attach(REG, IMM) /\ front(d)) = plain
    <3>1. front(d) => lower(d)
      BY RegisterNumbers
    <3>2. attach(REG, IMM)
      BY DEF attach
    <3>3. QED
      BY <3>1, <3>2 DEF RexOfImmediate
  <2>2. QED
    BY <2>1 DEF ByteRex
<1>5. opcode \in Byte /\ m \in Byte
  <2>1. operation - ADD \in 0 .. 7
    BY DEF ADD, CMP
  <2>2. QED
    BY <2>1, GroupBytes, ImmediateOpens
<1>6. bytes \in Seq(Byte) /\ inset_immediate(attach(REG, IMM), size, data) = bytes
  <2>1. attach(REG, IMM)
    BY DEF attach
  <2>2. QED
    BY <2>1, SizedBytes
<1> DEFINE attached == attach(REG, IMM)
           accumulator == attached /\ d = 0
           second == 5 + (8 * (operation % 8)) - B(size = D8)
           third == (d % 8) * B(attached) + 8 * (operation - ADD)
                    + B(assign(REG, IMM) /\ size = D8) - B(attached /\ size # D8)
                    + B(size # D8) + 2 * B(import(REG, IMM)) + 4 * B(assign(REG, IMM))
                    + \hc0 * B(attached)
<1>7. attached = TRUE /\ accumulator = FALSE
  BY DEF attach
<1>8. third = m
  <2>1. /\ B(attached) = 1 /\ B(assign(REG, IMM) /\ size = D8) = 0
        /\ B(attached /\ size # D8) = B(size # D8)
        /\ B(import(REG, IMM)) = 0 /\ B(assign(REG, IMM)) = 0
    BY <1>7 DEF B, assign, import, REG, MEM, IMM
  <2>2. d % 8 \in Int /\ B(size # D8) \in Int /\ operation - ADD \in Int
    BY RegisterNumbers DEF B, ADD, CMP
  <2> DEFINE o == operation - ADD
             g == B(size # D8)
             q == d % 8
  <2> HIDE DEF o, g, q, attached
  <2>3. q * 1 + 8 * o + 0 - g + g + 2 * 0 + 4 * 0 + \hc0 * 1 = 192 + q + (8 * o)
    BY <2>2 DEF o, g, q
  <2>4. QED
    BY <2>1, <2>3 DEF o, g, q, GroupByte
<1>9. build_double(a).head =
        p \o inset(attached, \h81 - B(size = D8)) \o inset(accumulator, second)
          \o inset(~accumulator, third) \o inset(transfer(REG, IMM), mc0(d, data))
          \o modify_memory(d, REG, IMM) \o modify_memory(data, REG, IMM)
          \o inset_immediate(attached, size, data)
  <2>1. build_double(a).head = DoubleHead(operation, size, REG, d, IMM, data)
    BY BuildsDouble, BuiltParts
  <2> DEFINE prefix == short_prefix(size) \o long_prefix(size, REG, d, IMM, data)
                           \o ByteRex(size, REG, d, IMM, data)
  <2>2. prefix = p
    <3> HIDE DEF p, plain
    <3>1. QED
      BY <1>2, <1>4
  <2>3. DoubleHead(operation, size, REG, d, IMM, data) =
        prefix \o inset(attached, \h81 - B(size = D8)) \o inset(accumulator, second)
          \o inset(~accumulator, third) \o inset(transfer(REG, IMM), mc0(d, data))
          \o modify_memory(d, REG, IMM) \o modify_memory(data, REG, IMM)
          \o inset_immediate(attached, size, data)
    BY DEF DoubleHead
  <2> HIDE DEF prefix, p, second, third, attached, accumulator
  <2>4. QED
    BY <2>1, <2>2, <2>3
<1> HIDE DEF p, opcode, m, bytes, plain, third, attached, accumulator, second
<1>10. /\ inset(attached, \h81 - B(size = D8)) = <<opcode>>
       /\ inset(accumulator, second) = <<>>
       /\ inset(~accumulator, third) = <<m>>
       /\ inset(transfer(REG, IMM), mc0(d, data)) = <<>>
       /\ modify_memory(d, REG, IMM) = <<>> /\ modify_memory(data, REG, IMM) = <<>>
       /\ inset_immediate(attached, size, data) = bytes
  <2>1. opcode % 256 = opcode /\ m % 256 = m
    BY <1>5 DEF Byte
  <2>2. inset(accumulator, second) = <<>>
    BY <1>7 DEF inset
  <2>3. inset(attached, \h81 - B(size = D8)) = <<opcode>>
    BY <1>7, <2>1 DEF inset, opcode, ImmediateOpcode
  <2>4. inset(~accumulator, third) = <<m>>
    BY <1>7, <1>8, <2>1 DEF inset
  <2>5. /\ inset(transfer(REG, IMM), mc0(d, data)) = <<>>
        /\ modify_memory(d, REG, IMM) = <<>> /\ modify_memory(data, REG, IMM) = <<>>
    BY DEF modify_memory, export, import, transfer, inset, REG, MEM, IMM
  <2>6. inset_immediate(attached, size, data) = bytes
    BY <1>6 DEF attached
  <2>7. QED
    BY <2>2, <2>3, <2>4, <2>5, <2>6
<1>11. build_double(a).head = p \o (<<opcode>> \o (<<m>> \o bytes))
  <2>1. build_double(a).head =
            p \o <<opcode>> \o <<>> \o <<m>> \o <<>> \o <<>> \o <<>> \o bytes
    BY <1>9, <1>10, Zenon
  <2>2. QED
    BY <1>3, <1>5, <1>6, <2>1, BehindTwo
<1>12. build_double(a).field = NoField /\ build_double(a).tail = <<>>
  BY DEF build_double, Built, MemoryField, import, export, assign, relate, inset_immediate,
         REG, MEM, IMM, REL
<1>13. QED
  BY <1>11, <1>12 DEF Makes, p, opcode, m, bytes, plain

\* The code of build_move, of the values of its tokens.
MoveHead(size, to, destination, from, source, high) ==
    LET wide == size = D64
    IN  short_prefix(size)
        \o long_prefix(size, to, destination, from, source)
        \o inset(size = D8 /\ front(destination), \h40)
        \o inset(transfer(to, from) \/ export(to, from), \h88 + B(size # D8))
        \o inset(import(to, from), \h8a + B(size # D8))
        \o modify_memory(destination, to, from) \o modify_memory(source, to, from)
        \o inset(transfer(to, from), mc0(destination, source))
        \o inset(to = REG /\ from \in {IMM, REL},
                 \hb0 + (8 * B(size # D8)) + (destination % 8))
        \o inset(assign(to, from), \hc6 + B(size # D8)) \o inset(assign(to, from), 5)
        \o inset_immediate(attach(to, from), IF wide THEN D32 ELSE size, source)
        \o inset_immediate(attach(to, from) /\ wide, D32, high)
        \o inset_immediate(attach(to, from) /\ wide, D32, 0)

LEMMA BuildsMove ==
    ASSUME NEW a
    PROVE  build_move(a) =
               Built(MoveHead(a[1], a[2], a[3], a[4], a[5], a[6]),
                     MemoryField(a[2], a[3], a[4], a[5], "data"),
                     inset_immediate(assign(a[2], a[4]) /\ ~(a[1] = D64), a[1], a[5]),
                     5 + B(a[1] = D64))
BY DEF build_move, MoveHead

\* The byte of an inset that is there.
LEMMA ThatByte ==
    ASSUME NEW byte \in Byte
    PROVE  \A when : inset(when, byte) = IF when THEN <<byte>> ELSE <<>>
BY DEF inset, Byte

LEMMA NoByte ==
    \A byte : inset(FALSE, byte) = <<>>
BY DEF inset

LEMMA MovedBetween ==
    ASSUME NEW p \in Seq(Byte), NEW x \in Byte, NEW y \in Byte
    PROVE  p \o <<x>> \o <<>> \o <<>> \o <<>> \o <<y>>
               \o <<>> \o <<>> \o <<>> \o <<>> \o <<>> \o <<>> = p \o <<x, y>>
<1> DEFINE u == p \o <<x>>
           q == p \o <<x, y>>
<1>1. u \in Seq(Byte) /\ q \in Seq(Byte)
  <2>1. <<x>> \in Seq(Byte) /\ <<x, y>> \in Seq(Byte)
    OBVIOUS
  <2>2. QED
    BY <2>1
<1>2. u \o <<y>> = q
  BY Joining
<1> HIDE DEF u, q
<1>3. u \o <<>> = u /\ q \o <<>> = q
  BY <1>1, Joining
<1>4. QED
  BY <1>2, <1>3 DEF u, q

LEMMA MovedInto ==
    ASSUME NEW p \in Seq(Byte), NEW x \in Byte, NEW bytes \in Seq(Byte)
    PROVE  p \o <<>> \o <<>> \o <<>> \o <<>> \o <<>> \o <<x>> \o <<>> \o <<>> \o bytes
               \o <<>> \o <<>> = p \o (<<x>> \o bytes)
<1> DEFINE u == <<x>>
           v == p \o u
           q == v \o bytes
<1>1. u \in Seq(Byte)
  OBVIOUS
<1> HIDE DEF u
<1>2. v \in Seq(Byte)
  BY <1>1
<1> HIDE DEF v
<1>3. q \in Seq(Byte)
  BY <1>2
<1>4. q = p \o (u \o bytes)
  BY <1>1, Joining DEF v
<1> HIDE DEF q
<1>5. p \o <<>> = p /\ v \o <<>> = v /\ q \o <<>> = q
  BY <1>2, <1>3, Joining
<1>6. p \o <<>> \o <<>> \o <<>> \o <<>> \o <<>> \o u \o <<>> \o <<>> \o bytes
               \o <<>> \o <<>> = q
  BY <1>5 DEF v, q
<1>7. QED
  BY <1>4, <1>6 DEF u

\* Between registers of bytes: not with a prefix for the wrong one.
MovesRight(size, d, e) ==
    size = D8 => ~(front(d) /\ upper(e)) /\ ~(~front(d) /\ lower(d) /\ front(e))

LEMMA RexOfMove ==
    ASSUME NEW size \in AllSizes, NEW d \in Registry, NEW e \in Registry,
           MovesRight(size, d, e), NEW plain, plain = (size = D8 /\ front(d))
    PROVE  /\ plain \in BOOLEAN
           /\ plain => ~upper(d) /\ ~upper(e) /\ size # D64
           /\ size = D8 /\ (front(d) \/ front(e)) => plain \/ upper(d) \/ upper(e)
<1>1. /\ lower(d) <=> ~upper(d)
      /\ front(d) => lower(d)
  BY RegisterNumbers
<1>2. D8 # D64
  BY DEF D8, D64
<1>3. QED
  BY <1>1, <1>2 DEF MovesRight

LEMMA BuildsMoveOfRegisters ==
    ASSUME NEW a, NEW size \in AllSizes, NEW d \in Registry, NEW e \in Registry,
           MovesRight(size, d, e), size # D64,
           a[1] = size, a[2] = REG, a[3] = d, a[4] = REG, a[5] = e
    PROVE  Makes(build_move(a),
                 PrefixOf(size, upper(d), upper(e), size = D8 /\ front(d))
                     \o <<\h88 + B(size # D8), mc0(d, e)>>,
                 NoField)
<1> DEFINE plain == size = D8 /\ front(d)
           p == PrefixOf(size, upper(d), upper(e), plain)
           opcode == \h88 + B(size # D8)
           m == mc0(d, e)
<1>1. /\ upper(d) \in BOOLEAN /\ upper(e) \in BOOLEAN
      /\ plain \in BOOLEAN
      /\ plain => ~upper(d) /\ ~upper(e) /\ size # D64
  BY RegisterNumbers, RexOfMove
<1>2. short_prefix(size) \o long_prefix(size, REG, d, REG, e) \o inset(plain, \h40) = p
  <2> DEFINE b == upper(d)
             r == upper(e)
  <2>1. Prefixing(size, REG, d, REG, e, b, r, plain)
    BY <1>1 DEF Prefixing
  <2> HIDE DEF b, r, plain
  <2>2. MadePrefix(size, REG, d, REG, e, plain) = PrefixOf(size, b, r, plain)
    BY <2>1, PrefixBuilt
  <2>3. QED
    BY <2>2 DEF b, r, MadePrefix
<1>3. p \in Seq(Byte)
  BY <1>1, PrefixType
<1>4. opcode \in Byte /\ m \in Byte
  <2>1. m \in Byte
    BY ModRMOfTwo
  <2>2. opcode \in Byte
    BY DEF Byte, B
  <2>3. QED
    BY <2>1, <2>2
<1> DEFINE prefix == short_prefix(size) \o long_prefix(size, REG, d, REG, e) \o inset(plain, \h40)
           other == \hb0 + (8 * B(size # D8)) + (d % 8)
           wide == size = D64
<1>5. build_move(a).head =
        prefix \o inset(transfer(REG, REG) \/ export(REG, REG), opcode)
        \o inset(import(REG, REG), \h8a + B(size # D8))
        \o modify_memory(d, REG, REG) \o modify_memory(e, REG, REG)
        \o inset(transfer(REG, REG), m)
        \o inset(REG = REG /\ REG \in {IMM, REL}, other)
        \o inset(assign(REG, REG), \hc6 + B(size # D8)) \o inset(assign(REG, REG), 5)
        \o inset_immediate(attach(REG, REG), IF wide THEN D32 ELSE size, e)
        \o inset_immediate(attach(REG, REG) /\ wide, D32, a[6])
        \o inset_immediate(attach(REG, REG) /\ wide, D32, 0)
  <2>1. build_move(a).head = MoveHead(size, REG, d, REG, e, a[6])
    BY BuildsMove, BuiltParts
  <2>2. QED
    BY <2>1 DEF MoveHead
<1> HIDE DEF prefix, other, opcode, m, p
<1>6. /\ transfer(REG, REG) = TRUE /\ export(REG, REG) = FALSE /\ import(REG, REG) = FALSE
      /\ attach(REG, REG) = FALSE /\ assign(REG, REG) = FALSE /\ REG \notin {IMM, REL}
  BY DEF transfer, export, import, attach, assign, REG, MEM, IMM, REL
<1>7. /\ inset(transfer(REG, REG) \/ export(REG, REG), opcode) = <<opcode>>
      /\ inset(transfer(REG, REG), m) = <<m>>
  BY <1>4, <1>6, ThatByte
<1>8. /\ inset(import(REG, REG), \h8a + B(size # D8)) = <<>>
      /\ inset(REG = REG /\ REG \in {IMM, REL}, other) = <<>>
      /\ inset(assign(REG, REG), \hc6 + B(size # D8)) = <<>> /\ inset(assign(REG, REG), 5) = <<>>
  BY <1>6 DEF inset
<1>9. modify_memory(d, REG, REG) = <<>> /\ modify_memory(e, REG, REG) = <<>>
  BY <1>6 DEF modify_memory, inset
<1>10. /\ inset_immediate(attach(REG, REG), IF wide THEN D32 ELSE size, e) = <<>>
       /\ inset_immediate(attach(REG, REG) /\ wide, D32, a[6]) = <<>>
       /\ inset_immediate(attach(REG, REG) /\ wide, D32, 0) = <<>>
  BY <1>6 DEF inset_immediate
<1>11. build_move(a).head = p \o <<opcode, m>>
  <2>1. prefix = p
    BY <1>2 DEF prefix
  <2>2. build_move(a).head =
            p \o <<opcode>> \o <<>> \o <<>> \o <<>> \o <<m>>
              \o <<>> \o <<>> \o <<>> \o <<>> \o <<>> \o <<>>
    BY <1>5, <1>7, <1>8, <1>9, <1>10, <2>1, Zenon
  <2>3. QED
    BY <1>3, <1>4, <2>2, MovedBetween
<1>12. build_move(a).field = NoField /\ build_move(a).tail = <<>>
  BY DEF build_move, Built, MemoryField, import, export, assign, relate, inset_immediate,
         REG, MEM, IMM, REL
<1>13. QED
  BY <1>11, <1>12 DEF Makes, p, opcode, m

\* An immediate is there at once; an address is a field.
Attached(size, from, data) == IF from = IMM THEN BytesOfSize(size, data) ELSE <<>>
Related(from, data)        == IF from = IMM THEN NoField ELSE Field(D32, data, "data")

LEMMA BuildsMoveInto ==
    ASSUME NEW a, NEW size \in {D8, D16, D32}, NEW d \in Registry, NEW from \in {IMM, REL},
           NEW data \in Int,
           a[1] = size, a[2] = REG, a[3] = d, a[4] = from, a[5] = data
    PROVE  Makes(build_move(a),
                 PrefixOf(size, upper(d), FALSE, size = D8 /\ front(d))
                     \o (<<MoveByte(size, d)>> \o Attached(size, from, data)),
                 Related(from, data))
<1> DEFINE plain == size = D8 /\ front(d)
           p == PrefixOf(size, upper(d), FALSE, plain)
           opcode == MoveByte(size, d)
           bytes == Attached(size, from, data)
<1>1. /\ upper(d) \in BOOLEAN
      /\ plain \in BOOLEAN
      /\ plain => ~upper(d) /\ size # D64
  <2>1. /\ lower(d) <=> ~upper(d)
        /\ front(d) => lower(d)
        /\ upper(d) \in BOOLEAN
    BY RegisterNumbers
  <2>2. D8 # D64
    BY DEF D8, D64
  <2>3. QED
    BY <2>1, <2>2
<1>2. size \in AllSizes /\ size # D64
  BY DEF AllSizes, D8, D16, D32, D64
<1>3. short_prefix(size) \o long_prefix(size, REG, d, from, data) \o inset(plain, \h40) = p
  <2> DEFINE b == upper(d)
             r == FALSE
  <2>1. Prefixing(size, REG, d, from, data, b, r, plain)
    BY <1>1, <1>2 DEF Prefixing, REG, IMM, REL
  <2> HIDE DEF b, r, plain
  <2>2. MadePrefix(size, REG, d, from, data, plain) = PrefixOf(size, b, r, plain)
    BY <2>1, PrefixBuilt
  <2>3. QED
    BY <2>2 DEF b, r, MadePrefix
<1>4. p \in Seq(Byte)
  BY <1>1, <1>2, PrefixType
<1>5. opcode \in Byte
  BY MoveBytes
<1> DEFINE prefix == short_prefix(size) \o long_prefix(size, REG, d, from, data)
                         \o inset(plain, \h40)
           first == \h88 + B(size # D8)
           wide == size = D64
<1>6. build_move(a).head =
        prefix \o inset(transfer(REG, from) \/ export(REG, from), first)
        \o inset(import(REG, from), \h8a + B(size # D8))
        \o modify_memory(d, REG, from) \o modify_memory(data, REG, from)
        \o inset(transfer(REG, from), mc0(d, data))
        \o inset(REG = REG /\ from \in {IMM, REL}, opcode)
        \o inset(assign(REG, from), \hc6 + B(size # D8)) \o inset(assign(REG, from), 5)
        \o inset_immediate(attach(REG, from), IF wide THEN D32 ELSE size, data)
        \o inset_immediate(attach(REG, from) /\ wide, D32, a[6])
        \o inset_immediate(attach(REG, from) /\ wide, D32, 0)
  <2>1. build_move(a).head = MoveHead(size, REG, d, from, data, a[6])
    BY BuildsMove, BuiltParts
  <2>2. QED
    BY <2>1 DEF MoveHead, MoveByte
<1>7. /\ transfer(REG, from) = FALSE /\ export(REG, from) = FALSE /\ import(REG, from) = FALSE
      /\ assign(REG, from) = FALSE /\ (REG = REG /\ from \in {IMM, REL}) = TRUE
      /\ wide = FALSE /\ attach(REG, from) = (from = IMM)
  BY <1>2 DEF transfer, export, import, attach, assign, REG, MEM, IMM, REL
<1>8. bytes \in Seq(Byte) /\ inset_immediate(attach(REG, from), size, data) = bytes
  <2>1. CASE from = IMM
    BY <1>7, <2>1, SizedBytes DEF Attached
  <2>2. CASE from # IMM
    <3>1. ~attach(REG, from)
      BY <2>2 DEF attach
    <3>2. bytes = <<>> /\ <<>> \in Seq(Byte)
      BY <2>2 DEF Attached
    <3>3. inset_immediate(attach(REG, from), size, data) = <<>>
      BY <3>1 DEF inset_immediate
    <3>4. QED
      BY <3>2, <3>3
  <2>3. QED
    BY <2>1, <2>2
<1>9. (IF wide THEN D32 ELSE size) = size
  BY <1>2
<1> HIDE DEF prefix, first, opcode, p, wide, bytes
<1>10. inset(REG = REG /\ from \in {IMM, REL}, opcode) = <<opcode>>
  BY <1>5, <1>7, ThatByte
<1>11. /\ inset(transfer(REG, from) \/ export(REG, from), first) = <<>>
       /\ inset(import(REG, from), \h8a + B(size # D8)) = <<>>
       /\ inset(transfer(REG, from), mc0(d, data)) = <<>>
       /\ inset(assign(REG, from), \hc6 + B(size # D8)) = <<>> /\ inset(assign(REG, from), 5) = <<>>
  BY <1>7 DEF inset
<1>12. modify_memory(d, REG, from) = <<>> /\ modify_memory(data, REG, from) = <<>>
  BY <1>7 DEF modify_memory, inset
<1>13. /\ inset_immediate(attach(REG, from), IF wide THEN D32 ELSE size, data) = bytes
       /\ inset_immediate(attach(REG, from) /\ wide, D32, a[6]) = <<>>
       /\ inset_immediate(attach(REG, from) /\ wide, D32, 0) = <<>>
  <2>1. inset_immediate(attach(REG, from), IF wide THEN D32 ELSE size, data) = bytes
    BY <1>8, <1>9
  <2>2. /\ inset_immediate(attach(REG, from) /\ wide, D32, a[6]) = <<>>
        /\ inset_immediate(attach(REG, from) /\ wide, D32, 0) = <<>>
    BY <1>7 DEF inset_immediate
  <2>3. QED
    BY <2>1, <2>2
<1>14. build_move(a).head = p \o (<<opcode>> \o bytes)
  <2>1. prefix = p
    BY <1>3 DEF prefix
  <2>2. build_move(a).head =
            p \o <<>> \o <<>> \o <<>> \o <<>> \o <<>> \o <<opcode>> \o <<>> \o <<>> \o bytes
              \o <<>> \o <<>>
    BY <1>6, <1>10, <1>11, <1>12, <1>13, <2>1, Zenon
  <2>3. QED
    BY <1>4, <1>5, <1>8, <2>2, MovedInto
<1>15. build_move(a).field = Related(from, data) /\ build_move(a).tail = <<>>
  BY DEF build_move, Built, MemoryField, import, export, assign, relate, inset_immediate,
         Related, REG, MEM, IMM, REL
<1>16. QED
  BY <1>14, <1>15 DEF Makes, p, opcode, bytes

\* The code of build_single, of the values of its tokens.
SingleHead(operation, size, to, destination) ==
    short_prefix(size) \o long_prefix(size, to, destination, 0, 0)
    \o inset(size = D8 /\ to = REG /\ front(destination), \h40)
    \o <<\hf7 + (8 * B(IsStep(operation))) - B(size = D8)>>
    \o inset(to = REG, \hc0 + (8 * (operation - INC)) + (destination % 8))
    \o inset(to = MEM, 5 + (8 * (operation - INC)))

LEMMA BuildsSingle ==
    ASSUME NEW a
    PROVE  build_single(a) =
               Built(SingleHead(a[0], a[1], a[2], a[3]), OneField(a[2], a[3], "relative"), <<>>, 3)
BY DEF build_single, SingleHead

LEMMA BehindOne ==
    ASSUME NEW p \in Seq(Byte), NEW x \in Byte, NEW y \in Byte
    PROVE  /\ p \o <<x>> \o <<y>> \o <<>> = p \o (<<x>> \o (<<y>> \o <<>>))
           /\ p \o <<x>> \o <<>> \o <<y>> = p \o (<<x>> \o (<<y>> \o <<>>))
<1> DEFINE u == <<x>>
           v == <<y>>
           w == p \o u
<1>1. u \in Seq(Byte) /\ v \in Seq(Byte)
  OBVIOUS
<1> HIDE DEF u, v
<1>2. w \in Seq(Byte)
  BY <1>1
<1>3. w \o v = p \o (u \o v)
  BY <1>1, Joining
<1> HIDE DEF w
<1>4. w \o v \in Seq(Byte)
  BY <1>1, <1>2
<1>5. w \o <<>> = w /\ v \o <<>> = v /\ (w \o v) \o <<>> = w \o v
  BY <1>1, <1>2, <1>4, Joining
<1>6. w \o v \o <<>> = p \o (u \o (v \o <<>>)) /\ w \o <<>> \o v = p \o (u \o (v \o <<>>))
  BY <1>3, <1>5
<1>7. QED
  BY <1>6 DEF u, v, w

LEMMA BuildsOneRegister ==
    ASSUME NEW a, NEW operation \in INC .. IDIV, NEW size \in AllSizes, NEW d \in Registry,
           a[0] = operation, a[1] = size, a[2] = REG, a[3] = d
    PROVE  Makes(build_single(a),
                 PrefixOf(size, upper(d), FALSE, size = D8 /\ front(d))
                     \o (<<OneOpcode(operation, size)>>
                             \o (<<GroupByte(d, operation - INC)>> \o <<>>)),
                 NoField)
<1> DEFINE plain == size = D8 /\ front(d)
           p == PrefixOf(size, upper(d), FALSE, plain)
           opcode == OneOpcode(operation, size)
           m == GroupByte(d, operation - INC)
<1>1. /\ upper(d) \in BOOLEAN
      /\ plain \in BOOLEAN
      /\ plain => ~upper(d) /\ size # D64
  <2>1. /\ lower(d) <=> ~upper(d)
        /\ front(d) => lower(d)
        /\ upper(d) \in BOOLEAN
    BY RegisterNumbers
  <2>2. D8 # D64
    BY DEF D8, D64
  <2>3. QED
    BY <2>1, <2>2
<1>2. short_prefix(size) \o long_prefix(size, REG, d, 0, 0) \o inset(plain, \h40) = p
  <2> DEFINE b == upper(d)
             r == FALSE
  <2>1. Prefixing(size, REG, d, 0, 0, b, r, plain)
    BY <1>1 DEF Prefixing, REG
  <2> HIDE DEF b, r, plain
  <2>2. MadePrefix(size, REG, d, 0, 0, plain) = PrefixOf(size, b, r, plain)
    BY <2>1, PrefixBuilt
  <2>3. QED
    BY <2>2 DEF b, r, MadePrefix
<1>3. p \in Seq(Byte)
  BY <1>1, PrefixType
<1>4. opcode \in Byte /\ m \in Byte
  <2>1. operation - INC \in 0 .. 7
    BY DEF INC, IDIV
  <2>2. QED
    BY <2>1, OneOpens, GroupBytes
<1> DEFINE prefix == short_prefix(size) \o long_prefix(size, REG, d, 0, 0) \o inset(plain, \h40)
           last == 5 + (8 * (operation - INC))
<1>5. build_single(a).head =
        prefix \o <<opcode>> \o inset(TRUE, m) \o inset(FALSE, last)
  <2>1. build_single(a).head = SingleHead(operation, size, REG, d)
    BY BuildsSingle, BuiltParts
  <2>2. (REG = REG) = TRUE /\ (REG = MEM) = FALSE /\ (size = D8 /\ REG = REG /\ front(d)) = plain
    BY DEF REG, MEM
  <2>3. m = \hc0 + (8 * (operation - INC)) + (d % 8)
    <3> DEFINE q == d % 8
               g == operation - INC
    <3>1. q \in Int /\ g \in Int
      BY RegisterNumbers DEF INC, IDIV
    <3> HIDE DEF q, g
    <3>2. 192 + q + (8 * g) = \hc0 + (8 * g) + q
      BY <3>1
    <3>3. QED
      BY <3>2 DEF GroupByte, q, g
  <2> HIDE DEF m
  <2>4. QED
    BY <2>1, <2>2, <2>3 DEF SingleHead, OneOpcode
<1> HIDE DEF prefix, opcode, m, p, last
<1>6. inset(TRUE, m) = <<m>> /\ inset(FALSE, last) = <<>>
  BY <1>4, ThatByte, NoByte
<1>7. build_single(a).head = p \o (<<opcode>> \o (<<m>> \o <<>>))
  <2>1. build_single(a).head = p \o <<opcode>> \o <<m>> \o <<>>
    BY <1>2, <1>5, <1>6 DEF prefix
  <2>2. QED
    BY <1>3, <1>4, <2>1, BehindOne
<1>8. build_single(a).field = NoField /\ build_single(a).tail = <<>>
  BY DEF build_single, Built, OneField, REG, MEM
<1>9. QED
  BY <1>7, <1>8 DEF Makes, p, opcode, m

LEMMA BuildsOneMemory ==
    ASSUME NEW a, NEW operation \in INC .. IDIV, NEW size \in AllSizes, NEW id,
           a[0] = operation, a[1] = size, a[2] = MEM, a[3] = id
    PROVE  Makes(build_single(a),
                 PrefixOf(size, FALSE, FALSE, FALSE)
                     \o (<<OneOpcode(operation, size)>> \o (<<m05(operation - INC)>> \o <<>>)),
                 Field(D32, id, "relative"))
<1> DEFINE p == PrefixOf(size, FALSE, FALSE, FALSE)
           opcode == OneOpcode(operation, size)
           m == m05(operation - INC)
<1>1. short_prefix(size) \o long_prefix(size, MEM, id, 0, 0) \o inset(FALSE, \h40) = p
  <2> DEFINE none == FALSE
  <2>1. Prefixing(size, MEM, id, 0, 0, none, none, none)
    BY DEF Prefixing, REG, MEM
  <2> HIDE DEF none
  <2>2. MadePrefix(size, MEM, id, 0, 0, none) = PrefixOf(size, none, none, none)
    BY <2>1, PrefixBuilt
  <2>3. QED
    BY <2>2 DEF none, MadePrefix
<1>2. p \in Seq(Byte)
  BY PrefixType
<1>3. opcode \in Byte /\ m \in Byte
  <2>1. operation - INC \in 0 .. 7
    BY DEF INC, IDIV
  <2>2. QED
    BY <2>1, OneOpens, MemoryBytes
<1> DEFINE prefix == short_prefix(size) \o long_prefix(size, MEM, id, 0, 0) \o inset(FALSE, \h40)
           other == \hc0 + (8 * (operation - INC)) + (id % 8)
<1>4. build_single(a).head =
        prefix \o <<opcode>> \o inset(FALSE, other) \o inset(TRUE, m)
  <2>1. build_single(a).head = SingleHead(operation, size, MEM, id)
    BY BuildsSingle, BuiltParts
  <2>2. (MEM = MEM) = TRUE /\ (MEM = REG) = FALSE /\ (size = D8 /\ MEM = REG /\ front(id)) = FALSE
    BY DEF REG, MEM
  <2>3. QED
    BY <2>1, <2>2 DEF SingleHead, OneOpcode, m05
<1> HIDE DEF prefix, opcode, m, p, other
<1>5. inset(FALSE, other) = <<>> /\ inset(TRUE, m) = <<m>>
  BY <1>3, ThatByte, NoByte
<1>6. build_single(a).head = p \o (<<opcode>> \o (<<m>> \o <<>>))
  <2>1. build_single(a).head = p \o <<opcode>> \o <<>> \o <<m>>
    BY <1>1, <1>4, <1>5 DEF prefix
  <2>2. QED
    BY <1>2, <1>3, <2>1, BehindOne
<1>7. build_single(a).field = Field(D32, id, "relative") /\ build_single(a).tail = <<>>
  BY DEF build_single, Built, OneField
<1>8. QED
  BY <1>6, <1>7 DEF Makes, p, opcode, m

-----------------------------------------------------------------------------
(***************************************************************************)
(* Pushes, pops and jumps.                                                 *)
(***************************************************************************)
LEMMA StackPrefix ==
    ASSUME NEW size \in {D16, D64}, NEW d \in Registry
    PROVE  /\ short_prefix(size) \o inset(upper(d), \h41)
                  = PrefixOf(StackSize(size), upper(d), FALSE, FALSE)
           /\ PrefixOf(StackSize(size), upper(d), FALSE, FALSE) \in Seq(Byte)
<1> DEFINE s == StackSize(size)
           b == upper(d)
<1>1. s \in AllSizes /\ (s = D16 <=> size = D16) /\ s # D64
  BY DEF StackSize, AllSizes, D8, D16, D32, D64
<1>2. b \in BOOLEAN
  BY RegisterNumbers
<1> HIDE DEF s, b
<1>3. RexOf(s, b, FALSE, FALSE) = IF b THEN \h41 ELSE 0
  BY <1>1, <1>2 DEF RexOf, B
<1>4. short_prefix(size) = OneOf(HalfOf(s) = 1, \h66)
  <2>1. (HalfOf(s) = 1) = (size = D16)
    BY <1>1, HalfIs
  <2>2. short_prefix(size) = inset(size = D16, \h66) /\ \h66 \in Byte /\ (size = D16) \in BOOLEAN
    BY DEF short_prefix, Byte
  <2>3. inset(size = D16, \h66) = OneOf(size = D16, \h66)
    BY <2>2, Insets
  <2>4. QED
    BY <2>1, <2>2, <2>3
<1>5. inset(b, \h41) = OneOf(RexOf(s, b, FALSE, FALSE) # 0, RexOf(s, b, FALSE, FALSE))
  <2>1. \h41 \in Byte
    BY DEF Byte
  <2>2. CASE b
    <3>1. inset(b, \h41) = <<\h41>>
      BY <2>2 DEF inset
    <3>2. RexOf(s, b, FALSE, FALSE) = \h41
      BY <1>3, <2>2
    <3> HIDE DEF b, s
    <3>3. \A rex : rex = \h41 => OneOf(rex # 0, rex) = <<\h41>>
      BY DEF OneOf
    <3>4. QED
      BY <3>1, <3>2, <3>3
  <2>3. CASE ~b
    BY <1>3, <2>3 DEF OneOf, inset
  <2>4. QED
    BY <2>2, <2>3
<1>6. PrefixOf(s, b, FALSE, FALSE) \in Seq(Byte)
  BY <1>1, <1>2, PrefixType
<1>7. short_prefix(size) \o inset(b, \h41) = PrefixOf(s, b, FALSE, FALSE)
  BY <1>4, <1>5 DEF PrefixOf
<1>8. QED
  BY <1>6, <1>7 DEF s, b

LEMMA BehindNone ==
    ASSUME NEW p \in Seq(Byte), NEW x \in Byte
    PROVE  /\ p \o <<x>> \o <<>> \o <<>> = p \o (<<x>> \o <<>>)
           /\ p \o <<x>> \o <<>> \o <<>> \o <<>> \o <<>> = p \o (<<x>> \o <<>>)
<1> DEFINE u == <<x>>
           w == p \o u
<1>1. u \in Seq(Byte)
  OBVIOUS
<1> HIDE DEF u
<1>2. w \in Seq(Byte) /\ u \o <<>> = u
  BY <1>1, Joining
<1>3. w = p \o (u \o <<>>)
  BY <1>2
<1> HIDE DEF w
<1>4. w \o <<>> = w
  BY <1>2, Joining
<1>5. w \o <<>> \o <<>> = w /\ w \o <<>> \o <<>> \o <<>> \o <<>> = w
  BY <1>4
<1>6. QED
  BY <1>3, <1>5 DEF u, w

LEMMA BuildsPop ==
    ASSUME NEW a, NEW size \in {D16, D64}, NEW d \in Registry,
           a[1] = size, a[2] = REG, a[3] = d
    PROVE  Makes(build_pop(a),
                 PrefixOf(StackSize(size), upper(d), FALSE, FALSE)
                     \o (<<StackByte(POP, d)>> \o <<>>),
                 NoField)
<1> DEFINE p == PrefixOf(StackSize(size), upper(d), FALSE, FALSE)
           opcode == StackByte(POP, d)
<1>1. /\ (REG = REG /\ upper(d)) = upper(d) /\ (REG = REG) = TRUE /\ (REG = MEM) = FALSE
  <2>1. upper(d) \in BOOLEAN
    BY RegisterNumbers
  <2>2. QED
    BY <2>1 DEF REG, MEM
<1>2. short_prefix(size) \o inset(upper(d), \h41) = p /\ p \in Seq(Byte)
  BY StackPrefix
<1>3. opcode \in Byte /\ opcode = \h58 + (d % 8)
  <2>1. POP # PUSH
    BY DEF POP, PUSH
  <2>2. QED
    BY <2>1, StackBytes DEF StackByte
<1>4. build_pop(a).head =
        short_prefix(size) \o inset(REG = REG /\ upper(d), \h41)
        \o inset(REG = REG, \h58 + (d % 8))
        \o inset(REG = MEM, \h8f) \o inset(REG = MEM, 5)
  BY DEF build_pop, Built
<1> HIDE DEF p, opcode
<1>5. inset(TRUE, opcode) = <<opcode>> /\ inset(FALSE, \h8f) = <<>> /\ inset(FALSE, 5) = <<>>
  BY <1>3, ThatByte, NoByte
<1>6. build_pop(a).head = p \o <<opcode>> \o <<>> \o <<>>
  BY <1>1, <1>2, <1>3, <1>4, <1>5
<1>7. build_pop(a).head = p \o (<<opcode>> \o <<>>)
  BY <1>2, <1>3, <1>6, BehindNone
<1>8. build_pop(a).field = NoField /\ build_pop(a).tail = <<>>
  BY DEF build_pop, Built, OneField, REG, MEM
<1>9. QED
  BY <1>7, <1>8 DEF Makes, p, opcode

LEMMA BuildsPush ==
    ASSUME NEW a, NEW size \in {D16, D64}, NEW d \in Registry,
           a[1] = size, a[2] = REG, a[3] = d
    PROVE  Makes(build_push(a),
                 PrefixOf(StackSize(size), upper(d), FALSE, FALSE)
                     \o (<<StackByte(PUSH, d)>> \o <<>>),
                 NoField)
<1> DEFINE p == PrefixOf(StackSize(size), upper(d), FALSE, FALSE)
           opcode == StackByte(PUSH, d)
           other == \h68 + (2 * B(size = D8))
<1>1. /\ (REG = REG /\ upper(d)) = upper(d) /\ (REG = REG) = TRUE /\ (REG = MEM) = FALSE
      /\ (REG = IMM) = FALSE
  <2>1. upper(d) \in BOOLEAN
    BY RegisterNumbers
  <2>2. QED
    BY <2>1 DEF REG, MEM, IMM
<1>2. short_prefix(size) \o inset(upper(d), \h41) = p /\ p \in Seq(Byte)
  BY StackPrefix
<1>3. opcode \in Byte /\ opcode = \h50 + (d % 8)
  BY StackBytes DEF StackByte
<1>4. build_push(a).head =
        short_prefix(size) \o inset(REG = REG /\ upper(d), \h41)
        \o inset(REG = REG, \h50 + (d % 8))
        \o inset(REG = MEM, \hff) \o inset(REG = MEM, \h35) \o inset(REG = IMM, other)
        \o inset_immediate(REG = IMM, size, d)
  BY DEF build_push, Built
<1> HIDE DEF p, opcode, other
<1>5. /\ inset(TRUE, opcode) = <<opcode>> /\ inset(FALSE, \hff) = <<>>
      /\ inset(FALSE, \h35) = <<>> /\ inset(FALSE, other) = <<>>
  BY <1>3, ThatByte, NoByte
<1>6. inset_immediate(REG = IMM, size, d) = <<>>
  BY <1>1 DEF inset_immediate
<1>7. build_push(a).head = p \o <<opcode>> \o <<>> \o <<>> \o <<>> \o <<>>
  BY <1>1, <1>2, <1>3, <1>4, <1>5, <1>6
<1>8. build_push(a).head = p \o (<<opcode>> \o <<>>)
  BY <1>2, <1>3, <1>7, BehindNone
<1>9. build_push(a).field = NoField /\ build_push(a).tail = <<>>
  BY DEF build_push, Built, OneField, REG, MEM
<1>10. QED
  BY <1>8, <1>9 DEF Makes, p, opcode

LEMMA BuildsJump ==
    ASSUME NEW a, NEW id, a[1] = D32, a[2] = REL, a[3] = id
    PROVE  Makes(build_jump(a), <<\he9>>, Field(D32, id, "unsorted"))
<1>1. \he9 \in Byte /\ B(D32 = D8) = 0
  BY DEF Byte, B, D8, D32
<1>2. build_jump(a).head =
        inset(REL = REG /\ upper(id), \h41) \o inset(REL = REL, \he9 + (2 * B(D32 = D8)))
        \o inset(REL \in {REG, MEM}, \hff)
        \o inset(REL = REG, \he0 + (id % 8)) \o inset(REL = MEM, \h25)
  BY DEF build_jump, Built
<1>3. /\ inset(REL = REG /\ upper(id), \h41) = <<>> /\ inset(REL \in {REG, MEM}, \hff) = <<>>
      /\ inset(REL = REG, \he0 + (id % 8)) = <<>> /\ inset(REL = MEM, \h25) = <<>>
  BY DEF inset, REL, REG, MEM
<1>4. inset(REL = REL, \he9 + (2 * B(D32 = D8))) = <<\he9>>
  BY <1>1 DEF inset
<1>5. build_jump(a).head = <<\he9>>
  <2>1. build_jump(a).head = <<>> \o <<\he9>> \o <<>> \o <<>> \o <<>>
    BY <1>2, <1>3, <1>4, Zenon
  <2> DEFINE u == <<\he9>>
  <2>2. u \in Seq(Byte)
    BY <1>1
  <2> HIDE DEF u
  <2>3. <<>> \o u = u /\ u \o <<>> = u
    BY <2>2, Joining
  <2>4. <<>> \o u \o <<>> \o <<>> \o <<>> = u
    BY <2>3
  <2>5. QED
    BY <2>1, <2>4 DEF u
<1>6. build_jump(a).field = Field(D32, id, "unsorted") /\ build_jump(a).tail = <<>>
  BY DEF build_jump, Built
<1>7. QED
  BY <1>5, <1>6 DEF Makes

LEMMA BuildsCall ==
    ASSUME NEW a, NEW id, a[1] = REL, a[2] = id
    PROVE  Makes(build_call(a), <<\he8>>, Field(D32, id, "unsorted"))
<1>1. \he8 \in Byte
  BY DEF Byte
<1>2. build_call(a).head =
        inset(REL = REG /\ upper(id), \h41) \o inset(REL = REL, \he8)
        \o inset(REL = REG, \hff) \o inset(REL = REG, \hd0 + (id % 8))
  BY DEF build_call, Built
<1>3. /\ inset(REL = REG /\ upper(id), \h41) = <<>> /\ inset(REL = REG, \hff) = <<>>
      /\ inset(REL = REG, \hd0 + (id % 8)) = <<>>
  BY DEF inset, REL, REG
<1>4. inset(REL = REL, \he8) = <<\he8>>
  BY <1>1 DEF inset
<1>5. build_call(a).head = <<\he8>>
  <2>1. build_call(a).head = <<>> \o <<\he8>> \o <<>> \o <<>>
    BY <1>2, <1>3, <1>4, Zenon
  <2> DEFINE u == <<\he8>>
  <2>2. u \in Seq(Byte)
    BY <1>1
  <2> HIDE DEF u
  <2>3. <<>> \o u = u /\ u \o <<>> = u
    BY <2>2, Joining
  <2>4. <<>> \o u \o <<>> \o <<>> = u
    BY <2>3
  <2>5. QED
    BY <2>1, <2>4 DEF u
<1>6. build_call(a).field = Field(D32, id, "unsorted") /\ build_call(a).tail = <<>>
  BY DEF build_call, Built
<1>7. QED
  BY <1>5, <1>6 DEF Makes

LEMMA BuildsJumpIf ==
    ASSUME NEW a, NEW operation \in JO .. JG, NEW id, id # 0,
           a[0] = operation, a[1] = D32, a[3] = id
    PROVE  Makes(build_jump_if(a), <<\h0f>> \o (<<LongJump(operation)>> \o <<>>),
                 Field(D32, id, "unsorted"))
<1> DEFINE opcode == LongJump(operation)
<1>1. opcode \in Byte /\ \h0f \in Byte
  BY LongJumps DEF Byte
<1>2. build_jump_if(a).head = inset(far(id) /\ D32 = D32, \h0f) \o inset(far(id), opcode)
  BY DEF build_jump_if, Built, LongJump
<1>3. (far(id) /\ D32 = D32) = TRUE /\ far(id) = TRUE
  BY DEF far
<1> HIDE DEF opcode
<1>4. inset(TRUE, \h0f) = <<\h0f>> /\ inset(TRUE, opcode) = <<opcode>>
  BY <1>1, ThatByte
<1>5. <<opcode>> \o <<>> = <<opcode>>
  <2>1. <<opcode>> \in Seq(Byte)
    BY <1>1
  <2>2. QED
    BY <2>1, Joining
<1>6. build_jump_if(a).head = <<\h0f>> \o (<<opcode>> \o <<>>)
  BY <1>2, <1>3, <1>4, <1>5
<1>7. build_jump_if(a).field = Field(D32, id, "unsorted") /\ build_jump_if(a).tail = <<>>
  BY DEF build_jump_if, Built
<1>8. QED
  BY <1>6, <1>7 DEF Makes, opcode

LEMMA BuildsOneByte ==
    ASSUME NEW a, NEW operation \in OneByteOperations, a[0] = operation
    PROVE  Makes(build_static_1(a), <<StaticByte(operation)>> \o <<>>, NoField)
<1>1. StaticByte(operation) \in Byte
  BY OneByteOpens DEF Opens
<1>2. <<StaticByte(operation)>> \in Seq(Byte)
  BY <1>1
<1>3. <<StaticByte(operation)>> \o <<>> = <<StaticByte(operation)>>
  BY <1>2, Joining
<1>4. build_static_1(a).head = <<StaticByte(operation)>>
  BY DEF build_static_1, Built, StaticByte
<1>5. build_static_1(a).field = NoField /\ build_static_1(a).tail = <<>>
  BY DEF build_static_1, Built
<1>6. QED
  BY <1>3, <1>4, <1>5 DEF Makes

LEMMA BuildsTwoBytes ==
    ASSUME NEW a, NEW operation, a[0] = operation
    PROVE  Makes(build_static_2(a), StaticBytes(operation), NoField)
<1>1. build_static_2(a).head = inset_immediate(TRUE, D16, static_2[operation - SYSCALL + 1])
  BY DEF build_static_2, Built
<1>2. WidthOf(D16) = 2
  BY DEF WidthOf, D8, D16
<1>3. build_static_2(a).head = StaticBytes(operation)
  BY <1>1, <1>2 DEF inset_immediate, StaticBytes
<1>4. build_static_2(a).field = NoField /\ build_static_2(a).tail = <<>>
  BY DEF build_static_2, Built
<1>5. QED
  BY <1>3, <1>4 DEF Makes

-----------------------------------------------------------------------------
(***************************************************************************)
(* From the tokens to what the processor makes of the code, form by form.  *)
(***************************************************************************)
\* What a builder made is in the code at that offset, its field with the target added.
Emplaced(code, at, result, target) ==
    /\ Len(code) \in Nat /\ at \in Nat
    /\ Holds(code, at, result.head)
    /\ result.field # NoField =>
           Holds(code, at + Len(result.head),
                 LittleEndian(Base(result.field.base, at + Len(result.head)) + target))

\* And it is decoded as that, just as long as it is.
ReadAs(code, at, result, operation, size, operands) ==
    Decode(code, at)
        = instruction(operation, size, operands, Len(result.head) + result.field.width)

LEMMA Lengths ==
    ASSUME NEW p \in Seq(Byte), NEW x \in Byte
    PROVE  /\ Len(p \o (<<x>> \o <<>>)) = Len(p) + 1
           /\ \A y \in Byte : Len(p \o <<x, y>>) = Len(p) + 2
           /\ \A bytes \in Seq(Byte) : Len(p \o (<<x>> \o bytes)) = Len(p) + 1 + Len(bytes)
           /\ \A y \in Byte, bytes \in Seq(Byte) :
                  Len(p \o (<<x>> \o (<<y>> \o bytes))) = Len(p) + 2 + Len(bytes)
<1>1. \A y \in Byte, bytes \in Seq(Byte) :
          <<y>> \o bytes \in Seq(Byte) /\ Len(<<y>> \o bytes) = 1 + Len(bytes)
  BY Opening
<1>2. \A s, t \in Seq(Byte) : Len(s \o t) = Len(s) + Len(t) /\ Len(s) \in Nat
  OBVIOUS
<1>3. \A bytes \in Seq(Byte) : Len(p \o (<<x>> \o bytes)) = Len(p) + 1 + Len(bytes)
  BY <1>1, <1>2
<1>4. \A y \in Byte, bytes \in Seq(Byte) :
          Len(p \o (<<x>> \o (<<y>> \o bytes))) = Len(p) + 2 + Len(bytes)
  <2> TAKE y \in Byte, bytes \in Seq(Byte)
  <2> DEFINE q == <<y>> \o bytes
  <2>1. q \in Seq(Byte) /\ Len(q) = 1 + Len(bytes)
    BY <1>1
  <2> HIDE DEF q
  <2>2. Len(p \o (<<x>> \o q)) = Len(p) + 1 + Len(q)
    BY <1>3, <2>1
  <2>3. Len(p) \in Nat /\ Len(bytes) \in Nat
    OBVIOUS
  <2>4. Len(p \o (<<x>> \o q)) = Len(p) + 2 + Len(bytes)
    BY <2>1, <2>2, <2>3
  <2>5. QED
    BY <2>4 DEF q
<1>5. Len(p \o (<<x>> \o <<>>)) = Len(p) + 1
  <2>1. <<>> \in Seq(Byte) /\ Len(<<>>) = 0 /\ Len(p) \in Nat
    OBVIOUS
  <2>2. Len(p \o (<<x>> \o <<>>)) = Len(p) + 1 + Len(<<>>)
    BY <1>3, <2>1
  <2>3. QED
    BY <2>1, <2>2
<1>6. \A y \in Byte : Len(p \o <<x, y>>) = Len(p) + 2
  <2> TAKE y \in Byte
  <2>1. <<x, y>> \in Seq(Byte) /\ Len(<<x, y>>) = 2
    OBVIOUS
  <2>2. QED
    BY <1>2, <2>1
<1>7. QED
  BY <1>3, <1>4, <1>5, <1>6

LEMMA NothingBehind ==
    ASSUME NEW code, NEW at, NEW result, NEW target, NEW head, Makes(result, head, NoField),
           Emplaced(code, at, result, target)
    PROVE  /\ Len(code) \in Nat /\ at \in Nat /\ Holds(code, at, head)
           /\ result.head = head /\ result.field.width = 0
BY DEF Makes, Emplaced, NoField

LEMMA ReadsRegisters ==
    ASSUME NEW code, NEW at, NEW result, NEW target, Emplaced(code, at, result, target),
           NEW size \in AllSizes, NEW d \in Registry, NEW e \in Registry, NEW plain \in BOOLEAN,
           size = D8 /\ (front(d) \/ front(e)) => plain \/ upper(d) \/ upper(e),
           NEW operation, NEW opcode, Opcode2(operation, size, opcode),
           Makes(result, PrefixOf(size, upper(d), upper(e), plain) \o <<opcode, mc0(d, e)>>, NoField)
    PROVE  ReadAs(code, at, result, operation, size, <<Register(d), Register(e)>>)
<1> DEFINE p == PrefixOf(size, upper(d), upper(e), plain)
           head == p \o <<opcode, mc0(d, e)>>
<1>1. /\ Len(code) \in Nat /\ at \in Nat /\ Holds(code, at, head)
      /\ result.head = head /\ result.field.width = 0
  BY NothingBehind
<1>2. Decode(code, at) = instruction(operation, size, <<Register(d), Register(e)>>, Len(p) + 2)
  BY <1>1, DecodesRegisters
<1>3. p \in Seq(Byte) /\ opcode \in Byte /\ mc0(d, e) \in Byte
  <2>1. upper(d) \in BOOLEAN /\ upper(e) \in BOOLEAN
    BY RegisterNumbers
  <2>2. QED
    BY <2>1, PrefixType, OpcodeOfTwoOpens, ModRMOfTwo
<1> HIDE DEF p
<1>4. Len(head) = Len(p) + 2 /\ Len(p) \in Nat
  BY <1>3, Lengths
<1> HIDE DEF head
<1>5. Len(p) + 2 = Len(result.head) + result.field.width
  BY <1>1, <1>4
<1>6. QED
  BY <1>2, <1>5 DEF ReadAs

LEMMA ReadsImmediate ==
    ASSUME NEW code, NEW at, NEW result, NEW target, Emplaced(code, at, result, target),
           NEW size \in AllSizes, NEW d \in Registry, NEW plain \in BOOLEAN,
           size = D8 /\ front(d) => plain,
           NEW operation \in ADD .. CMP, NEW bytes \in Seq(Byte), Len(bytes) = WidthOf(size),
           Makes(result,
                 PrefixOf(size, upper(d), FALSE, plain)
                     \o (<<ImmediateOpcode(size)>> \o (<<GroupByte(d, operation - ADD)>> \o bytes)),
                 NoField)
    PROVE  ReadAs(code, at, result, operation, size, <<Register(d), Immediate(bytes)>>)
<1> DEFINE p == PrefixOf(size, upper(d), FALSE, plain)
           m == GroupByte(d, operation - ADD)
           head == p \o (<<ImmediateOpcode(size)>> \o (<<m>> \o bytes))
<1>1. /\ Len(code) \in Nat /\ at \in Nat /\ Holds(code, at, head)
      /\ result.head = head /\ result.field.width = 0
  BY NothingBehind
<1>2. Decode(code, at)
          = instruction(operation, size, <<Register(d), Immediate(bytes)>>, Len(p) + 2 + WidthOf(size))
  BY <1>1, DecodesImmediate
<1>3. p \in Seq(Byte) /\ ImmediateOpcode(size) \in Byte /\ m \in Byte
  <2>1. upper(d) \in BOOLEAN
    BY RegisterNumbers
  <2>2. operation - ADD \in 0 .. 7
    BY DEF ADD, CMP
  <2>3. QED
    BY <2>1, <2>2, PrefixType, ImmediateOpens, GroupBytes
<1> DEFINE opcode == ImmediateOpcode(size)
<1> HIDE DEF p, m
<1>4. Len(head) = Len(p) + 2 + Len(bytes) /\ Len(p) \in Nat /\ Len(bytes) \in Nat
  <2> HIDE DEF opcode
  <2>1. Len(p \o (<<opcode>> \o (<<m>> \o bytes))) = Len(p) + 2 + Len(bytes)
    <3>1. opcode \in Byte
      BY <1>3 DEF opcode
    <3>2. QED
      BY <1>3, <3>1, Lengths
  <2>2. QED
    BY <1>3, <2>1 DEF opcode
<1> HIDE DEF head
<1>5. Len(p) + 2 + WidthOf(size) = Len(result.head) + result.field.width
  BY <1>1, <1>4
<1>6. QED
  BY <1>2, <1>5 DEF ReadAs

LEMMA ReadsMoved ==
    ASSUME NEW code, NEW at, NEW result, NEW target, Emplaced(code, at, result, target),
           NEW size \in {D8, D16, D32}, NEW d \in Registry, NEW plain \in BOOLEAN,
           size = D8 /\ front(d) => plain,
           NEW bytes \in Seq(Byte), Len(bytes) = WidthOf(size),
           Makes(result, PrefixOf(size, upper(d), FALSE, plain) \o (<<MoveByte(size, d)>> \o bytes),
                 NoField)
    PROVE  ReadAs(code, at, result, MOV, size, <<Register(d), Immediate(bytes)>>)
<1> DEFINE p == PrefixOf(size, upper(d), FALSE, plain)
           head == p \o (<<MoveByte(size, d)>> \o bytes)
<1>1. /\ Len(code) \in Nat /\ at \in Nat /\ Holds(code, at, head)
      /\ result.head = head /\ result.field.width = 0
  BY NothingBehind
<1>2. Decode(code, at)
          = instruction(MOV, size, <<Register(d), Immediate(bytes)>>, Len(p) + 1 + WidthOf(size))
  BY <1>1, DecodesMove
<1>3. p \in Seq(Byte) /\ MoveByte(size, d) \in Byte
  <2>1. upper(d) \in BOOLEAN
    BY RegisterNumbers
  <2>2. size \in AllSizes
    BY DEF AllSizes
  <2>3. QED
    BY <2>1, <2>2, PrefixType, MoveBytes
<1> HIDE DEF p
<1>4. Len(head) = Len(p) + 1 + Len(bytes) /\ Len(p) \in Nat /\ Len(bytes) \in Nat
  BY <1>3, Lengths
<1> HIDE DEF head
<1>5. Len(p) + 1 + WidthOf(size) = Len(result.head) + result.field.width
  BY <1>1, <1>4
<1>6. QED
  BY <1>2, <1>5 DEF ReadAs

LEMMA ReadsOneRegister ==
    ASSUME NEW code, NEW at, NEW result, NEW target, Emplaced(code, at, result, target),
           NEW size \in AllSizes, NEW d \in Registry, NEW plain \in BOOLEAN,
           size = D8 /\ front(d) => plain, NEW operation \in INC .. IDIV,
           Makes(result,
                 PrefixOf(size, upper(d), FALSE, plain)
                     \o (<<OneOpcode(operation, size)>>
                             \o (<<GroupByte(d, operation - INC)>> \o <<>>)),
                 NoField)
    PROVE  ReadAs(code, at, result, operation, size, <<Register(d)>>)
<1> DEFINE p == PrefixOf(size, upper(d), FALSE, plain)
           m == GroupByte(d, operation - INC)
           head == p \o (<<OneOpcode(operation, size)>> \o (<<m>> \o <<>>))
<1>1. /\ Len(code) \in Nat /\ at \in Nat /\ Holds(code, at, head)
      /\ result.head = head /\ result.field.width = 0
  BY NothingBehind
<1>2. Decode(code, at) = instruction(operation, size, <<Register(d)>>, Len(p) + 2)
  BY <1>1, DecodesOneRegister
<1>3. p \in Seq(Byte) /\ OneOpcode(operation, size) \in Byte /\ m \in Byte
  <2>1. upper(d) \in BOOLEAN
    BY RegisterNumbers
  <2>2. operation - INC \in 0 .. 7
    BY DEF INC, IDIV
  <2>3. QED
    BY <2>1, <2>2, PrefixType, OneOpens, GroupBytes
<1> HIDE DEF p, m
<1>4. <<>> \in Seq(Byte) /\ Len(<<>>) = 0
  OBVIOUS
<1>5. Len(head) = Len(p) + 2 + Len(<<>>) /\ Len(p) \in Nat
  BY <1>3, <1>4, Lengths
<1> HIDE DEF head
<1>6. Len(p) + 2 = Len(result.head) + result.field.width
  BY <1>1, <1>4, <1>5
<1>7. QED
  BY <1>2, <1>6 DEF ReadAs

LEMMA ReadsStack ==
    ASSUME NEW code, NEW at, NEW result, NEW target, Emplaced(code, at, result, target),
           NEW size \in {D16, D64}, NEW d \in Registry, NEW operation \in {POP, PUSH},
           Makes(result,
                 PrefixOf(StackSize(size), upper(d), FALSE, FALSE)
                     \o (<<StackByte(operation, d)>> \o <<>>),
                 NoField)
    PROVE  ReadAs(code, at, result, operation, size, <<Register(d)>>)
<1> DEFINE p == PrefixOf(StackSize(size), upper(d), FALSE, FALSE)
           head == p \o (<<StackByte(operation, d)>> \o <<>>)
<1>1. /\ Len(code) \in Nat /\ at \in Nat /\ Holds(code, at, head)
      /\ result.head = head /\ result.field.width = 0
  BY NothingBehind
<1>2. Decode(code, at) = instruction(operation, size, <<Register(d)>>, Len(p) + 1)
  BY <1>1, DecodesStack
<1>3. p \in Seq(Byte) /\ StackByte(operation, d) \in Byte
  BY StackPrefix, StackBytes
<1> HIDE DEF p
<1>4. Len(head) = Len(p) + 1 /\ Len(p) \in Nat
  BY <1>3, Lengths
<1> HIDE DEF head
<1>5. Len(p) + 1 = Len(result.head) + result.field.width
  BY <1>1, <1>4
<1>6. QED
  BY <1>2, <1>5 DEF ReadAs

LEMMA ReadsOneByte ==
    ASSUME NEW code, NEW at, NEW result, NEW target, Emplaced(code, at, result, target),
           NEW operation \in OneByteOperations,
           Makes(result, <<StaticByte(operation)>> \o <<>>, NoField)
    PROVE  ReadAs(code, at, result, operation, D32, <<>>)
<1> DEFINE head == <<StaticByte(operation)>> \o <<>>
<1>1. /\ Len(code) \in Nat /\ at \in Nat /\ Holds(code, at, head)
      /\ result.head = head /\ result.field.width = 0
  BY NothingBehind
<1>2. Decode(code, at) = instruction(operation, D32, <<>>, 1)
  BY <1>1, DecodesOneByte
<1>3. Len(head) = 1
  <2>1. StaticByte(operation) \in Byte
    BY OneByteOpens DEF Opens
  <2>2. <<>> \in Seq(Byte) /\ Len(<<>>) = 0
    OBVIOUS
  <2>3. Len(head) = 1 + Len(<<>>)
    BY <2>1, <2>2, Opening
  <2>4. QED
    BY <2>2, <2>3
<1> HIDE DEF head
<1>4. 1 = Len(result.head) + result.field.width
  BY <1>1, <1>3
<1>5. QED
  BY <1>2, <1>4 DEF ReadAs

LEMMA ReadsTwoBytes ==
    ASSUME NEW code, NEW at, NEW result, NEW target, Emplaced(code, at, result, target),
           NEW operation \in TwoByteOperations, Makes(result, StaticBytes(operation), NoField)
    PROVE  ReadAs(code, at, result, operation, D32, <<>>)
<1>1. /\ Len(code) \in Nat /\ at \in Nat /\ Holds(code, at, StaticBytes(operation))
      /\ result.head = StaticBytes(operation) /\ result.field.width = 0
  BY NothingBehind
<1>2. /\ Len(StaticBytes(operation)) = 2
      /\ Decode(code, at) = instruction(operation, D32, <<>>, 2)
  <2>1. CASE operation \in FNOP .. FSCALE
    BY <1>1, <2>1, DecodesFloat
  <2>2. CASE operation \in {SYSCALL, CPUID}
    BY <1>1, <2>2, DecodesSystem
  <2>3. QED
    BY <2>1, <2>2 DEF TwoByteOperations
<1>3. 2 = Len(result.head) + result.field.width
  BY <1>1, <1>2
<1>4. QED
  BY <1>2, <1>3 DEF ReadAs

\* With the field in place, its bytes follow the others.
FieldBytesAre(bytes, base, at, head, target) ==
    bytes = LittleEndian(Base(base, at + Len(head)) + target)

LEMMA BaseNumber ==
    ASSUME NEW base \in {"relative", "unsorted", "data"}, NEW at \in Nat
    PROVE  Base(base, at) \in Int
BY DEF Base

LEMMA FieldDiffers ==
    ASSUME NEW id, NEW base
    PROVE  /\ Field(D32, id, base) # NoField
           /\ Field(D32, id, base).width = 4 /\ Field(D32, id, base).base = base
           /\ Field(D32, id, base).id = id
<1>1. WidthOf(D32) = 4
  BY DEF WidthOf, D8, D16, D32
<1>2. Field(D32, id, base).width = 4 /\ Field(D32, id, base).base = base
      /\ Field(D32, id, base).id = id
  BY <1>1 DEF Field
<1>3. NoField.width = 0
  BY DEF NoField
<1>4. QED
  BY <1>2, <1>3

LEMMA FieldBehind ==
    ASSUME NEW code, NEW at, NEW result, NEW target \in Nat, Emplaced(code, at, result, target),
           NEW head \in Seq(Byte), NEW id, NEW base \in {"relative", "unsorted", "data"},
           Makes(result, head, Field(D32, id, base)),
           NEW bytes, FieldBytesAre(bytes, base, at, head, target)
    PROVE  /\ Len(code) \in Nat /\ at \in Nat /\ Holds(code, at, head \o bytes)
           /\ result.head = head /\ result.field.width = 4
           /\ bytes \in Seq(Byte) /\ Len(bytes) = 4
<1>1. Len(code) \in Nat /\ at \in Nat /\ Holds(code, at, head) /\ result.head = head
  BY DEF Emplaced, Makes
<1>2. result.field # NoField /\ result.field.width = 4 /\ result.field.base = base
  BY FieldDiffers DEF Makes
<1>3. Len(head) \in Nat
  OBVIOUS
<1>4. Holds(code, at + Len(head), bytes)
  BY <1>1, <1>2 DEF Emplaced, FieldBytesAre
<1>5. bytes \in Seq(Byte) /\ Len(bytes) = 4
  <2>1. at + Len(head) \in Nat
    BY <1>1, <1>3
  <2>2. Base(base, at + Len(head)) + target \in Int
    BY <2>1, BaseNumber
  <2>3. QED
    BY <2>2, LittleEndianBytes DEF FieldBytesAre
<1>6. Holds(code, at, head \o bytes)
  BY <1>1, <1>4, <1>5, JoinHeld
<1>7. QED
  BY <1>1, <1>2, <1>5, <1>6

\* What follows the last of bytes that were put together.
LEMMA JoinedBehind ==
    ASSUME NEW p \in Seq(Byte), NEW x \in Byte, NEW bytes \in Seq(Byte)
    PROVE  /\ p \o (<<x>> \o <<>>) \in Seq(Byte)
           /\ (p \o (<<x>> \o <<>>)) \o bytes = p \o (<<x>> \o bytes)
           /\ \A y \in Byte :
                  /\ p \o (<<x>> \o (<<y>> \o <<>>)) \in Seq(Byte)
                  /\ (p \o (<<x>> \o (<<y>> \o <<>>))) \o bytes
                         = p \o (<<x>> \o (<<y>> \o bytes))
<1> DEFINE u == <<x>>
<1>1. u \in Seq(Byte)
  OBVIOUS
<1> HIDE DEF u
<1>2. u \o <<>> = u
  BY <1>1, Joining
<1>3. p \o u \in Seq(Byte) /\ (p \o u) \o bytes = p \o (u \o bytes)
  <2>1. p \o u \in Seq(Byte)
    BY <1>1
  <2>2. (p \o u) \o bytes = p \o (u \o bytes)
    BY <1>1, Joining
  <2>3. QED
    BY <2>1, <2>2
<1>4. ASSUME NEW y \in Byte
      PROVE  /\ p \o (u \o (<<y>> \o <<>>)) \in Seq(Byte)
             /\ (p \o (u \o (<<y>> \o <<>>))) \o bytes = p \o (u \o (<<y>> \o bytes))
  <2> DEFINE v == <<y>>
             q == u \o v
  <2>1. v \in Seq(Byte)
    OBVIOUS
  <2> HIDE DEF v
  <2>2. v \o <<>> = v /\ q \in Seq(Byte)
    BY <1>1, <2>1, Joining
  <2>3. q \o bytes = u \o (v \o bytes)
    BY <1>1, <2>1, Joining
  <2> HIDE DEF q
  <2>4. p \o q \in Seq(Byte) /\ (p \o q) \o bytes = p \o (q \o bytes)
    <3>1. p \o q \in Seq(Byte)
      BY <2>2
    <3>2. (p \o q) \o bytes = p \o (q \o bytes)
      BY <2>2, Joining
    <3>3. QED
      BY <3>1, <3>2
  <2>5. /\ p \o (u \o (v \o <<>>)) \in Seq(Byte)
        /\ (p \o (u \o (v \o <<>>))) \o bytes = p \o (u \o (v \o bytes))
    BY <2>2, <2>3, <2>4 DEF q
  <2>6. QED
    BY <2>5 DEF v
<1>5. QED
  BY <1>2, <1>3, <1>4 DEF u

LEMMA ReadsMovedAddress ==
    ASSUME NEW code, NEW at, NEW result, NEW target \in Nat, Emplaced(code, at, result, target),
           NEW d \in Registry, NEW id,
           Makes(result,
                 PrefixOf(D32, upper(d), FALSE, FALSE) \o (<<MoveByte(D32, d)>> \o <<>>),
                 Field(D32, id, "data"))
    PROVE  ReadAs(code, at, result, MOV, D32,
                  <<Register(d), Immediate(LittleEndian(DATA_START + target))>>)
<1> DEFINE p == PrefixOf(D32, upper(d), FALSE, FALSE)
           opcode == MoveByte(D32, d)
           head == p \o (<<opcode>> \o <<>>)
           bytes == LittleEndian(DATA_START + target)
           data == "data"
<1>1. p \in Seq(Byte) /\ opcode \in Byte
  <2>1. upper(d) \in BOOLEAN
    BY RegisterNumbers
  <2>2. D32 \in AllSizes
    BY DEF AllSizes
  <2>3. QED
    BY <2>1, <2>2, PrefixType, MoveBytes
<1>2. FieldBytesAre(bytes, data, at, head, target)
  BY DEF FieldBytesAre, Base, DATA_START
<1>3. Makes(result, head, Field(D32, id, data)) /\ data \in {"relative", "unsorted", "data"}
  OBVIOUS
<1> HIDE DEF p, opcode, bytes, data
<1>4. <<>> \in Seq(Byte) /\ head \in Seq(Byte)
  BY <1>1, JoinedBehind
<1> HIDE DEF head
<1>5. /\ Len(code) \in Nat /\ at \in Nat /\ Holds(code, at, head \o bytes)
      /\ result.head = head /\ result.field.width = 4
      /\ bytes \in Seq(Byte) /\ Len(bytes) = 4
  BY <1>2, <1>3, <1>4, FieldBehind
<1>6. head \o bytes = p \o (<<opcode>> \o bytes) /\ Len(head) = Len(p) + 1 /\ Len(p) \in Nat
  <2>1. head \o bytes = p \o (<<opcode>> \o bytes)
    BY <1>1, <1>5, JoinedBehind DEF head
  <2>2. Len(head) = Len(p) + 1 /\ Len(p) \in Nat
    BY <1>1, Lengths DEF head
  <2>3. QED
    BY <2>1, <2>2
<1>7. Decode(code, at) = instruction(MOV, D32, <<Register(d), Immediate(bytes)>>, Len(p) + 1 + 4)
  <2>1. WidthOf(D32) = 4 /\ D32 \in {D8, D16, D32} /\ D32 # D8
    BY DEF WidthOf, D8, D16, D32
  <2>2. Holds(code, at, PrefixOf(D32, upper(d), FALSE, FALSE) \o (<<MoveByte(D32, d)>> \o bytes))
    BY <1>5, <1>6 DEF p, opcode
  <2> DEFINE plain == FALSE
             size == D32
  <2>3. /\ plain \in BOOLEAN /\ size \in {D8, D16, D32} /\ (size = D8 /\ front(d) => plain)
        /\ Len(bytes) = WidthOf(size)
        /\ Holds(code, at, PrefixOf(size, upper(d), FALSE, plain) \o (<<MoveByte(size, d)>> \o bytes))
    BY <1>5, <2>1, <2>2
  <2> HIDE DEF plain, size
  <2>4. Decode(code, at) =
            instruction(MOV, size, <<Register(d), Immediate(bytes)>>,
                        Len(PrefixOf(size, upper(d), FALSE, plain)) + 1 + WidthOf(size))
    BY <1>5, <2>3, DecodesMove
  <2>5. QED
    BY <2>1, <2>4 DEF plain, size, p
<1>8. Len(p) + 1 + 4 = Len(result.head) + result.field.width
  BY <1>5, <1>6
<1>9. QED
  BY <1>7, <1>8 DEF ReadAs, bytes

\* Within code that is not long, everything is near.
LEMMA Nearer ==
    ASSUME NEW m \in Nat, NEW n, Near(n), m <= n
    PROVE  Near(m)
BY DEF Near

LEMMA ReadsOneMemory ==
    ASSUME NEW code, NEW at, NEW result, NEW target \in Nat, Emplaced(code, at, result, target),
           Near(Len(code)), Near(target),
           NEW size \in AllSizes, NEW operation \in INC .. IDIV, NEW id,
           Makes(result,
                 PrefixOf(size, FALSE, FALSE, FALSE)
                     \o (<<OneOpcode(operation, size)>> \o (<<m05(operation - INC)>> \o <<>>)),
                 Field(D32, id, "relative"))
    PROVE  ReadAs(code, at, result, operation, size, <<Memory(target)>>)
<1> DEFINE p == PrefixOf(size, FALSE, FALSE, FALSE)
           opcode == OneOpcode(operation, size)
           m == m05(operation - INC)
           head == p \o (<<opcode>> \o (<<m>> \o <<>>))
           n == Len(p)
           relative == "relative"
           bytes == LittleEndian(Base(relative, at + Len(head)) + target)
<1>1. p \in Seq(Byte) /\ opcode \in Byte /\ m \in Byte
  <2>1. operation - INC \in 0 .. 7
    BY DEF INC, IDIV
  <2>2. QED
    BY <2>1, PrefixType, OneOpens, MemoryBytes
<1>2. FieldBytesAre(bytes, relative, at, head, target)
  BY DEF FieldBytesAre
<1>3. /\ Makes(result, head, Field(D32, id, relative))
      /\ relative \in {"relative", "unsorted", "data"}
  OBVIOUS
<1> HIDE DEF p, opcode, m, bytes, relative
<1>4. <<>> \in Seq(Byte) /\ head \in Seq(Byte)
  BY <1>1, JoinedBehind
<1>5. Len(head) = n + 2 /\ n \in Nat
  <2>1. Len(head) = Len(p) + 2 + Len(<<>>)
    BY <1>1, <1>4, Lengths
  <2>2. Len(p) \in Nat /\ Len(<<>>) = 0
    BY <1>1
  <2>3. QED
    BY <2>1, <2>2
<1> HIDE DEF head
<1>6. /\ Len(code) \in Nat /\ at \in Nat /\ Holds(code, at, head \o bytes)
      /\ result.head = head /\ result.field.width = 4
      /\ bytes \in Seq(Byte) /\ Len(bytes) = 4
  BY <1>2, <1>3, <1>4, FieldBehind
<1>7. head \o bytes = p \o (<<opcode>> \o (<<m>> \o bytes))
  BY <1>1, <1>6, JoinedBehind DEF head
<1> HIDE DEF n
<1>8. at + Len(head) = at + n + 2
  BY <1>5, <1>6
<1>9. Near(at + n + 1)
  <2>1. at + Len(head) <= Len(code)
    <3>1. Holds(code, at, head)
      BY <1>6 DEF Emplaced
    <3>2. QED
      BY <3>1 DEF Holds
  <2>2. at + n + 1 \in Nat /\ at + n + 1 <= Len(code)
    BY <1>5, <1>6, <1>8, <2>1
  <2>3. QED
    BY <2>2, Nearer
<1>10. bytes = LittleEndian(Base("relative", at + n + 2) + target)
  BY <1>8 DEF bytes, relative
<1>11. Decode(code, at) = instruction(operation, size, <<Memory(target)>>, n + 6)
  <2>1. Holds(code, at, PrefixOf(size, FALSE, FALSE, FALSE)
                   \o (<<OneOpcode(operation, size)>> \o (<<m05(operation - INC)>> \o bytes)))
    BY <1>6, <1>7 DEF p, opcode, m
  <2>2. n = Len(PrefixOf(size, FALSE, FALSE, FALSE))
    BY DEF n, p
  <2>3. Len(bytes) = 4 /\ bytes \in Seq(Byte) /\ Len(code) \in Nat /\ at \in Nat
    BY <1>6
  <2>4. InMemory(code, at, size, operation, n, target, bytes)
    BY <1>9, <1>10, <2>1, <2>2, <2>3 DEF InMemory
  <2>5. QED
    BY <2>4, DecodesOneMemory
<1>12. n + 6 = Len(result.head) + result.field.width
  BY <1>5, <1>6
<1>13. QED
  BY <1>11, <1>12 DEF ReadAs

LEMMA ReadsJump ==
    ASSUME NEW code, NEW at, NEW result, NEW target \in Nat, Emplaced(code, at, result, target),
           Near(Len(code)), Near(target),
           NEW opcode, NEW operation, JumpOpcode(operation, opcode), NEW id,
           Makes(result, <<opcode>>, Field(D32, id, "unsorted"))
    PROVE  ReadAs(code, at, result, operation, D32, <<Code(target)>>)
<1> DEFINE head == <<opcode>>
           unsorted == "unsorted"
           bytes == LittleEndian(Base(unsorted, at + Len(head)) + target)
<1>1. opcode \in Byte
  BY JumpOpens DEF Opens
<1>2. FieldBytesAre(bytes, unsorted, at, head, target)
  BY DEF FieldBytesAre
<1>3. /\ Makes(result, head, Field(D32, id, unsorted))
      /\ unsorted \in {"relative", "unsorted", "data"}
  OBVIOUS
<1>4. head \in Seq(Byte) /\ Len(head) = 1
  BY <1>1
<1> HIDE DEF bytes, unsorted, head
<1>5. /\ Len(code) \in Nat /\ at \in Nat /\ Holds(code, at, head \o bytes)
      /\ result.head = head /\ result.field.width = 4
      /\ bytes \in Seq(Byte) /\ Len(bytes) = 4
  BY <1>2, <1>3, <1>4, FieldBehind
<1>6. Near(at + 1)
  <2>1. at + Len(head) <= Len(code)
    <3>1. Holds(code, at, head)
      BY <1>5 DEF Emplaced
    <3>2. QED
      BY <3>1 DEF Holds
  <2>2. at + 1 \in Nat /\ at + 1 <= Len(code)
    BY <1>4, <1>5, <2>1
  <2>3. QED
    BY <2>2, Nearer
<1>7. bytes = LittleEndian(Base("unsorted", at + 1) + target)
  BY <1>4 DEF bytes, unsorted
<1>8. Decode(code, at) = instruction(operation, D32, <<Code(target)>>, 5)
  <2>1. Holds(code, at, <<opcode>> \o bytes)
    BY <1>5 DEF head
  <2>2. QED
    BY <1>5, <1>6, <1>7, <2>1, DecodesJump
<1>9. 5 = Len(result.head) + result.field.width
  <2>1. Len(result.head) = 1 /\ result.field.width = 4
    BY <1>4, <1>5
  <2>2. \A x, y : x = 1 /\ y = 4 => 5 = x + y
    OBVIOUS
  <2>3. QED
    BY <2>1, <2>2
<1>10. QED
  BY <1>8, <1>9 DEF ReadAs

LEMMA ReadsLongJump ==
    ASSUME NEW code, NEW at, NEW result, NEW target \in Nat, Emplaced(code, at, result, target),
           Near(Len(code)), Near(target), NEW operation \in JO .. JG, NEW id,
           Makes(result, <<\h0f>> \o (<<LongJump(operation)>> \o <<>>),
                 Field(D32, id, "unsorted"))
    PROVE  ReadAs(code, at, result, operation, D32, <<Code(target)>>)
<1> DEFINE p == <<\h0f>>
           opcode == LongJump(operation)
           head == p \o (<<opcode>> \o <<>>)
           unsorted == "unsorted"
           bytes == LittleEndian(Base(unsorted, at + Len(head)) + target)
<1>1. p \in Seq(Byte) /\ Len(p) = 1 /\ opcode \in Byte
  <2>1. \h0f \in Byte
    BY DEF Byte
  <2>2. opcode \in Byte
    BY LongJumps
  <2>3. QED
    BY <2>1, <2>2
<1>2. FieldBytesAre(bytes, unsorted, at, head, target)
  BY DEF FieldBytesAre
<1>3. /\ Makes(result, head, Field(D32, id, unsorted))
      /\ unsorted \in {"relative", "unsorted", "data"}
  OBVIOUS
<1> HIDE DEF p, opcode, bytes, unsorted
<1>4. <<>> \in Seq(Byte) /\ head \in Seq(Byte)
  BY <1>1, JoinedBehind
<1>5. Len(head) = 2
  <2>1. Len(head) = Len(p) + 1
    BY <1>1, Lengths
  <2>2. QED
    BY <1>1, <2>1
<1> HIDE DEF head
<1>6. /\ Len(code) \in Nat /\ at \in Nat /\ Holds(code, at, head \o bytes)
      /\ result.head = head /\ result.field.width = 4
      /\ bytes \in Seq(Byte) /\ Len(bytes) = 4
  BY <1>2, <1>3, <1>4, FieldBehind
<1>7. head \o bytes = p \o (<<opcode>> \o bytes)
  BY <1>1, <1>6, JoinedBehind DEF head
<1>8. Near(at + 2)
  <2>1. at + Len(head) <= Len(code)
    <3>1. Holds(code, at, head)
      BY <1>6 DEF Emplaced
    <3>2. QED
      BY <3>1 DEF Holds
  <2>2. at + 2 \in Nat /\ at + 2 <= Len(code)
    BY <1>5, <1>6, <2>1
  <2>3. QED
    BY <2>2, Nearer
<1>9. bytes = LittleEndian(Base("unsorted", at + 2) + target)
  BY <1>5 DEF bytes, unsorted
<1>10. Decode(code, at) = instruction(operation, D32, <<Code(target)>>, 6)
  <2>1. Holds(code, at, <<\h0f>> \o (<<LongJump(operation)>> \o bytes))
    BY <1>6, <1>7 DEF p, opcode
  <2>2. QED
    BY <1>6, <1>8, <1>9, <2>1, DecodesLongJump
<1>11. 6 = Len(result.head) + result.field.width
  <2>1. Len(result.head) = 2 /\ result.field.width = 4
    BY <1>5, <1>6
  <2>2. \A x, y : x = 2 /\ y = 4 => 6 = x + y
    OBVIOUS
  <2>3. QED
    BY <2>1, <2>2
<1>12. QED
  BY <1>10, <1>11 DEF ReadAs

-----------------------------------------------------------------------------
(***************************************************************************)
(* The statements that are encoded right, by their forms.                  *)
(***************************************************************************)
BetweenRegisters(s) == s[3] = REG /\ s[4] \in Registry /\ s[5] = REG /\ s[6] \in Registry
IntoRegister(s, kind) == s[3] = REG /\ s[4] \in Registry /\ s[5] = kind /\ IsWord(s[6])

Counting(s) == s[1] \in ADD .. CMP /\ s[2] \in AllSizes /\ Len(s) = 6
Moving(s)   == s[1] = MOV /\ s[2] \in {D8, D16, D32} /\ Len(s) = 6
Altering(s) == s[1] \in INC .. IDIV /\ s[2] \in AllSizes /\ Len(s) = 4
Stacking(s) == s[1] \in {POP, PUSH} /\ s[2] \in {D16, D64} /\ Len(s) = 4

\* The twelve forms.
Form(n, s) ==
    \/ n = 1 /\ Counting(s) /\ BetweenRegisters(s)
    \/ n = 2 /\ Counting(s) /\ IntoRegister(s, IMM) /\ s[4] # 0 /\ s[6] \notin Addresses
    \/ n = 3 /\ Moving(s) /\ BetweenRegisters(s) /\ MovesRight(s[2], s[4], s[6])
    \/ n = 4 /\ Moving(s) /\ IntoRegister(s, IMM) /\ s[6] \notin Addresses
    \/ n = 5 /\ Moving(s) /\ IntoRegister(s, REL) /\ s[2] = D32
    \/ n = 6 /\ Altering(s) /\ s[3] = REG /\ s[4] \in Registry
    \/ n = 7 /\ Altering(s) /\ s[3] = MEM
    \/ n = 8 /\ Stacking(s) /\ s[3] = REG /\ s[4] \in Registry
    \/ n = 9 /\ s[1] = JMP /\ Len(s) = 4 /\ s[2] = D32 /\ s[3] = REL
    \/ n = 10 /\ s[1] = CALL /\ Len(s) = 3 /\ s[2] = REL
    \/ n = 11 /\ s[1] \in JO .. JG /\ Len(s) = 4 /\ s[2] = D32 /\ s[3] = REL /\ s[4] # 0
    \/ n = 12 /\ s[1] \in OneByteOperations \union TwoByteOperations /\ Len(s) = 1

LEMMA WrittenLengths ==
    ASSUME NEW s, Written(s)
    PROVE  /\ s[1] \in (ADD .. CMP) \union {MOV} => Len(s) = 6
           /\ s[1] \in (INC .. IDIV) \union {POP, PUSH, JMP} \union (JO .. JG) => Len(s) = 4
           /\ s[1] = CALL => Len(s) = 3
           /\ s[1] \in OneByteOperations \union TwoByteOperations => Len(s) = 1
<1> DEFINE o == s[1]
           n == Len(s)
<1>1. \/ n = 6 /\ o \in (ADD .. CMP) \union (ROL .. SAR) \union {MOV}
      \/ n = 4 /\ o \in (INC .. IDIV) \union {JMP, POP, PUSH} \union (JO .. JG) \union (LOOP .. LOOPNE)
      \/ n = 3 /\ o = CALL
      \/ n = 2 /\ o = ASMDIRMEM
      \/ n = 1 /\ o \in (NOP .. RETF) \union (SYSCALL .. FNCLEX)
      \/ o = ASMDIRIMM
  BY DEF Written
<1> HIDE DEF o, n
<1>2. \/ n = 6 /\ o \in (4 .. 11) \union (20 .. 27) \union {132}
      \/ n = 4 /\ o \in (12 .. 19) \union (131 .. 150) \union (190 .. 192) /\ o # 132
      \/ n = 3 /\ o = 128
      \/ n = 2 /\ o = 0
      \/ n = 1 /\ o \in (52 .. 116)
      \/ o = 2
  BY <1>1 DEF ADD, CMP, ROL, SAR, MOV, INC, IDIV, JMP, POP, PUSH, JO, JG, LOOP, LOOPNE, CALL,
            ASMDIRMEM, ASMDIRIMM, NOP, RETF, SYSCALL, FNCLEX
<1>3. o \in (ADD .. CMP) \union {MOV} => n = 6
  BY <1>2 DEF ADD, CMP, MOV
<1>4. o \in (INC .. IDIV) \union {POP, PUSH, JMP} \union (JO .. JG) => n = 4
  BY <1>2 DEF INC, IDIV, POP, PUSH, JMP, JO, JG
<1>5. o = CALL => n = 3
  BY <1>2 DEF CALL
<1>6. o \in OneByteOperations \union TwoByteOperations => n = 1
  <2>1. o \in OneByteOperations \union TwoByteOperations => o \in 52 .. 116
    BY DEF OneByteOperations, TwoByteOperations, NOP, POPF, PUSHF, LEAVE, RETN, RETF, SYSCALL,
       CPUID, FNOP, FSCALE
  <2>2. QED
    BY <1>2, <2>1
<1>7. QED
  BY <1>3, <1>4, <1>5, <1>6 DEF o, n

LEMMA RightWithTwo ==
    ASSUME NEW s, Right(s), WithTwo(s), Len(s) = 6
    PROVE  \E n \in 1 .. 5 : Form(n, s)
<1>1. IsWord(s[6]) /\ s[1] \in ADD .. CMP \union {MOV}
  BY DEF Right, Ordinary, WithTwo
<1>2. s[3] = REG /\ s[4] \in Registry /\ s[5] # MEM
  BY <1>1 DEF Right, Misencoded, WithTwo, MOV, ADD, CMP, REG, MEM, IMM, REL
<1>3. ASSUME s[1] \in ADD .. CMP PROVE \E n \in 1 .. 5 : Form(n, s)
  <2>1. Counting(s)
    BY <1>3 DEF Counting, WithTwo
  <2>2. CASE s[5] = REG
    <3>1. BetweenRegisters(s)
      BY <1>2, <2>2 DEF BetweenRegisters, WithTwo, REG, IMM, REL
    <3>2. Form(1, s)
      BY <2>1, <3>1 DEF Form
    <3>3. QED
      BY <3>2
  <2>3. CASE s[5] = IMM
    <3>1. IntoRegister(s, IMM) /\ s[6] \notin Addresses
      BY <1>1, <1>2, <2>3 DEF IntoRegister, WithTwo, REG, IMM, REL, MEM
    <3>2. s[4] # 0
      BY <1>2, <1>3, <2>3 DEF Right, Misencoded
    <3>3. Form(2, s)
      BY <2>1, <3>1, <3>2 DEF Form
    <3>4. QED
      BY <3>3
  <2>4. s[5] # REL
    BY <1>2, <1>3 DEF Right, Misencoded
  <2>5. s[5] \in {REG, IMM, REL}
    BY <1>2 DEF WithTwo
  <2>6. QED
    BY <2>2, <2>3, <2>4, <2>5
<1>4. ASSUME s[1] = MOV PROVE \E n \in 1 .. 5 : Form(n, s)
  <2>1. s[2] # D64
    BY <1>4 DEF Right, Misencoded
  <2>2. Moving(s)
    BY <1>4, <2>1 DEF Moving, WithTwo, AllSizes
  <2>3. CASE s[5] = REG
    <3>1. BetweenRegisters(s)
      BY <1>2, <2>3 DEF BetweenRegisters, WithTwo, REG, IMM, REL
    <3>2. MovesRight(s[2], s[4], s[6])
      BY <1>2, <1>4, <2>3 DEF Right, Misencoded, MovesRight
    <3>3. Form(3, s)
      BY <2>2, <3>1, <3>2 DEF Form
    <3>4. QED
      BY <3>3
  <2>4. CASE s[5] = IMM
    <3>1. IntoRegister(s, IMM) /\ s[6] \notin Addresses
      BY <1>1, <1>2, <2>4 DEF IntoRegister, WithTwo, REG, IMM, REL, MEM
    <3>2. Form(4, s)
      BY <2>2, <3>1 DEF Form
    <3>3. QED
      BY <3>2
  <2>5. CASE s[5] = REL
    <3>1. IntoRegister(s, REL)
      BY <1>1, <1>2, <2>5 DEF IntoRegister
    <3>2. s[2] = D32
      BY <1>2, <1>4, <2>5 DEF Right, Misencoded
    <3>3. Form(5, s)
      BY <2>2, <3>1, <3>2 DEF Form
    <3>4. QED
      BY <3>3
  <2>6. QED
    BY <1>2, <2>3, <2>4, <2>5 DEF WithTwo
<1>5. QED
  BY <1>1, <1>3, <1>4

LEMMA RightForms ==
    ASSUME NEW s, Right(s)
    PROVE  Declaring(s) \/ \E n \in 1 .. 12 : Form(n, s)
<1>1. Written(s) /\ (WithTwo(s) \/ WithOne(s) \/ Jumping(s) \/ WithNone(s) \/ Declaring(s))
  BY DEF Right, Ordinary
<1>2. CASE WithTwo(s)
  <2>1. Len(s) = 6
    BY <1>1, <1>2, WrittenLengths DEF WithTwo
  <2>2. PICK n \in 1 .. 5 : Form(n, s)
    BY <1>2, <2>1, RightWithTwo
  <2>3. n \in 1 .. 12
    OBVIOUS
  <2>4. QED
    BY <2>2, <2>3
<1>3. CASE WithOne(s)
  <2>1. Len(s) = 4
    BY <1>1, <1>3, WrittenLengths DEF WithOne
  <2>2. CASE s[1] \in {POP, PUSH}
    <3>1. s[2] \notin {D8, D32}
      BY <2>2 DEF Right, Misencoded
    <3>2. Stacking(s)
      BY <1>3, <2>1, <2>2, <3>1 DEF WithOne, Stacking, AllSizes
    <3>3. s[3] = REG /\ s[4] \in Registry
      BY <1>3, <2>2 DEF WithOne, POP, PUSH, INC, IDIV
    <3>4. Form(8, s)
      BY <3>2, <3>3 DEF Form
    <3>5. QED
      BY <3>4
  <2>3. CASE s[1] \in INC .. IDIV
    <3>1. Altering(s)
      BY <1>3, <2>1, <2>3 DEF WithOne, Altering
    <3>2. Form(6, s) \/ Form(7, s)
      BY <1>3, <3>1 DEF WithOne, Form
    <3>3. QED
      BY <3>2
  <2>4. QED
    BY <1>3, <2>2, <2>3 DEF WithOne
<1>4. CASE Jumping(s)
  <2>1. Form(9, s) \/ Form(10, s) \/ Form(11, s)
    BY <1>1, <1>4, WrittenLengths DEF Jumping, Form
  <2>2. QED
    BY <2>1
<1>5. CASE WithNone(s)
  <2>1. Len(s) = 1
    BY <1>1, <1>5, WrittenLengths DEF WithNone
  <2>2. Form(12, s)
    BY <1>5, <2>1 DEF WithNone, Form
  <2>3. QED
    BY <2>2
<1>6. QED
  BY <1>1, <1>2, <1>3, <1>4, <1>5

-----------------------------------------------------------------------------
(***************************************************************************)
(* What the processor should make of a statement, with the offset of what  *)
(* it refers to.                                                           *)
(***************************************************************************)
SecondOf(s, target) ==
    CASE s[5] = REG -> Register(s[6])
      [] s[5] = IMM -> Immediate(BytesOfSize(s[2], s[6]))
      [] OTHER -> Immediate(LittleEndian(DATA_START + target))

Operands(s, target) ==
    IF s[1] \in (ADD .. CMP) \union {MOV} THEN <<Register(s[4]), SecondOf(s, target)>>
    ELSE IF s[1] \in (INC .. IDIV) \union {POP, PUSH}
         THEN <<IF s[3] = REG THEN Register(s[4]) ELSE Memory(target)>>
    ELSE IF s[1] \in {JMP, CALL} \union (JO .. JG) THEN <<Code(target)>>
    ELSE <<>>

SizeOf(s) ==
    IF s[1] \in (ADD .. CMP) \union {MOV} \union (INC .. IDIV) \union {POP, PUSH}
    THEN s[2] ELSE D32

\* What it refers to, if it does.
Referred(s) == IF s[1] = MOV THEN s[6] ELSE IF s[1] = CALL THEN s[3] ELSE s[4]

\* Whether it does.
Refers(s) ==
    \/ s[1] = MOV /\ s[5] = REL
    \/ s[1] \in INC .. IDIV /\ s[3] = MEM
    \/ s[1] \in {JMP, CALL} \union (JO .. JG)

\* Whatever the code around it and wherever it and the target are.
DecodedAs(result, s) ==
    \A code, at : \A target \in Nat :
        Emplaced(code, at, result, target) /\ Near(Len(code)) /\ Near(target)
            => ReadAs(code, at, result, s[1], SizeOf(s), Operands(s, target))

FieldOfStatement(result, s) ==
    \/ result.field = NoField /\ ~Refers(s)
    \/ \E base \in {"relative", "unsorted", "data"} : result.field = Field(D32, Referred(s), base)

Encoded(result, s) ==
    /\ result.tail = <<>>
    /\ Len(result.head) >= 1
    /\ FieldOfStatement(result, s)
    /\ DecodedAs(result, s)

Agrees(a, s) == a \in [0 .. 6 -> Int] /\ \A i \in 1 .. Len(s) : a[i - 1] = s[i]

LEMMA AgreedTokens ==
    ASSUME NEW a, NEW s, Agrees(a, s)
    PROVE  /\ Len(s) = 6 => /\ a[0] = s[1] /\ a[1] = s[2] /\ a[2] = s[3]
                            /\ a[3] = s[4] /\ a[4] = s[5] /\ a[5] = s[6]
           /\ Len(s) = 4 => a[0] = s[1] /\ a[1] = s[2] /\ a[2] = s[3] /\ a[3] = s[4]
           /\ Len(s) = 3 => a[0] = s[1] /\ a[1] = s[2] /\ a[2] = s[3]
           /\ Len(s) = 1 => a[0] = s[1]
<1>1. \A i \in 1 .. Len(s) : a[i - 1] = s[i]
  BY DEF Agrees
<1>2. ASSUME Len(s) = 6
      PROVE  a[0] = s[1] /\ a[1] = s[2] /\ a[2] = s[3] /\ a[3] = s[4] /\ a[4] = s[5] /\ a[5] = s[6]
  <2>1. a[1 - 1] = s[1] /\ a[2 - 1] = s[2] /\ a[3 - 1] = s[3] /\ a[4 - 1] = s[4]
        /\ a[5 - 1] = s[5] /\ a[6 - 1] = s[6]
    BY <1>1, <1>2
  <2>2. QED
    BY <2>1
<1>3. ASSUME Len(s) = 4 PROVE a[0] = s[1] /\ a[1] = s[2] /\ a[2] = s[3] /\ a[3] = s[4]
  <2>1. a[1 - 1] = s[1] /\ a[2 - 1] = s[2] /\ a[3 - 1] = s[3] /\ a[4 - 1] = s[4]
    BY <1>1, <1>3
  <2>2. QED
    BY <2>1
<1>4. ASSUME Len(s) = 3 PROVE a[0] = s[1] /\ a[1] = s[2] /\ a[2] = s[3]
  <2>1. a[1 - 1] = s[1] /\ a[2 - 1] = s[2] /\ a[3 - 1] = s[3]
    BY <1>1, <1>4
  <2>2. QED
    BY <2>1
<1>5. ASSUME Len(s) = 1 PROVE a[0] = s[1]
  <2>1. a[1 - 1] = s[1]
    BY <1>1, <1>5
  <2>2. QED
    BY <2>1
<1>6. QED
  BY <1>2, <1>3, <1>4, <1>5

LEMMA Plainly ==
    ASSUME NEW size \in AllSizes, NEW d \in Registry
    PROVE  /\ PrefixOf(size, upper(d), FALSE, size = D8 /\ front(d)) \in Seq(Byte)
           /\ Len(PrefixOf(size, upper(d), FALSE, size = D8 /\ front(d))) \in Nat
<1>1. upper(d) \in BOOLEAN /\ (size = D8 /\ front(d)) \in BOOLEAN
  BY RegisterNumbers
<1> DEFINE plain == size = D8 /\ front(d)
<1>2. plain \in BOOLEAN
  BY <1>1
<1> HIDE DEF plain
<1>3. PrefixOf(size, upper(d), FALSE, plain) \in Seq(Byte)
  BY <1>1, <1>2, PrefixType
<1> DEFINE p == PrefixOf(size, upper(d), FALSE, plain)
<1>4. p \in Seq(Byte)
  BY <1>3
<1> HIDE DEF p
<1>5. Len(p) \in Nat
  BY <1>4
<1>6. QED
  BY <1>4, <1>5 DEF plain, p

LEMMA ShownTwo ==
    ASSUME NEW s, s[1] \in (ADD .. CMP) \union {MOV}
    PROVE  /\ SizeOf(s) = s[2]
           /\ s[5] = REG => \A target : Operands(s, target) = <<Register(s[4]), Register(s[6])>>
           /\ s[5] = IMM =>
                  \A target : Operands(s, target)
                                 = <<Register(s[4]), Immediate(BytesOfSize(s[2], s[6]))>>
           /\ s[5] = REL =>
                  \A target : Operands(s, target)
                                 = <<Register(s[4]), Immediate(LittleEndian(DATA_START + target))>>
<1>1. SizeOf(s) = s[2]
  BY DEF SizeOf
<1>2. \A target : Operands(s, target) = <<Register(s[4]), SecondOf(s, target)>>
  BY DEF Operands
<1>3. /\ s[5] = REG => \A target : SecondOf(s, target) = Register(s[6])
      /\ s[5] = IMM => \A target : SecondOf(s, target) = Immediate(BytesOfSize(s[2], s[6]))
      /\ s[5] = REL => \A target : SecondOf(s, target) = Immediate(LittleEndian(DATA_START + target))
  BY DEF SecondOf, REG, IMM, REL
<1>4. QED
  BY <1>1, <1>2, <1>3

LEMMA ShownOne ==
    ASSUME NEW s, s[1] \in (INC .. IDIV) \union {POP, PUSH}
    PROVE  /\ SizeOf(s) = s[2]
           /\ s[3] = REG => \A target : Operands(s, target) = <<Register(s[4])>>
           /\ s[3] = MEM => \A target : Operands(s, target) = <<Memory(target)>>
<1> DEFINE o == s[1]
<1>1. o \in (INC .. IDIV) \union {POP, PUSH}
  OBVIOUS
<1> HIDE DEF o
<1>2. o \notin (ADD .. CMP) \union {MOV}
  BY <1>1 DEF INC, IDIV, POP, PUSH, ADD, CMP, MOV
<1>3. SizeOf(s) = s[2]
  BY <1>1 DEF SizeOf, o
<1>4. \A target : Operands(s, target)
                      = <<IF s[3] = REG THEN Register(s[4]) ELSE Memory(target)>>
  BY <1>1, <1>2 DEF Operands, o
<1>5. REG # MEM
  BY DEF REG, MEM
<1>6. QED
  BY <1>3, <1>4, <1>5

LEMMA ShownJump ==
    ASSUME NEW s, s[1] \in {JMP, CALL} \union (JO .. JG)
    PROVE  /\ SizeOf(s) = D32
           /\ \A target : Operands(s, target) = <<Code(target)>>
<1> DEFINE o == s[1]
<1>1. o \in {JMP, CALL} \union (JO .. JG)
  OBVIOUS
<1> HIDE DEF o
<1>2. o \notin (ADD .. CMP) \union {MOV} \union (INC .. IDIV) \union {POP, PUSH}
  BY <1>1 DEF INC, IDIV, POP, PUSH, ADD, CMP, MOV, JMP, CALL, JO, JG
<1>3. SizeOf(s) = D32
  BY <1>2 DEF SizeOf, o
<1>4. \A target : Operands(s, target) = <<Code(target)>>
  BY <1>1, <1>2 DEF Operands, o
<1>5. QED
  BY <1>3, <1>4

LEMMA ShownNone ==
    ASSUME NEW s, s[1] \in OneByteOperations \union TwoByteOperations
    PROVE  SizeOf(s) = D32 /\ \A target : Operands(s, target) = <<>>
<1> DEFINE o == s[1]
<1>1. o \in OneByteOperations \union TwoByteOperations
  OBVIOUS
<1> HIDE DEF o
<1>2. o \in 52 .. 116
  BY <1>1 DEF OneByteOperations, TwoByteOperations, NOP, POPF, PUSHF, LEAVE, RETN, RETF, SYSCALL,
              CPUID, FNOP, FSCALE
<1>3. o \notin (ADD .. CMP) \union {MOV} \union (INC .. IDIV) \union {POP, PUSH}
        \union {JMP, CALL} \union (JO .. JG)
  BY <1>2 DEF INC, IDIV, POP, PUSH, ADD, CMP, MOV, JMP, CALL, JO, JG
<1>4. SizeOf(s) = D32
  BY <1>3 DEF SizeOf, o
<1>5. \A target : Operands(s, target) = <<>>
  BY <1>3 DEF Operands, o
<1>6. QED
  BY <1>4, <1>5

LEMMA NoReference ==
    ASSUME NEW s, NEW n \in {1, 2, 3, 4, 6, 8, 12}, Form(n, s)
    PROVE  ~Refers(s)
<1> DEFINE o == s[1]
<1>1. \/ o \in ADD .. CMP
      \/ o = MOV /\ s[5] \in {REG, IMM}
      \/ o \in INC .. IDIV /\ s[3] = REG
      \/ o \in {POP, PUSH}
      \/ o \in OneByteOperations \union TwoByteOperations
  BY DEF Form, Counting, Moving, Altering, Stacking, BetweenRegisters, IntoRegister
<1> HIDE DEF o
<1>2. CASE o \in ADD .. CMP
  BY <1>2 DEF Refers, o, ADD, CMP, MOV, INC, IDIV, JMP, CALL, JO, JG
<1>3. CASE o = MOV /\ s[5] \in {REG, IMM}
  <2>1. s[5] # REL
    BY <1>3 DEF REG, IMM, REL
  <2>2. o \notin INC .. IDIV /\ o \notin {JMP, CALL} \union (JO .. JG)
    BY <1>3 DEF MOV, INC, IDIV, JMP, CALL, JO, JG
  <2>3. QED
    BY <2>1, <2>2 DEF Refers, o
<1>4. CASE o \in INC .. IDIV /\ s[3] = REG
  <2>1. s[3] # MEM
    BY <1>4 DEF REG, MEM
  <2>2. o # MOV /\ o \notin {JMP, CALL} \union (JO .. JG)
    BY <1>4 DEF MOV, INC, IDIV, JMP, CALL, JO, JG
  <2>3. QED
    BY <2>1, <2>2 DEF Refers, o
<1>5. CASE o \in {POP, PUSH}
  BY <1>5 DEF Refers, o, POP, PUSH, MOV, INC, IDIV, JMP, CALL, JO, JG
<1>6. CASE o \in OneByteOperations \union TwoByteOperations
  <2>1. o \in 52 .. 116
    BY <1>6 DEF OneByteOperations, TwoByteOperations, NOP, POPF, PUSHF, LEAVE, RETN, RETF,
                SYSCALL, CPUID, FNOP, FSCALE
  <2>2. QED
    BY <2>1 DEF Refers, o, MOV, INC, IDIV, JMP, CALL, JO, JG
<1>7. QED
  BY <1>1, <1>2, <1>3, <1>4, <1>5, <1>6

LEMMA EncodedRegisters ==
    ASSUME NEW a, NEW s, Agrees(a, s), Form(1, s)
    PROVE  Encoded(build_instruction(a), s)
<1> DEFINE size == s[2]
           d == s[4]
           e == s[6]
           plain == NeedsRex(size, d, e)
           opcode == (8 * (s[1] - ADD)) + B(size # D8)
           p == PrefixOf(size, upper(d), upper(e), plain)
           head == p \o <<opcode, mc0(d, e)>>
           result == build_instruction(a)
<1>1. /\ s[1] \in ADD .. CMP /\ size \in AllSizes /\ Len(s) = 6
      /\ s[3] = REG /\ d \in Registry /\ s[5] = REG /\ e \in Registry
  BY DEF Form, Counting, BetweenRegisters
<1>2. /\ a \in [0 .. 6 -> Int]
      /\ a[0] = s[1] /\ a[1] = size /\ a[2] = REG /\ a[3] = d /\ a[4] = REG /\ a[5] = e
  BY <1>1, AgreedTokens DEF Agrees
<1>3. Makes(result, head, NoField)
  <2>1. result = build_double(a)
    BY <1>1, <1>2, Table
  <2>2. QED
    BY <1>1, <1>2, <2>1, BuildsRegisters
<1>4. Opcode2(s[1], size, opcode)
  BY <1>1 DEF Opcode2
<1>5. /\ plain \in BOOLEAN
      /\ size = D8 /\ (front(d) \/ front(e)) => plain \/ upper(d) \/ upper(e)
  BY <1>1, NoRexElse
<1>6. SizeOf(s) = size /\ \A target : Operands(s, target) = <<Register(d), Register(e)>>
  BY <1>1, ShownTwo
<1>7. Len(head) >= 1
  <2>1. p \in Seq(Byte)
    BY <1>1, <1>5, RegisterNumbers, PrefixType
  <2>2. opcode \in Byte /\ mc0(d, e) \in Byte
    BY <1>1, <1>4, OpcodeOfTwoOpens, ModRMOfTwo
  <2> HIDE DEF p, opcode, d, e
  <2>3. Len(head) = Len(p) + 2 /\ Len(p) \in Nat
    BY <2>1, <2>2, Lengths
  <2>4. QED
    BY <2>3
<1> HIDE DEF plain, opcode, result
<1>8. ASSUME NEW code, NEW at, NEW target \in Nat, Emplaced(code, at, result, target)
      PROVE  ReadAs(code, at, result, s[1], size, <<Register(d), Register(e)>>)
  BY <1>1, <1>3, <1>4, <1>5, <1>8, ReadsRegisters
<1>9. DecodedAs(result, s)
  BY <1>6, <1>8 DEF DecodedAs
<1>10. result.tail = <<>> /\ result.head = head /\ result.field = NoField
  BY <1>3 DEF Makes
<1>11. ~Refers(s)
  BY NoReference
<1>12. QED
  BY <1>7, <1>9, <1>10, <1>11 DEF Encoded, FieldOfStatement, result

LEMMA EncodedImmediate ==
    ASSUME NEW a, NEW s, Agrees(a, s), Form(2, s)
    PROVE  Encoded(build_instruction(a), s)
<1> DEFINE size == s[2]
           d == s[4]
           data == s[6]
           plain == RexOfImmediate(size, d, data)
           p == PrefixOf(size, upper(d), FALSE, plain)
           bytes == BytesOfSize(size, data)
           m == GroupByte(d, s[1] - ADD)
           head == p \o (<<ImmediateOpcode(size)>> \o (<<m>> \o bytes))
           result == build_instruction(a)
<1>1. /\ s[1] \in ADD .. CMP /\ size \in AllSizes /\ Len(s) = 6
      /\ s[3] = REG /\ d \in Registry /\ d # 0 /\ s[5] = IMM /\ data \in Int
  BY DEF Form, Counting, IntoRegister, IsWord
<1>2. /\ a \in [0 .. 6 -> Int]
      /\ a[0] = s[1] /\ a[1] = size /\ a[2] = REG /\ a[3] = d /\ a[4] = IMM /\ a[5] = data
  BY <1>1, AgreedTokens DEF Agrees
<1>3. Makes(result, head, NoField)
  <2>1. result = build_double(a)
    BY <1>1, <1>2, Table
  <2>2. QED
    BY <1>1, <1>2, <2>1, BuildsImmediate
<1>4. /\ plain \in BOOLEAN
      /\ size = D8 /\ front(d) => plain
  BY <1>1, RexOfRegister
<1>5. bytes \in Seq(Byte) /\ Len(bytes) = WidthOf(size)
  BY <1>1, SizedBytes
<1>6. SizeOf(s) = size /\ \A target : Operands(s, target) = <<Register(d), Immediate(bytes)>>
  BY <1>1, ShownTwo
<1>7. Len(head) >= 1
  <2>1. p \in Seq(Byte)
    BY <1>1, <1>4, RegisterNumbers, PrefixType
  <2>2. ImmediateOpcode(size) \in Byte /\ m \in Byte
    <3>1. s[1] - ADD \in 0 .. 7
      BY <1>1 DEF ADD, CMP
    <3>2. QED
      BY <1>1, <3>1, ImmediateOpens, GroupBytes
  <2> DEFINE opcode == ImmediateOpcode(size)
  <2>3. opcode \in Byte
    BY <2>2
  <2> HIDE DEF p, opcode, m, bytes
  <2>4. Len(p \o (<<opcode>> \o (<<m>> \o bytes))) = Len(p) + 2 + Len(bytes)
    BY <1>5, <2>1, <2>2, <2>3, Lengths
  <2>5. Len(p) \in Nat /\ Len(bytes) \in Nat
    BY <1>5, <2>1
  <2>6. QED
    BY <2>4, <2>5 DEF opcode
<1> HIDE DEF plain, bytes, result
<1>8. ASSUME NEW code, NEW at, NEW target \in Nat, Emplaced(code, at, result, target)
      PROVE  ReadAs(code, at, result, s[1], size, <<Register(d), Immediate(bytes)>>)
  BY <1>1, <1>3, <1>4, <1>5, <1>8, ReadsImmediate
<1>9. DecodedAs(result, s)
  BY <1>6, <1>8 DEF DecodedAs
<1>10. result.tail = <<>> /\ result.head = head /\ result.field = NoField
  BY <1>3 DEF Makes
<1>11. ~Refers(s)
  BY NoReference
<1>12. QED
  BY <1>7, <1>9, <1>10, <1>11 DEF Encoded, FieldOfStatement, result

LEMMA EncodedWith ==
    ASSUME NEW result, NEW s, NEW head, NEW field, Makes(result, head, field), Len(head) >= 1,
           \/ field = NoField /\ ~Refers(s)
           \/ \E base \in {"relative", "unsorted", "data"} : field = Field(D32, Referred(s), base),
           DecodedAs(result, s)
    PROVE  Encoded(result, s)
BY DEF Makes, Encoded, FieldOfStatement

\* There is a byte in the code at least.
LEMMA NotEmpty ==
    ASSUME NEW p \in Seq(Byte), NEW x \in Byte
    PROVE  /\ Len(p \o (<<x>> \o <<>>)) >= 1
           /\ \A y \in Byte : Len(p \o <<x, y>>) >= 1
           /\ \A bytes \in Seq(Byte) : Len(p \o (<<x>> \o bytes)) >= 1
           /\ \A y \in Byte, bytes \in Seq(Byte) : Len(p \o (<<x>> \o (<<y>> \o bytes))) >= 1
<1>1. Len(p) \in Nat /\ \A bytes \in Seq(Byte) : Len(bytes) \in Nat
  OBVIOUS
<1>2. Len(p \o (<<x>> \o <<>>)) >= 1
  BY <1>1, Lengths
<1>3. \A y \in Byte : Len(p \o <<x, y>>) >= 1
  <2> TAKE y \in Byte
  <2>1. Len(p \o <<x, y>>) = Len(p) + 2
    BY Lengths
  <2>2. QED
    BY <1>1, <2>1
<1>4. \A bytes \in Seq(Byte) : Len(p \o (<<x>> \o bytes)) >= 1
  <2> TAKE bytes \in Seq(Byte)
  <2>1. Len(p \o (<<x>> \o bytes)) = Len(p) + 1 + Len(bytes)
    BY Lengths
  <2>2. QED
    BY <1>1, <2>1
<1>5. \A y \in Byte, bytes \in Seq(Byte) : Len(p \o (<<x>> \o (<<y>> \o bytes))) >= 1
  <2> TAKE y \in Byte, bytes \in Seq(Byte)
  <2>1. Len(p \o (<<x>> \o (<<y>> \o bytes))) = Len(p) + 2 + Len(bytes)
    BY Lengths
  <2>2. QED
    BY <1>1, <2>1
<1>6. QED
  BY <1>2, <1>3, <1>4, <1>5

LEMMA EncodedMoveOfRegisters ==
    ASSUME NEW a, NEW s, Agrees(a, s), Form(3, s)
    PROVE  Encoded(build_instruction(a), s)
<1> DEFINE size == s[2]
           d == s[4]
           e == s[6]
           plain == size = D8 /\ front(d)
           opcode == \h88 + B(size # D8)
           p == PrefixOf(size, upper(d), upper(e), plain)
           head == p \o <<opcode, mc0(d, e)>>
           result == build_instruction(a)
<1>1. /\ s[1] = MOV /\ size \in {D8, D16, D32} /\ Len(s) = 6
      /\ s[3] = REG /\ d \in Registry /\ s[5] = REG /\ e \in Registry
      /\ MovesRight(size, d, e)
  BY DEF Form, Moving, BetweenRegisters
<1>2. size \in AllSizes /\ size # D64
  BY <1>1 DEF AllSizes, D8, D16, D32, D64
<1>3. /\ a \in [0 .. 6 -> Int]
      /\ a[0] = MOV /\ a[1] = size /\ a[2] = REG /\ a[3] = d /\ a[4] = REG /\ a[5] = e
  BY <1>1, AgreedTokens DEF Agrees
<1>4. Makes(result, head, NoField)
  <2>1. result = build_move(a)
    BY <1>3, Table
  <2>2. Makes(build_move(a), head, NoField)
    BY <1>1, <1>2, <1>3, BuildsMoveOfRegisters
  <2>3. QED
    BY <2>1, <2>2
<1>5. Opcode2(MOV, size, opcode)
  BY DEF Opcode2
<1>6. /\ plain \in BOOLEAN
      /\ size = D8 /\ (front(d) \/ front(e)) => plain \/ upper(d) \/ upper(e)
  BY <1>1, <1>2, RexOfMove
<1>7. SizeOf(s) = size /\ \A target : Operands(s, target) = <<Register(d), Register(e)>>
  BY <1>1, ShownTwo
<1>8. Len(head) >= 1
  <2>1. p \in Seq(Byte)
    BY <1>2, <1>1, <1>6, RegisterNumbers, PrefixType
  <2>2. opcode \in Byte /\ mc0(d, e) \in Byte
    BY <1>1, <1>2, <1>5, OpcodeOfTwoOpens, ModRMOfTwo
  <2> HIDE DEF p, opcode, d, e
  <2>3. QED
    BY <2>1, <2>2, NotEmpty
<1> HIDE DEF plain, opcode, result
<1>9. ASSUME NEW code, NEW at, NEW target \in Nat, Emplaced(code, at, result, target)
      PROVE  ReadAs(code, at, result, MOV, size, <<Register(d), Register(e)>>)
  BY <1>1, <1>2, <1>4, <1>5, <1>6, <1>9, ReadsRegisters
<1>10. DecodedAs(result, s)
  BY <1>1, <1>7, <1>9 DEF DecodedAs
<1> HIDE DEF head
<1>11. Encoded(result, s)
  BY <1>4, <1>8, <1>10, NoReference, EncodedWith
<1>12. QED
  BY <1>11 DEF result

LEMMA EncodedMove ==
    ASSUME NEW a, NEW s, Agrees(a, s), Form(4, s)
    PROVE  Encoded(build_instruction(a), s)
<1> DEFINE size == s[2]
           d == s[4]
           data == s[6]
           plain == size = D8 /\ front(d)
           opcode == MoveByte(size, d)
           bytes == BytesOfSize(size, data)
           p == PrefixOf(size, upper(d), FALSE, plain)
           head == p \o (<<opcode>> \o bytes)
           result == build_instruction(a)
<1>1. /\ s[1] = MOV /\ size \in {D8, D16, D32} /\ Len(s) = 6
      /\ s[3] = REG /\ d \in Registry /\ s[5] = IMM /\ data \in Int
  BY DEF Form, Moving, IntoRegister, IsWord
<1>2. size \in AllSizes
  BY <1>1 DEF AllSizes
<1>3. /\ a \in [0 .. 6 -> Int]
      /\ a[0] = MOV /\ a[1] = size /\ a[2] = REG /\ a[3] = d /\ a[4] = IMM /\ a[5] = data
  BY <1>1, AgreedTokens DEF Agrees
<1>4. Makes(result, head, NoField)
  <2>1. result = build_move(a)
    BY <1>3, Table
  <2>2. /\ Attached(size, IMM, data) = bytes /\ Related(IMM, data) = NoField
        /\ IMM \in {IMM, REL}
    BY DEF Attached, Related
  <2>3. Makes(build_move(a), p \o (<<opcode>> \o Attached(size, IMM, data)), Related(IMM, data))
    BY <1>1, <1>3, <2>2, BuildsMoveInto
  <2>4. QED
    BY <2>1, <2>2, <2>3
<1>5. /\ plain \in BOOLEAN
      /\ size = D8 /\ front(d) => plain
  <2>1. front(d) \in BOOLEAN
    BY <1>1, RegisterNumbers DEF front
  <2>2. QED
    BY <2>1
<1>6. bytes \in Seq(Byte) /\ Len(bytes) = WidthOf(size)
  BY <1>1, <1>2, SizedBytes
<1>7. SizeOf(s) = size /\ \A target : Operands(s, target) = <<Register(d), Immediate(bytes)>>
  BY <1>1, ShownTwo
<1>8. Len(head) >= 1
  <2>1. p \in Seq(Byte)
    BY <1>1, <1>2, Plainly
  <2>2. opcode \in Byte
    BY <1>1, <1>2, MoveBytes
  <2> HIDE DEF p, opcode, bytes
  <2>3. QED
    BY <1>6, <2>1, <2>2, NotEmpty
<1> HIDE DEF plain, bytes, result
<1>9. ASSUME NEW code, NEW at, NEW target \in Nat, Emplaced(code, at, result, target)
      PROVE  ReadAs(code, at, result, MOV, size, <<Register(d), Immediate(bytes)>>)
  BY <1>1, <1>4, <1>5, <1>6, <1>9, ReadsMoved
<1>10. DecodedAs(result, s)
  BY <1>1, <1>7, <1>9 DEF DecodedAs
<1> HIDE DEF head
<1>11. Encoded(result, s)
  BY <1>4, <1>8, <1>10, NoReference, EncodedWith
<1>12. QED
  BY <1>11 DEF result

LEMMA EncodedAddress ==
    ASSUME NEW a, NEW s, Agrees(a, s), Form(5, s)
    PROVE  Encoded(build_instruction(a), s)
<1> DEFINE d == s[4]
           id == s[6]
           opcode == MoveByte(D32, d)
           p == PrefixOf(D32, upper(d), FALSE, FALSE)
           head == p \o (<<opcode>> \o <<>>)
           result == build_instruction(a)
<1>1. /\ s[1] = MOV /\ s[2] = D32 /\ Len(s) = 6
      /\ s[3] = REG /\ d \in Registry /\ s[5] = REL /\ id \in Int
  BY DEF Form, Moving, IntoRegister, IsWord
<1>2. D32 \in AllSizes /\ D32 \in {D8, D16, D32} /\ D32 # D8
  BY DEF AllSizes, D8, D32
<1>3. /\ a \in [0 .. 6 -> Int]
      /\ a[0] = MOV /\ a[1] = D32 /\ a[2] = REG /\ a[3] = d /\ a[4] = REL /\ a[5] = id
  BY <1>1, AgreedTokens DEF Agrees
<1>4. Makes(result, head, Field(D32, id, "data"))
  <2>1. result = build_move(a)
    BY <1>3, Table
  <2>2. /\ Attached(D32, REL, id) = <<>> /\ Related(REL, id) = Field(D32, id, "data")
        /\ REL \in {IMM, REL}
    BY DEF Attached, Related, REL, IMM
  <2> DEFINE plain == D32 = D8 /\ front(d)
  <2>3. plain = FALSE
    BY <1>2
  <2> HIDE DEF plain
  <2>4. Makes(build_move(a),
              PrefixOf(D32, upper(d), FALSE, plain) \o (<<opcode>> \o Attached(D32, REL, id)),
              Related(REL, id))
    BY <1>1, <1>2, <1>3, <2>2, BuildsMoveInto DEF plain
  <2>5. QED
    BY <2>1, <2>2, <2>3, <2>4
<1>5. SizeOf(s) = D32 /\ \A target : Operands(s, target)
                             = <<Register(d), Immediate(LittleEndian(DATA_START + target))>>
  BY <1>1, ShownTwo
<1>6. Len(head) >= 1
  <2>1. p \in Seq(Byte)
    <3> DEFINE none == FALSE
    <3>1. none \in BOOLEAN /\ upper(d) \in BOOLEAN
      BY <1>1, RegisterNumbers
    <3> HIDE DEF none
    <3>2. PrefixOf(D32, upper(d), none, none) \in Seq(Byte)
      BY <1>2, <3>1, PrefixType
    <3>3. QED
      BY <3>2 DEF none
  <2>2. opcode \in Byte
    BY <1>1, <1>2, MoveBytes
  <2> HIDE DEF p, opcode
  <2>3. QED
    BY <2>1, <2>2, NotEmpty
<1> HIDE DEF result
<1>7. ASSUME NEW code, NEW at, NEW target \in Nat, Emplaced(code, at, result, target)
      PROVE  ReadAs(code, at, result, MOV, D32,
                    <<Register(d), Immediate(LittleEndian(DATA_START + target))>>)
  BY <1>1, <1>4, <1>7, ReadsMovedAddress
<1>8. DecodedAs(result, s)
  BY <1>1, <1>5, <1>7 DEF DecodedAs
<1>9. Referred(s) = id
  BY <1>1 DEF Referred
<1> HIDE DEF head
<1>11. Encoded(result, s)
  BY <1>4, <1>6, <1>8, <1>9, EncodedWith
<1>12. QED
  BY <1>11 DEF result

LEMMA EncodedOneRegister ==
    ASSUME NEW a, NEW s, Agrees(a, s), Form(6, s)
    PROVE  Encoded(build_instruction(a), s)
<1> DEFINE o == s[1]
           size == s[2]
           d == s[4]
           plain == size = D8 /\ front(d)
           opcode == OneOpcode(o, size)
           m == GroupByte(d, o - INC)
           p == PrefixOf(size, upper(d), FALSE, plain)
           head == p \o (<<opcode>> \o (<<m>> \o <<>>))
           result == build_instruction(a)
<1>1. /\ o \in INC .. IDIV /\ size \in AllSizes /\ Len(s) = 4
      /\ s[3] = REG /\ d \in Registry
  BY DEF Form, Altering
<1>2. /\ a \in [0 .. 6 -> Int]
      /\ a[0] = o /\ a[1] = size /\ a[2] = REG /\ a[3] = d
  BY <1>1, AgreedTokens DEF Agrees
<1>3. Makes(result, head, NoField)
  <2>1. result = build_single(a)
    BY <1>1, <1>2, Table
  <2>2. QED
    BY <1>1, <1>2, <2>1, BuildsOneRegister
<1>5. /\ plain \in BOOLEAN
      /\ size = D8 /\ front(d) => plain
  <2>1. front(d) \in BOOLEAN
    BY <1>1, RegisterNumbers DEF front
  <2>2. QED
    BY <2>1
<1>7. SizeOf(s) = size /\ \A target : Operands(s, target) = <<Register(d)>>
  BY <1>1, ShownOne
<1>8. Len(head) >= 1
  <2>1. p \in Seq(Byte) /\ opcode \in Byte /\ m \in Byte
    <3>1. o - INC \in 0 .. 7
      BY <1>1 DEF INC, IDIV
    <3>2. QED
      BY <1>1, <1>5, <3>1, RegisterNumbers, PrefixType, OneOpens, GroupBytes
  <2>2. <<>> \in Seq(Byte)
    OBVIOUS
  <2> HIDE DEF p, opcode, m
  <2>3. QED
    BY <2>1, <2>2, NotEmpty
<1> HIDE DEF plain, result
<1>9. ASSUME NEW code, NEW at, NEW target \in Nat, Emplaced(code, at, result, target)
      PROVE  ReadAs(code, at, result, o, size, <<Register(d)>>)
  BY <1>1, <1>3, <1>5, <1>9, ReadsOneRegister
<1>10. DecodedAs(result, s)
  BY <1>7, <1>9 DEF DecodedAs
<1> HIDE DEF head
<1>11. Encoded(result, s)
  BY <1>3, <1>8, <1>10, NoReference, EncodedWith
<1>12. QED
  BY <1>11 DEF result

LEMMA EncodedOneMemory ==
    ASSUME NEW a, NEW s, Agrees(a, s), Form(7, s)
    PROVE  Encoded(build_instruction(a), s)
<1> DEFINE o == s[1]
           size == s[2]
           id == s[4]
           opcode == OneOpcode(o, size)
           m == m05(o - INC)
           p == PrefixOf(size, FALSE, FALSE, FALSE)
           head == p \o (<<opcode>> \o (<<m>> \o <<>>))
           result == build_instruction(a)
<1>1. o \in INC .. IDIV /\ size \in AllSizes /\ Len(s) = 4 /\ s[3] = MEM
  BY DEF Form, Altering
<1>2. /\ a \in [0 .. 6 -> Int]
      /\ a[0] = o /\ a[1] = size /\ a[2] = MEM /\ a[3] = id
  BY <1>1, AgreedTokens DEF Agrees
<1>3. Makes(result, head, Field(D32, id, "relative"))
  <2>1. result = build_single(a)
    BY <1>1, <1>2, Table
  <2>2. QED
    BY <1>1, <1>2, <2>1, BuildsOneMemory
<1>7. SizeOf(s) = size /\ \A target : Operands(s, target) = <<Memory(target)>>
  BY <1>1, ShownOne
<1>8. Len(head) >= 1
  <2>1. p \in Seq(Byte) /\ opcode \in Byte /\ m \in Byte
    <3>1. o - INC \in 0 .. 7
      BY <1>1 DEF INC, IDIV
    <3>2. QED
      BY <1>1, <3>1, PrefixType, OneOpens, MemoryBytes
  <2>2. <<>> \in Seq(Byte)
    OBVIOUS
  <2> HIDE DEF p, opcode, m
  <2>3. QED
    BY <2>1, <2>2, NotEmpty
<1> HIDE DEF result
<1>9. ASSUME NEW code, NEW at, NEW target \in Nat, Emplaced(code, at, result, target),
             Near(Len(code)), Near(target)
      PROVE  ReadAs(code, at, result, o, size, <<Memory(target)>>)
  BY <1>1, <1>3, <1>9, ReadsOneMemory
<1>10. DecodedAs(result, s)
  BY <1>7, <1>9 DEF DecodedAs
<1>11. Referred(s) = id
  <2>1. o # MOV /\ o # CALL
    BY <1>1 DEF INC, IDIV, MOV, CALL
  <2>2. QED
    BY <2>1 DEF Referred
<1> HIDE DEF head
<1>12. Encoded(result, s)
  BY <1>3, <1>8, <1>10, <1>11, EncodedWith
<1>13. QED
  BY <1>12 DEF result

LEMMA EncodedStack ==
    ASSUME NEW a, NEW s, Agrees(a, s), Form(8, s)
    PROVE  Encoded(build_instruction(a), s)
<1> DEFINE o == s[1]
           size == s[2]
           d == s[4]
           opcode == StackByte(o, d)
           p == PrefixOf(StackSize(size), upper(d), FALSE, FALSE)
           head == p \o (<<opcode>> \o <<>>)
           result == build_instruction(a)
<1>1. /\ o \in {POP, PUSH} /\ size \in {D16, D64} /\ Len(s) = 4
      /\ s[3] = REG /\ d \in Registry
  BY DEF Form, Stacking
<1>2. /\ a \in [0 .. 6 -> Int]
      /\ a[0] = o /\ a[1] = size /\ a[2] = REG /\ a[3] = d
  BY <1>1, AgreedTokens DEF Agrees
<1>3. Makes(result, head, NoField)
  <2>1. CASE o = POP
    <3>1. result = build_pop(a)
      BY <1>2, <2>1, Table
    <3>2. Makes(build_pop(a), head, NoField)
      BY <1>1, <1>2, <2>1, BuildsPop
    <3>3. QED
      BY <3>1, <3>2
  <2>2. CASE o = PUSH
    <3>1. result = build_push(a)
      BY <1>2, <2>2, Table
    <3>2. Makes(build_push(a), head, NoField)
      BY <1>1, <1>2, <2>2, BuildsPush
    <3>3. QED
      BY <3>1, <3>2
  <2>3. QED
    BY <1>1, <2>1, <2>2
<1>4. SizeOf(s) = size /\ \A target : Operands(s, target) = <<Register(d)>>
  BY <1>1, ShownOne
<1>5. Len(head) >= 1
  <2>1. p \in Seq(Byte) /\ opcode \in Byte
    BY <1>1, StackPrefix, StackBytes
  <2> HIDE DEF p, opcode
  <2>2. QED
    BY <2>1, NotEmpty
<1> HIDE DEF result
<1>6. ASSUME NEW code, NEW at, NEW target \in Nat, Emplaced(code, at, result, target)
      PROVE  ReadAs(code, at, result, o, size, <<Register(d)>>)
  BY <1>1, <1>3, <1>6, ReadsStack
<1>7. DecodedAs(result, s)
  BY <1>4, <1>6 DEF DecodedAs
<1> HIDE DEF head
<1>8. Encoded(result, s)
  BY <1>3, <1>5, <1>7, NoReference, EncodedWith
<1>9. QED
  BY <1>8 DEF result

LEMMA EncodedJump ==
    ASSUME NEW a, NEW s, Agrees(a, s), Form(9, s) \/ Form(10, s)
    PROVE  Encoded(build_instruction(a), s)
<1> DEFINE o == s[1]
           id == Referred(s)
           opcode == IF o = JMP THEN \he9 ELSE \he8
           head == <<opcode>>
           result == build_instruction(a)
<1>1. \/ o = JMP /\ Len(s) = 4 /\ s[2] = D32 /\ s[3] = REL
      \/ o = CALL /\ Len(s) = 3 /\ s[2] = REL
  BY DEF Form
<1>2. a \in [0 .. 6 -> Int] /\ JMP # CALL /\ JMP # MOV /\ CALL # MOV
  BY DEF Agrees, JMP, CALL, MOV
<1>3. Makes(result, head, Field(D32, id, "unsorted")) /\ JumpOpcode(o, opcode)
  <2>1. CASE o = JMP
    <3>1. a[0] = JMP /\ a[1] = D32 /\ a[2] = REL /\ a[3] = id
      BY <1>1, <1>2, <2>1, AgreedTokens DEF Referred
    <3>2. result = build_jump(a)
      BY <1>2, <3>1, Table
    <3>3. head = <<\he9>>
      BY <2>1
    <3>4. Makes(build_jump(a), <<\he9>>, Field(D32, id, "unsorted"))
      BY <3>1, BuildsJump
    <3>5. QED
      BY <2>1, <3>2, <3>3, <3>4 DEF JumpOpcode
  <2>2. CASE o = CALL
    <3>1. a[0] = CALL /\ a[1] = REL /\ a[2] = id
      BY <1>1, <1>2, <2>2, AgreedTokens DEF Referred
    <3>2. result = build_call(a)
      BY <1>2, <3>1, Table
    <3>3. head = <<\he8>>
      BY <1>2, <2>2
    <3>4. Makes(build_call(a), <<\he8>>, Field(D32, id, "unsorted"))
      BY <3>1, BuildsCall
    <3>5. QED
      BY <1>2, <2>2, <3>2, <3>3, <3>4 DEF JumpOpcode
  <2>3. QED
    BY <1>1, <2>1, <2>2
<1>4. SizeOf(s) = D32 /\ \A target : Operands(s, target) = <<Code(target)>>
  BY <1>1, ShownJump
<1>5. Len(head) >= 1
  OBVIOUS
<1> HIDE DEF result, opcode
<1>6. ASSUME NEW code, NEW at, NEW target \in Nat, Emplaced(code, at, result, target),
             Near(Len(code)), Near(target)
      PROVE  ReadAs(code, at, result, o, D32, <<Code(target)>>)
  BY <1>3, <1>6, ReadsJump
<1>7. DecodedAs(result, s)
  BY <1>4, <1>6 DEF DecodedAs
<1> HIDE DEF head
<1>8. Encoded(result, s)
  BY <1>3, <1>5, <1>7, EncodedWith
<1>9. QED
  BY <1>8 DEF result

LEMMA EncodedJumpIf ==
    ASSUME NEW a, NEW s, Agrees(a, s), Form(11, s)
    PROVE  Encoded(build_instruction(a), s)
<1> DEFINE o == s[1]
           id == s[4]
           opcode == LongJump(o)
           head == <<\h0f>> \o (<<opcode>> \o <<>>)
           result == build_instruction(a)
<1>1. o \in JO .. JG /\ Len(s) = 4 /\ s[2] = D32 /\ s[3] = REL /\ id # 0
  BY DEF Form
<1>2. a \in [0 .. 6 -> Int] /\ a[0] = o /\ a[1] = D32 /\ a[3] = id
  BY <1>1, AgreedTokens DEF Agrees
<1>3. Makes(result, head, Field(D32, id, "unsorted"))
  <2>1. result = build_jump_if(a)
    BY <1>1, <1>2, Table
  <2>2. QED
    BY <1>1, <1>2, <2>1, BuildsJumpIf
<1>4. SizeOf(s) = D32 /\ \A target : Operands(s, target) = <<Code(target)>>
  BY <1>1, ShownJump
<1>5. Len(head) >= 1
  <2> DEFINE first == \h0f
             p == <<first>>
  <2>1. first \in Byte /\ opcode \in Byte
    BY <1>1, LongJumps DEF Byte
  <2> HIDE DEF first, opcode
  <2>2. p \in Seq(Byte)
    BY <2>1
  <2> HIDE DEF p
  <2>3. Len(p \o (<<opcode>> \o <<>>)) >= 1
    BY <2>1, <2>2, NotEmpty
  <2>4. QED
    BY <2>3 DEF p, first
<1> HIDE DEF result
<1>6. ASSUME NEW code, NEW at, NEW target \in Nat, Emplaced(code, at, result, target),
             Near(Len(code)), Near(target)
      PROVE  ReadAs(code, at, result, o, D32, <<Code(target)>>)
  BY <1>1, <1>3, <1>6, ReadsLongJump
<1>7. DecodedAs(result, s)
  BY <1>4, <1>6 DEF DecodedAs
<1>8. Referred(s) = id
  <2>1. o # MOV /\ o # CALL
    BY <1>1 DEF JO, JG, MOV, CALL
  <2>2. QED
    BY <2>1 DEF Referred
<1> HIDE DEF head
<1>9. Encoded(result, s)
  BY <1>3, <1>5, <1>7, <1>8, EncodedWith
<1>10. QED
  BY <1>9 DEF result

LEMMA OfTwoBytes ==
    ASSUME NEW operation \in TwoByteOperations
    PROVE  Len(StaticBytes(operation)) = 2
<1> DEFINE n == operation - SYSCALL + 1
           s == StaticBytes(operation)
<1>1. n \in 1 .. 48
  BY DEF TwoByteOperations, SYSCALL, CPUID, FNOP, FSCALE
<1>2. static_2 \in Seq(Int) /\ Len(static_2) = 48
  BY SMT DEF static_2
<1> HIDE DEF n
<1> DEFINE table == static_2
<1>7. table \in Seq(Int) /\ Len(table) = 48
  BY <1>2
<1> HIDE DEF table
<1>8. table[n] \in Int
  BY <1>1, <1>7, ElementOfSeq
<1>3. static_2[n] \in Int
  BY <1>8 DEF table
<1>4. LittleEndian(static_2[n]) \in Seq(Byte) /\ Len(LittleEndian(static_2[n])) = 4
  BY <1>3, LittleEndianBytes
<1>5. Len(SubSeq(LittleEndian(static_2[n]), 1, 2)) = 2
  <2> HIDE DEF n
  <2>1. \A q \in Seq(Byte) : Len(q) = 4 => Len(SubSeq(q, 1, 2)) = 2
    OBVIOUS
  <2>2. QED
    BY <1>4, <2>1
<1>6. QED
  BY <1>5 DEF n, StaticBytes

LEMMA EncodedNone ==
    ASSUME NEW a, NEW s, Agrees(a, s), Form(12, s)
    PROVE  Encoded(build_instruction(a), s)
<1> DEFINE o == s[1]
           result == build_instruction(a)
<1>1. o \in OneByteOperations \union TwoByteOperations /\ Len(s) = 1
  BY DEF Form
<1>2. a \in [0 .. 6 -> Int] /\ a[0] = o
  BY <1>1, AgreedTokens DEF Agrees
<1>3. SizeOf(s) = D32 /\ \A target : Operands(s, target) = <<>>
  BY <1>1, ShownNone
<1>4. CASE o \in OneByteOperations
  <2> DEFINE opcode == StaticByte(o)
             head == <<opcode>> \o <<>>
  <2>1. Makes(result, head, NoField)
    <3>1. o \in NOP .. RETF
      BY <1>4 DEF OneByteOperations, NOP, POPF, PUSHF, LEAVE, RETN, RETF
    <3>2. result = build_static_1(a)
      BY <1>2, <3>1, Table
    <3>3. QED
      BY <1>2, <1>4, <3>2, BuildsOneByte
  <2>2. Len(head) >= 1
    <3>1. opcode \in Byte
      BY <1>4, OneByteOpens DEF Opens
    <3>2. <<>> \in Seq(Byte) /\ Len(<<>>) = 0
      OBVIOUS
    <3> HIDE DEF opcode
    <3>3. Len(<<opcode>> \o <<>>) = 1 + Len(<<>>)
      BY <3>1, <3>2, Opening
    <3>4. QED
      BY <3>2, <3>3
  <2> HIDE DEF result
  <2>3. ASSUME NEW code, NEW at, NEW target \in Nat, Emplaced(code, at, result, target)
        PROVE  ReadAs(code, at, result, o, D32, <<>>)
    BY <1>4, <2>1, <2>3, ReadsOneByte
  <2>4. DecodedAs(result, s)
    BY <1>3, <2>3 DEF DecodedAs
  <2> HIDE DEF head
  <2>5. Encoded(result, s)
    BY <2>1, <2>2, <2>4, NoReference, EncodedWith
  <2>6. QED
    BY <2>5 DEF result
<1>5. CASE o \in TwoByteOperations
  <2> DEFINE head == StaticBytes(o)
  <2>1. Makes(result, head, NoField)
    <3>1. o \in SYSCALL .. FNCLEX
      BY <1>5 DEF TwoByteOperations, SYSCALL, CPUID, FNOP, FSCALE, FNCLEX
    <3>2. result = build_static_2(a)
      BY <1>2, <3>1, Table
    <3>3. QED
      BY <1>2, <1>5, <3>2, BuildsTwoBytes
  <2>2. Len(head) >= 1
    BY <1>5, OfTwoBytes
  <2> HIDE DEF result
  <2>3. ASSUME NEW code, NEW at, NEW target \in Nat, Emplaced(code, at, result, target)
        PROVE  ReadAs(code, at, result, o, D32, <<>>)
    BY <1>5, <2>1, <2>3, ReadsTwoBytes
  <2>4. DecodedAs(result, s)
    BY <1>3, <2>3 DEF DecodedAs
  <2> HIDE DEF head
  <2>5. Encoded(result, s)
    BY <2>1, <2>2, <2>4, NoReference, EncodedWith
  <2>6. QED
    BY <2>5 DEF result
<1>6. QED
  BY <1>1, <1>4, <1>5

(***************************************************************************)
(* Whatever surrounds it, wherever it lies and whatever it refers to: the  *)
(* code of a right statement is decoded as the statement, to its last byte.*)
(***************************************************************************)
THEOREM RightIsEncoded ==
    ASSUME NEW a, NEW s, Agrees(a, s), Right(s), ~Declaring(s)
    PROVE  Encoded(build_instruction(a), s)
<1>1. PICK n \in 1 .. 12 : Form(n, s)
  BY RightForms
<1>2. \/ Form(1, s) \/ Form(2, s) \/ Form(3, s) \/ Form(4, s) \/ Form(5, s) \/ Form(6, s)
      \/ Form(7, s) \/ Form(8, s) \/ Form(9, s) \/ Form(10, s) \/ Form(11, s) \/ Form(12, s)
  <2>1. \/ n = 1 \/ n = 2 \/ n = 3 \/ n = 4 \/ n = 5 \/ n = 6 \/ n = 7 \/ n = 8 \/ n = 9
        \/ n = 10 \/ n = 11 \/ n = 12
    OBVIOUS
  <2>2. QED
    BY <1>1, <2>1, Zenon
<1>3. QED
  BY <1>2, EncodedRegisters, EncodedImmediate, EncodedMoveOfRegisters, EncodedMove,
     EncodedAddress, EncodedOneRegister, EncodedOneMemory, EncodedStack, EncodedJump,
     EncodedJumpIf, EncodedNone
=============================================================================
