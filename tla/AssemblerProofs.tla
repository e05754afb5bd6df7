-------------------------- MODULE AssemblerProofs --------------------------
(***************************************************************************)
(* What TLAPS proves of Assembler, for every program: that the first pass  *)
(* never loses the beginning of a statement but for 64 bit moves, how fast *)
(* the arrays fill even then, that the second pass leaves the instructions *)
(* alone, and that a program of statements that are encoded right becomes  *)
(* what it says, which makes Assembler an implementation of Assembly.      *)
(***************************************************************************)
EXTENDS InstructionProofs, FiniteSetTheorems

-----------------------------------------------------------------------------
(***************************************************************************)
(* Types, and how fast the arrays grow.                                    *)
(***************************************************************************)
Hole == [at : Nat, id : Int, width : {1, 2, 4}]

Types ==
    /\ TypeOK
    /\ \A id \in Ids : empty_store[id] <= Len(text_sector_byte)

\* Behind the end of the tokens nothing more is noted.
Grown ==
    /\ 2 * Len(empty_holes) <= index
    /\ GrowthBounded

TypesAndGrowth == Types /\ Grown

LEMMA TokensAreNumbers ==
    ASSUME TypeOK
    PROVE  (\A i \in Nat : Token(i) \in Int) /\ array \in [0 .. 6 -> Int]
<1>1. \A i \in Nat : Token(i) \in Int
  BY DEF TypeOK, Token, token_count
<1>2. \A k \in 0 .. 6 : index + k \in Nat
  BY DEF TypeOK
<1>3. \A k \in 0 .. 6 : Token(index + k) \in Int
  BY <1>1, <1>2
<1> QED
  BY <1>1, <1>3 DEF array

LEMMA PushGrows ==
    ASSUME TypesAndGrowth, NEW group, group \in Seq(Seq(Int)), Push(group),
           UNCHANGED unbuilt, phase' \in Phases
    PROVE  TypesAndGrowth'
<1>1. token_array \in Seq(Int) /\ FlattenSeq(group) \in Seq(Int)
  BY FlattenAll DEF TypesAndGrowth, Types, TypeOK
<1>2. token_array' \in Seq(Int) /\ Len(token_array) <= Len(token_array')
  <2>1. token_array' = token_array \o FlattenSeq(group)
    BY DEF Push
  <2> QED
    BY <1>1, <2>1, ConcatProperties
<1>3. TypeOK'
  BY <1>2 DEF TypesAndGrowth, Types, TypeOK, unbuilt
<1>4. Grown'
  BY <1>1, <1>2 DEF TypesAndGrowth, Types, TypeOK, unbuilt, Grown, GrowthBounded, token_count
<1>5. \A id \in Ids : empty_store'[id] <= Len(text_sector_byte')
  BY DEF TypesAndGrowth, Types, unbuilt
<1> QED
  BY <1>3, <1>4, <1>5 DEF TypesAndGrowth, Types

\* Steps of either pass that make no code.
LEMMA StillGrown ==
    ASSUME TypesAndGrowth, phase' \in Phases,
           UNCHANGED <<token_array, index, text_sector_byte, empty_holes, empty_store,
                       patched, built>>,
           main_entry_point' \in 0 .. Len(text_sector_byte)
    PROVE  TypesAndGrowth'
BY DEF TypesAndGrowth, Types, TypeOK, Grown, GrowthBounded, token_count

\* A step of the first pass: code of at most four bytes for each token, a hole for at most
\* every second.
LEMMA BuildGrows ==
    ASSUME TypesAndGrowth, NEW operations, NEW skip \in Nat, Building(operations, skip),
           NEW code, text_sector_byte' = text_sector_byte \o code, code \in Seq(Byte),
           Len(code) <= 4 * (skip + 1),
           \/ empty_holes' = empty_holes
           \/ /\ skip >= 1
              /\ \E hole \in Hole :
                    empty_holes' = Append(empty_holes, hole),
           empty_store' \in [Ids -> Nat],
           \A id \in Ids : empty_store'[id] <= Len(text_sector_byte)
                           \/ empty_store'[id] = empty_store[id],
           built' \in Seq([statement : Nat, at : Nat])
    PROVE  TypesAndGrowth'
<1> DEFINE n == Len(text_sector_byte)
           m == Len(code)
           h == Len(empty_holes)
<1>1. /\ text_sector_byte \in Seq(Byte) /\ n \in Nat /\ m \in Nat /\ h \in Nat /\ index \in Nat
      /\ empty_holes \in Seq(Hole)
      /\ token_count \in Nat /\ token_count' = token_count
      /\ patched \in 0 .. h /\ main_entry_point \in 0 .. n
  BY DEF TypesAndGrowth, Types, TypeOK, token_count, Building, Byte, Hole
<1>2. text_sector_byte' \in Seq(Byte) /\ Len(text_sector_byte') = n + m
  BY <1>1, ConcatProperties
<1>3. index' = index + skip + 1 /\ index < token_count /\ index' \in Nat
  BY <1>1 DEF Building
<1>4. /\ empty_holes' \in Seq(Hole)
      /\ \/ Len(empty_holes') = h
         \/ Len(empty_holes') = h + 1 /\ skip >= 1
  <2>1. CASE empty_holes' = empty_holes
    BY <1>1, <2>1
  <2>2. CASE ~(empty_holes' = empty_holes)
    <3>1. skip >= 1
      BY <2>2
    <3>2. PICK hole \in Hole : empty_holes' = Append(empty_holes, hole)
      BY <2>2
    <3> QED
      BY <1>1, <3>1, <3>2, AppendProperties
  <2> QED
    BY <2>1, <2>2
<1>5. /\ 2 * h <= index /\ 2 * h <= token_count + 1 /\ n <= 4 * index
  BY DEF TypesAndGrowth, Grown, GrowthBounded
<1> HIDE DEF n, m, h
<1>6. /\ 2 * Len(empty_holes') <= index'
      /\ 2 * Len(empty_holes') <= token_count' + 1
  BY <1>1, <1>3, <1>4, <1>5
<1>7. Len(text_sector_byte') <= 4 * index'
  BY <1>1, <1>2, <1>3, <1>5 DEF m
<1>8. TypeOK'
  <2>1. main_entry_point' \in 0 .. n + m /\ patched' \in 0 .. Len(empty_holes')
    BY <1>1, <1>4 DEF Building
  <2> QED
    BY <1>1, <1>2, <1>3, <1>4, <2>1 DEF TypesAndGrowth, Types, TypeOK, Building, Byte, Hole
<1>9. \A id \in Ids : empty_store'[id] <= Len(text_sector_byte')
  <2> SUFFICES ASSUME NEW id \in Ids PROVE empty_store'[id] <= Len(text_sector_byte')
    OBVIOUS
  <2>1. empty_store'[id] <= n
    BY DEF TypesAndGrowth, Types, n
  <2>2. empty_store'[id] \in Nat
    OBVIOUS
  <2> QED
    BY <1>1, <1>2, <2>1, <2>2 DEF n
<1> QED
  BY <1>6, <1>7, <1>8, <1>9 DEF TypesAndGrowth, Types, Grown, GrowthBounded

\* What an instruction leaves in the text, and the hole that is noted for its field.
LEMMA EmittedIsShort ==
    ASSUME NEW result, Modest(result), NEW at \in Nat
    PROVE  /\ Emitted(result, at) \in Seq(Byte)
           /\ Len(Emitted(result, at)) = Len(result.head) + result.field.width + Len(result.tail)
           /\ Len(Emitted(result, at)) <= 4 * (result.skip + 1)
<1> DEFINE field == result.field
           place == at + Len(result.head)
           bytes == FieldBytes(field, place)
<1>1. /\ result.head \in Seq(Byte) /\ result.tail \in Seq(Byte) /\ place \in Nat
      /\ FieldOk(field, result.skip)
      /\ Len(result.head) + field.width + Len(result.tail) <= 4 * (result.skip + 1)
  BY DEF Modest
<1>2. field.width \in 0 .. 4 /\ field.base \in Bases
  BY <1>1 DEF FieldOk, NoField, Bases
<1> HIDE DEF place
<1>3. Base(field.base, place) \in Int
  BY <1>1, <1>2 DEF Base, Bases
<1>4. bytes \in Seq(Byte) /\ Len(bytes) = field.width
  <2> HIDE DEF field
  <2> QED
    BY <1>2, <1>3, Prefix DEF FieldBytes, Short
<1> HIDE DEF bytes
<1>5. /\ result.head \o bytes \in Seq(Byte)
      /\ Len(result.head \o bytes) = Len(result.head) + Len(bytes)
  BY <1>1, <1>4, ConcatProperties
<1>6. /\ (result.head \o bytes) \o result.tail \in Seq(Byte)
      /\ Len((result.head \o bytes) \o result.tail)
            = Len(result.head) + Len(bytes) + Len(result.tail)
  BY <1>1, <1>5, ConcatProperties
<1> QED
  BY <1>1, <1>4, <1>6 DEF Emitted, bytes, place

LEMMA ByteIsNat == \A b \in Byte : b \in Nat
BY DEF Byte

\* The text with one field filled in is as long as before.
LEMMA PatchedBytes ==
    ASSUME NEW text \in Seq(Byte), NEW at \in Nat, NEW store \in Nat
    PROVE  Patched(text, at, store) \in Seq(Byte) /\ Len(Patched(text, at, store)) = Len(text)
<1>1. Len(text) \in Nat
  OBVIOUS
<1>2. ASSUME NEW k \in 0 .. 3
      PROVE  (IF at + k < Len(text) THEN text[at + k + 1] ELSE 0) \in Nat
  <2>1. at + k < Len(text) => at + k + 1 \in 1 .. Len(text)
    BY <1>1
  <2>2. CASE at + k < Len(text)
    <3>1. text[at + k + 1] \in Byte
      BY <2>1, <2>2, ElementOfSeq
    <3>2. text[at + k + 1] \in Nat
      BY <3>1, ByteIsNat
    <3> QED
      BY <2>2, <3>2
  <2>3. CASE ~(at + k < Len(text))
    BY <2>3
  <2> QED
    BY <2>2, <2>3
<1> DEFINE byte(k) == IF at + k < Len(text) THEN text[at + k + 1] ELSE 0
           low  == byte(0) + (256 * byte(1)) + (store % 65536)
           high == byte(2) + (256 * byte(3)) + (store \div 65536) + (low \div 65536)
           sum == <<low % 256, (low \div 256) % 256, high % 256, (high \div 256) % 256>>
<1>3. byte(0) \in Nat /\ byte(1) \in Nat /\ byte(2) \in Nat /\ byte(3) \in Nat
  <2>1. \A k \in 0 .. 3 : byte(k) \in Nat
    BY <1>2
  <2> HIDE DEF byte
  <2> QED
    BY <2>1
<1> HIDE DEF byte
<1>4. low \in Int
  BY <1>3
<1> HIDE DEF low
<1>5. high \in Int
  BY <1>3, <1>4
<1> HIDE DEF high
<1>6. low \div 256 \in Int /\ high \div 256 \in Int
  BY <1>4, <1>5
<1>7. \A i \in 1 .. 4 : sum[i] \in Byte
  <2>1. /\ low % 256 \in Byte /\ (low \div 256) % 256 \in Byte
        /\ high % 256 \in Byte /\ (high \div 256) % 256 \in Byte
    BY <1>4, <1>5, <1>6, ByteOf
  <2> QED
    BY <2>1
<1>8. Added(text, at, store) = sum
  BY DEF Added, sum, low, high, byte
<1> HIDE DEF sum
<1>9. \A i \in 1 .. Len(text) :
        (IF i - 1 - at \in 0 .. 3 THEN sum[i - at] ELSE text[i]) \in Byte
  <2> SUFFICES ASSUME NEW i \in 1 .. Len(text)
               PROVE  (IF i - 1 - at \in 0 .. 3 THEN sum[i - at] ELSE text[i]) \in Byte
    OBVIOUS
  <2>1. i - 1 - at \in 0 .. 3 => i - at \in 1 .. 4
    OBVIOUS
  <2>2. text[i] \in Byte
    OBVIOUS
  <2> QED
    BY <1>7, <2>1, <2>2
<1>10. Patched(text, at, store)
         = [i \in 1 .. Len(text) |-> IF i - 1 - at \in 0 .. 3 THEN sum[i - at] ELSE text[i]]
  <2>1. DOMAIN text = 1 .. Len(text)
    OBVIOUS
  <2> QED
    BY <1>8, <2>1 DEF Patched
<1> QED
  BY <1>1, <1>9, <1>10

LEMMA InitGrown == Init => TypesAndGrowth
<1> SUFFICES ASSUME Init PROVE TypesAndGrowth
  OBVIOUS
<1>1. /\ 0 \in Nat /\ <<>> \in Seq(Int) /\ <<>> \in Seq(0 .. 255) /\ Len(<<>>) = 0
      /\ <<>> \in Seq(Hole)
      /\ <<>> \in Seq([statement : Nat, at : Nat])
  BY EmptySeq
<1>2. phase \in Phases
  BY DEF Init, Phases
<1>3. empty_store \in [Ids -> Nat] /\ \A id \in Ids : empty_store[id] = 0
  BY DEF Init
<1>4. TypeOK
  BY <1>1, <1>2, <1>3 DEF Init, TypeOK, Hole
<1> QED
  BY <1>1, <1>3, <1>4 DEF Init, TypesAndGrowth, Types, Grown, GrowthBounded, token_count

LEMMA VariableStatements ==
    ASSUME NEW variable \in Variables
    PROVE  /\ <<<<ASMDIRMEM, variable.id>>, variable.data>> \in Seq(Seq(Int))
           /\ Written(<<ASMDIRMEM, variable.id>>) /\ Written(variable.data)
<1>1. ASMDIRMEM \in Int /\ variable.id \in Int /\ Written(variable.data)
  BY StatementsAssumption DEF ASMDIRMEM
<1>2. <<ASMDIRMEM, variable.id>> \in Seq(Int) /\ Len(<<ASMDIRMEM, variable.id>>) = 2
  BY <1>1
<1>3. variable.data \in Seq(Int)
  BY <1>1 DEF Written
<1> QED
  BY <1>1, <1>2, <1>3 DEF Written

\* The next place in the code, and a statement's entry in `built'.
LEMMA NoteBuiltType ==
    ASSUME TypeOK
    PROVE  NoteBuilt \in Seq([statement : Nat, at : Nat])
<1>1. /\ index \in Nat /\ Len(text_sector_byte) \in Nat
      /\ built \in Seq([statement : Nat, at : Nat])
  BY DEF TypeOK
<1>2. [statement |-> index, at |-> Len(text_sector_byte)] \in [statement : Nat, at : Nat]
  BY <1>1
<1> QED
  BY <1>1, <1>2, AppendProperties DEF NoteBuilt

LEMMA StoreMemoryGrows ==
    ASSUME TypesAndGrowth, StoreMemory
    PROVE  TypesAndGrowth'
<1>1. TypeOK /\ Len(text_sector_byte) \in Nat /\ text_sector_byte \in Seq(Byte)
  BY DEF TypesAndGrowth, Types, TypeOK, Byte
<1>2. <<>> \in Seq(Byte) /\ Len(<<>>) <= 4 * (1 + 1)
  BY EmptySeq
<1>3. text_sector_byte' = text_sector_byte \o <<>>
  BY <1>1, ConcatEmptySeq DEF StoreMemory
<1>4. empty_store' = [empty_store EXCEPT ![array[1]] = Len(text_sector_byte)]
  BY DEF StoreMemory
<1>5. /\ empty_store' \in [Ids -> Nat]
      /\ \A id \in Ids : empty_store'[id] <= Len(text_sector_byte)
                         \/ empty_store'[id] = empty_store[id]
  <2>1. empty_store \in [Ids -> Nat]
    BY <1>1 DEF TypeOK
  <2>2. ASSUME NEW id \in Ids
        PROVE  empty_store'[id] = IF id = array[1] THEN Len(text_sector_byte)
                                  ELSE empty_store[id]
    BY <1>4, <2>1
  <2>3. empty_store' \in [Ids -> Nat]
    BY <1>1, <1>4, <2>1
  <2> QED
    BY <1>1, <2>2, <2>3
<1>6. /\ Building({ASMDIRMEM}, 1) /\ empty_holes' = empty_holes
      /\ built' \in Seq([statement : Nat, at : Nat])
  BY <1>1 DEF StoreMemory, TypeOK
<1> QED
  BY <1>2, <1>3, <1>5, <1>6, BuildGrows

LEMMA StoreRelativeGrows ==
    ASSUME TypesAndGrowth, StoreRelative
    PROVE  TypesAndGrowth'
<1>1. TypeOK /\ Len(text_sector_byte) \in Nat /\ text_sector_byte \in Seq(Byte)
  BY DEF TypesAndGrowth, Types, TypeOK, Byte
<1>2. <<>> \in Seq(Byte) /\ Len(<<>>) <= 4 * (1 + 1)
  BY EmptySeq
<1>3. text_sector_byte' = text_sector_byte \o <<>>
  BY <1>1, ConcatEmptySeq DEF StoreRelative
<1> DEFINE hole == [at |-> Len(text_sector_byte), id |-> array[1], width |-> 4]
<1>4. hole \in Hole
  BY <1>1, TokensAreNumbers DEF Hole
<1>5. empty_holes' = Append(empty_holes, hole)
  BY DEF StoreRelative
<1> HIDE DEF hole
<1>6. /\ 1 \in Nat /\ 1 >= 1 /\ Building({ASMDIRREL}, 1) /\ empty_store' = empty_store
      /\ empty_store' \in [Ids -> Nat] /\ built' \in Seq([statement : Nat, at : Nat])
  BY <1>1 DEF StoreRelative, TypeOK
<1> QED
  BY <1>2, <1>3, <1>4, <1>5, <1>6, BuildGrows

\* The elements of an immediate directive, as bytes.
LEMMA Elements ==
    ASSUME TypeOK, NEW amount \in Nat
    PROVE  LET element(i) == inset_immediate(TRUE, array[1], Token(index + 3 + i))
               code == FlattenSeq([i \in 1 .. amount |-> element(i - 1)])
           IN  code \in Seq(Byte) /\ Len(code) <= 4 * amount
<1> DEFINE element(i) == inset_immediate(TRUE, array[1], Token(index + 3 + i))
           elements == [i \in 1 .. amount |-> element(i - 1)]
<1>1. ASSUME NEW i \in 1 .. amount PROVE Short(element(i - 1), 4)
  <2>1. index + 3 + (i - 1) \in Nat
    BY DEF TypeOK
  <2>2. Token(index + 3 + (i - 1)) \in Int
    BY <2>1, TokensAreNumbers
  <2> QED
    BY <2>2, InsetImmediate
<1> HIDE DEF element
<1>2. /\ elements \in Seq(Seq(Byte)) /\ Len(elements) = amount
      /\ \A i \in 1 .. Len(elements) : Len(elements[i]) <= 4
  BY <1>1 DEF Short
<1> HIDE DEF elements
<1>3. FlattenSeq(elements) = FlatTo(amount, elements) /\ FlattenSeq(elements) \in Seq(Byte)
  BY <1>2, FlattenAll
<1>4. Len(FlatTo(amount, elements)) <= 4 * amount
  BY <1>2, FlatLength
<1> QED
  BY <1>3, <1>4 DEF elements, element

LEMMA StoreImmediateGrows ==
    ASSUME TypesAndGrowth, StoreImmediate
    PROVE  TypesAndGrowth'
<1> DEFINE amount == array[2]
           element(i) == inset_immediate(TRUE, array[1], Token(index + 3 + i))
           code == FlattenSeq([i \in 1 .. amount |-> element(i - 1)])
<1>1. TypeOK /\ amount \in Nat
  BY TokensAreNumbers DEF TypesAndGrowth, Types, StoreImmediate
<1>2. /\ Building({ASMDIRIMM}, amount + 2) /\ built' = NoteBuilt
      /\ text_sector_byte' = text_sector_byte \o code
      /\ empty_holes' = empty_holes /\ empty_store' = empty_store
  BY DEF StoreImmediate
<1>3. code \in Seq(Byte) /\ Len(code) <= 4 * amount
  <2> HIDE DEF amount
  <2> QED
    BY <1>1, Elements
<1> HIDE DEF code, amount
<1>4. Len(code) <= 4 * ((amount + 2) + 1) /\ amount + 2 \in Nat
  BY <1>1, <1>3
<1>5. empty_store' \in [Ids -> Nat] /\ built' \in Seq([statement : Nat, at : Nat])
  BY <1>1, <1>2, NoteBuiltType DEF TypeOK
<1> QED
  BY <1>2, <1>3, <1>4, <1>5, BuildGrows

LEMMA BuildInstructionGrows ==
    ASSUME TypesAndGrowth, BuildInstruction
    PROVE  TypesAndGrowth'
<1> DEFINE result == build_instruction(array)
           at == Len(text_sector_byte)
           code == Emitted(result, at)
           field == [at |-> at + Len(result.head), id |-> result.field.id,
                     width |-> result.field.width]
<1>1. TypeOK /\ at \in Nat
  BY DEF TypesAndGrowth, Types, TypeOK
<1>2. /\ Building(Instructions, result.skip) /\ built' = NoteBuilt
      /\ text_sector_byte' = text_sector_byte \o code /\ empty_store' = empty_store
      /\ empty_holes' = IF result.field = NoField THEN empty_holes
                        ELSE Append(empty_holes, field)
  BY DEF BuildInstruction
<1>3. array \in [0 .. 6 -> Int] /\ array[0] \in Instructions
  <2>1. array \in [0 .. 6 -> Int]
    BY <1>1, TokensAreNumbers
  <2>2. array[0] = Token(index)
    BY <1>1 DEF array, TypeOK
  <2> QED
    BY <1>2, <2>1, <2>2 DEF Building
<1>4. Modest(result)
  BY <1>3, BuildersAreModest
<1> HIDE DEF result, at, code
<1>5. code \in Seq(Byte) /\ Len(code) <= 4 * (result.skip + 1)
  BY <1>1, <1>4, EmittedIsShort DEF code
<1>6. result.skip \in Nat /\ FieldOk(result.field, result.skip) /\ Len(result.head) \in Nat
  BY <1>4 DEF Modest
<1>7. \/ empty_holes' = empty_holes
      \/ /\ result.skip >= 1
         /\ \E hole \in Hole :
               empty_holes' = Append(empty_holes, hole)
  <2>1. CASE result.field = NoField
    BY <1>2, <2>1
  <2>2. CASE result.field # NoField
    <3>1. field \in Hole /\ result.skip >= 1
      BY <1>1, <1>6, <2>2 DEF FieldOk, Hole
    <3>2. empty_holes' = Append(empty_holes, field)
      BY <1>2, <2>2
    <3> HIDE DEF field
    <3> QED
      BY <3>1, <3>2
  <2> QED
    BY <2>1, <2>2
<1>8. empty_store' \in [Ids -> Nat] /\ built' \in Seq([statement : Nat, at : Nat])
  BY <1>1, <1>2, NoteBuiltType DEF TypeOK
<1> HIDE DEF field
<1> QED
  BY <1>2, <1>5, <1>6, <1>7, <1>8, BuildGrows

LEMMA PatchGrows ==
    ASSUME TypesAndGrowth, Patch
    PROVE  TypesAndGrowth'
<1> DEFINE hole == empty_holes[patched + 1]
<1>1. /\ TypeOK /\ patched < Len(empty_holes) /\ hole.id \in Ids /\ patched' = patched + 1
      /\ text_sector_byte' = Patched(text_sector_byte, hole.at, empty_store[hole.id])
  BY DEF TypesAndGrowth, Types, Patch
<1>2. hole.at \in Nat /\ empty_store[hole.id] \in Nat /\ text_sector_byte \in Seq(Byte)
  <2>1. patched + 1 \in 1 .. Len(empty_holes)
    BY <1>1 DEF TypeOK
  <2>2. empty_holes \in Seq(Hole)
    BY <1>1 DEF TypeOK, Hole
  <2>3. hole \in Hole
    BY <2>1, <2>2, ElementOfSeq
  <2> QED
    BY <1>1, <2>3 DEF TypeOK, Byte, Hole
<1> HIDE DEF hole
<1>3. /\ text_sector_byte' \in Seq(0 .. 255)
      /\ Len(text_sector_byte') = Len(text_sector_byte)
  BY <1>1, <1>2, PatchedBytes DEF Byte
<1>4. /\ UNCHANGED <<phase, token_array, index, empty_holes, empty_store, main_entry_point,
                     statements, starts, built, listing>>
  BY DEF Patch
<1>5. TypeOK'
  BY <1>1, <1>3, <1>4 DEF TypeOK
<1>6. Grown' /\ \A id \in Ids : empty_store'[id] <= Len(text_sector_byte')
  BY <1>3, <1>4 DEF TypesAndGrowth, Types, Grown, GrowthBounded, token_count
<1> QED
  BY <1>5, <1>6 DEF TypesAndGrowth, Types

\* Every step keeps the types and the bounds.
LEMMA NextGrown == TypesAndGrowth /\ [Next]_vars => TypesAndGrowth'
<1> SUFFICES ASSUME TypesAndGrowth, [Next]_vars PROVE TypesAndGrowth'
  OBVIOUS
<1>1. ASSUME NEW group \in Reductions, AppendInstructions(group) PROVE TypesAndGrowth'
  <2>1. group \in Seq(Seq(Int))
    BY StatementsAssumption
  <2>2. Push(group) /\ UNCHANGED unbuilt /\ phase' \in Phases
    BY <1>1 DEF AppendInstructions, Phases
  <2> QED
    BY <2>1, <2>2, PushGrows
<1>2. ASSUME NEW variable \in Variables, DumpVariable(variable) PROVE TypesAndGrowth'
  <2> DEFINE group == <<<<ASMDIRMEM, variable.id>>, variable.data>>
  <2>1. group \in Seq(Seq(Int))
    BY VariableStatements
  <2>2. Push(group) /\ UNCHANGED unbuilt /\ phase' \in Phases
    BY <1>2 DEF DumpVariable, Phases
  <2> HIDE DEF group
  <2> QED
    BY <2>1, <2>2, PushGrows
<1>3. main_entry_point \in 0 .. Len(text_sector_byte)
  BY DEF TypesAndGrowth, Types, TypeOK
<1>4. CASE Compile
  BY <1>3, <1>4, StillGrown DEF Compile, unbuilt, Phases
<1>5. CASE Assemble
  BY <1>3, <1>5, StillGrown DEF Assemble, unbuilt, Phases, Final
<1>6. CASE NoBuilder
  BY <1>3, <1>6, StillGrown DEF NoBuilder, unbuilt, Phases, Final
<1>7. CASE StoreElsewhere
  BY <1>3, <1>7, StillGrown DEF StoreElsewhere, unbuilt, Phases, Final
<1>8. CASE StoreEndlessly
  BY <1>3, <1>8, StillGrown DEF StoreEndlessly, unbuilt, Phases, Final
<1>9. CASE PatchElsewhere
  BY <1>3, <1>9, StillGrown DEF PatchElsewhere, unbuilt, Phases, Final
<1>10. CASE EndBuild
  <2>1. /\ empty_store[0] \in Nat /\ empty_store[0] <= Len(text_sector_byte)
        /\ Len(text_sector_byte) \in Nat
    BY IdsAssumption DEF TypesAndGrowth, Types, TypeOK
  <2>2. main_entry_point' \in 0 .. Len(text_sector_byte)
    BY <1>10, <2>1 DEF EndBuild
  <2> QED
    BY <1>10, <2>2, StillGrown DEF EndBuild, Phases
<1>11. CASE EndLink
  BY <1>3, <1>11, StillGrown DEF EndLink, Phases, Final
<1>12. CASE UNCHANGED vars
  BY <1>12 DEF vars, TypesAndGrowth, Types, TypeOK, Grown, GrowthBounded, token_count
<1> QED
  BY <1>1, <1>2, <1>4, <1>5, <1>6, <1>7, <1>8, <1>9, <1>10, <1>11, <1>12, StoreMemoryGrows,
     StoreRelativeGrows, StoreImmediateGrows, BuildInstructionGrows, PatchGrows
     DEF Next, Step, Halted

LEMMA AlwaysGrown == Spec => []TypesAndGrowth
BY InitGrown, NextGrown, PTL DEF Spec

\* The variables of the assembler have their types: the code is bytes, a hole is one of the
\* code's places and a width, a symbol is placed within the code made so far, and execution
\* starts within the code.
THEOREM TypeCorrect == Spec => []TypeOK
<1>1. TypesAndGrowth => TypeOK
  BY DEF TypesAndGrowth, Types
<1> QED
  BY <1>1, AlwaysGrown, PTL

\* Whatever the program, misread or not, the first pass emits at most four bytes and half a
\* hole for each token.
THEOREM GrowthIsBounded == Spec => []GrowthBounded
<1>1. TypesAndGrowth => GrowthBounded
  BY DEF TypesAndGrowth, Grown
<1> QED
  BY <1>1, AlwaysGrown, PTL

-----------------------------------------------------------------------------
(***************************************************************************)
(* Framing: the first pass is at the beginning of a statement.  What has   *)
(* to be known for it is where the statements are in the token array.      *)
(***************************************************************************)
\* Where the k-th statement begins, or the next one would.
Place(k, begins, count) == IF k <= Len(begins) THEN begins[k] ELSE count

\* The tokens are the statements, one behind the other.
Laid(tokens, program, begins) ==
    /\ tokens \in Seq(Int) /\ program \in Seq(Seq(Int)) /\ begins \in Seq(Nat)
    /\ Len(begins) = Len(program)
    /\ Place(1, begins, Len(tokens)) = 0
    /\ \A k \in 1 .. Len(program) :
          /\ Written(program[k])
          /\ begins[k] + Len(program[k]) = Place(k + 1, begins, Len(tokens))
          /\ Place(k + 1, begins, Len(tokens)) <= Len(tokens)
          /\ \A j \in 1 .. Len(program[k]) : tokens[begins[k] + j] = program[k][j]

Layout == Laid(token_array, statements, starts)

LEMMA WrittenTypes ==
    \A s : Written(s) => /\ s \in Seq(Int) /\ Len(s) \in Nat /\ Len(s) >= 1
                         /\ s[1] \in Int
BY DEF Written

LEMMA Within ==
    \A from, length, end \in Nat :
        from + length <= end => \A j \in 1 .. length : from + j \in 1 .. end
OBVIOUS

LEMMA InitLayout == Init => Layout
<1> SUFFICES ASSUME Init PROVE Layout
  OBVIOUS
<1>1. /\ <<>> \in Seq(Seq(Int)) /\ <<>> \in Seq(Nat) /\ <<>> \in Seq(Int) /\ Len(<<>>) = 0
  BY EmptySeq
<1>2. 1 .. 0 = {} /\ ~(1 <= 0)
  OBVIOUS
<1> QED
  BY <1>1, <1>2 DEF Init, Layout, Laid, Place

\* Where the statements of a group are within its tokens.
LEMMA GroupPlaces ==
    ASSUME NEW group \in Seq(Seq(Int)), \A i \in 1 .. Len(group) : Written(group[i])
    PROVE  \E off \in [1 .. Len(group) + 1 -> Nat] :
              /\ off[1] = 0 /\ off[Len(group) + 1] = Len(FlattenSeq(group))
              /\ \A i \in 1 .. Len(group) :
                    /\ off[i] = Len(FlattenSeq(SubSeq(group, 1, i - 1)))
                    /\ off[i + 1] = off[i] + Len(group[i])
                    /\ off[i + 1] <= Len(FlattenSeq(group))
                    /\ \A j \in 1 .. Len(group[i]) :
                          /\ off[i] + j \in 1 .. Len(FlattenSeq(group))
                          /\ FlattenSeq(group)[off[i] + j] = group[i][j]
<1> DEFINE m == Len(group)
           off == [i \in 1 .. m + 1 |-> Len(FlatTo(i - 1, group))]
<1>1. m \in Nat
  OBVIOUS
<1>2. FlattenSeq(group) = FlatTo(m, group)
  BY FlattenAll
<1>3. off[1] = 0
  <2>1. FlatTo(0, group) = <<>> /\ Len(<<>>) = 0 /\ 1 - 1 = 0 /\ 1 \in 1 .. m + 1
    BY <1>1 DEF FlatTo
  <2> QED
    BY <2>1
<1>4. off[m + 1] = Len(FlattenSeq(group))
  <2>1. (m + 1) - 1 = m /\ m + 1 \in 1 .. m + 1
    BY <1>1
  <2> HIDE DEF m
  <2> QED
    BY <1>2, <2>1
<1>5. off \in [1 .. m + 1 -> Nat]
  BY <1>1, FlatType
<1>6. ASSUME NEW i \in 1 .. m
      PROVE  /\ off[i] = Len(FlatTo(i - 1, group))
             /\ off[i] = Len(FlattenSeq(SubSeq(group, 1, i - 1)))
             /\ off[i + 1] = off[i] + Len(group[i])
  <2>1. i - 1 \in 0 .. Len(group) /\ i \in 1 .. m + 1 /\ i + 1 \in 1 .. m + 1 /\ (i + 1) - 1 = i
    BY <1>1
  <2>2. FlattenSeq(SubSeq(group, 1, i - 1)) = FlatTo(i - 1, group)
    BY <2>1, FlattenFirst
  <2>3. Len(FlatTo(i, group)) = Len(FlatTo(i - 1, group)) + Len(group[i])
    BY FlatNext
  <2> HIDE DEF m
  <2> QED
    BY <2>1, <2>2, <2>3
<1>7. ASSUME NEW i \in 1 .. m, NEW j \in 1 .. Len(group[i])
      PROVE  off[i] + j \in 1 .. off[m + 1] /\ FlattenSeq(group)[off[i] + j] = group[i][j]
  <2>1. m \in 0 .. Len(group)
    BY <1>1
  <2>2. /\ Len(FlatTo(i - 1, group)) + j \in 1 .. Len(FlatTo(m, group))
        /\ FlatTo(m, group)[Len(FlatTo(i - 1, group)) + j] = group[i][j]
    BY <2>1, FlatElements
  <2> HIDE DEF m, off
  <2> QED
    BY <1>2, <1>4, <1>6, <2>2
<1> HIDE DEF off, m
<1>8. ASSUME NEW i \in 1 .. m PROVE off[i + 1] <= off[m + 1]
  <2>1. Len(group[i]) \in Nat /\ Len(group[i]) >= 1
    BY WrittenTypes DEF m
  <2>2. Len(group[i]) \in 1 .. Len(group[i])
    BY <2>1
  <2>3. off[i] + Len(group[i]) \in 1 .. off[m + 1]
    BY <1>7, <2>2
  <2> QED
    BY <1>6, <2>3
<1> QED
  BY <1>3, <1>4, <1>5, <1>6, <1>7, <1>8 DEF m

LEMMA PushLaid ==
    ASSUME NEW tokens, NEW program, NEW begins, Laid(tokens, program, begins),
           NEW group \in Seq(Seq(Int)), \A i \in 1 .. Len(group) : Written(group[i])
    PROVE  Laid(tokens \o FlattenSeq(group), program \o group,
                begins \o [k \in DOMAIN group |->
                              Len(tokens) + Len(FlattenSeq(SubSeq(group, 1, k - 1)))])
<1> DEFINE n == Len(program)
           m == Len(group)
           T == Len(tokens)
           flat == FlattenSeq(group)
           added == [k \in DOMAIN group |-> T + Len(FlattenSeq(SubSeq(group, 1, k - 1)))]
           tokens1 == tokens \o flat
           program1 == program \o group
           begins1 == begins \o added
           T1 == Len(tokens1)
<1>1. /\ n \in Nat /\ m \in Nat /\ T \in Nat /\ tokens \in Seq(Int)
      /\ program \in Seq(Seq(Int)) /\ begins \in Seq(Nat) /\ Len(begins) = n
      /\ DOMAIN group = 1 .. m
  BY DEF Laid
<1>2. flat \in Seq(Int)
  BY FlattenAll
<1>3. PICK off \in [1 .. m + 1 -> Nat] :
              /\ off[1] = 0 /\ off[m + 1] = Len(flat)
              /\ \A i \in 1 .. m :
                    /\ off[i] = Len(FlattenSeq(SubSeq(group, 1, i - 1)))
                    /\ off[i + 1] = off[i] + Len(group[i])
                    /\ off[i + 1] <= Len(flat)
                    /\ \A j \in 1 .. Len(group[i]) :
                          /\ off[i] + j \in 1 .. Len(flat)
                          /\ flat[off[i] + j] = group[i][j]
  BY GroupPlaces
<1> HIDE DEF flat
<1>4. \A i \in 1 .. m + 1 : off[i] \in Nat
  OBVIOUS
<1>5. added \in Seq(Nat) /\ Len(added) = m /\ \A i \in 1 .. m : added[i] = T + off[i]
  <2>1. DOMAIN added = 1 .. m
    BY <1>1
  <2>2. \A i \in 1 .. m : added[i] = T + off[i]
    BY <1>1, <1>3
  <2>3. \A i \in 1 .. m : i \in 1 .. m + 1
    BY <1>1
  <2>4. added = [i \in 1 .. m |-> added[i]]
    BY <2>1
  <2> HIDE DEF added
  <2>5. \A i \in 1 .. m : added[i] \in Nat
    BY <1>1, <1>4, <2>2, <2>3
  <2> QED
    BY <1>1, <2>1, <2>2, <2>4, <2>5
<1> HIDE DEF added
<1>6. /\ tokens1 \in Seq(Int) /\ T1 = T + Len(flat) /\ T1 = T + off[m + 1]
      /\ \A p \in 1 .. T : tokens1[p] = tokens[p]
      /\ \A p \in 1 .. Len(flat) : tokens1[T + p] = flat[p]
  BY <1>1, <1>2, <1>3, Behind
<1>7. /\ program1 \in Seq(Seq(Int)) /\ Len(program1) = n + m
      /\ \A k \in 1 .. n : program1[k] = program[k]
      /\ \A i \in 1 .. m : program1[n + i] = group[i]
  BY <1>1, Behind
<1>8. /\ begins1 \in Seq(Nat) /\ Len(begins1) = n + m
      /\ \A k \in 1 .. n : begins1[k] = begins[k]
      /\ \A i \in 1 .. m : begins1[n + i] = added[i]
  <2>1. begins \in Seq(Nat) /\ added \in Seq(Nat)
    BY <1>1, <1>5
  <2>2. /\ begins1 \in Seq(Nat) /\ Len(begins1) = Len(begins) + Len(added)
        /\ \A k \in 1 .. Len(begins) : begins1[k] = begins[k]
        /\ \A i \in 1 .. Len(added) : begins1[Len(begins) + i] = added[i]
    BY <2>1, Behind
  <2>3. Len(begins) = n /\ Len(added) = m
    BY <1>1, <1>5
  <2> HIDE DEF n, m, begins1
  <2> QED
    BY <2>2, <2>3
<1>9. \A i \in 1 .. m : begins1[n + i] = T + off[i]
  BY <1>5, <1>8
<1>10. \A k \in 1 .. n : /\ Written(program[k])
                         /\ begins[k] + Len(program[k]) = Place(k + 1, begins, T)
                         /\ Place(k + 1, begins, T) <= T
                         /\ \A j \in 1 .. Len(program[k]) :
                               tokens[begins[k] + j] = program[k][j]
  BY DEF Laid
<1>11. \A i \in 1 .. m : Written(group[i])
  OBVIOUS
<1>12. Place(1, begins, T) = 0
  BY DEF Laid
<1> HIDE DEF n, m, T, T1, tokens1, program1, begins1
<1>13. T1 \in Nat /\ T <= T1
  <2>1. m + 1 \in 1 .. m + 1
    BY <1>1
  <2>2. off[m + 1] \in Nat
    BY <1>4, <2>1
  <2> QED
    BY <1>1, <1>6, <2>2
\* The places of the statements.
<1>14. ASSUME NEW k \in 1 .. n + 1
       PROVE  Place(k, begins1, T1) = Place(k, begins, T)
  <2>1. CASE k <= n
    <3>1. k \in 1 .. n /\ k <= n + m
      BY <1>1, <2>1
    <3> QED
      BY <1>1, <1>8, <2>1, <3>1 DEF Place
  <2>2. CASE ~(k <= n)
    <3>1. k = n + 1 /\ Place(k, begins, T) = T
      BY <1>1, <2>2 DEF Place
    <3>2. CASE m = 0
      <4>1. ~(k <= n + m)
        BY <1>1, <3>1, <3>2
      <4>2. T1 = T
        <5>1. m + 1 = 1
          BY <3>2
        <5> QED
          BY <1>1, <1>3, <1>6, <5>1
      <4> QED
        BY <1>8, <3>1, <4>1, <4>2 DEF Place
    <3>3. CASE m # 0
      <4>1. 1 \in 1 .. m /\ k <= n + m
        BY <1>1, <3>1, <3>3
      <4>2. begins1[n + 1] = T + off[1] /\ off[1] = 0
        BY <1>3, <1>9, <4>1
      <4>3. begins1[k] = T
        BY <1>1, <3>1, <4>2
      <4> QED
        BY <1>8, <3>1, <4>1, <4>3 DEF Place
    <3> QED
      BY <3>2, <3>3
  <2> QED
    BY <2>1, <2>2
<1>15. ASSUME NEW i \in 1 .. m
       PROVE  Place((n + i) + 1, begins1, T1) = T + off[i + 1]
  <2>1. CASE i = m
    <3>1. ~((n + i) + 1 <= n + m) /\ i + 1 = m + 1
      BY <1>1, <2>1
    <3> QED
      BY <1>6, <1>8, <3>1 DEF Place
  <2>2. CASE i # m
    <3>1. i + 1 \in 1 .. m /\ (n + i) + 1 <= n + m /\ (n + i) + 1 = n + (i + 1)
      BY <1>1, <2>2
    <3>2. begins1[n + (i + 1)] = T + off[i + 1]
      BY <1>9, <3>1
    <3> QED
      BY <1>8, <3>1, <3>2 DEF Place
  <2> QED
    BY <2>1, <2>2
\* The statements that were there.
<1>16. ASSUME NEW k \in 1 .. n
       PROVE  /\ Written(program1[k])
              /\ begins1[k] + Len(program1[k]) = Place(k + 1, begins1, T1)
              /\ Place(k + 1, begins1, T1) <= T1
              /\ \A j \in 1 .. Len(program1[k]) : tokens1[begins1[k] + j] = program1[k][j]
  <2>1. program1[k] = program[k] /\ begins1[k] = begins[k]
    BY <1>7, <1>8
  <2>2. k + 1 \in 1 .. n + 1
    BY <1>1
  <2>3. Place(k + 1, begins1, T1) = Place(k + 1, begins, T)
    BY <1>14, <2>2
  <2>4. begins[k] \in Nat
    BY <1>1
  <2>5. Len(program[k]) \in Nat
    BY <1>10, WrittenTypes
  <2>6. begins[k] + Len(program[k]) <= T
    BY <1>10
  <2>7. ASSUME NEW j \in 1 .. Len(program[k])
        PROVE  tokens1[begins[k] + j] = program[k][j]
    <3>1. begins[k] + j \in 1 .. T
      BY <1>1, <2>4, <2>5, <2>6, Within
    <3>2. tokens1[begins[k] + j] = tokens[begins[k] + j]
      BY <1>6, <3>1
    <3> QED
      BY <1>10, <3>2
  <2>8. Place(k + 1, begins, T) <= T /\ Place(k + 1, begins, T) \in Int
    BY <1>10, <2>4, <2>5
  <2>9. Place(k + 1, begins1, T1) <= T1
    BY <1>1, <1>13, <2>3, <2>8
  <2> QED
    BY <1>10, <2>1, <2>3, <2>7, <2>9
\* The statements that are added.
<1>17. ASSUME NEW i \in 1 .. m
       PROVE  /\ Written(program1[n + i])
              /\ begins1[n + i] + Len(program1[n + i]) = Place((n + i) + 1, begins1, T1)
              /\ Place((n + i) + 1, begins1, T1) <= T1
              /\ \A j \in 1 .. Len(program1[n + i]) :
                    tokens1[begins1[n + i] + j] = program1[n + i][j]
  <2>1. program1[n + i] = group[i] /\ begins1[n + i] = T + off[i]
    BY <1>7, <1>9
  <2>2. i \in 1 .. m + 1 /\ i + 1 \in 1 .. m + 1
    BY <1>1
  <2>3. off[i] \in Nat /\ off[i + 1] \in Nat
    BY <1>4, <2>2
  <2>4. Written(group[i]) /\ Len(group[i]) \in Nat
    BY <1>11, WrittenTypes
  <2>5. off[i + 1] = off[i] + Len(group[i]) /\ off[i + 1] <= Len(flat)
    BY <1>3
  <2>6. Len(flat) \in Nat
    BY <1>2
  <2>7. /\ (T + off[i]) + Len(group[i]) = T + off[i + 1]
        /\ T + off[i + 1] <= T + Len(flat)
    BY <1>1, <2>3, <2>4, <2>5, <2>6
  <2>8. ASSUME NEW j \in 1 .. Len(group[i])
        PROVE  tokens1[(T + off[i]) + j] = group[i][j]
    <3>1. off[i] + j \in 1 .. Len(flat) /\ flat[off[i] + j] = group[i][j]
      BY <1>3
    <3>2. (T + off[i]) + j = T + (off[i] + j)
      BY <1>1, <2>3
    <3>3. tokens1[T + (off[i] + j)] = flat[off[i] + j]
      BY <1>6, <3>1
    <3> QED
      BY <3>1, <3>2, <3>3
  <2> QED
    BY <1>6, <1>15, <2>1, <2>4, <2>7, <2>8
<1>18. ASSUME NEW k \in 1 .. n + m
       PROVE  /\ Written(program1[k])
              /\ begins1[k] + Len(program1[k]) = Place(k + 1, begins1, T1)
              /\ Place(k + 1, begins1, T1) <= T1
              /\ \A j \in 1 .. Len(program1[k]) : tokens1[begins1[k] + j] = program1[k][j]
  <2>1. k \in 1 .. n \/ \E i \in 1 .. m : k = n + i
    <3>1. CASE k <= n
      BY <1>1, <3>1
    <3>2. CASE ~(k <= n)
      <4>1. k - n \in 1 .. m /\ k = n + (k - n)
        BY <1>1, <3>2
      <4> QED
        BY <4>1
    <3> QED
      BY <3>1, <3>2
  <2>2. CASE k \in 1 .. n
    BY <1>16, <2>2
  <2>3. CASE \E i \in 1 .. m : k = n + i
    BY <1>17, <2>3
  <2> QED
    BY <2>1, <2>2, <2>3
<1>19. Place(1, begins1, T1) = 0
  <2>1. 1 \in 1 .. n + 1
    BY <1>1
  <2> QED
    BY <1>12, <1>14, <2>1
<1>20. Laid(tokens1, program1, begins1)
  BY <1>6, <1>7, <1>8, <1>18, <1>19 DEF Laid, T1
<1> QED
  BY <1>20 DEF tokens1, program1, begins1, flat, added, T

LEMMA PushLayout ==
    ASSUME Layout, NEW group \in Seq(Seq(Int)),
           \A i \in 1 .. Len(group) : Written(group[i]), Push(group)
    PROVE  Layout'
<1>1. /\ token_array' = token_array \o FlattenSeq(group)
      /\ statements' = statements \o group
      /\ starts' = starts \o [k \in DOMAIN group |->
                         Len(token_array) + Len(FlattenSeq(SubSeq(group, 1, k - 1)))]
  BY DEF Push, token_count
<1>2. Laid(token_array, statements, starts)
  BY DEF Layout
<1>3. Laid(token_array', statements', starts')
  BY <1>1, <1>2, PushLaid
<1> QED
  BY <1>3 DEF Layout

-----------------------------------------------------------------------------
(***************************************************************************)
(* What a builder takes, and the field it leaves, for a statement.         *)
(***************************************************************************)
WideMove(s) == s[1] = MOV /\ s[2] = D64
Narrow(s)   == s[1] \in LOOP .. LOOPNE

LEMMA FourBytes ==
    /\ WidthOf(D32) = 4
    /\ \A id, base : Field(D32, id, base).width = 4
    /\ \A kind, id, base : OneField(kind, id, base) = NoField \/ OneField(kind, id, base).width = 4
    /\ \A to, destination, from, source, relation :
          \/ MemoryField(to, destination, from, source, relation) = NoField
          \/ MemoryField(to, destination, from, source, relation).width = 4
<1>1. WidthOf(D32) = 4
  BY DEF WidthOf, D32, D8, D16
<1>2. \A id, base : Field(D32, id, base).width = 4
  BY <1>1 DEF Field
<1>3. \A kind, id, base : OneField(kind, id, base) = NoField \/ OneField(kind, id, base).width = 4
  BY <1>2 DEF OneField
<1>4. \A to, destination, from, source, relation :
          \/ MemoryField(to, destination, from, source, relation) = NoField
          \/ MemoryField(to, destination, from, source, relation).width = 4
  BY <1>2 DEF MemoryField
<1> QED
  BY <1>1, <1>2, <1>3, <1>4

Filled(result) == result.field = NoField \/ result.field.width = 4

LEMMA TakesSix ==
    ASSUME NEW a \in [0 .. 6 -> Int]
    PROVE  /\ build_double(a).skip = 5 /\ Filled(build_double(a))
           /\ build_shift(a).skip = 5 /\ Filled(build_shift(a))
           /\ a[1] # D64 => build_move(a).skip = 5
           /\ build_move(a).skip \in {5, 6} /\ Filled(build_move(a))
<1>1. build_double(a).skip = 5 /\ Filled(build_double(a))
  <2>1. build_double(a).skip = 5
    BY DEF build_double, Built
  <2>2. build_double(a).field = MemoryField(a[2], a[3], a[4], a[5], "absolute")
    BY DEF build_double, Built
  <2> QED
    BY <2>1, <2>2, FourBytes DEF Filled
<1>2. build_shift(a).skip = 5 /\ Filled(build_shift(a))
  <2>1. build_shift(a).skip = 5
    BY DEF build_shift, Built
  <2>2. build_shift(a).field = OneField(a[2], a[3], "relative")
    BY DEF build_shift, Built
  <2> QED
    BY <2>1, <2>2, FourBytes DEF Filled
<1>3. build_move(a).skip = 5 + B(a[1] = D64) /\ Filled(build_move(a))
  <2>1. build_move(a).skip = 5 + B(a[1] = D64)
    BY DEF build_move, Built
  <2>2. build_move(a).field = MemoryField(a[2], a[3], a[4], a[5], "data")
    BY DEF build_move, Built
  <2> QED
    BY <2>1, <2>2, FourBytes DEF Filled
<1>4. /\ a[1] # D64 => 5 + B(a[1] = D64) = 5
      /\ 5 + B(a[1] = D64) \in {5, 6}
  BY DEF B
<1> QED
  BY <1>1, <1>2, <1>3, <1>4

LEMMA TakesFour ==
    ASSUME NEW a \in [0 .. 6 -> Int]
    PROVE  /\ build_single(a).skip = 3 /\ Filled(build_single(a))
           /\ build_jump(a).skip = 3 /\ Filled(build_jump(a))
           /\ build_pop(a).skip = 3 /\ Filled(build_pop(a))
           /\ build_push(a).skip = 3 /\ Filled(build_push(a))
           /\ build_jump_if(a).skip = 3 /\ Filled(build_jump_if(a))
           /\ build_loop(a).skip = 3
<1>1. build_single(a).skip = 3 /\ Filled(build_single(a))
  <2>1. build_single(a).skip = 3
    BY DEF build_single, Built
  <2>2. build_single(a).field = OneField(a[2], a[3], "relative")
    BY DEF build_single, Built
  <2> QED
    BY <2>1, <2>2, FourBytes DEF Filled
<1>2. build_jump(a).skip = 3 /\ Filled(build_jump(a))
  <2>1. build_jump(a).skip = 3
    BY DEF build_jump, Built
  <2>2. build_jump(a).field = IF a[2] = REL THEN Field(D32, a[3], "unsorted")
                              ELSE OneField(a[2], a[3], "data")
    BY DEF build_jump, Built
  <2> QED
    BY <2>1, <2>2, FourBytes DEF Filled
<1>3. build_pop(a).skip = 3 /\ Filled(build_pop(a))
  <2>1. build_pop(a).skip = 3
    BY DEF build_pop, Built
  <2>2. build_pop(a).field = OneField(a[2], a[3], "zero")
    BY DEF build_pop, Built
  <2> QED
    BY <2>1, <2>2, FourBytes DEF Filled
<1>4. build_push(a).skip = 3 /\ Filled(build_push(a))
  <2>1. build_push(a).skip = 3
    BY DEF build_push, Built
  <2>2. build_push(a).field = OneField(a[2], a[3], "zero")
    BY DEF build_push, Built
  <2> QED
    BY <2>1, <2>2, FourBytes DEF Filled
<1>5. build_jump_if(a).skip = 3 /\ Filled(build_jump_if(a))
  <2>1. build_jump_if(a).skip = 3
    BY DEF build_jump_if, Built
  <2>2. build_jump_if(a).field = Field(D32, a[3], "unsorted")
    BY DEF build_jump_if, Built
  <2> QED
    BY <2>1, <2>2, FourBytes DEF Filled
<1>6. build_loop(a).skip = 3
  BY DEF build_loop, Built
<1> QED
  BY <1>1, <1>2, <1>3, <1>4, <1>5, <1>6

LEMMA TakesFew ==
    ASSUME NEW a \in [0 .. 6 -> Int]
    PROVE  /\ build_call(a).skip = 2 /\ Filled(build_call(a))
           /\ build_static_1(a).skip = 0 /\ Filled(build_static_1(a))
           /\ build_static_2(a).skip = 0 /\ Filled(build_static_2(a))
<1>1. build_call(a).skip = 2 /\ Filled(build_call(a))
  <2>1. build_call(a).skip = 2
    BY DEF build_call, Built
  <2>2. build_call(a).field = IF a[1] = REL THEN Field(D32, a[2], "unsorted") ELSE NoField
    BY DEF build_call, Built
  <2> QED
    BY <2>1, <2>2, FourBytes DEF Filled
<1>2. build_static_1(a).skip = 0 /\ Filled(build_static_1(a))
  <2>1. build_static_1(a).skip = 0
    BY DEF build_static_1, Built
  <2>2. build_static_1(a).field = NoField
    BY DEF build_static_1, Built
  <2> QED
    BY <2>1, <2>2, FourBytes DEF Filled
<1>3. build_static_2(a).skip = 0 /\ Filled(build_static_2(a))
  <2>1. build_static_2(a).skip = 0
    BY DEF build_static_2, Built
  <2>2. build_static_2(a).field = NoField
    BY DEF build_static_2, Built
  <2> QED
    BY <2>1, <2>2, FourBytes DEF Filled
<1> QED
  BY <1>1, <1>2, <1>3

LEMMA DirectivesApart ==
    \A o \in Instructions : o # ASMDIRMEM /\ o # ASMDIRREL /\ o # ASMDIRIMM
BY DEF Instructions, ASMDIRMEM, ASMDIRREL, ASMDIRIMM, ADD, OPERATION_END

\* What begins with a directive.
LEMMA DirectiveLengths ==
    ASSUME NEW s, Written(s)
    PROVE  /\ s[1] \in Instructions \union {ASMDIRMEM, ASMDIRIMM}
           /\ s[1] # ASMDIRREL
           /\ s[1] = ASMDIRMEM => Len(s) = 2
           /\ s[1] = ASMDIRIMM => Len(s) >= 3 /\ s[3] = Len(s) - 3
<1>1. /\ \A o \in (ADD .. CMP) \union (ROL .. SAR) \union {MOV} : o \in Instructions
      /\ \A o \in (INC .. IDIV) \union {JMP, POP, PUSH} \union (JO .. JG)
                \union (LOOP .. LOOPNE) : o \in Instructions
      /\ CALL \in Instructions
      /\ \A o \in (NOP .. RETF) \union (SYSCALL .. FNCLEX) : o \in Instructions
  BY DEF Instructions, OPERATION_END, ADD, CMP, INC, IDIV, ROL, SAR, NOP, RETF, SYSCALL,
         FNCLEX, CALL, JMP, MOV, POP, PUSH, JO, JG, LOOP, LOOPNE
<1>2. ASMDIRMEM # ASMDIRREL /\ ASMDIRIMM # ASMDIRREL /\ ASMDIRMEM # ASMDIRIMM
  BY DEF ASMDIRMEM, ASMDIRREL, ASMDIRIMM
<1> QED
  BY <1>1, <1>2, DirectivesApart DEF Written

\* For every statement of the grammar the builder takes as many tokens as were appended,
\* but for a 64 bit move, and its field, if it has one, is of four bytes, but for a loop.
THEOREM BuildersTakeStatements ==
    ASSUME NEW a \in [0 .. 6 -> Int], NEW s, Written(s),
           a[0] = s[1], Len(s) >= 2 => a[1] = s[2],
           s[1] \in Instructions
    PROVE  /\ WideMove(s) \/ build_instruction(a).skip + 1 = Len(s)
           /\ build_instruction(a).skip \in Nat
           /\ Narrow(s) \/ Filled(build_instruction(a))
<1>1. build_instruction(a).skip \in Nat
  BY BuildersAreModest DEF Modest
<1>2. s[1] # ASMDIRMEM /\ s[1] # ASMDIRIMM
  BY DirectivesApart
<1>3. CASE Len(s) = 6 /\ s[1] \in (ADD .. CMP) \union (ROL .. SAR) \union {MOV}
  <2>1. CASE s[1] = MOV
    <3>1. build_instruction(a) = build_move(a)
      BY <2>1, Table
    <3>2. ~WideMove(s) => a[1] # D64
      BY <1>3, <2>1 DEF WideMove
    <3> QED
      BY <1>1, <1>3, <3>1, <3>2, TakesSix
  <2>2. CASE s[1] \in ADD .. CMP
    <3>1. build_instruction(a) = build_double(a)
      BY <2>2, Table
    <3> QED
      BY <1>1, <1>3, <3>1, TakesSix
  <2>3. CASE s[1] \in ROL .. SAR
    <3>1. build_instruction(a) = build_shift(a)
      BY <2>3, Table
    <3> QED
      BY <1>1, <1>3, <3>1, TakesSix
  <2> QED
    BY <1>3, <2>1, <2>2, <2>3
<1>4. CASE /\ Len(s) = 4
           /\ s[1] \in (INC .. IDIV) \union {JMP, POP, PUSH} \union (JO .. JG)
                       \union (LOOP .. LOOPNE)
  <2>1. CASE s[1] \in LOOP .. LOOPNE
    <3>1. build_instruction(a) = build_loop(a)
      BY <2>1, Table
    <3> QED
      BY <1>1, <1>4, <2>1, <3>1, TakesFour DEF Narrow
  <2>2. CASE s[1] \in INC .. IDIV
    <3>1. build_instruction(a) = build_single(a)
      BY <2>2, Table
    <3> QED
      BY <1>1, <1>4, <3>1, TakesFour
  <2>3. CASE s[1] \in JO .. JG
    <3>1. build_instruction(a) = build_jump_if(a)
      BY <2>3, Table
    <3> QED
      BY <1>1, <1>4, <3>1, TakesFour
  <2>4. CASE s[1] = JMP
    <3>1. build_instruction(a) = build_jump(a)
      BY <2>4, Table
    <3> QED
      BY <1>1, <1>4, <3>1, TakesFour
  <2>5. CASE s[1] = POP
    <3>1. build_instruction(a) = build_pop(a)
      BY <2>5, Table
    <3> QED
      BY <1>1, <1>4, <3>1, TakesFour
  <2>6. CASE s[1] = PUSH
    <3>1. build_instruction(a) = build_push(a)
      BY <2>6, Table
    <3> QED
      BY <1>1, <1>4, <3>1, TakesFour
  <2> QED
    BY <1>4, <2>1, <2>2, <2>3, <2>4, <2>5, <2>6
<1>5. CASE Len(s) = 3 /\ s[1] = CALL
  <2>1. build_instruction(a) = build_call(a)
    BY <1>5, Table
  <2> QED
    BY <1>1, <1>5, <2>1, TakesFew
<1>6. CASE Len(s) = 1 /\ s[1] \in (NOP .. RETF) \union (SYSCALL .. FNCLEX)
  <2>1. CASE s[1] \in NOP .. RETF
    <3>1. build_instruction(a) = build_static_1(a)
      BY <2>1, Table
    <3> QED
      BY <1>1, <1>6, <3>1, TakesFew
  <2>2. CASE s[1] \in SYSCALL .. FNCLEX
    <3>1. build_instruction(a) = build_static_2(a)
      BY <2>2, Table
    <3> QED
      BY <1>1, <1>6, <3>1, TakesFew
  <2> QED
    BY <1>6, <2>1, <2>2
<1> QED
  BY <1>2, <1>3, <1>4, <1>5, <1>6 DEF Written

-----------------------------------------------------------------------------
(***************************************************************************)
(* The statement the first pass is at.                                     *)
(***************************************************************************)
\* A 64 bit move is behind.
Lost == \E k \in 1 .. Len(statements) : WideMove(statements[k]) /\ starts[k] < index

AtStart == \E k \in 1 .. Len(statements) + 1 : index = Place(k, starts, Len(token_array))

Aligned ==
    /\ Layout
    /\ phase \in {"parse", "dump"} => index = 0
    /\ Lost \/ AtStart
    /\ phase \in {"no_builder", "text_sector"} => Lost

\* Where a statement is, the builder finds it.
LEMMA AtStatement ==
    ASSUME TypeOK, Layout, AtStart, index < token_count
    PROVE  \E k \in 1 .. Len(statements) :
              /\ index = starts[k]
              /\ Written(statements[k])
              /\ index + Len(statements[k]) = Place(k + 1, starts, Len(token_array))
              /\ Len(statements[k]) \in Nat
              /\ Token(index) = statements[k][1] /\ array[0] = statements[k][1]
              /\ Len(statements[k]) >= 2 => array[1] = statements[k][2]
              /\ Len(statements[k]) >= 3 => array[2] = statements[k][3]
<1>1. PICK k \in 1 .. Len(statements) + 1 : index = Place(k, starts, Len(token_array))
  BY DEF AtStart
<1>2. /\ Len(statements) \in Nat /\ Len(starts) = Len(statements) /\ token_count \in Nat
      /\ starts \in Seq(Nat) /\ token_array \in Seq(Int) /\ index \in Nat
  BY DEF Layout, Laid, token_count, TypeOK
<1>3. k \in 1 .. Len(statements) /\ index = starts[k]
  BY <1>1, <1>2 DEF Place, token_count
<1>4. /\ Written(statements[k])
      /\ starts[k] + Len(statements[k]) = Place(k + 1, starts, Len(token_array))
      /\ Place(k + 1, starts, Len(token_array)) <= Len(token_array)
      /\ \A j \in 1 .. Len(statements[k]) : token_array[starts[k] + j] = statements[k][j]
  BY <1>3 DEF Layout, Laid
<1> DEFINE s == statements[k]
<1>5. Len(s) \in Nat /\ Len(s) >= 1 /\ index + Len(s) <= token_count
  BY <1>3, <1>4, WrittenTypes DEF token_count
<1> HIDE DEF s
<1>6. ASSUME NEW j \in 0 .. 2, j < Len(s)
      PROVE  Token(index + j) = s[j + 1] /\ array[j] = s[j + 1]
  <2>1. j + 1 \in 1 .. Len(s) /\ index + j < token_count /\ index + j + 1 = index + (j + 1)
    BY <1>2, <1>5, <1>6
  <2>2. token_array[index + (j + 1)] = s[j + 1]
    BY <1>3, <1>4, <2>1 DEF s
  <2>3. Token(index + j) = s[j + 1]
    BY <2>1, <2>2 DEF Token
  <2> QED
    BY <2>3 DEF array
<1>7. Token(index) = s[1] /\ array[0] = s[1]
  <2>1. 0 < Len(s) /\ index + 0 = index /\ 0 + 1 = 1
    BY <1>2, <1>5
  <2> QED
    BY <1>6, <2>1
<1>8. Len(s) >= 2 => array[1] = s[2]
  <2>1. Len(s) >= 2 => 1 < Len(s) /\ 1 + 1 = 2
    BY <1>5
  <2> QED
    BY <1>6, <2>1
<1>9. Len(s) >= 3 => array[2] = s[3]
  <2>1. Len(s) >= 3 => 2 < Len(s) /\ 2 + 1 = 3
    BY <1>5
  <2> QED
    BY <1>6, <2>1
<1> QED
  BY <1>3, <1>4, <1>5, <1>7, <1>8, <1>9 DEF s

LEMMA InitAligned == Init => Aligned
<1> SUFFICES ASSUME Init PROVE Aligned
  OBVIOUS
<1>1. Layout /\ index = 0 /\ phase = "parse"
  BY InitLayout DEF Init
<1>2. AtStart
  <2>1. 1 \in 1 .. Len(statements) + 1 /\ Place(1, starts, Len(token_array)) = 0
    BY <1>1 DEF Layout, Laid
  <2> QED
    BY <1>1, <2>1 DEF AtStart
<1> QED
  BY <1>1, <1>2 DEF Aligned

\* While the array is filled nothing of it has been read.
LEMMA PushAligned ==
    ASSUME Aligned, NEW group \in Seq(Seq(Int)),
           \A i \in 1 .. Len(group) : Written(group[i]), Push(group),
           phase \in {"parse", "dump"}, phase' = phase, index' = index
    PROVE  Aligned'
<1>1. Layout'
  BY PushLayout DEF Aligned
<1>2. index' = 0
  BY DEF Aligned
<1>3. AtStart'
  <2>1. 1 \in 1 .. Len(statements') + 1 /\ Place(1, starts', Len(token_array')) = 0
    BY <1>1 DEF Layout, Laid
  <2> QED
    BY <1>2, <2>1 DEF AtStart
<1> QED
  BY <1>1, <1>2, <1>3 DEF Aligned

\* Steps that neither read nor append.
LEMMA StillAligned ==
    ASSUME Aligned, UNCHANGED <<token_array, statements, starts, index>>,
           phase' \in {"parse", "dump"} => phase \in {"parse", "dump"},
           phase' \in {"no_builder", "text_sector"} => phase' = phase \/ Lost
    PROVE  Aligned'
BY DEF Aligned, Layout, Lost, AtStart

\* A step of the first pass that takes a statement, or a move too much.
LEMMA BuildAligned ==
    ASSUME TypeOK, Aligned, NEW operations, NEW skip \in Nat, Building(operations, skip),
           \/ Lost
           \/ \E k \in 1 .. Len(statements) :
                 /\ index = starts[k]
                 /\ \/ WideMove(statements[k])
                    \/ index + (skip + 1) = Place(k + 1, starts, Len(token_array))
    PROVE  Aligned'
<1>1. /\ phase = "build" /\ index' = index + skip + 1 /\ index \in Nat
      /\ UNCHANGED <<phase, token_array, statements, starts>>
  BY DEF Building, TypeOK
<1>2. /\ index' \in Nat /\ index < index' /\ index' = index + (skip + 1)
      /\ Len(statements) \in Nat /\ starts \in Seq(Nat) /\ Len(starts) = Len(statements)
  BY <1>1 DEF Aligned, Layout, Laid
<1>3. Layout'
  BY <1>1 DEF Aligned, Layout
<1>4. CASE Lost
  <2>1. PICK k \in 1 .. Len(statements) : WideMove(statements[k]) /\ starts[k] < index
    BY <1>4 DEF Lost
  <2>2. starts[k] \in Nat /\ starts[k] < index'
    BY <1>1, <1>2, <2>1
  <2>3. Lost'
    BY <1>1, <2>1, <2>2 DEF Lost
  <2> QED
    BY <1>1, <1>3, <2>3 DEF Aligned
<1>5. CASE \E k \in 1 .. Len(statements) :
              /\ index = starts[k]
              /\ \/ WideMove(statements[k])
                 \/ index + (skip + 1) = Place(k + 1, starts, Len(token_array))
  <2>1. PICK k \in 1 .. Len(statements) :
              /\ index = starts[k]
              /\ \/ WideMove(statements[k])
                 \/ index + (skip + 1) = Place(k + 1, starts, Len(token_array))
    BY <1>5
  <2>2. CASE WideMove(statements[k])
    <3>1. Lost'
      BY <1>1, <1>2, <2>1, <2>2 DEF Lost
    <3> QED
      BY <1>1, <1>3, <3>1 DEF Aligned
  <2>3. CASE index + (skip + 1) = Place(k + 1, starts, Len(token_array))
    <3>1. k + 1 \in 1 .. Len(statements) + 1
      BY <1>2
    <3>2. AtStart'
      BY <1>1, <1>2, <2>3, <3>1 DEF AtStart
    <3> QED
      BY <1>1, <1>3, <3>2 DEF Aligned
  <2> QED
    BY <2>1, <2>2, <2>3
<1> QED
  BY <1>4, <1>5

\* The directives and the instructions each take the statement they are at.
LEMMA StoreMemoryAligned ==
    ASSUME TypeOK, Aligned, StoreMemory
    PROVE  Aligned'
<1>1. Building({ASMDIRMEM}, 1) /\ Token(index) = ASMDIRMEM /\ index < token_count /\ 1 \in Nat
  BY DEF StoreMemory, Building
<1>2. CASE Lost
  BY <1>1, <1>2, BuildAligned
<1>3. CASE ~Lost
  <2>1. AtStart
    BY <1>3 DEF Aligned
  <2>2. PICK k \in 1 .. Len(statements) :
              /\ index = starts[k]
              /\ Written(statements[k])
              /\ index + Len(statements[k]) = Place(k + 1, starts, Len(token_array))
              /\ Token(index) = statements[k][1]
    BY <1>1, <2>1, AtStatement DEF Aligned
  <2>3. Len(statements[k]) = 2
    BY <1>1, <2>2, DirectiveLengths
  <2>4. index + (1 + 1) = Place(k + 1, starts, Len(token_array))
    BY <2>2, <2>3
  <2> QED
    BY <1>1, <2>2, <2>4, BuildAligned
<1> QED
  BY <1>2, <1>3

LEMMA StoreRelativeAligned ==
    ASSUME TypeOK, Aligned, StoreRelative
    PROVE  Aligned' /\ Lost
<1>1. Building({ASMDIRREL}, 1) /\ Token(index) = ASMDIRREL /\ index < token_count /\ 1 \in Nat
  BY DEF StoreRelative, Building
<1>2. Lost
  <2> SUFFICES ASSUME ~Lost PROVE FALSE
    OBVIOUS
  <2>1. AtStart
    BY DEF Aligned
  <2>2. PICK k \in 1 .. Len(statements) :
              Written(statements[k]) /\ Token(index) = statements[k][1]
    BY <1>1, <2>1, AtStatement DEF Aligned
  <2> QED
    BY <1>1, <2>2, DirectiveLengths
<1> QED
  BY <1>1, <1>2, BuildAligned

LEMMA StoreImmediateAligned ==
    ASSUME TypeOK, Aligned, StoreImmediate
    PROVE  Aligned'
<1> DEFINE amount == array[2]
<1>1. Building({ASMDIRIMM}, amount + 2) /\ Token(index) = ASMDIRIMM /\ index < token_count
  BY DEF StoreImmediate, Building
<1>2. amount + 2 \in Nat
  <2>1. amount \in Int /\ amount >= 0
    BY TokensAreNumbers DEF StoreImmediate
  <2> HIDE DEF amount
  <2> QED
    BY <2>1
<1> HIDE DEF amount
<1>3. CASE Lost
  BY <1>1, <1>2, <1>3, BuildAligned
<1>4. CASE ~Lost
  <2>1. AtStart
    BY <1>4 DEF Aligned
  <2>2. PICK k \in 1 .. Len(statements) :
              /\ index = starts[k]
              /\ Written(statements[k])
              /\ index + Len(statements[k]) = Place(k + 1, starts, Len(token_array))
              /\ Len(statements[k]) \in Nat
              /\ Token(index) = statements[k][1]
              /\ Len(statements[k]) >= 3 => array[2] = statements[k][3]
    BY <1>1, <2>1, AtStatement DEF Aligned
  <2>3. Len(statements[k]) >= 3 /\ statements[k][3] = Len(statements[k]) - 3
    BY <1>1, <2>2, DirectiveLengths
  <2>4. (amount + 2) + 1 = Len(statements[k])
    BY <2>2, <2>3 DEF amount
  <2>5. index + ((amount + 2) + 1) = Place(k + 1, starts, Len(token_array))
    BY <2>2, <2>4
  <2> QED
    BY <1>1, <1>2, <2>2, <2>5, BuildAligned
<1> QED
  BY <1>3, <1>4

\* The statement at the instruction, and what its builder makes of it.
LEMMA BuiltStatement ==
    ASSUME TypeOK, Aligned, AtStart, index < token_count, Token(index) \in Instructions
    PROVE  \E k \in 1 .. Len(statements) :
              /\ index = starts[k]
              /\ Narrow(statements[k]) \/ Filled(build_instruction(array))
              /\ \/ WideMove(statements[k])
                 \/ index + (build_instruction(array).skip + 1)
                        = Place(k + 1, starts, Len(token_array))
<1>1. array \in [0 .. 6 -> Int]
  BY TokensAreNumbers
<1>2. PICK k \in 1 .. Len(statements) :
              /\ index = starts[k]
              /\ Written(statements[k])
              /\ index + Len(statements[k]) = Place(k + 1, starts, Len(token_array))
              /\ Token(index) = statements[k][1] /\ array[0] = statements[k][1]
              /\ Len(statements[k]) >= 2 => array[1] = statements[k][2]
  BY AtStatement DEF Aligned
<1>3. /\ WideMove(statements[k])
            \/ build_instruction(array).skip + 1 = Len(statements[k])
      /\ Narrow(statements[k]) \/ Filled(build_instruction(array))
  BY <1>1, <1>2, BuildersTakeStatements
<1> QED
  BY <1>2, <1>3

LEMMA BuildInstructionAligned ==
    ASSUME TypeOK, Aligned, BuildInstruction
    PROVE  Aligned'
<1> DEFINE skip == build_instruction(array).skip
<1>1. /\ Building(Instructions, skip) /\ Token(index) \in Instructions
      /\ index < token_count
  BY DEF BuildInstruction, Building
<1>2. skip \in Nat
  <2>1. array \in [0 .. 6 -> Int] /\ array[0] = Token(index)
    BY TokensAreNumbers DEF array, TypeOK
  <2> QED
    BY <1>1, <2>1, BuildersAreModest DEF Modest
<1>3. \/ Lost
      \/ \E k \in 1 .. Len(statements) :
            /\ index = starts[k]
            /\ \/ WideMove(statements[k])
               \/ index + (skip + 1) = Place(k + 1, starts, Len(token_array))
  BY <1>1, BuiltStatement DEF Aligned
<1> HIDE DEF skip
<1> QED
  BY <1>1, <1>2, <1>3, BuildAligned

\* What no statement begins with is met only when the beginnings are lost.
LEMMA NoBuilderIsLost ==
    ASSUME TypeOK, Aligned, NoBuilder \/ StoreEndlessly
    PROVE  Lost
<1> SUFFICES ASSUME ~Lost PROVE FALSE
  OBVIOUS
<1>1. AtStart /\ index < token_count
  BY DEF Aligned, NoBuilder, StoreEndlessly
<1>2. PICK k \in 1 .. Len(statements) :
              /\ Written(statements[k])
              /\ Len(statements[k]) \in Nat
              /\ Token(index) = statements[k][1]
              /\ Len(statements[k]) >= 3 => array[2] = statements[k][3]
  BY <1>1, AtStatement DEF Aligned
<1>3. CASE NoBuilder
  BY <1>2, <1>3, DirectiveLengths DEF NoBuilder
<1>4. CASE StoreEndlessly
  <2>1. Len(statements[k]) >= 3 /\ statements[k][3] = Len(statements[k]) - 3
    BY <1>2, <1>4, DirectiveLengths DEF StoreEndlessly
  <2> QED
    BY <1>2, <1>4, <2>1 DEF StoreEndlessly
<1> QED
  BY <1>3, <1>4

LEMMA NextAligned == TypeOK /\ Aligned /\ [Next]_vars => Aligned'
<1> SUFFICES ASSUME TypeOK, Aligned, [Next]_vars PROVE Aligned'
  OBVIOUS
<1>1. ASSUME NEW group \in Reductions, AppendInstructions(group) PROVE Aligned'
  <2>1. group \in Seq(Seq(Int)) /\ \A i \in DOMAIN group : Written(group[i])
    BY StatementsAssumption
  <2>2. \A i \in 1 .. Len(group) : Written(group[i])
    BY <2>1
  <2>3. Push(group) /\ phase \in {"parse", "dump"} /\ phase' = phase /\ index' = index
    BY <1>1 DEF AppendInstructions, unbuilt
  <2> QED
    BY <2>1, <2>2, <2>3, PushAligned
<1>2. ASSUME NEW variable \in Variables, DumpVariable(variable) PROVE Aligned'
  <2> DEFINE group == <<<<ASMDIRMEM, variable.id>>, variable.data>>
  <2>1. /\ group \in Seq(Seq(Int)) /\ Written(group[1]) /\ Written(group[2])
        /\ Len(group) = 2
    BY VariableStatements
  <2>2. Push(group) /\ phase \in {"parse", "dump"} /\ phase' = phase /\ index' = index
    BY <1>2 DEF DumpVariable, unbuilt
  <2> HIDE DEF group
  <2>3. \A i \in 1 .. Len(group) : i = 1 \/ i = 2
    BY <2>1
  <2>4. \A i \in 1 .. Len(group) : Written(group[i])
    BY <2>1, <2>3
  <2> QED
    BY <2>1, <2>2, <2>4, PushAligned
<1>3. CASE Compile
  BY <1>3, StillAligned DEF Compile, unbuilt
<1>4. CASE Assemble
  BY <1>4, StillAligned DEF Assemble, unbuilt
<1>5. CASE NoBuilder
  BY <1>5, StillAligned, NoBuilderIsLost DEF NoBuilder, unbuilt
<1>6. CASE StoreElsewhere
  BY <1>6, StillAligned DEF StoreElsewhere, unbuilt
<1>7. CASE StoreEndlessly
  BY <1>7, StillAligned, NoBuilderIsLost DEF StoreEndlessly, unbuilt
<1>8. CASE PatchElsewhere
  BY <1>8, StillAligned DEF PatchElsewhere, unbuilt
<1>9. CASE EndBuild
  BY <1>9, StillAligned DEF EndBuild
<1>10. CASE EndLink
  BY <1>10, StillAligned DEF EndLink
<1>11. CASE Patch
  BY <1>11, StillAligned DEF Patch
<1>12. CASE UNCHANGED vars
  BY <1>12, StillAligned DEF vars
<1> QED
  BY <1>1, <1>2, <1>3, <1>4, <1>5, <1>6, <1>7, <1>8, <1>9, <1>10, <1>11, <1>12,
     StoreMemoryAligned, StoreRelativeAligned, StoreImmediateAligned,
     BuildInstructionAligned DEF Next, Step, Halted

LEMMA AlwaysAligned == Spec => []Aligned
<1>1. Spec => [](TypeOK /\ Aligned)
  <2>1. Init => TypeOK /\ Aligned
    BY InitGrown, InitAligned DEF TypesAndGrowth, Types
  <2>2. TypeOK /\ Aligned /\ TypeOK' /\ [Next]_vars => Aligned'
    BY NextAligned
  <2> QED
    BY <2>1, <2>2, TypeCorrect, InitAligned, PTL DEF Spec
<1> QED
  BY <1>1, PTL

LEMMA StatementPlaces == Layout => DOMAIN statements = 1 .. Len(statements)
BY DEF Layout, Laid

LEMMA UpTo ==
    /\ \A at, width, end, next1, length, end1 \in Nat :
          /\ at + width <= end /\ end <= next1 => at + width <= next1
          /\ at + width <= end /\ end <= next1 /\ next1 + length <= end1 => at + width <= end1
    /\ \A at, head, width, tail \in Nat :
          (at + head) + width <= at + (head + width + tail)
OBVIOUS

\* Framing is lost behind a 64 bit move only: the statements are taken as they were
\* appended as long as there is none (the counts the builders return, against the appends).
THEOREM FramingIsKept ==
    Spec => []((\A i \in DOMAIN statements : ~WideMove(statements[i])) => Framed)
<1>1. ASSUME TypeOK, Aligned, \A i \in DOMAIN statements : ~WideMove(statements[i])
      PROVE  Framed
  <2> SUFFICES ASSUME phase = "build", index < token_count
               PROVE  \E i \in DOMAIN starts : starts[i] = index
    BY DEF Framed
  <2>1. ~Lost
    BY <1>1, StatementPlaces DEF Lost, Aligned
  <2>2. AtStart
    BY <1>1, <2>1 DEF Aligned
  <2>3. PICK k \in 1 .. Len(statements) : index = starts[k]
    BY <1>1, <2>2, AtStatement DEF Aligned
  <2>4. DOMAIN starts = 1 .. Len(statements)
    BY <1>1 DEF Aligned, Layout, Laid
  <2> QED
    BY <2>3, <2>4
<1>2. TypeOK /\ Aligned
          => ((\A i \in DOMAIN statements : ~WideMove(statements[i])) => Framed)
  BY <1>1
<1> QED
  BY <1>2, TypeCorrect, AlwaysAligned, PTL

\* Without a 64 bit move every statement finds its builder: none is called for a token
\* that is none's, and no array has a negative number of elements.
THEOREM BuildersAreFound ==
    Spec => [](phase \in {"no_builder", "text_sector"}
                 => \E k \in DOMAIN statements : WideMove(statements[k]))
<1>1. Aligned => (phase \in {"no_builder", "text_sector"}
                    => \E k \in DOMAIN statements : WideMove(statements[k]))
  BY StatementPlaces DEF Aligned, Lost
<1> QED
  BY <1>1, AlwaysAligned, PTL

-----------------------------------------------------------------------------
(***************************************************************************)
(* The fields to fill in.                                                  *)
(***************************************************************************)
\* They are within the code, one behind the other, one for three tokens at most, and of
\* four bytes unless there is a loop.
Placed ==
    /\ \A i \in 1 .. Len(empty_holes) :
          /\ empty_holes[i].at + empty_holes[i].width <= Len(text_sector_byte)
          /\ \/ empty_holes[i].width = 4
             \/ \E k \in 1 .. Len(statements) : Narrow(statements[k])
    /\ \A i, j \in 1 .. Len(empty_holes) :
          i < j => empty_holes[i].at + empty_holes[i].width <= empty_holes[j].at
    /\ 3 * Len(empty_holes) <= index

FieldsPlaced == Lost \/ Placed

LEMMA InitPlaced == Init => FieldsPlaced
<1> SUFFICES ASSUME Init PROVE Placed
  BY DEF FieldsPlaced
<1>1. empty_holes = <<>> /\ index = 0 /\ Len(<<>>) = 0 /\ 1 .. 0 = {}
  BY DEF Init
<1> QED
  BY <1>1 DEF Placed

\* What is lost stays lost.
LEMMA StaysLost ==
    ASSUME TypeOK, Aligned, [Next]_vars, Lost
    PROVE  Lost'
<1>1. PICK k \in 1 .. Len(statements) : WideMove(statements[k]) /\ starts[k] < index
  BY DEF Lost
<1>2. starts[k] \in Nat /\ index \in Nat
  BY DEF Aligned, Layout, Laid, TypeOK
<1>3. ~(phase \in {"parse", "dump"})
  BY <1>1, <1>2 DEF Aligned
<1>4. statements' = statements /\ starts' = starts /\ index' \in Nat /\ index <= index'
  <2>1. CASE UNCHANGED vars
    BY <1>2, <2>1 DEF vars
  <2>2. ASSUME NEW operations, NEW skip \in Nat, Building(operations, skip)
        PROVE  statements' = statements /\ starts' = starts /\ index' \in Nat
               /\ index <= index'
    BY <1>2, <2>2 DEF Building
  <2>3. CASE StoreMemory
    BY <2>2, <2>3 DEF StoreMemory
  <2>4. CASE StoreRelative
    BY <2>2, <2>4 DEF StoreRelative
  <2>5. CASE StoreImmediate
    <3> DEFINE amount == array[2]
    <3>1. amount \in Int /\ amount >= 0 /\ Building({ASMDIRIMM}, amount + 2)
      BY <2>5, TokensAreNumbers DEF StoreImmediate
    <3> HIDE DEF amount
    <3>2. amount + 2 \in Nat
      BY <3>1
    <3> QED
      BY <2>2, <3>1, <3>2
  <2>6. CASE BuildInstruction
    <3> DEFINE skip == build_instruction(array).skip
    <3>1. Building(Instructions, skip)
      BY <2>6 DEF BuildInstruction
    <3>2. array \in [0 .. 6 -> Int] /\ array[0] = Token(index)
      BY <1>2, TokensAreNumbers DEF array
    <3>3. skip \in Nat
      BY <3>1, <3>2, BuildersAreModest DEF Modest, Building
    <3> HIDE DEF skip
    <3> QED
      BY <2>2, <3>1, <3>3
  <2>7. CASE NoBuilder
    BY <1>2, <2>7 DEF NoBuilder, unbuilt
  <2>8. CASE StoreElsewhere
    BY <1>2, <2>8 DEF StoreElsewhere, unbuilt
  <2>9. CASE StoreEndlessly
    BY <1>2, <2>9 DEF StoreEndlessly, unbuilt
  <2>10. CASE PatchElsewhere
    BY <1>2, <2>10 DEF PatchElsewhere, unbuilt
  <2>11. CASE EndBuild
    BY <1>2, <2>11 DEF EndBuild
  <2>12. CASE EndLink
    BY <1>2, <2>12 DEF EndLink
  <2>13. CASE Patch
    BY <1>2, <2>13 DEF Patch
  <2>14. ~Compile /\ ~Assemble /\ (\A group \in Reductions : ~AppendInstructions(group))
         /\ (\A variable \in Variables : ~DumpVariable(variable))
    BY <1>3 DEF Compile, Assemble, AppendInstructions, DumpVariable
  <2> QED
    BY <2>1, <2>3, <2>4, <2>5, <2>6, <2>7, <2>8, <2>9, <2>10, <2>11, <2>12, <2>13, <2>14
       DEF Next, Step, Halted
<1>5. starts'[k] < index'
  BY <1>1, <1>2, <1>4
<1> QED
  BY <1>1, <1>4, <1>5 DEF Lost

\* No new field.
LEMMA StillPlaced ==
    ASSUME TypeOK, Placed, empty_holes' = empty_holes, statements' = statements,
           index' \in Nat, index <= index',
           Len(text_sector_byte') \in Nat, Len(text_sector_byte) <= Len(text_sector_byte')
    PROVE  Placed'
<1>1. /\ empty_holes \in Seq(Hole) /\ index \in Nat /\ Len(text_sector_byte) \in Nat
      /\ Len(empty_holes) \in Nat
  BY DEF TypeOK, Hole
<1>2. \A i \in 1 .. Len(empty_holes) :
         empty_holes[i].at + empty_holes[i].width <= Len(text_sector_byte')
  <2> SUFFICES ASSUME NEW i \in 1 .. Len(empty_holes)
               PROVE  empty_holes[i].at + empty_holes[i].width <= Len(text_sector_byte')
    OBVIOUS
  <2>1. empty_holes[i] \in Hole
    BY <1>1, ElementOfSeq
  <2>2. empty_holes[i].at \in Nat /\ empty_holes[i].width \in Nat
    BY <2>1 DEF Hole
  <2>3. empty_holes[i].at + empty_holes[i].width <= Len(text_sector_byte)
    BY DEF Placed
  <2> QED
    BY <1>1, <2>2, <2>3
<1>3. 3 * Len(empty_holes) <= index'
  BY <1>1 DEF Placed
<1> QED
  BY <1>2, <1>3 DEF Placed

\* A new field, of an instruction of three tokens or more, behind the last.
LEMMA NewPlaced ==
    ASSUME TypeOK, Placed, NEW hole \in Hole, empty_holes' = Append(empty_holes, hole),
           statements' = statements, index' \in Nat, index + 3 <= index',
           Len(text_sector_byte) <= hole.at, Len(text_sector_byte') \in Nat,
           hole.at + hole.width <= Len(text_sector_byte'),
           hole.width = 4 \/ \E k \in 1 .. Len(statements) : Narrow(statements[k])
    PROVE  Placed'
<1> DEFINE h == Len(empty_holes)
           n == Len(text_sector_byte)
           n1 == Len(text_sector_byte')
<1>1. empty_holes \in Seq(Hole) /\ index \in Nat /\ n \in Nat /\ n1 \in Nat /\ h \in Nat
  BY DEF TypeOK, Hole
<1>2. /\ Len(empty_holes') = h + 1 /\ empty_holes'[h + 1] = hole
      /\ \A i \in 1 .. h : empty_holes'[i] = empty_holes[i]
  BY <1>1, AppendProperties
<1>3. hole.at \in Nat /\ hole.width \in Nat
  BY DEF Hole
<1>4. ASSUME NEW i \in 1 .. h
      PROVE  /\ empty_holes[i].at \in Nat /\ empty_holes[i].width \in Nat
             /\ empty_holes[i].at + empty_holes[i].width <= n
             /\ \/ empty_holes[i].width = 4
                \/ \E k \in 1 .. Len(statements) : Narrow(statements[k])
  <2>1. empty_holes[i] \in Hole
    BY <1>1, ElementOfSeq
  <2>2. empty_holes[i].at \in Nat /\ empty_holes[i].width \in Nat
    BY <2>1 DEF Hole
  <2> QED
    BY <2>2 DEF Placed
<1>5. \A i, j \in 1 .. h :
          i < j => empty_holes[i].at + empty_holes[i].width <= empty_holes[j].at
  BY DEF Placed
<1>6. 3 * h <= index
  BY DEF Placed
<1>7. n <= hole.at /\ hole.at + hole.width <= n1
  OBVIOUS
<1> HIDE DEF h, n, n1
<1>8. ASSUME NEW i \in 1 .. h + 1
      PROVE  /\ empty_holes'[i].at + empty_holes'[i].width <= n1
             /\ \/ empty_holes'[i].width = 4
                \/ \E k \in 1 .. Len(statements) : Narrow(statements[k])
  <2>1. CASE i = h + 1
    BY <1>2, <1>7, <2>1
  <2>2. CASE i # h + 1
    <3>1. i \in 1 .. h
      BY <1>1, <2>2
    <3>2. empty_holes'[i] = empty_holes[i]
      BY <1>2, <3>1
    <3>3. empty_holes[i].at + empty_holes[i].width <= n1
      BY <1>1, <1>3, <1>4, <1>7, <3>1, UpTo
    <3> QED
      BY <1>4, <3>1, <3>2, <3>3
  <2> QED
    BY <2>1, <2>2
<1>9. ASSUME NEW i \in 1 .. h + 1, NEW j \in 1 .. h + 1, i < j
      PROVE  empty_holes'[i].at + empty_holes'[i].width <= empty_holes'[j].at
  <2>1. i \in 1 .. h /\ empty_holes'[i] = empty_holes[i]
    BY <1>1, <1>2, <1>9
  <2>2. CASE j = h + 1
    <3>1. empty_holes'[j] = hole
      BY <1>2, <2>2
    <3>2. empty_holes[i].at + empty_holes[i].width <= hole.at
      BY <1>1, <1>3, <1>4, <1>7, <2>1, UpTo
    <3> QED
      BY <2>1, <3>1, <3>2
  <2>3. CASE j # h + 1
    <3>1. j \in 1 .. h /\ empty_holes'[j] = empty_holes[j]
      BY <1>1, <1>2, <2>3
    <3> QED
      BY <1>5, <1>9, <2>1, <3>1
  <2> QED
    BY <2>2, <2>3
<1>10. 3 * (h + 1) <= index'
  BY <1>1, <1>6
<1> QED
  BY <1>2, <1>8, <1>9, <1>10 DEF Placed, n1

LEMMA BuildInstructionPlaced ==
    ASSUME TypeOK, Aligned, ~Lost, Placed, BuildInstruction
    PROVE  Placed'
<1> DEFINE result == build_instruction(array)
           at == Len(text_sector_byte)
           code == Emitted(result, at)
           hole == [at |-> at + Len(result.head), id |-> result.field.id,
                    width |-> result.field.width]
<1>1. /\ at \in Nat /\ index \in Nat /\ array \in [0 .. 6 -> Int] /\ array[0] = Token(index)
      /\ text_sector_byte \in Seq(Byte)
  BY TokensAreNumbers DEF TypeOK, array, Byte
<1>2. /\ Building(Instructions, result.skip)
      /\ text_sector_byte' = text_sector_byte \o code
      /\ empty_holes' = IF result.field = NoField THEN empty_holes
                        ELSE Append(empty_holes, hole)
  BY DEF BuildInstruction
<1>3. /\ array[0] \in Instructions /\ index' = index + result.skip + 1
      /\ statements' = statements
      /\ index < token_count
  BY <1>1, <1>2 DEF Building
<1>4. Modest(result)
  BY <1>1, <1>3, BuildersAreModest
<1>5. Filled(result) \/ \E k \in 1 .. Len(statements) : Narrow(statements[k])
  <2>1. AtStart
    BY DEF Aligned
  <2> QED
    BY <1>1, <1>3, <2>1, BuiltStatement
<1> HIDE DEF result, at, code, hole
<1>6. code \in Seq(Byte) /\ Len(code) = Len(result.head) + result.field.width + Len(result.tail)
  BY <1>1, <1>4, EmittedIsShort DEF code
<1>7. Len(text_sector_byte') = at + Len(code) /\ Len(code) \in Nat
  <2>1. Len(text_sector_byte \o code) = Len(text_sector_byte) + Len(code)
    BY <1>1, <1>6, Behind
  <2> QED
    BY <1>2, <1>6, <2>1 DEF at
<1>8. /\ result.skip \in Nat /\ FieldOk(result.field, result.skip)
      /\ Len(result.head) \in Nat /\ Len(result.tail) \in Nat
  BY <1>4 DEF Modest
<1> DEFINE skip == result.skip
<1>9. index' \in Nat /\ index <= index'
  <2>1. skip \in Nat /\ index' = index + skip + 1
    BY <1>3, <1>8
  <2> HIDE DEF skip
  <2> QED
    BY <1>1, <2>1
<1>10. CASE result.field = NoField
  <2>1. empty_holes' = empty_holes
    BY <1>2, <1>10
  <2>2. Len(text_sector_byte') \in Nat /\ Len(text_sector_byte) <= Len(text_sector_byte')
    BY <1>1, <1>7 DEF at
  <2> QED
    BY <1>3, <1>9, <2>1, <2>2, StillPlaced
<1>11. CASE result.field # NoField
  <2>1. /\ result.field.width \in {1, 2, 4} /\ result.field.id \in Int /\ result.skip >= 2
    BY <1>8, <1>11 DEF FieldOk
  <2>2. /\ hole.at = at + Len(result.head) /\ hole.id = result.field.id
        /\ hole.width = result.field.width
        /\ hole \in Hole
    BY <1>1, <1>8, <2>1 DEF hole, Hole
  <2>3. empty_holes' = Append(empty_holes, hole)
    BY <1>2, <1>11
  <2>4. index + 3 <= index'
    <3>1. skip \in Nat /\ skip >= 2 /\ index' = index + skip + 1
      BY <1>3, <1>8, <2>1
    <3> HIDE DEF skip
    <3> QED
      BY <1>1, <3>1
  <2>5. /\ Len(text_sector_byte') \in Nat /\ Len(text_sector_byte) <= hole.at
        /\ hole.at + hole.width <= Len(text_sector_byte')
    <3> DEFINE head == Len(result.head)
               width == result.field.width
               tail == Len(result.tail)
    <3>1. head \in Nat /\ width \in Nat /\ tail \in Nat
      BY <1>8, <2>1
    <3>2. /\ hole.at = at + head /\ hole.width = width
          /\ Len(text_sector_byte') = at + (head + width + tail)
          /\ Len(text_sector_byte) = at
      BY <1>6, <1>7, <2>2 DEF at
    <3> HIDE DEF head, width, tail
    <3> QED
      BY <1>1, <3>1, <3>2
  <2>6. hole.width = 4 \/ \E k \in 1 .. Len(statements) : Narrow(statements[k])
    BY <1>5, <1>11, <2>2 DEF Filled
  <2> QED
    BY <1>3, <1>9, <2>2, <2>3, <2>4, <2>5, <2>6, NewPlaced
<1> QED
  BY <1>10, <1>11

LEMMA NextPlaced ==
    ASSUME TypeOK, TypeOK', Aligned, Aligned', FieldsPlaced, [Next]_vars
    PROVE  FieldsPlaced'
<1>1. CASE Lost
  BY <1>1, StaysLost DEF FieldsPlaced
<1>2. CASE ~Lost
  <2> SUFFICES Placed'
    BY DEF FieldsPlaced
  <2>1. Placed
    BY <1>2 DEF FieldsPlaced
  <2>2. /\ index \in Nat /\ Len(text_sector_byte) \in Nat
        /\ index' \in Nat /\ Len(text_sector_byte') \in Nat
        /\ text_sector_byte \in Seq(Byte)
        /\ Len(empty_holes) \in Nat
    BY DEF TypeOK, Byte
  <2>3. ASSUME phase \in {"parse", "dump"}, empty_holes' = empty_holes
        PROVE  Placed'
    <3>1. index = 0
      BY <2>3 DEF Aligned
    <3>2. 3 * Len(empty_holes) <= 0
      BY <2>1, <3>1 DEF Placed
    <3>3. Len(empty_holes) = 0 /\ 1 .. 0 = {}
      BY <2>2, <3>2
    <3>4. 3 * Len(empty_holes) <= index'
      BY <2>2, <3>3
    <3> QED
      BY <2>3, <3>3, <3>4 DEF Placed
  <2>4. ASSUME empty_holes' = empty_holes, statements' = statements,
               index <= index', Len(text_sector_byte) <= Len(text_sector_byte')
        PROVE  Placed'
    BY <2>1, <2>2, <2>4, StillPlaced
  <2>5. ASSUME empty_holes' = empty_holes, statements' = statements,
               index' = index, text_sector_byte' = text_sector_byte
        PROVE  Placed'
    BY <2>2, <2>4, <2>5
  <2>6. ASSUME NEW group \in Reductions, AppendInstructions(group) PROVE Placed'
    BY <2>3, <2>6 DEF AppendInstructions, unbuilt
  <2>7. ASSUME NEW variable \in Variables, DumpVariable(variable) PROVE Placed'
    BY <2>3, <2>7 DEF DumpVariable, unbuilt
  <2>8. CASE Compile
    BY <2>5, <2>8 DEF Compile, unbuilt
  <2>9. CASE Assemble
    BY <2>5, <2>9 DEF Assemble, unbuilt
  <2>10. CASE NoBuilder
    BY <2>5, <2>10 DEF NoBuilder, unbuilt
  <2>11. CASE StoreElsewhere
    BY <2>5, <2>11 DEF StoreElsewhere, unbuilt
  <2>12. CASE StoreEndlessly
    BY <2>5, <2>12 DEF StoreEndlessly, unbuilt
  <2>13. CASE PatchElsewhere
    BY <2>5, <2>13 DEF PatchElsewhere, unbuilt
  <2>14. CASE EndBuild
    BY <2>5, <2>14 DEF EndBuild
  <2>15. CASE EndLink
    BY <2>5, <2>15 DEF EndLink
  <2>16. CASE UNCHANGED vars
    BY <2>5, <2>16 DEF vars
  <2>17. CASE StoreMemory
    <3>1. /\ empty_holes' = empty_holes /\ statements' = statements
          /\ index' = index + 1 + 1 /\ text_sector_byte' = text_sector_byte
      BY <2>17 DEF StoreMemory, Building
    <3> QED
      BY <2>2, <2>4, <3>1
  <2>18. CASE StoreRelative
    BY <1>2, <2>18, StoreRelativeAligned
  <2>19. CASE StoreImmediate
    <3> DEFINE amount == array[2]
               element(i) == inset_immediate(TRUE, array[1], Token(index + 3 + i))
               code == FlattenSeq([i \in 1 .. amount |-> element(i - 1)])
    <3>1. /\ amount \in Int /\ amount >= 0 /\ index' = index + (amount + 2) + 1
          /\ empty_holes' = empty_holes /\ statements' = statements
          /\ text_sector_byte' = text_sector_byte \o code
      BY <2>19, TokensAreNumbers DEF StoreImmediate, Building
    <3>2. code \in Seq(Byte)
      <4>1. amount \in Nat
        BY <3>1
      <4> HIDE DEF amount
      <4> QED
        BY <4>1, Elements
    <3> HIDE DEF amount, code
    <3>3. Len(text_sector_byte') = Len(text_sector_byte) + Len(code) /\ Len(code) \in Nat
      BY <2>2, <3>1, <3>2, ConcatProperties
    <3> QED
      BY <2>2, <2>4, <3>1, <3>3
  <2>20. CASE BuildInstruction
    BY <1>2, <2>1, <2>20, BuildInstructionPlaced
  <2>21. CASE Patch
    <3>1. /\ empty_holes' = empty_holes /\ statements' = statements /\ index' = index
          /\ DOMAIN text_sector_byte' = DOMAIN text_sector_byte
      BY <2>21 DEF Patch, Patched
    <3>2. Len(text_sector_byte') = Len(text_sector_byte)
      <4>1. text_sector_byte' \in Seq(Byte)
        BY DEF TypeOK, Byte
      <4> QED
        BY <2>2, <3>1, <4>1
    <3> QED
      BY <2>2, <2>4, <3>1, <3>2
  <2> QED
    BY <2>6, <2>7, <2>8, <2>9, <2>10, <2>11, <2>12, <2>13, <2>14, <2>15, <2>16, <2>17,
       <2>18, <2>19, <2>20, <2>21 DEF Next, Step, Halted, FieldsPlaced
<1> QED
  BY <1>1, <1>2

LEMMA AlwaysPlaced == Spec => []FieldsPlaced
<1>1. TypeOK /\ TypeOK' /\ Aligned /\ Aligned' /\ FieldsPlaced /\ [Next]_vars => FieldsPlaced'
  BY NextPlaced
<1> QED
  BY <1>1, InitPlaced, TypeCorrect, AlwaysAligned, PTL DEF Spec

\* Without a 64 bit move the fields to fill in lie within the code and apart from each
\* other, so that the second pass touches each byte for one symbol at most, and there is one
\* for every three tokens at most: of the 1440 the array has, 480 of 1024 places.
THEOREM FieldsAreApart ==
    Spec => []((\A k \in DOMAIN statements : ~WideMove(statements[k]))
                 => /\ \A i \in DOMAIN empty_holes :
                          empty_holes[i].at + empty_holes[i].width <= Len(text_sector_byte)
                    /\ \A i, j \in DOMAIN empty_holes :
                          i < j => empty_holes[i].at + empty_holes[i].width
                                      <= empty_holes[j].at
                    /\ 3 * Len(empty_holes) <= index)
<1>1. ASSUME TypeOK, Aligned, FieldsPlaced,
             \A k \in DOMAIN statements : ~WideMove(statements[k])
      PROVE  /\ \A i \in DOMAIN empty_holes :
                   empty_holes[i].at + empty_holes[i].width <= Len(text_sector_byte)
             /\ \A i, j \in DOMAIN empty_holes :
                   i < j => empty_holes[i].at + empty_holes[i].width <= empty_holes[j].at
             /\ 3 * Len(empty_holes) <= index
  <2>1. Placed
    BY <1>1, StatementPlaces DEF FieldsPlaced, Lost, Aligned
  <2>2. DOMAIN empty_holes = 1 .. Len(empty_holes)
    BY <1>1 DEF TypeOK
  <2> QED
    BY <2>1, <2>2 DEF Placed
<1> QED
  BY <1>1, TypeCorrect, AlwaysAligned, AlwaysPlaced, PTL

\* What a variable is dumped as is neither.
LEMMA DataAreNeither ==
    ASSUME NEW variable \in Variables
    PROVE  LET group == <<<<ASMDIRMEM, variable.id>>, variable.data>>
           IN  \A i \in 1 .. Len(group) : ~WideMove(group[i]) /\ ~Narrow(group[i])
<1> DEFINE group == <<<<ASMDIRMEM, variable.id>>, variable.data>>
<1>1. variable.data[1] = ASMDIRIMM
  BY StatementsAssumption
<1>2. /\ ASMDIRMEM # MOV /\ ~(ASMDIRMEM \in LOOP .. LOOPNE)
      /\ ASMDIRIMM # MOV /\ ~(ASMDIRIMM \in LOOP .. LOOPNE)
  BY DEF ASMDIRMEM, ASMDIRIMM, MOV, LOOP, LOOPNE
<1>3. group[1][1] = ASMDIRMEM /\ group[2][1] = ASMDIRIMM /\ Len(group) = 2
  BY <1>1
<1> HIDE DEF group
<1>4. \A i \in 1 .. Len(group) : i = 1 \/ i = 2
  BY <1>3
<1>5. \A i \in 1 .. Len(group) : ~WideMove(group[i]) /\ ~Narrow(group[i])
  BY <1>2, <1>3, <1>4 DEF WideMove, Narrow
<1> QED
  BY <1>5 DEF group

\* If the parser appends neither 64 bit moves nor loops, filling in a field changes nothing
\* but the field: every field is as wide as what is added to it.
THEOREM FieldsOnly ==
    ASSUME \A group \in Reductions : \A i \in DOMAIN group :
              ~WideMove(group[i]) /\ ~Narrow(group[i])
    PROVE  Spec => OnlyFieldsPatched
<1> DEFINE Plain == \A k \in DOMAIN statements : ~WideMove(statements[k]) /\ ~Narrow(statements[k])
<1>1. ASSUME TypeOK, Aligned, Plain, [Next]_vars
      PROVE  Plain'
  <2>1. ASSUME NEW group \in Seq(Seq(Int)), Push(group),
               \A i \in 1 .. Len(group) : ~WideMove(group[i]) /\ ~Narrow(group[i])
        PROVE  Plain'
    <3>1. statements \in Seq(Seq(Int)) /\ statements' = statements \o group
      BY <1>1, <2>1 DEF Push, Aligned, Layout, Laid
    <3>2. /\ statements' \in Seq(Seq(Int))
          /\ Len(statements') = Len(statements) + Len(group)
          /\ \A k \in 1 .. Len(statements) : statements'[k] = statements[k]
          /\ \A i \in 1 .. Len(group) : statements'[Len(statements) + i] = group[i]
      BY <3>1, Behind
    <3> SUFFICES ASSUME NEW k \in 1 .. Len(statements) + Len(group)
                 PROVE  ~WideMove(statements'[k]) /\ ~Narrow(statements'[k])
      BY <3>2
    <3>3. /\ Len(statements) \in Nat /\ Len(group) \in Nat
          /\ DOMAIN statements = 1 .. Len(statements)
      BY <3>1
    <3>4. CASE k <= Len(statements)
      <4>1. k \in 1 .. Len(statements)
        BY <3>3, <3>4
      <4> QED
        BY <1>1, <3>2, <3>3, <4>1
    <3>5. CASE ~(k <= Len(statements))
      <4>1. /\ k - Len(statements) \in 1 .. Len(group)
            /\ k = Len(statements) + (k - Len(statements))
        BY <3>3, <3>5
      <4> QED
        BY <2>1, <3>2, <4>1
    <3> QED
      BY <3>4, <3>5
  <2>2. CASE statements' = statements
    BY <1>1, <2>2
  <2>3. ASSUME NEW group \in Reductions, AppendInstructions(group) PROVE Plain'
    <3>1. group \in Seq(Seq(Int)) /\ Push(group)
      BY <2>3, StatementsAssumption DEF AppendInstructions
    <3> QED
      BY <2>1, <3>1
  <2>4. ASSUME NEW variable \in Variables, DumpVariable(variable) PROVE Plain'
    <3> DEFINE group == <<<<ASMDIRMEM, variable.id>>, variable.data>>
    <3>1. group \in Seq(Seq(Int)) /\ Push(group)
      BY <2>4, VariableStatements DEF DumpVariable
    <3>2. \A i \in 1 .. Len(group) : ~WideMove(group[i]) /\ ~Narrow(group[i])
      BY DataAreNeither
    <3> HIDE DEF group
    <3> QED
      BY <2>1, <3>1, <3>2
  <2> HIDE DEF Plain
  <2> QED
    BY <1>1, <2>2, <2>3, <2>4 DEF Next, Step, Halted, vars, Compile, Assemble, StoreMemory,
       StoreRelative, StoreImmediate, BuildInstruction, NoBuilder, StoreElsewhere,
       StoreEndlessly, EndBuild, Patch, PatchElsewhere, EndLink, Building
<1>2. ASSUME TypeOK, Aligned, FieldsPlaced, Plain, [Next]_vars, phase = "link",
             NEW i \in DOMAIN text_sector_byte, text_sector_byte'[i] # text_sector_byte[i]
      PROVE  i - 1 - empty_holes[patched + 1].at \in 0 .. empty_holes[patched + 1].width - 1
  <2> DEFINE hole == empty_holes[patched + 1]
  <2>1. Patch
    BY <1>2 DEF Next, Step, Halted, vars, Compile, Assemble, AppendInstructions, DumpVariable,
       StoreMemory, StoreRelative, StoreImmediate, BuildInstruction, NoBuilder, StoreElsewhere,
       StoreEndlessly, EndBuild, PatchElsewhere, EndLink, Building, Final, unbuilt
  <2>2. patched + 1 \in 1 .. Len(empty_holes)
    BY <1>2, <2>1 DEF Patch, TypeOK
  <2>3. hole.width = 4
    <3>1. ~Lost /\ ~\E k \in 1 .. Len(statements) : Narrow(statements[k])
      BY <1>2, StatementPlaces DEF Lost, Aligned
    <3> QED
      BY <1>2, <2>2, <3>1 DEF FieldsPlaced, Placed
  <2>4. /\ text_sector_byte' = Patched(text_sector_byte, hole.at, empty_store[hole.id])
    BY <2>1 DEF Patch
  <2> HIDE DEF hole
  <2>5. i - 1 - hole.at \in 0 .. 3
    <3> SUFFICES ASSUME ~(i - 1 - hole.at \in 0 .. 3)
                 PROVE  text_sector_byte'[i] = text_sector_byte[i]
      BY <1>2
    <3> QED
      BY <2>4 DEF Patched
  <2> QED
    BY <2>3, <2>5 DEF hole
<1> HIDE DEF Plain
<1> DEFINE Only ==
        phase = "link" =>
          \A i \in DOMAIN text_sector_byte :
            text_sector_byte'[i] # text_sector_byte[i] =>
                LET hole == empty_holes[patched + 1]
                IN  i - 1 - hole.at \in 0 .. hole.width - 1
<1>3. TypeOK /\ Aligned /\ FieldsPlaced /\ Plain /\ [Next]_vars => [Only]_vars
  BY <1>2
<1>4. Init => Plain
  BY DEF Init, Plain
<1>5. TypeOK /\ Aligned /\ Plain /\ [Next]_vars => Plain'
  BY <1>1
<1> HIDE DEF Only
<1>6. Spec => [][Only]_vars
  BY <1>3, <1>4, <1>5, TypeCorrect, AlwaysAligned, AlwaysPlaced, PTL DEF Spec
<1> QED
  BY <1>6 DEF OnlyFieldsPatched, Only

-----------------------------------------------------------------------------
(***************************************************************************)
(* How far the translation is: statements counted by what they make.       *)
(***************************************************************************)
MakesSome(s) == s[1] # ASMDIRMEM

\* Of the first d statements of a program, those that make code or data.
Making(d, p) == {j \in 1 .. d : MakesSome(p[j])}

\* Of these, those before the last place of an id.
Before(id, d, p) ==
    {i \in 1 .. d : MakesSome(p[i]) /\ \E j \in 1 .. d : p[j] = <<ASMDIRMEM, id>> /\ i < j}

LEMMA MakingFinite ==
    ASSUME NEW d \in Nat, NEW p
    PROVE  /\ IsFiniteSet(Making(d, p)) /\ Cardinality(Making(d, p)) \in Nat
           /\ \A T \in SUBSET Making(d, p) :
                  /\ IsFiniteSet(T) /\ Cardinality(T) \in Nat
                  /\ Cardinality(T) <= Cardinality(Making(d, p))
                  /\ Cardinality(T) = Cardinality(Making(d, p)) => T = Making(d, p)
<1>1. IsFiniteSet(1 .. d)
  BY FS_Interval
<1>2. Making(d, p) \in SUBSET (1 .. d)
  BY DEF Making
<1>3. IsFiniteSet(Making(d, p)) /\ Cardinality(Making(d, p)) \in Nat
  BY <1>1, <1>2, FS_Subset, FS_CardinalityType
<1>4. ASSUME NEW T \in SUBSET Making(d, p)
      PROVE  /\ IsFiniteSet(T) /\ Cardinality(T) \in Nat
             /\ Cardinality(T) <= Cardinality(Making(d, p))
             /\ Cardinality(T) = Cardinality(Making(d, p)) => T = Making(d, p)
  BY <1>3, <1>4, FS_Subset, FS_CardinalityType
<1>5. QED
  BY <1>3, <1>4

LEMMA MakingNext ==
    ASSUME NEW d \in Nat, NEW p
    PROVE  /\ Making(0, p) = {} /\ Cardinality(Making(0, p)) = 0
           /\ MakesSome(p[d + 1]) =>
                  Cardinality(Making(d + 1, p)) = Cardinality(Making(d, p)) + 1
           /\ ~MakesSome(p[d + 1]) => Making(d + 1, p) = Making(d, p)
           /\ Making(d, p) \subseteq Making(d + 1, p)
<1>1. Making(0, p) = {} /\ Cardinality(Making(0, p)) = 0
  BY FS_EmptySet DEF Making
<1>2. MakesSome(p[d + 1]) => Making(d + 1, p) = Making(d, p) \union {d + 1}
  BY DEF Making
<1>3. d + 1 \notin Making(d, p)
  BY DEF Making
<1>4. IsFiniteSet(Making(d, p))
  BY MakingFinite
<1>5. MakesSome(p[d + 1]) => Cardinality(Making(d + 1, p)) = Cardinality(Making(d, p)) + 1
  BY <1>2, <1>3, <1>4, FS_AddElement
<1>6. ~MakesSome(p[d + 1]) => Making(d + 1, p) = Making(d, p)
  BY DEF Making
<1>7. Making(d, p) \subseteq Making(d + 1, p)
  BY DEF Making
<1>8. QED
  BY <1>1, <1>5, <1>6, <1>7

\* No two statements make the same entry.
LEMMA MakingApart ==
    ASSUME NEW n \in Nat, NEW p, NEW i \in Making(n, p), NEW j \in Making(n, p),
           Cardinality(Making(i, p)) = Cardinality(Making(j, p))
    PROVE  i = j
<1>1. ASSUME NEW x \in Making(n, p), NEW y \in Making(n, p), x < y,
             Cardinality(Making(x, p)) = Cardinality(Making(y, p))
      PROVE  FALSE
  <2>1. x \in Nat /\ y \in Nat
    BY DEF Making
  <2>2. Making(x, p) \in SUBSET Making(y, p)
    BY <1>1, <2>1 DEF Making
  <2>3. Making(x, p) = Making(y, p)
    BY <1>1, <2>1, <2>2, MakingFinite
  <2>4. y \in Making(y, p) /\ y \notin Making(x, p)
    BY <1>1, <2>1 DEF Making
  <2>5. QED
    BY <2>3, <2>4
<1>2. i \in Nat /\ j \in Nat
  BY DEF Making
<1>3. i < j \/ j < i \/ i = j
  BY <1>2
<1>4. QED
  BY <1>1, <1>3

LEMMA BeforeNext ==
    ASSUME NEW d \in Nat, NEW p, NEW id
    PROVE  /\ Before(id, d, p) \in SUBSET Making(d, p)
           /\ Before(id, 0, p) = {}
           /\ p[d + 1] # <<ASMDIRMEM, id>> => Before(id, d + 1, p) = Before(id, d, p)
           /\ p[d + 1] = <<ASMDIRMEM, id>> => Before(id, d + 1, p) = Making(d, p)
<1>1. Before(id, d, p) \in SUBSET Making(d, p)
  BY DEF Before, Making
<1>2. Before(id, 0, p) = {}
  BY DEF Before
<1>3. ASSUME p[d + 1] # <<ASMDIRMEM, id>> PROVE Before(id, d + 1, p) = Before(id, d, p)
  <2>1. ASSUME NEW i \in Before(id, d + 1, p) PROVE i \in Before(id, d, p)
    <3>1. PICK j \in 1 .. d + 1 : p[j] = <<ASMDIRMEM, id>> /\ i < j
      BY <2>1 DEF Before
    <3>2. i \in 1 .. d + 1 /\ MakesSome(p[i])
      BY <2>1 DEF Before
    <3>3. j # d + 1
      BY <1>3, <3>1
    <3>4. j \in 1 .. d /\ i \in 1 .. d
      BY <3>1, <3>2, <3>3
    <3>5. QED
      BY <3>1, <3>2, <3>4 DEF Before
  <2>2. ASSUME NEW i \in Before(id, d, p) PROVE i \in Before(id, d + 1, p)
    <3>1. PICK j \in 1 .. d : p[j] = <<ASMDIRMEM, id>> /\ i < j
      BY <2>2 DEF Before
    <3>2. i \in 1 .. d /\ MakesSome(p[i])
      BY <2>2 DEF Before
    <3>3. j \in 1 .. d + 1 /\ i \in 1 .. d + 1
      BY <3>2
    <3>4. QED
      BY <3>1, <3>2, <3>3 DEF Before
  <2>3. QED
    BY <2>1, <2>2
<1>4. ASSUME p[d + 1] = <<ASMDIRMEM, id>> PROVE Before(id, d + 1, p) = Making(d, p)
  <2>1. ~MakesSome(p[d + 1])
    <3>1. \A s : s = <<ASMDIRMEM, id>> => s[1] = ASMDIRMEM
      OBVIOUS
    <3>2. QED
      BY <1>4, <3>1 DEF MakesSome
  <2>2. ASSUME NEW i \in Before(id, d + 1, p) PROVE i \in Making(d, p)
    <3>1. i \in 1 .. d + 1 /\ MakesSome(p[i])
      BY <2>2 DEF Before
    <3>2. i # d + 1
      BY <2>1, <3>1
    <3>3. i \in 1 .. d
      BY <3>1, <3>2
    <3>4. QED
      BY <3>1, <3>3 DEF Making
  <2>3. ASSUME NEW i \in Making(d, p) PROVE i \in Before(id, d + 1, p)
    <3>1. i \in 1 .. d /\ MakesSome(p[i])
      BY <2>3 DEF Making
    <3>2. d + 1 \in 1 .. d + 1 /\ i < d + 1 /\ i \in 1 .. d + 1
      BY <3>1
    <3>3. QED
      BY <1>4, <3>1, <3>2 DEF Before
  <2>4. QED
    BY <2>2, <2>3
<1>5. QED
  BY <1>1, <1>2, <1>3, <1>4

\* How many are before the last place is a number of entries.
LEMMA BeforeFinite ==
    ASSUME NEW d \in Nat, NEW p, NEW id
    PROVE  /\ Cardinality(Before(id, d, p)) \in Nat
           /\ Cardinality(Before(id, d, p)) <= Cardinality(Making(d, p))
           /\ Cardinality(Before(id, 0, p)) = 0
<1>1. Before(id, d, p) \in SUBSET Making(d, p)
  BY BeforeNext
<1>2. Cardinality(Before(id, 0, p)) = 0
  BY BeforeNext, FS_EmptySet
<1>3. QED
  BY <1>1, <1>2, MakingFinite

-----------------------------------------------------------------------------
(***************************************************************************)
(* What the text holds for a statement.                                    *)
(***************************************************************************)
\* The bytes of an array.
DataOf(s) == FlattenSeq([i \in 1 .. s[3] |-> BytesOfSize(s[2], s[i + 3])])

\* No field to fill in is there.
Clear(holes, begin, end) ==
    \A h \in 1 .. Len(holes) : holes[h].at + 4 <= begin \/ end <= holes[h].at

\* A field that was noted, with what it refers to added once it is filled in.
FieldIn(at, field, text, holes, store, done) ==
    \E h \in 1 .. Len(holes) :
        /\ holes[h].at = at /\ holes[h].id = field.id
        /\ h <= done => field.id \in Ids
        /\ Holds(text, at, LittleEndian(Base(field.base, at)
                                        + (IF h <= done THEN store[field.id] ELSE 0)))

DataIn(begin, end, s, text, holes) ==
    /\ s[1] = ASMDIRIMM
    /\ end = begin + Len(DataOf(s))
    /\ Holds(text, begin, DataOf(s))
    /\ Clear(holes, begin, end)

CodeOf(result, begin, end, s, text, holes, store, done) ==
    /\ Encoded(result, s)
    /\ Len(result.head) \in Nat
    /\ Holds(text, begin, result.head)
    /\ Clear(holes, begin, begin + Len(result.head))
    /\ \/ result.field = NoField /\ end = begin + Len(result.head)
       \/ /\ result.field # NoField
          /\ end = begin + Len(result.head) + 4
          /\ FieldIn(begin + Len(result.head), result.field, text, holes, store, done)

CodeIn(begin, end, s, text, holes, store, done) ==
    /\ s[1] # ASMDIRIMM
    /\ \E result : CodeOf(result, begin, end, s, text, holes, store, done)

IsEntry(begin, end, s, text, holes, store, done) ==
    \/ DataIn(begin, end, s, text, holes)
    \/ CodeIn(begin, end, s, text, holes, store, done)

EndOf(k, entries, length) == IF k < Len(entries) THEN entries[k + 1].at ELSE length

EntryOf(k, j, p, begins, entries, text, holes, store, done) ==
    /\ Cardinality(Making(j, p)) = k
    /\ entries[k].statement = begins[j]
    /\ IsEntry(entries[k].at, EndOf(k, entries, Len(text)), p[j], text, holes, store, done)

\* An entry for each of the first d statements that makes one, in their order.
Entries(d, p, begins, entries, text, holes, store, done) ==
    /\ Len(entries) = Cardinality(Making(d, p))
    /\ \A k \in 1 .. Len(entries) :
          /\ entries[k].at < Len(text)
          /\ \E j \in Making(d, p) : EntryOf(k, j, p, begins, entries, text, holes, store, done)

\* A place is where the entries behind it begin.
StoredAt(place, id, d, p, entries, length) ==
    /\ \A k \in 1 .. Len(entries) :
          entries[k].at < place <=> k <= Cardinality(Before(id, d, p))
    /\ place = length \/ \E k \in 1 .. Len(entries) : entries[k].at = place

-----------------------------------------------------------------------------
(***************************************************************************)
(* Appending to the text changes nothing of what is there.                 *)
(***************************************************************************)
LEMMA HoldsLonger ==
    ASSUME NEW text \in Seq(Byte), NEW code \in Seq(Byte), NEW at \in Nat, NEW bytes,
           Len(bytes) \in Nat, Holds(text, at, bytes)
    PROVE  Holds(text \o code, at, bytes)
<1>1. /\ Len(text \o code) = Len(text) + Len(code) /\ Len(text) \in Nat /\ Len(code) \in Nat
      /\ \A i \in 1 .. Len(text) : (text \o code)[i] = text[i]
  BY Behind
<1>2. at + Len(bytes) <= Len(text) /\ \A i \in 1 .. Len(bytes) : text[at + i] = bytes[i]
  BY DEF Holds
<1> DEFINE new == text \o code
           n == Len(bytes)
<1> HIDE DEF new, n
<1>3. at + n <= Len(new)
  BY <1>1, <1>2 DEF new, n
<1>4. ASSUME NEW i \in 1 .. n PROVE new[at + i] = bytes[i]
  <2>1. at + i \in 1 .. Len(text)
    BY <1>1, <1>2 DEF n
  <2>2. QED
    BY <1>1, <1>2, <2>1 DEF new, n
<1>5. QED
  BY <1>3, <1>4 DEF Holds, new, n

LEMMA ClearLonger ==
    ASSUME NEW holes, Len(holes) \in Nat, NEW more, Len(more) \in Nat, NEW begin, NEW end,
           Clear(holes, begin, end),
           \A h \in 1 .. Len(more) :
               \/ h \in 1 .. Len(holes) /\ more[h] = holes[h]
               \/ end <= more[h].at
    PROVE  Clear(more, begin, end)
BY DEF Clear

\* What the new fields are to the old code.
Further(text, holes, more) ==
    /\ Len(holes) \in Nat /\ Len(more) \in Nat /\ Len(holes) <= Len(more)
    /\ \A h \in 1 .. Len(holes) : more[h] = holes[h] /\ more[h].at \in Nat
    /\ \A h \in 1 .. Len(more) : h \in 1 .. Len(holes) \/ Len(text) <= more[h].at

LEMMA ClearFurther ==
    ASSUME NEW text \in Seq(Byte), NEW holes, NEW more, Further(text, holes, more),
           NEW begin \in Nat, NEW end \in Nat, end <= Len(text), Clear(holes, begin, end),
           \A h \in 1 .. Len(more) : more[h].at \in Nat
    PROVE  Clear(more, begin, end)
<1>1. Len(text) \in Nat
  OBVIOUS
<1>2. ASSUME NEW h \in 1 .. Len(more)
      PROVE  (h \in 1 .. Len(holes) /\ more[h] = holes[h]) \/ end <= more[h].at
  <2>1. CASE h \in 1 .. Len(holes)
    BY <2>1 DEF Further
  <2>2. CASE Len(text) <= more[h].at
    BY <1>1, <1>2, <2>2
  <2>3. QED
    BY <1>2, <2>1, <2>2 DEF Further
<1>3. QED
  BY <1>2, ClearLonger DEF Further

LEMMA FieldFurther ==
    ASSUME NEW text \in Seq(Byte), NEW code \in Seq(Byte), NEW holes, NEW more,
           Further(text, holes, more), NEW at \in Nat, NEW field, NEW store, NEW other,
           field.base \in {"relative", "unsorted", "data"},
           FieldIn(at, field, text, holes, store, 0)
    PROVE  /\ FieldIn(at, field, text \o code, more, other, 0)
           /\ at + 4 <= Len(text)
<1>1. PICK h \in 1 .. Len(holes) :
          /\ holes[h].at = at /\ holes[h].id = field.id
          /\ Holds(text, at, LittleEndian(Base(field.base, at)
                                          + (IF h <= 0 THEN store[field.id] ELSE 0)))
  BY DEF FieldIn
<1>2. ~(h <= 0)
  BY <1>1 DEF Further
<1> DEFINE v == Base(field.base, at) + 0
           base == field.base
<1>3. v \in Int
  <2>1. base \in {"relative", "unsorted", "data"}
    OBVIOUS
  <2> HIDE DEF base
  <2>2. Base(base, at) \in Int
    BY <2>1, BaseNumber
  <2>3. Base(base, at) + 0 \in Int
    BY <2>2
  <2>4. QED
    BY <2>3 DEF base
<1>4. Holds(text, at, LittleEndian(v))
  BY <1>1, <1>2
<1> HIDE DEF v
<1>5. Len(LittleEndian(v)) = 4
  BY <1>3, LittleEndianBytes
<1>6. Holds(text \o code, at, LittleEndian(v))
  BY <1>4, <1>5, HoldsLonger
<1>7. at + 4 <= Len(text)
  BY <1>4, <1>5 DEF Holds
<1>8. h \in 1 .. Len(more) /\ more[h] = holes[h]
  BY <1>1 DEF Further
<1>9. Holds(text \o code, at, LittleEndian(Base(field.base, at)
                                           + (IF h <= 0 THEN other[field.id] ELSE 0)))
  BY <1>2, <1>6 DEF v
<1>10. QED
  BY <1>1, <1>2, <1>7, <1>8, <1>9 DEF FieldIn

LEMMA EncodedBase ==
    ASSUME NEW result, NEW s, Encoded(result, s), result.field # NoField
    PROVE  /\ result.field.base \in {"relative", "unsorted", "data"}
           /\ result.field.id = Referred(s)
<1>1. PICK base \in {"relative", "unsorted", "data"} : result.field = Field(D32, Referred(s), base)
  BY DEF Encoded, FieldOfStatement
<1>2. QED
  BY <1>1, FieldDiffers

LEMMA EntryFurther ==
    ASSUME NEW text \in Seq(Byte), NEW code \in Seq(Byte), NEW holes, NEW more,
           Further(text, holes, more), \A h \in 1 .. Len(more) : more[h].at \in Nat,
           NEW begin \in Nat, NEW end, NEW s, NEW store, NEW other,
           Len(DataOf(s)) \in Nat \/ s[1] # ASMDIRIMM,
           IsEntry(begin, end, s, text, holes, store, 0)
    PROVE  IsEntry(begin, end, s, text \o code, more, other, 0)
<1>0. Len(text) \in Nat
  OBVIOUS
<1>1. CASE DataIn(begin, end, s, text, holes)
  <2> DEFINE bytes == DataOf(s)
  <2>1. s[1] = ASMDIRIMM /\ end = begin + Len(bytes) /\ Holds(text, begin, bytes)
        /\ Clear(holes, begin, end) /\ Len(bytes) \in Nat
    BY <1>1 DEF DataIn
  <2> HIDE DEF bytes
  <2>2. Holds(text \o code, begin, bytes)
    BY <2>1, HoldsLonger
  <2>3. end \in Nat /\ end <= Len(text)
    BY <2>1 DEF Holds
  <2>4. Clear(more, begin, end)
    BY <2>1, <2>3, ClearFurther
  <2>5. DataIn(begin, end, s, text \o code, more)
    BY <2>1, <2>2, <2>4 DEF DataIn, bytes
  <2>6. QED
    BY <2>5 DEF IsEntry
<1>2. CASE CodeIn(begin, end, s, text, holes, store, 0)
  <2>1. PICK result : CodeOf(result, begin, end, s, text, holes, store, 0)
    BY <1>2 DEF CodeIn
  <2> DEFINE at == begin + Len(result.head)
  <2>2. /\ Encoded(result, s) /\ Len(result.head) \in Nat /\ Holds(text, begin, result.head)
        /\ Clear(holes, begin, at)
    BY <2>1 DEF CodeOf
  <2>3. at \in Nat /\ at <= Len(text)
    BY <2>2 DEF Holds
  <2>4. Holds(text \o code, begin, result.head)
    BY <2>2, HoldsLonger
  <2>5. Clear(more, begin, at)
    BY <2>2, <2>3, ClearFurther
  <2>6. \/ result.field = NoField /\ end = at
        \/ /\ result.field # NoField /\ end = at + 4
           /\ FieldIn(at, result.field, text \o code, more, other, 0)
    <3>1. CASE result.field = NoField
      BY <2>1, <3>1 DEF CodeOf
    <3>2. CASE result.field # NoField
      <4>1. end = at + 4 /\ FieldIn(at, result.field, text, holes, store, 0)
        BY <2>1, <3>2 DEF CodeOf
      <4>2. result.field.base \in {"relative", "unsorted", "data"}
        BY <2>2, <3>2, EncodedBase
      <4> HIDE DEF at
      <4>3. FieldIn(at, result.field, text \o code, more, other, 0)
        BY <2>3, <4>1, <4>2, FieldFurther
      <4>4. QED
        BY <3>2, <4>1, <4>3
    <3>3. QED
      BY <3>1, <3>2
  <2>7. CodeOf(result, begin, end, s, text \o code, more, other, 0)
    BY <2>2, <2>4, <2>5, <2>6 DEF CodeOf
  <2>8. CodeIn(begin, end, s, text \o code, more, other, 0)
    BY <1>2, <2>7 DEF CodeIn
  <2>9. QED
    BY <2>8 DEF IsEntry
<1>3. QED
  BY <1>1, <1>2 DEF IsEntry

EntryRecord == [statement : Nat, at : Nat]

LEMMA LaterEntries ==
    ASSUME NEW entries \in Seq(EntryRecord), NEW entry \in EntryRecord, NEW length \in Nat,
           NEW n, n = Len(entries)
    PROVE  /\ n \in Nat
           /\ Append(entries, entry) \in Seq(EntryRecord)
           /\ Len(Append(entries, entry)) = n + 1
           /\ Append(entries, entry)[n + 1] = entry
           /\ \A k \in 1 .. n : Append(entries, entry)[k] = entries[k]
           /\ \A k \in 1 .. n : entries[k] \in EntryRecord
           /\ entry.at = length =>
                  \A k \in 1 .. n : \A more :
                      EndOf(k, Append(entries, entry), more) = EndOf(k, entries, length)
           /\ \A more : EndOf(n + 1, Append(entries, entry), more) = more
<1> DEFINE new == Append(entries, entry)
<1>1. /\ n \in Nat /\ new \in Seq(EntryRecord) /\ Len(new) = n + 1 /\ new[n + 1] = entry
      /\ \A k \in 1 .. n : new[k] = entries[k]
  BY AppendProperties
<1>2. \A k \in 1 .. n : entries[k] \in EntryRecord
  BY ElementOfSeq
<1> HIDE DEF new
<1>3. ASSUME entry.at = length, NEW k \in 1 .. n, NEW more
      PROVE  EndOf(k, new, more) = EndOf(k, entries, length)
  <2>1. k < Len(new)
    BY <1>1
  <2>2. EndOf(k, new, more) = new[k + 1].at
    BY <2>1 DEF EndOf
  <2>3. CASE k = n
    BY <1>1, <1>3, <2>2, <2>3 DEF EndOf
  <2>4. CASE k # n
    <3>1. k < n /\ k + 1 \in 1 .. n
      BY <1>1, <2>4
    <3>2. QED
      BY <1>1, <2>2, <3>1 DEF EndOf
  <2>5. QED
    BY <2>3, <2>4
<1>4. \A more : EndOf(n + 1, new, more) = more
  BY <1>1 DEF EndOf
<1>5. QED
  BY <1>1, <1>2, <1>3, <1>4 DEF new

LEMMA EntriesFurther ==
    ASSUME NEW d \in Nat, NEW p, NEW begins, NEW entries \in Seq(EntryRecord),
           NEW text \in Seq(Byte), NEW code \in Seq(Byte), Len(code) >= 1,
           NEW holes, NEW more, Further(text, holes, more),
           \A h \in 1 .. Len(more) : more[h].at \in Nat,
           NEW store, NEW other, MakesSome(p[d + 1]),
           \A j \in 1 .. d : Len(DataOf(p[j])) \in Nat \/ p[j][1] # ASMDIRIMM,
           Entries(d, p, begins, entries, text, holes, store, 0),
           NEW entry \in EntryRecord, entry.statement = begins[d + 1], entry.at = Len(text),
           IsEntry(Len(text), Len(text) + Len(code), p[d + 1], text \o code, more, other, 0)
    PROVE  Entries(d + 1, p, begins, Append(entries, entry), text \o code, more, other, 0)
<1> DEFINE new == Append(entries, entry)
           longer == text \o code
           n == Len(entries)
           length == Len(text)
<1>1. /\ length \in Nat /\ Len(code) \in Nat /\ Len(longer) = length + Len(code)
  BY Behind
<1> HIDE DEF longer
<1>2. /\ n \in Nat /\ Len(new) = n + 1 /\ new[n + 1] = entry
      /\ \A k \in 1 .. n : new[k] = entries[k] /\ entries[k] \in EntryRecord
      /\ \A k \in 1 .. n : \A any : EndOf(k, new, any) = EndOf(k, entries, length)
      /\ \A any : EndOf(n + 1, new, any) = any
  BY <1>1, LaterEntries
<1> HIDE DEF new
<1>3. n = Cardinality(Making(d, p)) /\ Making(d, p) \subseteq Making(d + 1, p)
  BY MakingNext DEF Entries
<1>4. Len(new) = Cardinality(Making(d + 1, p))
  BY <1>2, <1>3, MakingNext
<1>5. ASSUME NEW k \in 1 .. n
      PROVE  /\ new[k].at < Len(longer)
             /\ \E j \in Making(d + 1, p) : EntryOf(k, j, p, begins, new, longer, more, other, 0)
  <2>1. entries[k].at \in Nat /\ new[k] = entries[k]
    BY <1>2 DEF EntryRecord
  <2>2. entries[k].at < length
    BY DEF Entries
  <2>3. new[k].at < Len(longer)
    BY <1>1, <2>1, <2>2
  <2>4. PICK j \in Making(d, p) : EntryOf(k, j, p, begins, entries, text, holes, store, 0)
    BY DEF Entries
  <2>5. j \in 1 .. d
    BY DEF Making
  <2> DEFINE begin == entries[k].at
             end == EndOf(k, entries, length)
  <2>6. IsEntry(begin, end, p[j], text, holes, store, 0)
    BY <2>4 DEF EntryOf
  <2>7. begin \in Nat /\ (Len(DataOf(p[j])) \in Nat \/ p[j][1] # ASMDIRIMM)
    BY <2>1, <2>5
  <2> HIDE DEF begin, end
  <2>8. IsEntry(begin, end, p[j], longer, more, other, 0)
    BY <2>6, <2>7, EntryFurther DEF longer
  <2>9. EntryOf(k, j, p, begins, new, longer, more, other, 0)
    BY <1>2, <2>1, <2>4, <2>8 DEF EntryOf, begin, end
  <2>10. QED
    BY <1>3, <2>3, <2>9
<1>6. /\ new[n + 1].at < Len(longer)
      /\ \E j \in Making(d + 1, p) : EntryOf(n + 1, j, p, begins, new, longer, more, other, 0)
  <2>1. new[n + 1].at < Len(longer)
    BY <1>1, <1>2
  <2>2. d + 1 \in Making(d + 1, p)
    BY DEF Making
  <2>3. Cardinality(Making(d + 1, p)) = n + 1
    BY <1>3, MakingNext
  <2>4. EntryOf(n + 1, d + 1, p, begins, new, longer, more, other, 0)
    BY <1>1, <1>2, <2>3 DEF EntryOf, longer
  <2>5. QED
    BY <2>1, <2>2, <2>4
<1>7. ASSUME NEW k \in 1 .. Len(new)
      PROVE  /\ new[k].at < Len(longer)
             /\ \E j \in Making(d + 1, p) : EntryOf(k, j, p, begins, new, longer, more, other, 0)
  <2>1. k \in 1 .. n \/ k = n + 1
    BY <1>2
  <2>2. QED
    BY <1>5, <1>6, <2>1
<1>8. QED
  BY <1>4, <1>7 DEF Entries, new, longer

\* A place makes no entry.
LEMMA EntriesPlaced ==
    ASSUME NEW d \in Nat, NEW p, NEW begins, NEW entries \in Seq(EntryRecord),
           NEW text \in Seq(Byte), NEW holes, Len(holes) \in Nat,
           \A h \in 1 .. Len(holes) : holes[h].at \in Nat,
           NEW store, NEW other, ~MakesSome(p[d + 1]),
           \A j \in 1 .. d : Len(DataOf(p[j])) \in Nat \/ p[j][1] # ASMDIRIMM,
           Entries(d, p, begins, entries, text, holes, store, 0)
    PROVE  Entries(d + 1, p, begins, entries, text, holes, other, 0)
<1>1. Making(d + 1, p) = Making(d, p)
  BY MakingNext
<1>2. Further(text, holes, holes)
  BY DEF Further
<1>3. text \o <<>> = text /\ <<>> \in Seq(Byte)
  BY Joining
<1>4. ASSUME NEW k \in 1 .. Len(entries)
      PROVE  \E j \in Making(d + 1, p) : EntryOf(k, j, p, begins, entries, text, holes, other, 0)
  <2>1. entries[k] \in EntryRecord
    BY ElementOfSeq
  <2>4. PICK j \in Making(d, p) : EntryOf(k, j, p, begins, entries, text, holes, store, 0)
    BY DEF Entries
  <2>5. j \in 1 .. d
    BY DEF Making
  <2> DEFINE begin == entries[k].at
             end == EndOf(k, entries, Len(text))
  <2>6. IsEntry(begin, end, p[j], text, holes, store, 0)
    BY <2>4 DEF EntryOf
  <2>7. begin \in Nat /\ (Len(DataOf(p[j])) \in Nat \/ p[j][1] # ASMDIRIMM)
    BY <2>1, <2>5 DEF EntryRecord
  <2> HIDE DEF begin, end
  <2>8. IsEntry(begin, end, p[j], text \o <<>>, holes, other, 0)
    BY <1>2, <1>3, <2>6, <2>7, EntryFurther
  <2>9. EntryOf(k, j, p, begins, entries, text, holes, other, 0)
    BY <1>3, <2>4, <2>8 DEF EntryOf, begin, end
  <2>10. QED
    BY <1>1, <2>9
<1>5. QED
  BY <1>1, <1>4 DEF Entries

-----------------------------------------------------------------------------
(***************************************************************************)
(* The places.                                                             *)
(***************************************************************************)
LEMMA StoredFurther ==
    ASSUME NEW d \in Nat, NEW p, NEW id, NEW entries \in Seq(EntryRecord), NEW length \in Nat,
           NEW longer \in Nat, length < longer, NEW place \in Nat,
           NEW entry \in EntryRecord, entry.at = length,
           \A k \in 1 .. Len(entries) : entries[k].at < length,
           MakesSome(p[d + 1]), Len(entries) = Cardinality(Making(d, p)),
           StoredAt(place, id, d, p, entries, length)
    PROVE  StoredAt(place, id, d + 1, p, Append(entries, entry), longer)
<1> DEFINE new == Append(entries, entry)
           n == Len(entries)
           c == Cardinality(Before(id, d, p))
<1>1. /\ n \in Nat /\ Len(new) = n + 1 /\ new[n + 1] = entry
      /\ \A k \in 1 .. n : new[k] = entries[k] /\ entries[k] \in EntryRecord
  BY LaterEntries
<1>2. Cardinality(Before(id, d + 1, p)) = c
  <2>1. \A s : s = <<ASMDIRMEM, id>> => s[1] = ASMDIRMEM
    OBVIOUS
  <2>2. p[d + 1] # <<ASMDIRMEM, id>>
    BY <2>1 DEF MakesSome
  <2>3. Before(id, d + 1, p) = Before(id, d, p)
    BY <2>2, BeforeNext
  <2>4. QED
    BY <2>3
<1>3. c \in Nat /\ c <= n
  BY BeforeFinite
<1>4. /\ \A k \in 1 .. n : entries[k].at < place <=> k <= c
      /\ place = length \/ \E k \in 1 .. n : entries[k].at = place
  BY DEF StoredAt
<1> HIDE DEF new, n, c
<1>5. place <= length
  <2>1. ASSUME NEW k \in 1 .. n, entries[k].at = place PROVE place <= length
    BY <2>1 DEF n
  <2>2. QED
    BY <1>4, <2>1
<1>6. ASSUME NEW k \in 1 .. n + 1
      PROVE  new[k].at < place <=> k <= c
  <2>1. CASE k = n + 1
    BY <1>1, <1>3, <1>5, <2>1
  <2>2. CASE k \in 1 .. n
    BY <1>1, <1>4, <2>2
  <2>3. QED
    BY <1>1, <2>1, <2>2
<1>7. \E k \in 1 .. n + 1 : new[k].at = place
  <2>1. CASE place = length
    <3>1. n + 1 \in 1 .. n + 1 /\ new[n + 1].at = place
      BY <1>1, <2>1
    <3>2. QED
      BY <3>1
  <2>2. CASE \E k \in 1 .. n : entries[k].at = place
    <3>1. PICK k \in 1 .. n : entries[k].at = place
      BY <2>2
    <3>2. k \in 1 .. n + 1 /\ new[k].at = place
      BY <1>1, <3>1
    <3>3. QED
      BY <3>2
  <2>3. QED
    BY <1>4, <2>1, <2>2
<1>8. QED
  BY <1>1, <1>2, <1>6, <1>7 DEF StoredAt, new, c

\* At a place of another id.
LEMMA StoredBefore ==
    ASSUME NEW d \in Nat, NEW p, NEW id, NEW entries, NEW length, NEW place,
           p[d + 1] # <<ASMDIRMEM, id>>, StoredAt(place, id, d, p, entries, length)
    PROVE  StoredAt(place, id, d + 1, p, entries, length)
<1>1. Before(id, d + 1, p) = Before(id, d, p)
  BY BeforeNext
<1>2. QED
  BY <1>1 DEF StoredAt

LEMMA StoredHere ==
    ASSUME NEW d \in Nat, NEW p, NEW id, NEW entries, NEW length,
           p[d + 1] = <<ASMDIRMEM, id>>, Len(entries) \in Nat,
           Len(entries) = Cardinality(Making(d, p)),
           \A k \in 1 .. Len(entries) : entries[k].at < length
    PROVE  StoredAt(length, id, d + 1, p, entries, length)
<1>1. Before(id, d + 1, p) = Making(d, p)
  BY BeforeNext
<1>2. \A k \in 1 .. Len(entries) : k <= Cardinality(Before(id, d + 1, p))
  BY <1>1
<1>3. QED
  BY <1>2 DEF StoredAt

-----------------------------------------------------------------------------
(***************************************************************************)
(* Filling in a field changes what is held for its statement, and nothing  *)
(* of the others.                                                          *)
(***************************************************************************)
LEMMA PatchedAt ==
    ASSUME NEW text \in Seq(Byte), NEW at \in Nat, NEW store \in Nat, at + 4 <= Len(text)
    PROVE  /\ \A i \in 1 .. Len(text) :
                  i <= at \/ at + 4 < i => Patched(text, at, store)[i] = text[i]
           /\ \A v \in Int :
                  Holds(text, at, LittleEndian(v)) =>
                      Holds(Patched(text, at, store), at, LittleEndian(v + store))
<1> DEFINE new == Patched(text, at, store)
           sum == Added(text, at, store)
           n == Len(text)
<1>1. n \in Nat /\ DOMAIN text = 1 .. n
  OBVIOUS
<1>2. \A i \in 1 .. n : new[i] = IF i - 1 - at \in 0 .. 3 THEN sum[i - at] ELSE text[i]
  BY <1>1 DEF Patched
<1>3. Len(new) = n
  BY PatchedBytes
<1> HIDE DEF new, sum
<1>4. ASSUME NEW i \in 1 .. n, i <= at \/ at + 4 < i PROVE new[i] = text[i]
  <2>1. i - 1 - at \notin 0 .. 3
    BY <1>1, <1>4
  <2>2. QED
    BY <1>2, <2>1
<1>5. ASSUME NEW v \in Int, Holds(text, at, LittleEndian(v))
      PROVE  Holds(new, at, LittleEndian(v + store))
  <2> DEFINE bytes == LittleEndian(v + store)
  <2>1. sum = bytes
    BY <1>5, AddedToBase DEF sum, Byte
  <2>2. Len(bytes) = 4
    <3>1. v + store \in Int
      OBVIOUS
    <3>2. QED
      BY <3>1, LittleEndianBytes
  <2> HIDE DEF bytes
  <2>3. ASSUME NEW i \in 1 .. 4 PROVE new[at + i] = bytes[i]
    <3>1. at + i \in 1 .. n /\ (at + i) - 1 - at \in 0 .. 3 /\ (at + i) - at = i
      BY <1>1 DEF n
    <3>2. new[at + i] = sum[(at + i) - at]
      BY <1>2, <3>1
    <3>3. QED
      BY <2>1, <3>1, <3>2
  <2>4. at + 4 <= Len(new)
    BY <1>3 DEF n
  <2>5. Holds(new, at, bytes)
    BY <2>2, <2>3, <2>4 DEF Holds
  <2>6. QED
    BY <2>5 DEF bytes
<1>6. QED
  BY <1>4, <1>5 DEF new, n

LEMMA HoldsPatched ==
    ASSUME NEW text \in Seq(Byte), NEW at \in Nat, NEW store \in Nat, at + 4 <= Len(text),
           NEW begin \in Nat, NEW bytes, Len(bytes) \in Nat, Holds(text, begin, bytes),
           at + 4 <= begin \/ begin + Len(bytes) <= at
    PROVE  Holds(Patched(text, at, store), begin, bytes)
<1> DEFINE new == Patched(text, at, store)
           n == Len(bytes)
<1>1. /\ Len(new) = Len(text) /\ Len(text) \in Nat
      /\ \A i \in 1 .. Len(text) : i <= at \/ at + 4 < i => new[i] = text[i]
  BY PatchedBytes, PatchedAt
<1>2. begin + n <= Len(text) /\ \A i \in 1 .. n : text[begin + i] = bytes[i]
  BY DEF Holds
<1> HIDE DEF new
<1>3. ASSUME NEW i \in 1 .. n PROVE new[begin + i] = bytes[i]
  <2> DEFINE k == begin + i
  <2>1. k \in 1 .. Len(text) /\ (k <= at \/ at + 4 < k)
    BY <1>1, <1>2
  <2>2. text[k] = bytes[i]
    BY <1>2
  <2> HIDE DEF k
  <2>3. new[k] = bytes[i]
    BY <1>1, <2>1, <2>2
  <2>4. QED
    BY <2>3 DEF k
<1>4. QED
  BY <1>1, <1>2, <1>3 DEF Holds, new

\* The fields are of four bytes, one behind the other.
Apart(holes) ==
    /\ Len(holes) \in Nat
    /\ \A h \in 1 .. Len(holes) : holes[h].at \in Nat
    /\ \A g, h \in 1 .. Len(holes) : g < h => holes[g].at + 4 <= holes[h].at

LEMMA FieldPatched ==
    ASSUME NEW text \in Seq(Byte), NEW holes, Apart(holes), NEW h \in 1 .. Len(holes),
           holes[h].id \in Ids, NEW store \in [Ids -> Nat], holes[h].at + 4 <= Len(text),
           NEW at \in Nat, NEW field, field.base \in {"relative", "unsorted", "data"},
           FieldIn(at, field, text, holes, store, h - 1)
    PROVE  FieldIn(at, field, Patched(text, holes[h].at, store[holes[h].id]), holes, store, h)
<1> DEFINE here == holes[h].at
           value == store[holes[h].id]
           new == Patched(text, here, value)
           base == Base(field.base, at)
<1>1. here \in Nat /\ value \in Nat /\ here + 4 <= Len(text) /\ Len(holes) \in Nat
  BY DEF Apart
<1>2. base \in Int
  <2> DEFINE kind == field.base
  <2>1. kind \in {"relative", "unsorted", "data"}
    OBVIOUS
  <2> HIDE DEF kind
  <2>2. Base(kind, at) \in Int
    BY <2>1, BaseNumber
  <2>3. QED
    BY <2>2 DEF kind
<1>3. PICK g \in 1 .. Len(holes) :
          /\ holes[g].at = at /\ holes[g].id = field.id
          /\ g <= h - 1 => field.id \in Ids
          /\ Holds(text, at, LittleEndian(base + (IF g <= h - 1 THEN store[field.id] ELSE 0)))
  BY DEF FieldIn
<1> HIDE DEF new, here, value, base
<1>4. CASE g = h
  <2>1. at = here /\ store[field.id] = value /\ field.id \in Ids
    BY <1>3, <1>4 DEF here, value
  <2>2. ~(g <= h - 1) /\ g <= h
    BY <1>4
  <2>3. Holds(text, at, LittleEndian(base + 0)) /\ base + 0 \in Int /\ (base + 0) + value = base + value
    BY <1>1, <1>2, <1>3, <2>2
  <2>4. Holds(new, at, LittleEndian((base + 0) + value))
    BY <1>1, <2>1, <2>3, PatchedAt DEF new
  <2>5. Holds(new, at, LittleEndian(base + (IF g <= h THEN store[field.id] ELSE 0)))
    BY <2>1, <2>2, <2>3, <2>4
  <2>6. QED
    BY <1>3, <2>1, <2>5 DEF FieldIn, base, new, here, value
<1>5. CASE g # h
  <2>1. (g <= h - 1 <=> g <= h)
    BY <1>5
  <2>2. here + 4 <= at \/ at + 4 <= here
    <3>1. g < h \/ h < g
      BY <1>5
    <3>2. QED
      BY <1>3, <3>1 DEF Apart, here
  <2> DEFINE v == base + (IF g <= h - 1 THEN store[field.id] ELSE 0)
             bytes == LittleEndian(v)
  <2>3. v \in Int
    <3>1. (IF g <= h - 1 THEN store[field.id] ELSE 0) \in Int
      BY <1>3
    <3>2. QED
      BY <1>2, <3>1
  <2>4. Holds(text, at, bytes)
    BY <1>3
  <2> HIDE DEF v
  <2>5. Len(bytes) = 4
    BY <2>3, LittleEndianBytes
  <2> HIDE DEF bytes
  <2>6. Holds(new, at, bytes)
    <3>1. here + 4 <= at \/ at + Len(bytes) <= here
      BY <2>2, <2>5
    <3>2. Len(bytes) \in Nat
      BY <2>5
    <3>3. Holds(Patched(text, here, value), at, bytes)
      BY <1>1, <2>4, <3>1, <3>2, HoldsPatched
    <3>4. QED
      BY <3>3 DEF new
  <2>7. bytes = LittleEndian(base + (IF g <= h THEN store[field.id] ELSE 0))
    BY <2>1 DEF bytes, v
  <2>8. Holds(new, at, LittleEndian(base + (IF g <= h THEN store[field.id] ELSE 0)))
    BY <2>6, <2>7
  <2>9. g <= h => field.id \in Ids
    BY <1>3, <2>1
  <2>10. QED
    BY <1>3, <2>8, <2>9 DEF FieldIn, base, new, here, value
<1>6. QED
  BY <1>4, <1>5

LEMMA EntryPatched ==
    ASSUME NEW text \in Seq(Byte), NEW holes, Apart(holes), NEW h \in 1 .. Len(holes),
           holes[h].id \in Ids, NEW store \in [Ids -> Nat], holes[h].at + 4 <= Len(text),
           NEW begin \in Nat, NEW end, NEW s, Len(DataOf(s)) \in Nat \/ s[1] # ASMDIRIMM,
           IsEntry(begin, end, s, text, holes, store, h - 1)
    PROVE  IsEntry(begin, end, s, Patched(text, holes[h].at, store[holes[h].id]), holes, store, h)
<1> DEFINE here == holes[h].at
           value == store[holes[h].id]
           new == Patched(text, here, value)
<1>1. here \in Nat /\ value \in Nat /\ here + 4 <= Len(text) /\ Len(holes) \in Nat
  BY DEF Apart
<1>2. \A from, to : Clear(holes, from, to) => here + 4 <= from \/ to <= here
  BY DEF Clear
<1>3. ASSUME NEW from \in Nat, NEW bytes, Len(bytes) \in Nat, Holds(text, from, bytes),
             Clear(holes, from, from + Len(bytes))
      PROVE  Holds(new, from, bytes)
  <2> HIDE DEF here, value
  <2>1. here + 4 <= from \/ from + Len(bytes) <= here
    BY <1>2, <1>3
  <2>2. QED
    BY <1>1, <1>3, <2>1, HoldsPatched
<1> HIDE DEF new, here, value
<1>4. CASE DataIn(begin, end, s, text, holes)
  <2> DEFINE bytes == DataOf(s)
  <2>1. s[1] = ASMDIRIMM /\ end = begin + Len(bytes) /\ Holds(text, begin, bytes)
        /\ Clear(holes, begin, end) /\ Len(bytes) \in Nat
    BY <1>4 DEF DataIn
  <2> HIDE DEF bytes
  <2>2. Holds(new, begin, bytes)
    BY <1>3, <2>1
  <2>3. DataIn(begin, end, s, new, holes)
    BY <2>1, <2>2 DEF DataIn, bytes
  <2>4. QED
    BY <2>3 DEF IsEntry, new, here, value
<1>5. CASE CodeIn(begin, end, s, text, holes, store, h - 1)
  <2>1. PICK result : CodeOf(result, begin, end, s, text, holes, store, h - 1)
    BY <1>5 DEF CodeIn
  <2> DEFINE at == begin + Len(result.head)
  <2>2. /\ Encoded(result, s) /\ Len(result.head) \in Nat /\ Holds(text, begin, result.head)
        /\ Clear(holes, begin, at)
    BY <2>1 DEF CodeOf
  <2>3. at \in Nat
    BY <2>2
  <2>4. Holds(new, begin, result.head)
    BY <1>3, <2>2
  <2>5. \/ result.field = NoField /\ end = at
        \/ /\ result.field # NoField /\ end = at + 4
           /\ FieldIn(at, result.field, new, holes, store, h)
    <3>1. CASE result.field = NoField
      BY <2>1, <3>1 DEF CodeOf
    <3>2. CASE result.field # NoField
      <4>1. end = at + 4 /\ FieldIn(at, result.field, text, holes, store, h - 1)
        BY <2>1, <3>2 DEF CodeOf
      <4>2. result.field.base \in {"relative", "unsorted", "data"}
        BY <2>2, <3>2, EncodedBase
      <4> DEFINE field == result.field
      <4>3. FieldIn(at, field, text, holes, store, h - 1)
            /\ field.base \in {"relative", "unsorted", "data"}
        BY <4>1, <4>2
      <4> HIDE DEF at, field
      <4>4. holes[h].at + 4 <= Len(text)
        OBVIOUS
      <4>5. FieldIn(at, field, Patched(text, holes[h].at, store[holes[h].id]), holes, store, h)
        BY <2>3, <4>3, <4>4, FieldPatched
      <4>6. FieldIn(at, field, new, holes, store, h)
        BY <4>5 DEF new, here, value
      <4>7. QED
        BY <3>2, <4>1, <4>6 DEF field
    <3>3. QED
      BY <3>1, <3>2
  <2>6. CodeOf(result, begin, end, s, new, holes, store, h)
    BY <2>2, <2>4, <2>5 DEF CodeOf
  <2>7. CodeIn(begin, end, s, new, holes, store, h)
    BY <1>5, <2>6 DEF CodeIn
  <2>8. QED
    BY <2>7 DEF IsEntry, new, here, value
<1>6. QED
  BY <1>4, <1>5 DEF IsEntry

LEMMA EntriesPatched ==
    ASSUME NEW d \in Nat, NEW p, NEW begins, NEW entries \in Seq(EntryRecord),
           NEW text \in Seq(Byte), NEW holes, Apart(holes), NEW h \in 1 .. Len(holes),
           holes[h].id \in Ids, NEW store \in [Ids -> Nat], holes[h].at + 4 <= Len(text),
           \A j \in 1 .. d : Len(DataOf(p[j])) \in Nat \/ p[j][1] # ASMDIRIMM,
           Entries(d, p, begins, entries, text, holes, store, h - 1)
    PROVE  Entries(d, p, begins, entries, Patched(text, holes[h].at, store[holes[h].id]),
                   holes, store, h)
<1> DEFINE new == Patched(text, holes[h].at, store[holes[h].id])
<1>1. Len(new) = Len(text)
  BY PatchedBytes DEF Apart
<1>2. \A begin \in Nat : \A end, s :
          (Len(DataOf(s)) \in Nat \/ s[1] # ASMDIRIMM)
          /\ IsEntry(begin, end, s, text, holes, store, h - 1)
              => IsEntry(begin, end, s, new, holes, store, h)
  BY EntryPatched
<1> HIDE DEF new
<1>3. ASSUME NEW k \in 1 .. Len(entries)
      PROVE  \E j \in Making(d, p) : EntryOf(k, j, p, begins, entries, new, holes, store, h)
  <2>1. entries[k] \in EntryRecord
    BY ElementOfSeq
  <2>2. PICK j \in Making(d, p) : EntryOf(k, j, p, begins, entries, text, holes, store, h - 1)
    BY DEF Entries
  <2>3. j \in 1 .. d
    BY DEF Making
  <2> DEFINE begin == entries[k].at
             end == EndOf(k, entries, Len(text))
  <2>4. IsEntry(begin, end, p[j], text, holes, store, h - 1)
    BY <2>2 DEF EntryOf
  <2>5. begin \in Nat /\ (Len(DataOf(p[j])) \in Nat \/ p[j][1] # ASMDIRIMM)
    BY <2>1, <2>3 DEF EntryRecord
  <2> HIDE DEF begin, end
  <2>6. IsEntry(begin, end, p[j], new, holes, store, h)
    BY <1>2, <2>4, <2>5
  <2>7. EntryOf(k, j, p, begins, entries, new, holes, store, h)
    BY <1>1, <2>2, <2>6 DEF EntryOf, begin, end
  <2>8. QED
    BY <2>7
<1>4. QED
  BY <1>1, <1>3 DEF Entries, new

-----------------------------------------------------------------------------
(***************************************************************************)
(* The statement the first pass is at, and what it finds in the array.     *)
(***************************************************************************)
LEMMA AtNext ==
    ASSUME TypeOK, Layout, NEW d \in 0 .. Len(statements),
           index = Place(d + 1, starts, Len(token_array)), index < token_count
    PROVE  /\ d + 1 \in 1 .. Len(statements) /\ d \in Nat
           /\ Written(statements[d + 1]) /\ Len(statements[d + 1]) \in Nat
           /\ index = starts[d + 1]
           /\ index + Len(statements[d + 1]) = Place(d + 2, starts, Len(token_array))
           /\ \A j \in 1 .. Len(statements[d + 1]) : Token(index + j - 1) = statements[d + 1][j]
           /\ Token(index) = statements[d + 1][1]
           /\ \A j \in 1 .. 7 : j <= Len(statements[d + 1]) => array[j - 1] = statements[d + 1][j]
           /\ Len(statements[d + 1]) <= 6 => Agrees(array, statements[d + 1])
<1> DEFINE k == d + 1
           s == statements[k]
           n == Len(s)
<1>1. /\ Len(statements) \in Nat /\ Len(starts) = Len(statements) /\ token_count \in Nat
      /\ starts \in Seq(Nat) /\ token_array \in Seq(Int) /\ index \in Nat
  BY DEF Layout, Laid, token_count, TypeOK
<1>2. k \in 1 .. Len(statements) /\ index = starts[k]
  BY <1>1 DEF Place, token_count
<1>3. /\ Written(s)
      /\ starts[k] + n = Place(k + 1, starts, Len(token_array))
      /\ Place(k + 1, starts, Len(token_array)) <= Len(token_array)
      /\ \A j \in 1 .. n : token_array[starts[k] + j] = s[j]
  BY <1>2 DEF Layout, Laid
<1>4. n \in Nat /\ n >= 1 /\ index + n <= token_count
  BY <1>2, <1>3, WrittenTypes DEF token_count
<1>5. k + 1 = d + 2
  OBVIOUS
<1> HIDE DEF s, n, k
<1>6. ASSUME NEW j \in 1 .. n PROVE Token(index + j - 1) = s[j]
  <2>1. index + j - 1 < token_count /\ (index + j - 1) + 1 = index + j
    BY <1>1, <1>4
  <2>2. token_array[index + j] = s[j]
    BY <1>2, <1>3
  <2>3. QED
    BY <2>1, <2>2 DEF Token
<1>7. ASSUME NEW j \in 1 .. 7, j <= n PROVE array[j - 1] = s[j]
  <2>1. j - 1 \in 0 .. 6 /\ index + (j - 1) = index + j - 1 /\ j \in 1 .. n
    BY <1>1, <1>4, <1>7
  <2>2. array[j - 1] = Token(index + (j - 1))
    BY <2>1 DEF array
  <2>3. QED
    BY <1>6, <2>1, <2>2
<1>8. n <= 6 => Agrees(array, s)
  <2>1. array \in [0 .. 6 -> Int]
    BY TokensAreNumbers
  <2>2. n <= 6 => \A j \in 1 .. n : j \in 1 .. 7 /\ j <= n
    BY <1>4
  <2>3. QED
    BY <1>7, <2>1, <2>2 DEF Agrees, n
<1>9. Token(index) = s[1]
  <2>1. 1 \in 1 .. n /\ index + 1 - 1 = index
    BY <1>1, <1>4
  <2>2. QED
    BY <1>6, <2>1
<1>10. index + n = Place(d + 2, starts, Len(token_array))
  BY <1>2, <1>3, <1>5
<1>11. QED
  BY <1>2, <1>3, <1>4, <1>6, <1>7, <1>8, <1>9, <1>10 DEF s, n, k

LEMMA RightNeither ==
    ASSUME NEW s, Right(s)
    PROVE  ~WideMove(s) /\ ~Narrow(s)
<1>1. ~WideMove(s)
  BY DEF Right, Misencoded, WideMove
<1>2. ~Narrow(s)
  <2> DEFINE o == s[1]
  <2>1. \/ o \in (ADD .. CMP) \union {MOV} \/ o \in (INC .. IDIV) \union {POP, PUSH}
        \/ o = JMP \/ o \in JO .. JG \/ o = CALL \/ o \in OneByteOperations \union TwoByteOperations
        \/ o = ASMDIRMEM \/ o = ASMDIRIMM
    BY DEF Right, Ordinary, WithTwo, WithOne, Jumping, WithNone, Declaring
  <2> HIDE DEF o
  <2>2. o \notin LOOP .. LOOPNE
    BY <2>1 DEF LOOP, LOOPNE, ADD, CMP, MOV, INC, IDIV, POP, PUSH, JMP, JO, JG, CALL,
       OneByteOperations, TwoByteOperations, ASMDIRMEM, ASMDIRIMM, NOP, POPF, PUSHF, LEAVE, RETN,
       RETF, SYSCALL, CPUID, FNOP, FSCALE
  <2>3. QED
    BY <2>2 DEF Narrow, o
<1>3. QED
  BY <1>1, <1>2

\* A right statement makes a place, data, or code of at most six tokens.
LEMMA RightKinds ==
    ASSUME NEW s, Right(s)
    PROVE  /\ Written(s) /\ \A i \in 1 .. Len(s) : IsWord(s[i])
           /\ s[1] = ASMDIRMEM => Len(s) = 2
           /\ s[1] = ASMDIRIMM => /\ s[2] \in {D8, D16, D32} /\ s[3] \in Nat /\ s[3] >= 1
                                  /\ Len(s) = s[3] + 3
           /\ s[1] # ASMDIRMEM /\ s[1] # ASMDIRIMM =>
                  s[1] \in Instructions /\ ~Declaring(s) /\ Len(s) <= 6
           /\ MakesSome(s) <=> s[1] # ASMDIRMEM
<1>1. Written(s) /\ \A i \in 1 .. Len(s) : IsWord(s[i])
  BY DEF Right, Ordinary
<1>2. s[1] = ASMDIRMEM => Len(s) = 2
  BY <1>1, DirectiveLengths
<1>3. ASSUME s[1] = ASMDIRIMM
      PROVE  /\ s[2] \in {D8, D16, D32} /\ s[3] \in Nat /\ s[3] >= 1 /\ Len(s) = s[3] + 3
  <2>1. Len(s) >= 3 /\ s[3] = Len(s) - 3 /\ Len(s) \in Nat
    BY <1>1, <1>3, DirectiveLengths, WrittenTypes
  <2>2. s[2] \in {D8, D16, D32} /\ s[3] >= 1
    <3> DEFINE o == s[1]
    <3>1. \/ o \in (ADD .. CMP) \union {MOV} \/ o \in (INC .. IDIV) \union {POP, PUSH}
          \/ o = JMP \/ o \in JO .. JG \/ o = CALL
          \/ o \in OneByteOperations \union TwoByteOperations
          \/ Declaring(s)
      BY DEF Right, Ordinary, WithTwo, WithOne, Jumping, WithNone
    <3>2. o = ASMDIRIMM
      BY <1>3
    <3> HIDE DEF o
    <3>3. Declaring(s)
      BY <3>1, <3>2 DEF ADD, CMP, MOV, INC, IDIV, POP, PUSH, JMP, JO, JG, CALL,
         OneByteOperations, TwoByteOperations, ASMDIRIMM, NOP, POPF, PUSHF, LEAVE, RETN,
         RETF, SYSCALL, CPUID, FNOP, FSCALE
    <3>4. QED
      BY <1>3, <3>3 DEF Declaring, ASMDIRMEM, ASMDIRIMM
  <2>3. QED
    BY <2>1, <2>2
<1>4. ASSUME s[1] # ASMDIRMEM, s[1] # ASMDIRIMM
      PROVE  s[1] \in Instructions /\ ~Declaring(s) /\ Len(s) <= 6
  <2>1. s[1] \in Instructions
    BY <1>1, <1>4, DirectiveLengths
  <2>2. ~Declaring(s)
    BY <1>4 DEF Declaring
  <2>3. Len(s) <= 6
    BY <1>1, <1>4 DEF Written
  <2>4. QED
    BY <2>1, <2>2, <2>3
<1>5. QED
  BY <1>1, <1>2, <1>3, <1>4 DEF MakesSome

\* The data of a right statement are some bytes.
LEMMA SomeData ==
    ASSUME NEW s, Right(s), s[1] = ASMDIRIMM
    PROVE  DataOf(s) \in Seq(Byte) /\ Len(DataOf(s)) >= 1 /\ Len(DataOf(s)) \in Nat
<1> DEFINE amount == s[3]
           seqs == [i \in 1 .. amount |-> BytesOfSize(s[2], s[i + 3])]
<1>1. amount \in Nat /\ amount >= 1 /\ Len(s) = amount + 3 /\ \A i \in 1 .. Len(s) : IsWord(s[i])
  BY RightKinds
<1>2. ASSUME NEW i \in 1 .. amount
      PROVE  BytesOfSize(s[2], s[i + 3]) \in Seq(Byte) /\ Len(BytesOfSize(s[2], s[i + 3])) >= 1
  <2>1. s[i + 3] \in Int
    BY <1>1 DEF IsWord
  <2>2. WidthOf(s[2]) >= 1
    BY Width
  <2>3. QED
    BY <2>1, <2>2, SizedBytes
<1> HIDE DEF amount
<1>3. seqs \in Seq(Seq(Byte)) /\ Len(seqs) = amount /\ Len(seqs[1]) >= 1
  BY <1>1, <1>2
<1> HIDE DEF seqs
<1>4. FlattenSeq(seqs) = FlatTo(amount, seqs) /\ FlattenSeq(seqs) \in Seq(Byte)
  BY <1>3, FlattenAll
<1>5. 1 \in 1 .. amount /\ amount \in 0 .. Len(seqs) /\ 1 \in 1 .. Len(seqs[1])
  <2>1. seqs[1] \in Seq(Byte)
    BY <1>1, <1>3
  <2>2. QED
    BY <1>1, <1>3, <2>1
<1>6. Len(FlatTo(0, seqs)) + 1 \in 1 .. Len(FlatTo(amount, seqs))
  <2>1. Len(FlatTo(1 - 1, seqs)) + 1 \in 1 .. Len(FlatTo(amount, seqs))
    BY <1>3, <1>5, FlatElements
  <2>2. QED
    BY <2>1
<1>7. FlatTo(0, seqs) = <<>> /\ Len(<<>>) = 0
  BY DEF FlatTo
<1>8. Len(FlatTo(amount, seqs)) >= 1
  BY <1>4, <1>6, <1>7
<1>9. DataOf(s) = FlattenSeq(seqs)
  BY DEF DataOf, seqs, amount
<1>10. QED
  BY <1>4, <1>8, <1>9

-----------------------------------------------------------------------------
(***************************************************************************)
(* How far both passes are.                                                *)
(***************************************************************************)
Progress(d) ==
    /\ index = Place(d + 1, starts, Len(token_array))
    /\ Entries(d, statements, starts, built, text_sector_byte, empty_holes, empty_store, patched)
    /\ \A id \in Ids :
          StoredAt(empty_store[id], id, d, statements, built, Len(text_sector_byte))

Unread ==
    /\ index = 0 /\ text_sector_byte = <<>> /\ empty_holes = <<>> /\ built = <<>>
    /\ patched = 0
    /\ \A id \in Ids : empty_store[id] = 0

Reading ==
    /\ patched = 0
    /\ AllRight => \E d \in 0 .. Len(statements) : Progress(d)

Linking ==
    /\ AllRight => Progress(Len(statements))
    /\ main_entry_point = empty_store[0]

Listed == patched = Len(empty_holes) /\ listing = [i \in DOMAIN built |-> Read(i)]

Carried ==
    /\ phase \in {"parse", "dump"} => Unread
    /\ phase = "build" => Reading
    /\ phase \in {"link", "done"} => Linking
    /\ phase = "done" => Listed

-----------------------------------------------------------------------------
(***************************************************************************)
(* The first pass makes the entry of each statement in turn.               *)
(***************************************************************************)
LEMMA HolesApart ==
    ASSUME TypeOK, Layout, FieldsPlaced, AllRight
    PROVE  /\ Apart(empty_holes) /\ ~Lost
           /\ \A h \in 1 .. Len(empty_holes) :
                  empty_holes[h].at + 4 <= Len(text_sector_byte)
<1>1. \A k \in 1 .. Len(statements) : ~WideMove(statements[k]) /\ ~Narrow(statements[k])
  BY RightNeither DEF AllRight
<1>2. ~Lost
  BY <1>1 DEF Lost
<1>3. Placed
  BY <1>2 DEF FieldsPlaced
<1>4. Len(empty_holes) \in Nat
  BY DEF TypeOK
<1>5. ASSUME NEW h \in 1 .. Len(empty_holes)
      PROVE  empty_holes[h].at \in Nat /\ empty_holes[h].width = 4
  <2>1. empty_holes[h] \in [at : Nat, id : Int, width : {1, 2, 4}]
    BY ElementOfSeq DEF TypeOK
  <2>2. QED
    BY <1>1, <1>3, <2>1 DEF Placed
<1>6. QED
  BY <1>2, <1>3, <1>4, <1>5 DEF Placed, Apart

LEMMA AllData ==
    ASSUME AllRight, NEW d \in 0 .. Len(statements)
    PROVE  \A j \in 1 .. d :
               Len(DataOf(statements[j])) \in Nat \/ statements[j][1] # ASMDIRIMM
<1>1. ASSUME NEW j \in 1 .. d, statements[j][1] = ASMDIRIMM
      PROVE  Len(DataOf(statements[j])) \in Nat
  <2>1. Right(statements[j])
    BY DEF AllRight
  <2>2. QED
    BY <1>1, <2>1, SomeData
<1>2. QED
  BY <1>1

LEMMA StartsReading ==
    ASSUME Unread, Layout
    PROVE  Reading
<1>1. index = Place(0 + 1, starts, Len(token_array))
  BY DEF Unread, Layout, Laid
<1>2. /\ built = <<>> /\ text_sector_byte = <<>> /\ patched = 0
      /\ \A id \in Ids : empty_store[id] = 0
  BY DEF Unread
<1>3. Len(<<>>) = 0 /\ 1 .. 0 = {} /\ Len(statements) \in Nat
  BY DEF Layout, Laid
<1>4. Entries(0, statements, starts, built, text_sector_byte, empty_holes, empty_store, patched)
  <2>1. Cardinality(Making(0, statements)) = 0
    BY MakingNext
  <2>2. QED
    BY <1>2, <1>3, <2>1 DEF Entries
<1>5. \A id \in Ids : StoredAt(empty_store[id], id, 0, statements, built, Len(text_sector_byte))
  BY <1>2, <1>3 DEF StoredAt
<1>6. Progress(0) /\ 0 \in 0 .. Len(statements)
  BY <1>1, <1>3, <1>4, <1>5 DEF Progress
<1>7. QED
  BY <1>2, <1>6 DEF Reading

LEMMA EmitProgress ==
    ASSUME TypeOK, Layout, AllRight, NEW d \in 0 .. Len(statements), d + 1 \in 1 .. Len(statements),
           Progress(d), patched = 0, patched' = 0,
           UNCHANGED <<token_array, statements, starts, empty_store>>,
           index' = Place(d + 2, starts, Len(token_array)), index = starts[d + 1],
           NEW code \in Seq(Byte), Len(code) >= 1, text_sector_byte' = text_sector_byte \o code,
           built' = NoteBuilt, Further(text_sector_byte, empty_holes, empty_holes'),
           \A h \in 1 .. Len(empty_holes') : empty_holes'[h].at \in Nat,
           MakesSome(statements[d + 1]),
           IsEntry(Len(text_sector_byte), Len(text_sector_byte) + Len(code), statements[d + 1],
                   text_sector_byte \o code, empty_holes', empty_store, 0)
    PROVE  Progress(d + 1)'
<1> DEFINE entry == [statement |-> index, at |-> Len(text_sector_byte)]
           text == text_sector_byte
           longer == text \o code
           length == Len(text)
<1>1. /\ text \in Seq(Byte) /\ length \in Nat /\ built \in Seq(EntryRecord) /\ d \in Nat
      /\ entry \in EntryRecord /\ entry.statement = starts[d + 1] /\ entry.at = length
      /\ built' = Append(built, entry)
  BY DEF TypeOK, Byte, EntryRecord, NoteBuilt
<1>2. \A j \in 1 .. d : Len(DataOf(statements[j])) \in Nat \/ statements[j][1] # ASMDIRIMM
  BY AllData
<1>3. Entries(d, statements, starts, built, text, empty_holes, empty_store, 0)
  BY DEF Progress
<1>4. /\ longer \in Seq(Byte) /\ Len(longer) = length + Len(code)
      /\ Len(longer) \in Nat /\ length < Len(longer)
  <2>1. longer \in Seq(Byte) /\ Len(longer) = length + Len(code)
    BY <1>1, Behind
  <2>2. Len(code) \in Nat
    OBVIOUS
  <2>3. QED
    BY <1>1, <2>1, <2>2
<1> HIDE DEF entry, text, length
<1>5. Entries(d + 1, statements, starts, Append(built, entry), longer, empty_holes', empty_store, 0)
  BY <1>1, <1>2, <1>3, EntriesFurther DEF text, length
<1> HIDE DEF longer
<1>6. ASSUME NEW id \in Ids
      PROVE  StoredAt(empty_store[id], id, d + 1, statements, Append(built, entry), Len(longer))
  <2>1. StoredAt(empty_store[id], id, d, statements, built, length)
    BY DEF Progress, length, text
  <2>2. empty_store[id] \in Nat
    BY DEF TypeOK
  <2>3. /\ \A k \in 1 .. Len(built) : built[k].at < length
        /\ Len(built) = Cardinality(Making(d, statements))
    BY <1>3 DEF Entries, length
  <2>4. QED
    BY <1>1, <1>4, <2>1, <2>2, <2>3, StoredFurther
<1>7. text_sector_byte' = longer
  BY DEF longer, text
<1>8. index' = Place((d + 1) + 1, starts, Len(token_array))
  <2>1. (d + 1) + 1 = d + 2
    BY <1>1
  <2>2. QED
    BY <2>1
<1>9. QED
  BY <1>1, <1>5, <1>6, <1>7, <1>8 DEF Progress

LEMMA StoreMemoryProgress ==
    ASSUME TypeOK, Layout, FieldsPlaced, AllRight, NEW d \in 0 .. Len(statements),
           Progress(d), patched = 0, StoreMemory
    PROVE  d + 1 \in 0 .. Len(statements) /\ Progress(d + 1)'
<1> DEFINE s == statements[d + 1]
           id == array[1]
           length == Len(text_sector_byte)
<1>1. /\ index < token_count /\ Token(index) = ASMDIRMEM /\ id \in Ids
      /\ index' = index + 1 + 1
      /\ UNCHANGED <<token_array, patched, statements, starts, text_sector_byte, empty_holes, built>>
      /\ empty_store' = [empty_store EXCEPT ![id] = length]
  BY DEF StoreMemory, Building
<1>2. /\ d + 1 \in 1 .. Len(statements) /\ d \in Nat
      /\ Written(s) /\ Len(s) \in Nat
      /\ index + Len(s) = Place(d + 2, starts, Len(token_array))
      /\ Token(index) = s[1]
      /\ \A j \in 1 .. 7 : j <= Len(s) => array[j - 1] = s[j]
  BY <1>1, AtNext DEF Progress
<1>3. Len(s) = 2 /\ s[1] = ASMDIRMEM
  BY <1>1, <1>2, DirectiveLengths
<1>4. s[2] = id
  <2>1. 2 \in 1 .. 7 /\ 2 <= Len(s) /\ 2 - 1 = 1
    BY <1>3
  <2>2. QED
    BY <1>2, <2>1
<1>5. s = <<ASMDIRMEM, id>>
  <2>1. s \in Seq(Int)
    BY <1>2, WrittenTypes
  <2> HIDE DEF s, id
  <2>2. s = <<s[1], s[2]>>
    BY <1>3, <2>1
  <2>3. QED
    BY <1>3, <1>4, <2>2
<1>6. ~MakesSome(s)
  BY <1>3 DEF MakesSome
<1>7. /\ text_sector_byte \in Seq(Byte) /\ built \in Seq(EntryRecord)
      /\ empty_store \in [Ids -> Nat] /\ index \in Nat
  BY DEF TypeOK, Byte, EntryRecord
<1>8. Entries(d, statements, starts, built, text_sector_byte, empty_holes, empty_store, 0)
  BY DEF Progress
<1>9. \A j \in 1 .. d : Len(DataOf(statements[j])) \in Nat \/ statements[j][1] # ASMDIRIMM
  BY AllData
<1>10. Len(empty_holes) \in Nat /\ \A h \in 1 .. Len(empty_holes) : empty_holes[h].at \in Nat
  BY HolesApart DEF Apart
<1>11. Entries(d + 1, statements, starts, built, text_sector_byte, empty_holes, empty_store', 0)
  BY <1>2, <1>6, <1>7, <1>8, <1>9, <1>10, EntriesPlaced
<1>12. ASSUME NEW other \in Ids
       PROVE  StoredAt(empty_store'[other], other, d + 1, statements, built, length)
  <2>1. StoredAt(empty_store[other], other, d, statements, built, length)
    BY DEF Progress
  <2>2. /\ \A k \in 1 .. Len(built) : built[k].at < length
        /\ Len(built) = Cardinality(Making(d, statements)) /\ Len(built) \in Nat
    BY <1>7, <1>8 DEF Entries
  <2> HIDE DEF length, id
  <2>3. CASE other = id
    <3>1. empty_store'[other] = length
      BY <1>1, <1>7, <2>3
    <3>2. StoredAt(length, other, d + 1, statements, built, length)
      BY <1>2, <1>5, <2>2, <2>3, StoredHere
    <3>3. QED
      BY <3>1, <3>2
  <2>4. CASE other # id
    <3>1. empty_store'[other] = empty_store[other]
      BY <1>1, <1>7, <2>4
    <3>2. s # <<ASMDIRMEM, other>>
      BY <1>5, <2>4
    <3>3. StoredAt(empty_store[other], other, d + 1, statements, built, length)
      BY <1>2, <2>1, <3>2, StoredBefore
    <3>4. QED
      BY <3>1, <3>3
  <2>5. QED
    BY <2>3, <2>4
<1>13. index' = Place((d + 1) + 1, starts, Len(token_array))
  <2>1. (d + 1) + 1 = d + 2 /\ index + 1 + 1 = index + Len(s)
    BY <1>2, <1>3, <1>7
  <2>2. QED
    BY <1>1, <1>2, <2>1
<1>14. QED
  BY <1>1, <1>2, <1>11, <1>12, <1>13 DEF Progress

-----------------------------------------------------------------------------
\* What is appended is behind what was there.
LEMMA HeldBehind ==
    ASSUME NEW text \in Seq(Byte), NEW code \in Seq(Byte), NEW from \in Nat, NEW bytes,
           Len(bytes) \in Nat, Holds(code, from, bytes)
    PROVE  Holds(text \o code, Len(text) + from, bytes)
<1> DEFINE longer == text \o code
           length == Len(text)
           n == Len(bytes)
<1>1. /\ Len(longer) = length + Len(code) /\ length \in Nat /\ Len(code) \in Nat
      /\ \A i \in 1 .. Len(code) : longer[length + i] = code[i]
  BY Behind
<1>2. from + n <= Len(code) /\ \A i \in 1 .. n : code[from + i] = bytes[i]
  BY DEF Holds
<1> HIDE DEF longer, length, n
<1>3. ASSUME NEW i \in 1 .. n PROVE longer[(length + from) + i] = bytes[i]
  <2>1. from + i \in 1 .. Len(code) /\ (length + from) + i = length + (from + i)
    BY <1>1, <1>2 DEF n
  <2>2. longer[length + (from + i)] = code[from + i]
    BY <1>1, <2>1
  <2>3. QED
    BY <1>2, <2>1, <2>2
<1>4. (length + from) + n <= Len(longer)
  BY <1>1, <1>2 DEF n
<1>5. QED
  BY <1>3, <1>4 DEF Holds, longer, length, n

LEMMA HeldWhole ==
    ASSUME NEW head \in Seq(Byte), NEW bytes \in Seq(Byte)
    PROVE  /\ Holds(head \o bytes, 0, head) /\ Holds(head \o bytes, Len(head), bytes)
           /\ head \o bytes \in Seq(Byte) /\ Len(head \o bytes) = Len(head) + Len(bytes)
<1> DEFINE all == head \o bytes
<1>1. /\ all \in Seq(Byte) /\ Len(all) = Len(head) + Len(bytes)
      /\ \A i \in 1 .. Len(head) : all[i] = head[i]
      /\ \A i \in 1 .. Len(bytes) : all[Len(head) + i] = bytes[i]
      /\ Len(head) \in Nat /\ Len(bytes) \in Nat
  BY Behind
<1> HIDE DEF all
<1>2. \A i \in 1 .. Len(head) : 0 + i = i
  BY <1>1
<1>3. Holds(all, 0, head)
  BY <1>1, <1>2 DEF Holds
<1>4. Holds(all, Len(head), bytes)
  BY <1>1 DEF Holds
<1>5. QED
  BY <1>1, <1>3, <1>4 DEF all

LEMMA HeldEmitted ==
    ASSUME NEW result, Modest(result), result.tail = <<>>, NEW at \in Nat
    PROVE  /\ Emitted(result, at) \in Seq(Byte) /\ Len(result.head) \in Nat
           /\ Len(Emitted(result, at)) = Len(result.head) + result.field.width
           /\ Holds(Emitted(result, at), 0, result.head)
           /\ \A base \in {"relative", "unsorted", "data"} :
                  result.field.width = 4 /\ result.field.base = base =>
                      Holds(Emitted(result, at), Len(result.head),
                            LittleEndian(Base(base, at + Len(result.head))))
<1> DEFINE head == result.head
           place == at + Len(head)
           bytes == FieldBytes(result.field, place)
<1>1. /\ head \in Seq(Byte) /\ place \in Nat /\ Len(head) \in Nat
      /\ FieldOk(result.field, result.skip)
  BY DEF Modest
<1>2. result.field.width \in 0 .. 4 /\ result.field.base \in Bases
  BY <1>1 DEF FieldOk, NoField, Bases
<1>3. bytes \in Seq(Byte) /\ Len(bytes) = result.field.width
  <2> DEFINE base == result.field.base
             width == result.field.width
  <2>1. base \in Bases /\ width \in 0 .. 4
    BY <1>2
  <2> HIDE DEF base, width, place
  <2>2. Base(base, place) \in Int
    BY <1>1, <2>1 DEF Base, Bases
  <2>3. SubSeq(LittleEndian(Base(base, place)), 1, width) \in Seq(Byte)
        /\ Len(SubSeq(LittleEndian(Base(base, place)), 1, width)) = width
    BY <2>1, <2>2, Prefix DEF Short
  <2>4. QED
    BY <2>3 DEF FieldBytes, base, width
<1>4. Emitted(result, at) = (head \o bytes) \o <<>>
  BY DEF Emitted
<1> HIDE DEF bytes
<1>5. (head \o bytes) \o <<>> = head \o bytes
  <2>1. head \o bytes \in Seq(Byte)
    BY <1>1, <1>3, Behind
  <2>2. QED
    BY <2>1, ConcatEmptySeq
<1>6. ASSUME NEW base \in {"relative", "unsorted", "data"}, result.field.width = 4,
             result.field.base = base
      PROVE  bytes = LittleEndian(Base(base, place))
  <2>1. Base(base, place) \in Int
    BY <1>1, BaseNumber
  <2>2. LittleEndian(Base(base, place)) \in Seq(Byte) /\ Len(LittleEndian(Base(base, place))) = 4
    BY <2>1, LittleEndianBytes
  <2>3. bytes = SubSeq(LittleEndian(Base(base, place)), 1, 4)
    BY <1>6 DEF bytes, FieldBytes
  <2>4. QED
    BY <2>2, <2>3, SubSeqFull
<1>7. QED
  BY <1>1, <1>3, <1>4, <1>5, <1>6, HeldWhole

LEMMA StoreImmediateProgress ==
    ASSUME TypeOK, Layout, FieldsPlaced, AllRight, NEW d \in 0 .. Len(statements),
           Progress(d), patched = 0, StoreImmediate
    PROVE  d + 1 \in 0 .. Len(statements) /\ Progress(d + 1)'
<1> DEFINE s == statements[d + 1]
           n == Len(s)
           length == Len(text_sector_byte)
           element(i) == inset_immediate(TRUE, array[1], Token(index + 3 + i))
           code == DataOf(s)
<1>1. /\ index < token_count /\ Token(index) = ASMDIRIMM
      /\ index' = index + (array[2] + 2) + 1
      /\ UNCHANGED <<token_array, patched, statements, starts, empty_holes, empty_store>>
      /\ text_sector_byte' =
            text_sector_byte \o FlattenSeq([i \in 1 .. array[2] |-> element(i - 1)])
      /\ built' = NoteBuilt
  BY DEF StoreImmediate, Building
<1>2. /\ d + 1 \in 1 .. Len(statements) /\ d \in Nat
      /\ Written(s) /\ n \in Nat /\ index = starts[d + 1]
      /\ index + n = Place(d + 2, starts, Len(token_array))
      /\ \A j \in 1 .. n : Token(index + j - 1) = s[j]
      /\ Token(index) = s[1]
      /\ \A j \in 1 .. 7 : j <= n => array[j - 1] = s[j]
  BY <1>1, AtNext DEF Progress
<1>3. Right(s) /\ s[1] = ASMDIRIMM
  BY <1>1, <1>2 DEF AllRight
<1>4. s[3] \in Nat /\ n = s[3] + 3 /\ MakesSome(s)
  BY <1>3, RightKinds DEF ASMDIRMEM, ASMDIRIMM
<1>5. array[1] = s[2] /\ array[2] = s[3]
  <2>1. 2 \in 1 .. 7 /\ 3 \in 1 .. 7 /\ 2 <= n /\ 3 <= n /\ 2 - 1 = 1 /\ 3 - 1 = 2
    BY <1>4
  <2>2. QED
    BY <1>2, <2>1
<1>6. index \in Nat /\ text_sector_byte \in Seq(Byte) /\ length \in Nat
  BY DEF TypeOK, Byte
<1> HIDE DEF s, n
<1>7. [i \in 1 .. array[2] |-> element(i - 1)]
          = [i \in 1 .. s[3] |-> BytesOfSize(s[2], s[i + 3])]
  <2>1. ASSUME NEW i \in 1 .. s[3]
        PROVE  element(i - 1) = BytesOfSize(s[2], s[i + 3])
    <3>1. i + 3 \in 1 .. n /\ index + 3 + (i - 1) = index + (i + 3) - 1
      BY <1>4, <1>6
    <3>2. Token(index + 3 + (i - 1)) = s[i + 3]
      BY <1>2, <3>1
    <3>3. QED
      BY <1>5, <3>2 DEF inset_immediate, BytesOfSize
  <2> HIDE DEF element
  <2>2. QED
    BY <1>5, <2>1
<1>8. text_sector_byte' = text_sector_byte \o code
  BY <1>1, <1>7 DEF DataOf
<1>9. code \in Seq(Byte) /\ Len(code) >= 1 /\ Len(code) \in Nat
  BY <1>3, SomeData
<1>10. index' = Place(d + 2, starts, Len(token_array))
  <2>1. index + (array[2] + 2) + 1 = index + n
    BY <1>4, <1>5, <1>6
  <2>2. QED
    BY <1>1, <1>2, <2>1
<1>11. /\ Len(empty_holes) \in Nat
       /\ \A h \in 1 .. Len(empty_holes) :
              empty_holes[h].at \in Nat /\ empty_holes[h].at + 4 <= length
  BY HolesApart DEF Apart
<1>12. Further(text_sector_byte, empty_holes, empty_holes')
  BY <1>1, <1>11 DEF Further
<1>13. IsEntry(length, length + Len(code), s, text_sector_byte \o code, empty_holes', empty_store, 0)
  <2> HIDE DEF code
  <2>1. Holds(code, 0, code)
    BY <1>9 DEF Holds
  <2>2. Holds(text_sector_byte \o code, length + 0, code)
    BY <1>6, <1>9, <2>1, HeldBehind
  <2>3. Clear(empty_holes', length, length + Len(code))
    BY <1>1, <1>11 DEF Clear
  <2>4. DataIn(length, length + Len(code), s, text_sector_byte \o code, empty_holes')
    BY <1>3, <1>6, <2>2, <2>3 DEF DataIn, code
  <2>5. QED
    BY <2>4 DEF IsEntry
<1> HIDE DEF code, element, length
<1>14. Progress(d + 1)'
  <2>1. /\ UNCHANGED <<token_array, statements, starts, empty_store>> /\ patched' = 0
        /\ \A h \in 1 .. Len(empty_holes') : empty_holes'[h].at \in Nat
    BY <1>1, <1>11
  <2>2. IsEntry(Len(text_sector_byte), Len(text_sector_byte) + Len(code), statements[d + 1],
                text_sector_byte \o code, empty_holes', empty_store, 0)
    BY <1>13 DEF length, s
  <2>3. MakesSome(statements[d + 1])
    BY <1>4 DEF s
  <2>4. QED
    BY <1>1, <1>2, <1>8, <1>9, <1>10, <1>12, <2>1, <2>2, <2>3, EmitProgress
<1>15. QED
  BY <1>2, <1>14

-----------------------------------------------------------------------------
\* What an instruction leaves, with the field that is noted, is its entry.
LEMMA EmittedEntry ==
    ASSUME NEW s, s[1] # ASMDIRIMM, NEW result, Modest(result), Encoded(result, s),
           NEW text \in Seq(Byte), NEW holes \in Seq(Hole), NEW more, NEW store,
           \A h \in 1 .. Len(holes) : holes[h].at + 4 <= Len(text),
           \/ result.field = NoField /\ more = holes
           \/ /\ result.field # NoField
              /\ more = Append(holes, [at |-> Len(text) + Len(result.head),
                                       id |-> result.field.id, width |-> result.field.width])
    PROVE  /\ Emitted(result, Len(text)) \in Seq(Byte)
           /\ Len(Emitted(result, Len(text))) >= 1
           /\ Further(text, holes, more) /\ \A h \in 1 .. Len(more) : more[h].at \in Nat
           /\ IsEntry(Len(text), Len(text) + Len(Emitted(result, Len(text))), s,
                      text \o Emitted(result, Len(text)), more, store, 0)
<1> DEFINE length == Len(text)
           code == Emitted(result, length)
           head == result.head
           width == result.field.width
           at == length + Len(head)
           hole == [at |-> at, id |-> result.field.id, width |-> result.field.width]
           longer == text \o code
<1>1. result.tail = <<>> /\ Len(head) >= 1 /\ length \in Nat
  BY DEF Encoded
<1>2. /\ code \in Seq(Byte) /\ Len(head) \in Nat /\ Len(code) = Len(head) + width
      /\ Holds(code, 0, head)
      /\ \A base \in {"relative", "unsorted", "data"} :
             width = 4 /\ result.field.base = base =>
                 Holds(code, Len(head), LittleEndian(Base(base, at)))
  BY <1>1, HeldEmitted
<1>3. result.field # NoField =>
          /\ result.field.base \in {"relative", "unsorted", "data"}
          /\ width = 4
  <2>1. ASSUME result.field # NoField
        PROVE  result.field.base \in {"relative", "unsorted", "data"} /\ width = 4
    <3>1. PICK base \in {"relative", "unsorted", "data"} :
              result.field = Field(D32, Referred(s), base)
      BY <2>1 DEF Encoded, FieldOfStatement
    <3>2. QED
      BY <3>1, FieldDiffers
  <2>2. QED
    BY <2>1
<1>4. result.field = NoField => width = 0
  BY DEF NoField
<1>5. FieldOk(result.field, result.skip)
  BY DEF Modest
<1>6. holes \in Seq(Hole) /\ \A h \in 1 .. Len(holes) : holes[h].at \in Nat
  <2>1. ASSUME NEW h \in 1 .. Len(holes) PROVE holes[h].at \in Nat
    <3>1. holes[h] \in Hole
      BY ElementOfSeq
    <3>2. QED
      BY <3>1 DEF Hole
  <2>2. QED
    BY <2>1
<1>7. result.field # NoField => hole \in Hole
  BY <1>1, <1>2, <1>3, <1>5 DEF FieldOk, Hole
<1> HIDE DEF code, width
<1>8. Holds(longer, length, head)
  <2>1. Holds(text \o code, length + 0, head)
    BY <1>2, HeldBehind
  <2>2. length + 0 = length
    BY <1>1
  <2>3. QED
    BY <2>1, <2>2
<1>9. CASE result.field = NoField
  <2>1. more = holes /\ width = 0 /\ Len(code) = Len(head)
    BY <1>2, <1>4, <1>9
  <2>2. Further(text, holes, more) /\ \A h \in 1 .. Len(more) : more[h].at \in Nat
    BY <1>6, <2>1 DEF Further
  <2>3. Clear(more, length, at)
    BY <2>1 DEF Clear
  <2>4. length + Len(code) = at
    BY <2>1
  <2> HIDE DEF at, length, longer
  <2>5. CodeOf(result, length, length + Len(code), s, longer, more, store, 0)
    BY <1>2, <1>8, <1>9, <2>3, <2>4 DEF CodeOf, at
  <2>6. IsEntry(length, length + Len(code), s, longer, more, store, 0)
    BY <2>5 DEF IsEntry, CodeIn
  <2>7. QED
    BY <1>1, <1>2, <2>1, <2>2, <2>6 DEF longer, length, code
<1>10. CASE result.field # NoField
  <2> DEFINE base == result.field.base
             m == Len(holes)
             v == Base(base, at)
  <2>1. base \in {"relative", "unsorted", "data"} /\ width = 4 /\ hole \in Hole
    BY <1>3, <1>7, <1>10
  <2>2. Holds(code, Len(head), LittleEndian(v))
    BY <1>2, <2>1
  <2>3. at \in Nat
    BY <1>1, <1>2
  <2> HIDE DEF base
  <2>4. v \in Int
    BY <2>1, <2>3, BaseNumber
  <2> HIDE DEF v
  <2>5. Len(LittleEndian(v)) = 4
    BY <2>4, LittleEndianBytes
  <2>6. Holds(longer, at, LittleEndian(v))
    <3> DEFINE bytes == LittleEndian(v)
               from == Len(head)
    <3>1. Holds(code, from, bytes) /\ Len(bytes) \in Nat /\ from \in Nat /\ code \in Seq(Byte)
      BY <1>2, <2>2, <2>5
    <3> HIDE DEF bytes, from
    <3>2. Holds(text \o code, Len(text) + from, bytes)
      BY <3>1, HeldBehind
    <3>3. QED
      BY <3>2 DEF bytes, from
  <2>7. more = Append(holes, hole)
    BY <1>10
  <2>8. hole.at = at /\ hole.id = result.field.id
    OBVIOUS
  <2> HIDE DEF hole
  <2>9. /\ m \in Nat /\ Len(more) = m + 1 /\ more[m + 1] = hole
        /\ \A h \in 1 .. m : more[h] = holes[h]
    BY <2>1, <2>7, AppendProperties
  <2>10. length <= at /\ Len(code) = Len(head) + 4
    BY <1>1, <1>2, <2>1
  <2> HIDE DEF at, m
  <2>11. ASSUME NEW h \in 1 .. m + 1
         PROVE  more[h].at \in Nat /\ (h \in 1 .. m \/ (h = m + 1 /\ more[h].at = at))
    BY <1>6, <2>3, <2>8, <2>9 DEF m
  <2>12. Further(text, holes, more) /\ \A h \in 1 .. Len(more) : more[h].at \in Nat
    <3>1. \A h \in 1 .. m : more[h] = holes[h] /\ more[h].at \in Nat
      BY <1>6, <2>9 DEF m
    <3>2. \A h \in 1 .. Len(more) : h \in 1 .. m \/ length <= more[h].at
      BY <2>9, <2>10, <2>11
    <3>3. QED
      BY <2>9, <2>11, <3>1, <3>2 DEF Further, m
  <2>13. Clear(more, length, at)
    <3>1. ASSUME NEW h \in 1 .. Len(more) PROVE more[h].at + 4 <= length \/ at <= more[h].at
      <4>1. CASE h \in 1 .. m
        BY <2>9, <4>1 DEF m
      <4>2. CASE h = m + 1 /\ more[h].at = at
        BY <2>3, <4>2
      <4>3. QED
        BY <2>9, <2>11, <3>1, <4>1, <4>2
    <3>2. QED
      BY <3>1 DEF Clear
  <2>14. FieldIn(at, result.field, longer, more, store, 0)
    <3>1. m + 1 \in 1 .. Len(more) /\ ~(m + 1 <= 0)
      BY <2>9
    <3>2. v + (IF m + 1 <= 0 THEN store[result.field.id] ELSE 0) = v
      BY <2>4, <3>1
    <3>3. Holds(longer, at, LittleEndian(Base(result.field.base, at)
                                + (IF m + 1 <= 0 THEN store[result.field.id] ELSE 0)))
      BY <2>6, <3>2 DEF v, base
    <3>4. QED
      BY <2>8, <2>9, <3>1, <3>3 DEF FieldIn
  <2>15. length + Len(code) = at + 4
    <3> DEFINE n == Len(head)
               c == Len(code)
    <3>1. c = n + 4 /\ n \in Nat
      BY <1>2, <2>10
    <3>2. at = length + n
      BY DEF at
    <3> HIDE DEF n, c, length
    <3>3. length \in Nat
      BY <1>1 DEF length
    <3>4. length + c = at + 4
      BY <3>1, <3>2, <3>3
    <3>5. QED
      BY <3>4 DEF c
  <2> HIDE DEF length, longer
  <2>16. CodeOf(result, length, length + Len(code), s, longer, more, store, 0)
    BY <1>2, <1>8, <1>10, <2>13, <2>14, <2>15 DEF CodeOf, at
  <2>17. IsEntry(length, length + Len(code), s, longer, more, store, 0)
    BY <2>16 DEF IsEntry, CodeIn
  <2>18. Len(code) >= 1
    BY <1>1, <1>2, <2>10
  <2>19. QED
    BY <1>2, <2>12, <2>17, <2>18 DEF longer, length, code
<1>11. QED
  BY <1>9, <1>10

LEMMA BuildInstructionProgress ==
    ASSUME TypeOK, Layout, FieldsPlaced, AllRight, NEW d \in 0 .. Len(statements),
           Progress(d), patched = 0, BuildInstruction
    PROVE  d + 1 \in 0 .. Len(statements) /\ Progress(d + 1)'
<1> DEFINE s == statements[d + 1]
           n == Len(s)
           length == Len(text_sector_byte)
           result == build_instruction(array)
           code == Emitted(result, length)
<1>1. /\ index < token_count /\ Token(index) \in Instructions
      /\ index' = index + result.skip + 1
      /\ UNCHANGED <<token_array, patched, statements, starts, empty_store>>
      /\ text_sector_byte' = text_sector_byte \o code
      /\ empty_holes' = IF result.field = NoField THEN empty_holes
                        ELSE Append(empty_holes,
                                    [at |-> length + Len(result.head), id |-> result.field.id,
                                     width |-> result.field.width])
      /\ built' = NoteBuilt
  BY DEF BuildInstruction, Building
<1>2. /\ d + 1 \in 1 .. Len(statements) /\ d \in Nat
      /\ Written(s) /\ n \in Nat /\ index = starts[d + 1]
      /\ index + n = Place(d + 2, starts, Len(token_array))
      /\ Token(index) = s[1]
      /\ n <= 6 => Agrees(array, s)
      /\ \A j \in 1 .. 7 : j <= n => array[j - 1] = s[j]
  BY <1>1, AtNext DEF Progress
<1>3. Right(s) /\ s[1] \in Instructions
  BY <1>1, <1>2 DEF AllRight
<1>4. s[1] # ASMDIRMEM /\ s[1] # ASMDIRIMM
  BY <1>3, DirectivesApart
<1>5. n <= 6 /\ ~Declaring(s) /\ MakesSome(s)
  BY <1>3, <1>4, RightKinds
<1>6. Agrees(array, s) /\ Encoded(result, s)
  BY <1>2, <1>3, <1>5, RightIsEncoded
<1>7. array \in [0 .. 6 -> Int] /\ array[0] = s[1] /\ (n >= 2 => array[1] = s[2])
  <2>1. n >= 1
    BY <1>2, WrittenTypes
  <2>2. array[1 - 1] = s[1] /\ (n >= 2 => array[2 - 1] = s[2])
    <3> HIDE DEF s, n
    <3>1. 1 \in 1 .. 7 /\ 2 \in 1 .. 7 /\ 1 <= n
      BY <2>1
    <3>2. QED
      BY <1>2, <3>1
  <2>3. QED
    BY <2>2, TokensAreNumbers
<1>8. result.skip + 1 = n /\ Modest(result) /\ result.skip \in Nat
  <2>1. ~WideMove(s)
    BY <1>3, RightNeither
  <2>2. QED
    BY <1>2, <1>3, <1>7, <2>1, BuildersTakeStatements, BuildersAreModest
<1>9. /\ index \in Nat /\ text_sector_byte \in Seq(Byte) /\ length \in Nat
      /\ empty_holes \in Seq(Hole)
  BY DEF TypeOK, Byte, Hole
<1>10. \A h \in 1 .. Len(empty_holes) : empty_holes[h].at + 4 <= length
  BY HolesApart
<1> HIDE DEF result, s, n
<1>11. /\ code \in Seq(Byte) /\ Len(code) >= 1
       /\ Further(text_sector_byte, empty_holes, empty_holes')
       /\ \A h \in 1 .. Len(empty_holes') : empty_holes'[h].at \in Nat
       /\ IsEntry(length, length + Len(code), s, text_sector_byte \o code, empty_holes',
                  empty_store, 0)
  <2>1. \/ result.field = NoField /\ empty_holes' = empty_holes
        \/ /\ result.field # NoField
           /\ empty_holes' = Append(empty_holes,
                                    [at |-> length + Len(result.head), id |-> result.field.id,
                                     width |-> result.field.width])
    BY <1>1
  <2>2. QED
    BY <1>4, <1>6, <1>8, <1>9, <1>10, <2>1, EmittedEntry
<1>12. index' = Place(d + 2, starts, Len(token_array))
  <2>1. index + result.skip + 1 = index + n
    BY <1>8, <1>9
  <2>2. QED
    BY <1>1, <1>2, <2>1
<1> HIDE DEF code, length
<1>13. Progress(d + 1)'
  <2>1. /\ UNCHANGED <<token_array, statements, starts, empty_store>> /\ patched' = 0
    BY <1>1
  <2>2. IsEntry(Len(text_sector_byte), Len(text_sector_byte) + Len(code), statements[d + 1],
                text_sector_byte \o code, empty_holes', empty_store, 0)
    BY <1>11 DEF length, s
  <2>3. MakesSome(statements[d + 1])
    BY <1>5 DEF s
  <2>4. QED
    BY <1>1, <1>2, <1>11, <1>12, <2>1, <2>2, <2>3, EmitProgress
<1>14. QED
  BY <1>2, <1>13

-----------------------------------------------------------------------------
(***************************************************************************)
(* From one pass to the next, and through the second.                      *)
(***************************************************************************)
LEMMA SameRead ==
    ASSUME UNCHANGED <<token_array, text_sector_byte, built>>
    PROVE  [i \in DOMAIN built |-> Read(i)]' = [i \in DOMAIN built |-> Read(i)]
<1>1. \A i : Token(i)' = Token(i)
  BY DEF Token, token_count
<1>2. \A offset : PlaceAt(offset)' = PlaceAt(offset)
  BY DEF PlaceAt
<1>3. \A operand : Located(operand)' = Located(operand)
  BY <1>2 DEF Located
<1>4. ASSUME NEW i PROVE Read(i)' = Read(i)
  BY <1>1, <1>3 DEF Read
<1>5. built' = built
  OBVIOUS
<1>6. QED
  BY <1>4, <1>5

LEMMA SameProgress ==
    ASSUME UNCHANGED <<token_array, index, text_sector_byte, empty_holes, empty_store, patched,
                       statements, starts, built>>
    PROVE  /\ AllRight' <=> AllRight
           /\ \A d : Progress(d)' <=> Progress(d)
           /\ Reading => Reading'
           /\ Unread => Unread'
<1>1. AllRight' <=> AllRight
  BY DEF AllRight
<1>2. \A d : Progress(d)' <=> Progress(d)
  BY DEF Progress
<1>3. Reading => Reading'
  BY <1>1, <1>2 DEF Reading
<1>4. Unread => Unread'
  BY DEF Unread
<1>5. QED
  BY <1>1, <1>2, <1>3, <1>4

LEMMA EndBuildLinks ==
    ASSUME TypeOK, Layout, Reading, EndBuild
    PROVE  Linking'
<1>1. /\ index >= token_count /\ main_entry_point' = empty_store[0]
      /\ UNCHANGED <<token_array, index, text_sector_byte, empty_holes, empty_store, patched,
                     statements, starts, built>>
  BY DEF EndBuild
<1>2. /\ AllRight' <=> AllRight
      /\ \A d : Progress(d)' <=> Progress(d)
  BY <1>1, SameProgress
<1>3. ASSUME AllRight PROVE Progress(Len(statements))
  <2>1. PICK d \in 0 .. Len(statements) : Progress(d)
    BY <1>3 DEF Reading
  <2>2. /\ Len(statements) \in Nat /\ Len(starts) = Len(statements) /\ token_count \in Nat
        /\ starts \in Seq(Nat) /\ index \in Nat
    BY DEF Layout, Laid, token_count, TypeOK
  <2>3. d = Len(statements)
    <3> SUFFICES ASSUME d # Len(statements) PROVE FALSE
      OBVIOUS
    <3> DEFINE k == d + 1
    <3>1. k \in 1 .. Len(statements)
      BY <2>2
    <3>2. index = starts[k]
      BY <2>1, <2>2, <3>1 DEF Progress, Place
    <3>3. /\ Written(statements[k])
          /\ starts[k] + Len(statements[k]) = Place(k + 1, starts, Len(token_array))
          /\ Place(k + 1, starts, Len(token_array)) <= Len(token_array)
      BY <3>1 DEF Layout, Laid
    <3>4. Len(statements[k]) \in Nat /\ Len(statements[k]) >= 1
      BY <3>3, WrittenTypes
    <3> HIDE DEF k
    <3>5. index + Len(statements[k]) <= token_count
      BY <3>2, <3>3 DEF token_count
    <3>6. QED
      BY <1>1, <2>2, <3>4, <3>5
  <2>4. QED
    BY <2>1, <2>3
<1>4. Len(statements') = Len(statements) /\ empty_store' = empty_store
  BY <1>1
<1>5. (AllRight => Progress(Len(statements)))'
  BY <1>2, <1>3, <1>4 DEF Progress, AllRight
<1>6. QED
  BY <1>1, <1>5 DEF Linking

LEMMA PatchLinks ==
    ASSUME TypeOK, Layout, FieldsPlaced, Linking, Patch
    PROVE  Linking'
<1> DEFINE h == patched + 1
           n == Len(statements)
           new == Patched(text_sector_byte, empty_holes[h].at, empty_store[empty_holes[h].id])
<1>1. /\ patched < Len(empty_holes) /\ empty_holes[h].id \in Ids
      /\ text_sector_byte' = new /\ patched' = h
      /\ UNCHANGED <<token_array, index, empty_holes, empty_store, main_entry_point,
                     statements, starts, built>>
  BY DEF Patch
<1>2. /\ text_sector_byte \in Seq(Byte) /\ empty_store \in [Ids -> Nat]
      /\ patched \in Nat /\ Len(empty_holes) \in Nat /\ built \in Seq(EntryRecord)
  BY DEF TypeOK, Byte, EntryRecord
<1>3. h \in 1 .. Len(empty_holes) /\ h - 1 = patched /\ n \in Nat
  BY <1>1, <1>2 DEF Layout, Laid
<1> HIDE DEF h, n, new
<1>4. ASSUME AllRight PROVE Progress(n)'
  <2>1. Progress(n)
    BY <1>4 DEF Linking, n
  <2>2. Apart(empty_holes) /\ empty_holes[h].at + 4 <= Len(text_sector_byte)
    BY <1>3, <1>4, HolesApart
  <2>3. \A j \in 1 .. n : Len(DataOf(statements[j])) \in Nat \/ statements[j][1] # ASMDIRIMM
    <3>1. n \in 0 .. Len(statements)
      BY <1>3 DEF n
    <3>2. QED
      BY <1>4, <3>1, AllData
  <2>4. Entries(n, statements, starts, built, text_sector_byte, empty_holes, empty_store, h - 1)
    BY <1>3, <2>1 DEF Progress
  <2>5. Entries(n, statements, starts, built, new, empty_holes, empty_store, h)
    BY <1>1, <1>2, <1>3, <2>2, <2>3, <2>4, EntriesPatched DEF new
  <2>6. Len(new) = Len(text_sector_byte)
    <3>1. empty_holes[h].at \in Nat /\ empty_store[empty_holes[h].id] \in Nat
      BY <1>1, <1>2, <1>3, <2>2 DEF Apart
    <3>2. QED
      BY <1>2, <3>1, PatchedBytes DEF new
  <2>7. \A id \in Ids : StoredAt(empty_store[id], id, n, statements, built, Len(new))
    BY <2>1, <2>6 DEF Progress
  <2>8. index = Place(n + 1, starts, Len(token_array))
    BY <2>1 DEF Progress
  <2>9. n' = n
    BY <1>1 DEF n
  <2>10. QED
    BY <1>1, <2>5, <2>7, <2>8, <2>9 DEF Progress
<1>5. AllRight' <=> AllRight
  BY <1>1 DEF AllRight
<1>6. n' = n /\ main_entry_point' = empty_store'[0]
  BY <1>1 DEF Linking, n
<1>7. AllRight' => Progress(n)'
  BY <1>4, <1>5
<1>8. QED
  BY <1>6, <1>7 DEF Linking, n

LEMMA EndLinks ==
    ASSUME Linking, EndLink
    PROVE  Linking' /\ Listed'
<1>1. /\ patched = Len(empty_holes) /\ listing' = [i \in DOMAIN built |-> Read(i)]
      /\ UNCHANGED <<token_array, index, text_sector_byte, empty_holes, empty_store, patched,
                     main_entry_point, statements, starts, built>>
  BY DEF EndLink
<1>2. /\ AllRight' <=> AllRight
      /\ \A d : Progress(d)' <=> Progress(d)
  BY <1>1, SameProgress
<1>3. [i \in DOMAIN built |-> Read(i)]' = [i \in DOMAIN built |-> Read(i)]
  BY <1>1, SameRead
<1>4. Linking'
  BY <1>1, <1>2 DEF Linking, Progress, AllRight
<1>5. QED
  BY <1>1, <1>3, <1>4 DEF Listed

LEMMA InitCarried == Init => Carried
BY DEF Init, Carried, Unread

LEMMA StillCarried ==
    ASSUME Carried, UNCHANGED vars
    PROVE  Carried'
<1>1. UNCHANGED <<token_array, index, text_sector_byte, empty_holes, empty_store, patched,
                  statements, starts, built, phase, listing, main_entry_point>>
  BY DEF vars
<1>2. /\ AllRight' <=> AllRight
      /\ \A d : Progress(d)' <=> Progress(d)
      /\ Reading => Reading'
      /\ Unread => Unread'
  BY <1>1, SameProgress
<1>3. [i \in DOMAIN built |-> Read(i)]' = [i \in DOMAIN built |-> Read(i)]
  BY <1>1, SameRead
<1>4. Linking => Linking'
  BY <1>1, <1>2 DEF Linking, Progress, AllRight
<1>5. Listed => Listed'
  BY <1>1, <1>3 DEF Listed
<1>6. phase' = phase
  BY <1>1
<1>7. QED
  BY <1>2, <1>4, <1>5, <1>6 DEF Carried

LEMMA BuildReading ==
    ASSUME TypeOK, Layout, FieldsPlaced, Reading,
           StoreMemory \/ StoreImmediate \/ BuildInstruction
    PROVE  Reading'
<1>1. patched = 0 /\ patched' = 0 /\ statements' = statements
  BY DEF Reading, StoreMemory, StoreImmediate, BuildInstruction, Building
<1>2. AllRight' <=> AllRight
  BY <1>1 DEF AllRight
<1>3. ASSUME AllRight PROVE \E d \in 0 .. Len(statements) : Progress(d)'
  <2>1. PICK d \in 0 .. Len(statements) : Progress(d)
    BY <1>3 DEF Reading
  <2>2. d + 1 \in 0 .. Len(statements) /\ Progress(d + 1)'
    BY <1>1, <1>3, <2>1, StoreMemoryProgress, StoreImmediateProgress, BuildInstructionProgress
  <2>3. QED
    BY <2>2
<1>4. QED
  BY <1>1, <1>2, <1>3 DEF Reading

\* No statement is the directive that notes a hole by itself.
LEMMA NoRelative ==
    ASSUME TypeOK, Aligned, Reading, StoreRelative
    PROVE  Reading'
<1>1. Lost
  BY StoreRelativeAligned
<1>2. ~AllRight
  <2>1. PICK k \in 1 .. Len(statements) : WideMove(statements[k])
    BY <1>1 DEF Lost
  <2>2. QED
    BY <2>1, RightNeither DEF AllRight
<1>3. patched' = 0 /\ statements' = statements
  BY DEF Reading, StoreRelative, Building
<1>4. ~AllRight'
  BY <1>2, <1>3 DEF AllRight
<1>5. QED
  BY <1>3, <1>4 DEF Reading

LEMMA NextCarried ==
    ASSUME TypeOK, Aligned, FieldsPlaced, Carried, [Next]_vars
    PROVE  Carried'
<1>0. Layout
  BY DEF Aligned
<1>1. ASSUME NEW group \in Reductions, AppendInstructions(group) PROVE Carried'
  <2>1. phase = "parse" /\ phase' = "parse" /\ UNCHANGED unbuilt
    BY <1>1 DEF AppendInstructions
  <2>2. Unread'
    BY <2>1 DEF Carried, Unread, unbuilt
  <2>3. QED
    BY <2>1, <2>2 DEF Carried
<1>2. ASSUME NEW variable \in Variables, DumpVariable(variable) PROVE Carried'
  <2>1. phase = "dump" /\ phase' = "dump" /\ UNCHANGED unbuilt
    BY <1>2 DEF DumpVariable
  <2>2. Unread'
    BY <2>1 DEF Carried, Unread, unbuilt
  <2>3. QED
    BY <2>1, <2>2 DEF Carried
<1>3. CASE Compile
  <2>1. phase = "parse" /\ phase' = "dump" /\ UNCHANGED unbuilt
    BY <1>3 DEF Compile
  <2>2. Unread'
    BY <2>1 DEF Carried, Unread, unbuilt
  <2>3. QED
    BY <2>1, <2>2 DEF Carried
<1>4. CASE Assemble
  <2>1. /\ phase = "dump" /\ phase' \in {"empty", "build"}
        /\ UNCHANGED <<token_array, statements, starts, unbuilt>>
    BY <1>4 DEF Assemble
  <2>2. Reading
    BY <1>0, <2>1, StartsReading DEF Carried
  <2>3. Reading'
    BY <2>1, <2>2, SameProgress DEF unbuilt
  <2>4. QED
    BY <2>1, <2>3 DEF Carried
<1>5. CASE StoreMemory \/ StoreImmediate \/ BuildInstruction \/ StoreRelative
  <2>1. phase = "build" /\ phase' = "build"
    BY <1>5 DEF StoreMemory, StoreImmediate, BuildInstruction, StoreRelative, Building
  <2>2. Reading
    BY <2>1 DEF Carried
  <2>3. Reading'
    BY <1>0, <1>5, <2>2, BuildReading, NoRelative
  <2>4. QED
    BY <2>1, <2>3 DEF Carried
<1>6. CASE NoBuilder \/ StoreEndlessly \/ StoreElsewhere \/ PatchElsewhere
  <2>1. phase' \in {"no_builder", "text_sector", "empty_store"}
    BY <1>6 DEF NoBuilder, StoreEndlessly, StoreElsewhere, PatchElsewhere
  <2>2. QED
    BY <2>1 DEF Carried
<1>7. CASE EndBuild
  <2>1. phase = "build" /\ phase' = "link"
    BY <1>7 DEF EndBuild
  <2>2. Linking'
    BY <1>0, <1>7, <2>1, EndBuildLinks DEF Carried
  <2>3. QED
    BY <2>1, <2>2 DEF Carried
<1>8. CASE Patch
  <2>1. phase = "link" /\ phase' = "link"
    BY <1>8 DEF Patch
  <2>2. Linking'
    BY <1>0, <1>8, <2>1, PatchLinks DEF Carried
  <2>3. QED
    BY <2>1, <2>2 DEF Carried
<1>9. CASE EndLink
  <2>1. phase = "link" /\ phase' = "done"
    BY <1>9 DEF EndLink
  <2>2. Linking' /\ Listed'
    BY <1>9, <2>1, EndLinks DEF Carried
  <2>3. QED
    BY <2>1, <2>2 DEF Carried
<1>10. CASE UNCHANGED vars
  BY <1>10, StillCarried
<1>11. QED
  BY <1>1, <1>2, <1>3, <1>4, <1>5, <1>6, <1>7, <1>8, <1>9, <1>10 DEF Next, Step, Halted

LEMMA AlwaysCarried == Spec => []Carried
<1>1. TypeOK /\ Aligned /\ FieldsPlaced /\ Carried /\ [Next]_vars => Carried'
  BY NextCarried
<1>2. QED
  BY <1>1, InitCarried, TypeCorrect, AlwaysAligned, AlwaysPlaced, PTL DEF Spec

-----------------------------------------------------------------------------
(***************************************************************************)
(* What the program promises for a right statement, in the terms of the    *)
(* code.                                                                   *)
(***************************************************************************)
\* The number of the entry that follows the last place of an id.
PlaceOf(id) == 1 + Cardinality(Before(id, Len(statements), statements))

LEMMA SameOperands ==
    /\ \A r : Promised!Register(r) = Register(r)
    /\ \A offset : Promised!Memory(offset) = Memory(offset)
    /\ \A offset : Promised!Code(offset) = Code(offset)
    /\ \A bytes : Promised!Immediate(bytes) = Immediate(bytes)
    /\ \A place : Promised!AddressOf(place) = AddressOf(place)
    /\ \A o, size, operands : Promised!Means(o, size, operands) = Means(o, size, operands)
BY DEF Promised!Register, Register, Promised!Memory, Memory, Promised!Code, Code,
   Promised!Immediate, Immediate, Promised!AddressOf, AddressOf, Promised!Means, Means

LEMMA SameCardinality == \A S : Promised!Cardinality(S) = Cardinality(S)
BY DEF Promised!Cardinality, Cardinality

LEMMA SamePlaces ==
    ASSUME Layout
    PROVE  /\ \A id : Promised!Place(id) = PlaceOf(id)
           /\ \A i : Promised!Emitting(i) = Making(i, statements)
<1>1. DOMAIN statements = 1 .. Len(statements)
  BY DEF Layout, Laid
<1>2. \A i : Promised!Emits(statements[i]) <=> MakesSome(statements[i])
  BY DEF Promised!Emits, Promised!Places, MakesSome, Promised!ASMDIRMEM, ASMDIRMEM
<1>3. \A id : Promised!Declared(id) = {i \in 1 .. Len(statements) : statements[i] = <<ASMDIRMEM, id>>}
  BY <1>1 DEF Promised!Declared, Promised!ASMDIRMEM, ASMDIRMEM
<1>4. ASSUME NEW id PROVE Promised!Place(id) = PlaceOf(id)
  <2>1. {i \in DOMAIN statements :
            Promised!Emits(statements[i]) /\ \E j \in Promised!Declared(id) : i < j}
            = Before(id, Len(statements), statements)
    BY <1>1, <1>2, <1>3 DEF Before
  <2>2. QED
    BY <2>1, SameCardinality DEF Promised!Place, PlaceOf
<1>5. ASSUME NEW i PROVE Promised!Emitting(i) = Making(i, statements)
  BY <1>2 DEF Promised!Emitting, Making
<1>6. QED
  BY <1>4, <1>5

LEMMA MeansTwo ==
    ASSUME NEW s, s[1] \in (ADD .. CMP) \union {MOV}
    PROVE  Promised!Meaning(s)
               = Means(s[1], s[2], <<Promised!Operand(s[3], s[4], s[2]),
                                     Promised!Operand(s[5], s[6], Promised!ImmediateSize(s))>>)
<1> DEFINE o == s[1]
<1>1. o \in (4 .. 11) \union {132}
  BY DEF ADD, CMP, MOV
<1> HIDE DEF o
<1>2. o \in Promised!Binary
  BY <1>1 DEF Promised!Binary, Promised!ADD, Promised!CMP, Promised!MOV
<1>3. /\ o \notin Promised!Counted \union Promised!Unary \union Promised!Branches \union Promised!Ports
      /\ o \notin Promised!SETO .. Promised!SETG
      /\ o # Promised!JMP /\ o # Promised!CALL /\ o # Promised!ASMDIRIMM
  BY <1>1 DEF Promised!Counted, Promised!Unary, Promised!Branches, Promised!Ports,
     Promised!ROL, Promised!SAR, Promised!BT, Promised!BTC, Promised!INC, Promised!IDIV,
     Promised!POP, Promised!PUSH, Promised!BSWAP, Promised!JO, Promised!JG, Promised!LOOP,
     Promised!LOOPNE, Promised!IN_, Promised!OUT, Promised!SETO, Promised!SETG, Promised!JMP,
     Promised!CALL, Promised!ASMDIRIMM
<1>4. QED
  BY <1>2, <1>3, SameOperands DEF Promised!Meaning, o

LEMMA MeansOne ==
    ASSUME NEW s, s[1] \in (INC .. IDIV) \union {POP, PUSH}
    PROVE  Promised!Meaning(s) = Means(s[1], s[2], <<Promised!Operand(s[3], s[4], s[2])>>)
<1> DEFINE o == s[1]
<1>1. o \in (12 .. 19) \union {133, 134}
  BY DEF INC, IDIV, POP, PUSH
<1> HIDE DEF o
<1>2. o \in Promised!Unary
  BY <1>1 DEF Promised!Unary, Promised!INC, Promised!IDIV, Promised!POP, Promised!PUSH
<1>3. /\ o \notin Promised!Counted \union Promised!Binary \union Promised!Branches \union Promised!Ports
      /\ o \notin Promised!SETO .. Promised!SETG
      /\ o # Promised!JMP /\ o # Promised!CALL /\ o # Promised!ASMDIRIMM
  BY <1>1 DEF Promised!Counted, Promised!Binary, Promised!Branches, Promised!Ports,
     Promised!ROL, Promised!SAR, Promised!BT, Promised!BTC, Promised!ADD, Promised!CMP,
     Promised!MOV, Promised!CMOVO, Promised!CMOVG, Promised!BSF, Promised!BSR, Promised!JO,
     Promised!JG, Promised!LOOP, Promised!LOOPNE, Promised!IN_, Promised!OUT, Promised!SETO,
     Promised!SETG, Promised!JMP, Promised!CALL, Promised!ASMDIRIMM
<1>4. QED
  BY <1>2, <1>3, SameOperands DEF Promised!Meaning, o

LEMMA MeansJump ==
    ASSUME Layout, NEW s,
           \/ s[1] = JMP /\ s[3] = REL
           \/ s[1] \in JO .. JG
           \/ s[1] = CALL /\ s[2] = REL
    PROVE  Promised!Meaning(s) = Means(s[1], D32, <<Code(PlaceOf(Referred(s)))>>)
<1> DEFINE o == s[1]
<1>1. o \in (135 .. 150) \/ (o = 131 /\ s[3] = 0) \/ (o = 128 /\ s[2] = 0)
  BY DEF JMP, JO, JG, CALL, REL
<1> HIDE DEF o
<1>2. /\ o \notin Promised!Counted \union Promised!Binary \union Promised!Unary \union Promised!Ports
      /\ o \notin Promised!SETO .. Promised!SETG
      /\ o # Promised!ASMDIRIMM
  BY <1>1 DEF Promised!Counted, Promised!Binary, Promised!Unary, Promised!Ports,
     Promised!ROL, Promised!SAR, Promised!BT, Promised!BTC, Promised!ADD, Promised!CMP,
     Promised!MOV, Promised!CMOVO, Promised!CMOVG, Promised!BSF, Promised!BSR, Promised!INC,
     Promised!IDIV, Promised!POP, Promised!PUSH, Promised!BSWAP, Promised!IN_, Promised!OUT,
     Promised!SETO, Promised!SETG, Promised!ASMDIRIMM
<1>3. CASE o \in (135 .. 150) \/ (o = 131 /\ s[3] = 0)
  <2>1. /\ o \in Promised!Branches \/ (o = Promised!JMP /\ s[3] = Promised!REL)
        /\ ~(o = Promised!JMP /\ s[3] = Promised!REG) /\ ~(o = Promised!JMP /\ s[3] = Promised!MEM)
        /\ o # Promised!CALL
    BY <1>3 DEF Promised!Branches, Promised!JO, Promised!JG, Promised!LOOP, Promised!LOOPNE,
       Promised!JMP, Promised!REL, Promised!REG, Promised!MEM, Promised!CALL
  <2>2. Promised!Meaning(s)
            = Promised!Means(s[1], Promised!D32, <<Promised!Code(Promised!Place(s[4]))>>)
    BY <1>2, <2>1 DEF Promised!Meaning, o
  <2>3. Referred(s) = s[4]
    BY <1>3 DEF Referred, o, MOV, CALL
  <2>4. QED
    BY <2>2, <2>3, SameOperands, SamePlaces DEF Promised!D32, D32
<1>4. CASE o = 128 /\ s[2] = 0
  <2>1. /\ o \notin Promised!Branches /\ o # Promised!JMP
        /\ o = Promised!CALL /\ s[2] = Promised!REL /\ s[2] # Promised!REG
    BY <1>4 DEF Promised!Branches, Promised!JO, Promised!JG, Promised!LOOP, Promised!LOOPNE,
       Promised!JMP, Promised!REL, Promised!REG, Promised!CALL
  <2>2. Promised!Meaning(s)
            = Promised!Means(s[1], Promised!D32, <<Promised!Code(Promised!Place(s[3]))>>)
    BY <1>2, <2>1 DEF Promised!Meaning, o
  <2>3. Referred(s) = s[3]
    BY <1>4 DEF Referred, o, MOV, CALL
  <2>4. QED
    BY <2>2, <2>3, SameOperands, SamePlaces DEF Promised!D32, D32
<1>5. QED
  BY <1>1, <1>3, <1>4

LEMMA MeansNone ==
    ASSUME NEW s, s[1] \in OneByteOperations \union TwoByteOperations
    PROVE  Promised!Meaning(s) = Means(s[1], D32, <<>>)
<1> DEFINE o == s[1]
<1>1. o \in 52 .. 116
  BY DEF OneByteOperations, TwoByteOperations, NOP, POPF, PUSHF, LEAVE, RETN, RETF, SYSCALL,
         CPUID, FNOP, FSCALE
<1> HIDE DEF o
<1>2. /\ o \notin Promised!Counted \union Promised!Binary \union Promised!Unary \union Promised!Ports
                    \union Promised!Branches
      /\ o \notin Promised!SETO .. Promised!SETG
      /\ o # Promised!ASMDIRIMM /\ o # Promised!JMP /\ o # Promised!CALL
  BY <1>1 DEF Promised!Counted, Promised!Binary, Promised!Unary, Promised!Ports, Promised!Branches,
     Promised!ROL, Promised!SAR, Promised!BT, Promised!BTC, Promised!ADD, Promised!CMP,
     Promised!MOV, Promised!CMOVO, Promised!CMOVG, Promised!BSF, Promised!BSR, Promised!INC,
     Promised!IDIV, Promised!POP, Promised!PUSH, Promised!BSWAP, Promised!IN_, Promised!OUT,
     Promised!SETO, Promised!SETG, Promised!ASMDIRIMM, Promised!JO, Promised!JG, Promised!LOOP,
     Promised!LOOPNE, Promised!JMP, Promised!CALL
<1>3. Promised!Meaning(s) = Promised!Means(s[1], Promised!D32, <<>>)
  BY <1>2 DEF Promised!Meaning, o
<1>4. QED
  BY <1>3, SameOperands DEF Promised!D32, D32

LEMMA SameBytes ==
    ASSUME NEW size \in {D8, D16, D32}, NEW data \in Int
    PROVE  Promised!Bytes(size, data) = BytesOfSize(size, data)
<1> DEFINE b == LittleEndian(data)
           more == IF data < 0 THEN <<255, 255, 255, 255>> ELSE <<0, 0, 0, 0>>
           w == WidthOf(size)
<1>1. b \in Seq(Byte) /\ Len(b) = 4
  BY LittleEndianBytes
<1>2. more \in Seq(Byte)
  <2>1. <<255, 255, 255, 255>> \in Seq(Byte) /\ <<0, 0, 0, 0>> \in Seq(Byte)
    BY DEF Byte
  <2>2. QED
    BY <2>1
<1>3. w \in 1 .. 4
  BY Width
<1>4. Promised!Bytes(size, data) = SubSeq(b \o more, 1, w)
  <2>1. Promised!LittleEndian(data) = b
    BY DEF Promised!LittleEndian, LittleEndian
  <2>2. size = D8 => Promised!Bytes(size, data) = SubSeq(b \o more, 1, 1) /\ w = 1
    BY <2>1 DEF Promised!Bytes, Promised!D8, Promised!D16, Promised!D32, Promised!D64, D8, WidthOf
  <2>3. size = D16 => Promised!Bytes(size, data) = SubSeq(b \o more, 1, 2) /\ w = 2
    BY <2>1 DEF Promised!Bytes, Promised!D8, Promised!D16, Promised!D32, Promised!D64, D8,
       D16, WidthOf
  <2>4. size = D32 => Promised!Bytes(size, data) = SubSeq(b \o more, 1, 4) /\ w = 4
    BY <2>1 DEF Promised!Bytes, Promised!D8, Promised!D16, Promised!D32, Promised!D64, D8, D16, D32,
                WidthOf
  <2> HIDE DEF b, more, w
  <2>5. QED
    BY <2>2, <2>3, <2>4
<1> HIDE DEF b, more, w
<1>5. SubSeq(b \o more, 1, w) = SubSeq(b, 1, w)
  <2>1. 1 \in 1 .. Len(b) /\ w \in 1 .. Len(b)
    BY <1>1, <1>3
  <2>2. QED
    BY <1>1, <1>2, <2>1, SubSeqOfConcat1
<1>6. QED
  BY <1>4, <1>5 DEF BytesOfSize, b, w

-----------------------------------------------------------------------------
(***************************************************************************)
(* The operands the processor finds, with the places they are of.          *)
(***************************************************************************)
\* The text is within reach, and every place in it.
Reachable ==
    /\ TypeOK
    /\ Len(text_sector_byte) <= 4 * TokenPlaces
    /\ \A k \in 1 .. Len(built) : built[k].at < Len(text_sector_byte)
    /\ Len(built) = Cardinality(Making(Len(statements), statements))
    /\ \A id \in Ids :
          /\ empty_store[id] <= Len(text_sector_byte)
          /\ StoredAt(empty_store[id], id, Len(statements), statements, built,
                      Len(text_sector_byte))

LEMMA ReachableTypes ==
    ASSUME Reachable
    PROVE  /\ text_sector_byte \in Seq(Byte) /\ Len(text_sector_byte) \in Nat
           /\ Len(built) \in Nat /\ DOMAIN built = 1 .. Len(built)
           /\ \A k \in 1 .. Len(built) : built[k].at \in Nat
           /\ \A id \in Ids : empty_store[id] \in Nat
<1>1. built \in Seq(EntryRecord)
  BY DEF Reachable, TypeOK, EntryRecord
<1>2. \A k \in 1 .. Len(built) : built[k] \in EntryRecord
  BY <1>1, ElementOfSeq
<1>3. \A k \in 1 .. Len(built) : built[k].at \in Nat
  BY <1>2 DEF EntryRecord
<1>4. Len(built) \in Nat /\ DOMAIN built = 1 .. Len(built)
  BY <1>1
<1>5. /\ text_sector_byte \in Seq(Byte) /\ Len(text_sector_byte) \in Nat
      /\ \A id \in Ids : empty_store[id] \in Nat
  BY DEF Reachable, TypeOK, Byte
<1>6. QED
  BY <1>3, <1>4, <1>5

LEMMA PlaceAtStore ==
    ASSUME Reachable, Layout, NEW id \in Ids
    PROVE  PlaceAt(empty_store[id]) = PlaceOf(id) /\ PlaceOf(id) \in Nat /\ PlaceOf(id) >= 1
<1> DEFINE place == empty_store[id]
           n == Len(statements)
           c == Cardinality(Before(id, n, statements))
           m == Len(built)
<1>1. n \in Nat /\ m \in Nat /\ DOMAIN built = 1 .. m
  BY ReachableTypes DEF Layout, Laid
<1>2. /\ \A k \in 1 .. m : built[k].at < place <=> k <= c
      /\ place = Len(text_sector_byte) \/ \E k \in 1 .. m : built[k].at = place
  BY DEF Reachable, StoredAt
<1>3. c \in Nat /\ c <= m
  <2>1. m = Cardinality(Making(n, statements))
    BY DEF Reachable
  <2>2. c \in Nat /\ c <= Cardinality(Making(n, statements))
    BY <1>1, BeforeFinite
  <2>3. QED
    BY <2>1, <2>2
<1> HIDE DEF place, n, c, m
<1>4. {i \in DOMAIN built : built[i].at < place} = 1 .. c
  BY <1>1, <1>2, <1>3
<1>5. Cardinality(1 .. c) = c
  <2>1. Cardinality(1 .. c) = IF 1 > c THEN 0 ELSE c - 1 + 1
    BY <1>3, FS_Interval
  <2>2. QED
    BY <1>3, <2>1
<1>6. PlaceAt(place) = 1 + c
  BY <1>1, <1>2, <1>4, <1>5 DEF PlaceAt
<1>7. QED
  BY <1>3, <1>6 DEF PlaceOf, place, n, c

LEMMA PlaceAtNone ==
    ASSUME Reachable, NEW v \in Int, v \notin Addresses
    PROVE  PlaceAt(v - DATA_START) = 0
<1> DEFINE offset == v - DATA_START
           length == Len(text_sector_byte)
<1>1. length \in Nat /\ length <= 4 * TokenPlaces /\ DOMAIN built = 1 .. Len(built)
      /\ \A k \in 1 .. Len(built) : built[k].at \in Nat /\ built[k].at < length
  BY ReachableTypes DEF Reachable
<1>2. offset \in Int /\ ~(0 <= offset /\ offset <= 4 * TokenPlaces)
  BY DEF Addresses, DATA_START, TokenPlaces
<1> HIDE DEF offset, length
<1>3. offset # length
  BY <1>1, <1>2
<1>4. \A k \in 1 .. Len(built) : built[k].at # offset
  BY <1>1, <1>2 DEF TokenPlaces
<1>5. PlaceAt(offset) = 0
  BY <1>1, <1>3, <1>4 DEF PlaceAt, length
<1>6. QED
  BY <1>5 DEF offset

LEMMA LocatedSimply ==
    /\ \A r : Located(Register(r)) = Register(r)
    /\ \A offset : Located(Memory(offset)) = Memory(PlaceAt(offset))
    /\ \A offset : Located(Code(offset)) = Code(PlaceAt(offset))
<1>1. ASSUME NEW r PROVE Located(Register(r)) = Register(r)
  <2>1. Register(r)[1] = "register"
    BY DEF Register
  <2>2. QED
    BY <2>1 DEF Located
<1>2. ASSUME NEW offset PROVE Located(Memory(offset)) = Memory(PlaceAt(offset))
  <2>1. Memory(offset)[1] = "memory" /\ Memory(offset)[2] = offset
    BY DEF Memory
  <2>2. Located(Memory(offset)) = <<"memory", PlaceAt(offset)>>
    BY <2>1 DEF Located
  <2>3. QED
    BY <2>2 DEF Memory
<1>3. ASSUME NEW offset PROVE Located(Code(offset)) = Code(PlaceAt(offset))
  <2>1. Code(offset)[1] = "code" /\ Code(offset)[2] = offset
    BY DEF Code
  <2>2. Located(Code(offset)) = <<"code", PlaceAt(offset)>>
    BY <2>1 DEF Located
  <2>3. QED
    BY <2>2 DEF Code
<1>4. QED
  BY <1>1, <1>2, <1>3

LEMMA LocatedShort ==
    ASSUME NEW bytes, Len(bytes) # 4
    PROVE  Located(Immediate(bytes)) = Immediate(bytes)
<1>1. Immediate(bytes)[1] = "immediate" /\ Immediate(bytes)[2] = bytes
  BY DEF Immediate
<1>2. QED
  BY <1>1 DEF Located

LEMMA LocatedWord ==
    ASSUME NEW v, IsWord(v)
    PROVE  /\ PlaceAt(v - DATA_START) = 0 =>
                  Located(Immediate(LittleEndian(v))) = Immediate(LittleEndian(v))
           /\ PlaceAt(v - DATA_START) # 0 =>
                  Located(Immediate(LittleEndian(v))) = AddressOf(PlaceAt(v - DATA_START))
<1> DEFINE bytes == LittleEndian(v)
<1>1. Signed32(bytes) = v
  <2>1. v \in Int
    BY DEF IsWord
  <2>2. QED
    BY <2>1, ReadBack
<1>2. Len(bytes) = 4
  BY LittleEndianBytes DEF IsWord
<1> HIDE DEF bytes
<1>3. Immediate(bytes)[1] = "immediate" /\ Immediate(bytes)[2] = bytes
  BY DEF Immediate
<1>4. Located(Immediate(bytes)) = IF PlaceAt(v - DATA_START) = 0 THEN Immediate(bytes)
                                  ELSE AddressOf(PlaceAt(v - DATA_START))
  BY <1>1, <1>2, <1>3 DEF Located
<1>5. QED
  BY <1>4 DEF bytes

\* An immediate stays one, unless the processor could take it for an address.
LEMMA LocatedImmediate ==
    ASSUME Reachable, NEW size \in AllSizes, NEW v, IsWord(v), v \notin Addresses
    PROVE  Located(Immediate(BytesOfSize(size, v))) = Immediate(BytesOfSize(size, v))
<1>1. v \in Int
  BY DEF IsWord
<1>2. Len(BytesOfSize(size, v)) = WidthOf(size)
  BY <1>1, SizedBytes
<1>3. CASE WidthOf(size) # 4
  BY <1>2, <1>3, LocatedShort
<1>4. CASE WidthOf(size) = 4
  <2>1. LittleEndian(v) \in Seq(Byte) /\ Len(LittleEndian(v)) = 4
    BY <1>1, LittleEndianBytes
  <2>2. BytesOfSize(size, v) = LittleEndian(v)
    BY <1>4, <2>1, SubSeqFull DEF BytesOfSize
  <2>3. PlaceAt(v - DATA_START) = 0
    BY <1>1, PlaceAtNone
  <2>4. QED
    BY <2>2, <2>3, LocatedWord
<1>5. QED
  BY <1>3, <1>4

\* An address is of the place it was made from.
LEMMA LocatedAddress ==
    ASSUME Reachable, Layout, NEW id \in Ids
    PROVE  Located(Immediate(LittleEndian(DATA_START + empty_store[id]))) = AddressOf(PlaceOf(id))
<1> DEFINE target == empty_store[id]
           v == DATA_START + target
<1>1. target \in Nat /\ target <= 4 * TokenPlaces
  <2>1. target \in Nat /\ target <= Len(text_sector_byte) /\ Len(text_sector_byte) \in Nat
        /\ Len(text_sector_byte) <= 4 * TokenPlaces
    BY ReachableTypes DEF Reachable
  <2> HIDE DEF target
  <2>2. QED
    BY <2>1 DEF TokenPlaces
<1>2. PlaceAt(target) = PlaceOf(id) /\ PlaceOf(id) # 0
  BY PlaceAtStore
<1> HIDE DEF target
<1>3. IsWord(v) /\ v - DATA_START = target
  BY <1>1 DEF IsWord, DATA_START, TokenPlaces
<1> HIDE DEF v
<1>4. Located(Immediate(LittleEndian(v))) = AddressOf(PlaceOf(id))
  BY <1>2, <1>3, LocatedWord
<1>5. QED
  BY <1>4 DEF v, target

-----------------------------------------------------------------------------
(***************************************************************************)
(* What the processor makes of a right statement is what it means.         *)
(***************************************************************************)
LEMMA PromisedOperands ==
    ASSUME Layout
    PROVE  /\ \A r, size : Promised!Operand(REG, r, size) = Register(r)
           /\ \A id, size : Promised!Operand(MEM, id, size) = Memory(PlaceOf(id))
           /\ \A v, size : Promised!Operand(IMM, v, size) = Immediate(Promised!Bytes(size, v))
           /\ \A id, size : Promised!Operand(REL, id, size) = AddressOf(PlaceOf(id))
<1>1. /\ REG = Promised!REG /\ MEM = Promised!MEM /\ IMM = Promised!IMM /\ REL = Promised!REL
      /\ REG # MEM /\ REG # IMM /\ REG # REL /\ MEM # IMM /\ MEM # REL /\ IMM # REL
  BY DEF REG, MEM, IMM, REL, Promised!REG, Promised!MEM, Promised!IMM, Promised!REL
<1>2. \A r, size : Promised!Operand(REG, r, size) = Register(r)
  BY <1>1, SameOperands DEF Promised!Operand
<1>3. \A id, size : Promised!Operand(MEM, id, size) = Memory(PlaceOf(id))
  BY <1>1, SameOperands, SamePlaces DEF Promised!Operand
<1>4. \A v, size : Promised!Operand(IMM, v, size) = Immediate(Promised!Bytes(size, v))
  BY <1>1, SameOperands DEF Promised!Operand
<1>5. \A id, size : Promised!Operand(REL, id, size) = AddressOf(PlaceOf(id))
  BY <1>1, SameOperands, SamePlaces DEF Promised!Operand
<1>6. QED
  BY <1>2, <1>3, <1>4, <1>5

\* A 64 bit operation takes an immediate of 32 bits.
LEMMA PromisedBytes ==
    ASSUME NEW s, s[2] \in AllSizes, s[2] = D64 => s[1] # MOV, NEW v \in Int
    PROVE  Promised!Bytes(Promised!ImmediateSize(s), v) = BytesOfSize(s[2], v)
<1> DEFINE size == s[2]
<1>1. D64 # D32 /\ Promised!D64 = D64 /\ Promised!D32 = D32 /\ Promised!MOV = MOV
  BY DEF D64, D32, Promised!D64, Promised!D32, Promised!MOV, MOV
<1>2. CASE size = D64
  <2>1. Promised!ImmediateSize(s) = D32
    BY <1>1, <1>2 DEF Promised!ImmediateSize
  <2>2. BytesOfSize(D64, v) = BytesOfSize(D32, v)
    <3>1. WidthOf(D64) = WidthOf(D32)
      BY DEF WidthOf, D64, D32, D16, D8
    <3>2. QED
      BY <3>1 DEF BytesOfSize
  <2>3. D32 \in {D8, D16, D32}
    OBVIOUS
  <2>4. QED
    BY <1>2, <2>1, <2>2, <2>3, SameBytes
<1>3. CASE size # D64
  <2>1. Promised!ImmediateSize(s) = size
    BY <1>1, <1>3 DEF Promised!ImmediateSize
  <2>2. size \in {D8, D16, D32}
    BY <1>3 DEF AllSizes
  <2>3. QED
    BY <2>1, <2>2, SameBytes
<1>4. QED
  BY <1>2, <1>3

\* The operands with their places.
AtPlaces(operands) == [i \in DOMAIN operands |-> Located(operands[i])]

LEMMA OperandsAtPlaces ==
    /\ AtPlaces(<<>>) = <<>>
    /\ \A x : AtPlaces(<<x>>) = <<Located(x)>>
    /\ \A x, y : AtPlaces(<<x, y>>) = <<Located(x), Located(y)>>
<1>1. AtPlaces(<<>>) = <<>>
  BY DEF AtPlaces
<1>2. ASSUME NEW x PROVE AtPlaces(<<x>>) = <<Located(x)>>
  BY DEF AtPlaces
<1>3. ASSUME NEW x, NEW y PROVE AtPlaces(<<x, y>>) = <<Located(x), Located(y)>>
  BY DEF AtPlaces
<1>4. QED
  BY <1>1, <1>2, <1>3

Meant(s, target) == Means(s[1], SizeOf(s), AtPlaces(Operands(s, target)))

\* What a statement refers to is where it was placed.
Linked(s, target) == Refers(s) => Referred(s) \in Ids /\ target = empty_store[Referred(s)]

LEMMA MeantTwo ==
    ASSUME Reachable, Layout, NEW s, NEW n \in 1 .. 5, Form(n, s),
           NEW target, Linked(s, target)
    PROVE  Meant(s, target) = Promised!Meaning(s)
<1> DEFINE second == Promised!Operand(s[5], s[6], Promised!ImmediateSize(s))
<1>1. s[1] \in (ADD .. CMP) \union {MOV} /\ s[3] = REG
  BY DEF Form, Counting, Moving, BetweenRegisters, IntoRegister
<1>2. \/ s[5] = REG
      \/ /\ s[5] = IMM /\ IsWord(s[6]) /\ s[6] \notin Addresses /\ s[2] \in AllSizes
         /\ s[1] # MOV \/ s[2] \in {D8, D16, D32}
      \/ s[5] = REL /\ s[1] = MOV
  BY DEF Form, Counting, Moving, BetweenRegisters, IntoRegister, AllSizes, ADD, CMP, MOV
<1>3. Promised!Meaning(s) = Means(s[1], s[2], <<Register(s[4]), second>>)
  <2>1. Promised!Meaning(s) = Means(s[1], s[2], <<Promised!Operand(s[3], s[4], s[2]), second>>)
    BY <1>1, MeansTwo
  <2>2. Promised!Operand(s[3], s[4], s[2]) = Register(s[4])
    BY <1>1, PromisedOperands
  <2> HIDE DEF second
  <2>3. QED
    BY <2>1, <2>2
<1>4. ASSUME NEW x, Operands(s, target) = <<Register(s[4]), x>>, Located(x) = second
      PROVE  Meant(s, target) = Promised!Meaning(s)
  <2>1. AtPlaces(Operands(s, target)) = <<Register(s[4]), second>>
    BY <1>4, OperandsAtPlaces, LocatedSimply
  <2>2. SizeOf(s) = s[2]
    BY <1>1, ShownTwo
  <2> HIDE DEF second
  <2>3. QED
    BY <1>3, <2>1, <2>2 DEF Meant
<1>5. CASE s[5] = REG
  <2>1. Operands(s, target) = <<Register(s[4]), Register(s[6])>>
    BY <1>1, <1>5, ShownTwo
  <2>2. Located(Register(s[6])) = second
    BY <1>5, PromisedOperands, LocatedSimply
  <2>3. QED
    BY <1>4, <2>1, <2>2
<1>6. CASE /\ s[5] = IMM /\ IsWord(s[6]) /\ s[6] \notin Addresses /\ s[2] \in AllSizes
           /\ s[1] # MOV \/ s[2] \in {D8, D16, D32}
  <2> DEFINE bytes == BytesOfSize(s[2], s[6])
  <2>1. Operands(s, target) = <<Register(s[4]), Immediate(bytes)>>
    BY <1>1, <1>6, ShownTwo
  <2>2. Located(Immediate(bytes)) = Immediate(bytes)
    BY <1>6, LocatedImmediate
  <2>3. Promised!Bytes(Promised!ImmediateSize(s), s[6]) = bytes
    <3>1. s[6] \in Int
      BY <1>6 DEF IsWord
    <3>2. s[2] = D64 => s[1] # MOV
      BY <1>6 DEF D8, D16, D32, D64
    <3>3. QED
      BY <1>6, <3>1, <3>2, PromisedBytes
  <2>4. second = Immediate(bytes)
    BY <1>6, <2>3, PromisedOperands
  <2> HIDE DEF second, bytes
  <2>5. QED
    BY <1>4, <2>1, <2>2, <2>4
<1>7. CASE s[5] = REL /\ s[1] = MOV
  <2> DEFINE x == Immediate(LittleEndian(DATA_START + target))
  <2>1. Operands(s, target) = <<Register(s[4]), x>>
    BY <1>1, <1>7, ShownTwo
  <2>2. s[6] \in Ids /\ target = empty_store[s[6]]
    BY <1>7 DEF Linked, Refers, Referred
  <2>3. Located(x) = AddressOf(PlaceOf(s[6]))
    BY <2>2, LocatedAddress
  <2>4. second = AddressOf(PlaceOf(s[6]))
    BY <1>7, PromisedOperands
  <2> HIDE DEF second, x
  <2>5. QED
    BY <1>4, <2>1, <2>3, <2>4
<1>8. QED
  BY <1>2, <1>5, <1>6, <1>7

LEMMA MeantOne ==
    ASSUME Reachable, Layout, NEW s, NEW n \in 6 .. 8, Form(n, s),
           NEW target, Linked(s, target)
    PROVE  Meant(s, target) = Promised!Meaning(s)
<1> DEFINE operand == Promised!Operand(s[3], s[4], s[2])
<1>1. s[1] \in (INC .. IDIV) \union {POP, PUSH}
  BY DEF Form, Altering, Stacking
<1>2. s[3] = REG \/ (s[3] = MEM /\ s[1] \in INC .. IDIV)
  BY DEF Form, Altering
<1>3. Promised!Meaning(s) = Means(s[1], s[2], <<operand>>)
  BY <1>1, MeansOne
<1>4. ASSUME NEW x, Operands(s, target) = <<x>>, Located(x) = operand
      PROVE  Meant(s, target) = Promised!Meaning(s)
  <2>1. AtPlaces(Operands(s, target)) = <<operand>>
    BY <1>4, OperandsAtPlaces
  <2>2. SizeOf(s) = s[2]
    BY <1>1, ShownOne
  <2> HIDE DEF operand
  <2>3. QED
    BY <1>3, <2>1, <2>2 DEF Meant
<1>5. CASE s[3] = REG
  <2>1. Operands(s, target) = <<Register(s[4])>>
    BY <1>1, <1>5, ShownOne
  <2>2. Located(Register(s[4])) = operand
    BY <1>5, PromisedOperands, LocatedSimply
  <2>3. QED
    BY <1>4, <2>1, <2>2
<1>6. CASE s[3] = MEM /\ s[1] \in INC .. IDIV
  <2>1. Operands(s, target) = <<Memory(target)>>
    BY <1>1, <1>6, ShownOne
  <2>2. s[4] \in Ids /\ target = empty_store[s[4]]
    <3>1. s[1] # MOV /\ s[1] # CALL
      BY <1>6 DEF INC, IDIV, MOV, CALL
    <3>2. Refers(s) /\ Referred(s) = s[4]
      BY <1>6, <3>1 DEF Refers, Referred
    <3>3. QED
      BY <3>2 DEF Linked
  <2>3. Located(Memory(target)) = Memory(PlaceOf(s[4]))
    BY <2>2, PlaceAtStore, LocatedSimply
  <2>4. operand = Memory(PlaceOf(s[4]))
    BY <1>6, PromisedOperands
  <2> HIDE DEF operand
  <2>5. QED
    BY <1>4, <2>1, <2>3, <2>4
<1>7. QED
  BY <1>2, <1>5, <1>6

LEMMA MeantJump ==
    ASSUME Reachable, Layout, NEW s, NEW n \in 9 .. 11, Form(n, s),
           NEW target, Linked(s, target)
    PROVE  Meant(s, target) = Promised!Meaning(s)
<1>1. /\ s[1] \in {JMP, CALL} \union (JO .. JG)
      /\ \/ s[1] = JMP /\ s[3] = REL
         \/ s[1] \in JO .. JG
         \/ s[1] = CALL /\ s[2] = REL
  BY DEF Form
<1>2. Promised!Meaning(s) = Means(s[1], D32, <<Code(PlaceOf(Referred(s)))>>)
  BY <1>1, MeansJump
<1>3. SizeOf(s) = D32 /\ Operands(s, target) = <<Code(target)>>
  BY <1>1, ShownJump
<1>4. Referred(s) \in Ids /\ target = empty_store[Referred(s)]
  BY <1>1 DEF Linked, Refers
<1>5. Located(Code(target)) = Code(PlaceOf(Referred(s)))
  BY <1>4, PlaceAtStore, LocatedSimply
<1>6. AtPlaces(Operands(s, target)) = <<Code(PlaceOf(Referred(s)))>>
  BY <1>3, <1>5, OperandsAtPlaces
<1>7. QED
  BY <1>2, <1>3, <1>6 DEF Meant

LEMMA MeantRight ==
    ASSUME Reachable, Layout, NEW s, NEW n \in 1 .. 12, Form(n, s),
           NEW target, Linked(s, target)
    PROVE  Meant(s, target) = Promised!Meaning(s)
<1>1. CASE n = 12
  <2>1. s[1] \in OneByteOperations \union TwoByteOperations
    BY <1>1 DEF Form
  <2>2. Promised!Meaning(s) = Means(s[1], D32, <<>>)
    BY <2>1, MeansNone
  <2>3. SizeOf(s) = D32 /\ Operands(s, target) = <<>>
    BY <2>1, ShownNone
  <2>4. QED
    BY <2>2, <2>3, OperandsAtPlaces DEF Meant
<1>2. CASE n \in 1 .. 5
  BY <1>2, MeantTwo
<1>3. CASE n \in 6 .. 8
  BY <1>3, MeantOne
<1>4. CASE n \in 9 .. 11
  BY <1>4, MeantJump
<1>5. n = 12 \/ n \in 1 .. 5 \/ n \in 6 .. 8 \/ n \in 9 .. 11
  OBVIOUS
<1>6. QED
  BY <1>1, <1>2, <1>3, <1>4, <1>5

LEMMA SameFlat ==
    ASSUME NEW seqs, Len(seqs) \in Nat, Len(seqs) # 0
    PROVE  Promised!FlattenSeq(seqs) = FlattenSeq(seqs)
<1>1. Promised!FlattenSeq(seqs) = FlatOf(Len(seqs), seqs)
  BY DEF Promised!FlattenSeq, FlatOf, IsFlat
<1>2. QED
  BY <1>1, FlattenIs

\* The elements of an array, each as wide as the array says.
LEMMA MeantData ==
    ASSUME NEW s, s[1] = ASMDIRIMM, s[2] \in {D8, D16, D32}, Len(s) = s[3] + 3, s[3] \in Nat, s[3] >= 1,
           \A i \in 1 .. Len(s) : IsWord(s[i])
    PROVE  Promised!Meaning(s) = Means(ASMDIRIMM, s[2], <<Immediate(DataOf(s))>>)
<1> DEFINE promised == [i \in 1 .. s[3] |-> Promised!Bytes(s[2], s[i + 3])]
           own == [i \in 1 .. s[3] |-> BytesOfSize(s[2], s[i + 3])]
           o == s[1]
<1>1. promised = own
  <2>1. ASSUME NEW i \in 1 .. s[3] PROVE Promised!Bytes(s[2], s[i + 3]) = BytesOfSize(s[2], s[i + 3])
    <3>1. i + 3 \in 1 .. Len(s)
      OBVIOUS
    <3>2. s[i + 3] \in Int
      BY <3>1 DEF IsWord
    <3>3. QED
      BY <3>2, SameBytes
  <2>2. QED
    BY <2>1
<1>2. o = 2
  BY DEF ASMDIRIMM
<1> HIDE DEF o, promised, own
<1>3. /\ o \notin Promised!Counted \union Promised!Binary \union Promised!Unary \union Promised!Ports
                    \union Promised!Branches
      /\ o \notin Promised!SETO .. Promised!SETG
      /\ o = Promised!ASMDIRIMM /\ o # Promised!JMP /\ o # Promised!CALL
  BY <1>2 DEF Promised!Counted, Promised!Binary, Promised!Unary, Promised!Ports, Promised!Branches,
     Promised!ROL, Promised!SAR, Promised!BT, Promised!BTC, Promised!ADD, Promised!CMP,
     Promised!MOV, Promised!CMOVO, Promised!CMOVG, Promised!BSF, Promised!BSR, Promised!INC,
     Promised!IDIV, Promised!POP, Promised!PUSH, Promised!BSWAP, Promised!IN_, Promised!OUT,
     Promised!SETO, Promised!SETG, Promised!ASMDIRIMM, Promised!JO, Promised!JG, Promised!LOOP,
     Promised!LOOPNE, Promised!JMP, Promised!CALL
<1>4. Promised!Meaning(s)
          = Promised!Means(s[1], s[2], <<Promised!Immediate(Promised!FlattenSeq(promised))>>)
  BY <1>3 DEF Promised!Meaning, o, promised
<1>5. Promised!FlattenSeq(promised) = FlattenSeq(promised)
  <2>1. Len(promised) = s[3]
    BY DEF promised
  <2>2. QED
    BY <2>1, SameFlat
<1>6. FlattenSeq(promised) = DataOf(s)
  BY <1>1 DEF DataOf, own
<1>7. QED
  BY <1>4, <1>5, <1>6, SameOperands

-----------------------------------------------------------------------------
(***************************************************************************)
(* The listing is the translation that was promised.                       *)
(***************************************************************************)
LEMMA ReadAsData ==
    ASSUME NEW i, NEW begin, built[i].at = begin, NEW end,
           EndOf(i, built, Len(text_sector_byte)) = end,
           Token(built[i].statement) = ASMDIRIMM
    PROVE  Read(i) = Means(ASMDIRIMM, Token(built[i].statement + 1),
                           <<Immediate(SubSeq(text_sector_byte, begin + 1, end))>>)
BY DEF Read, EndOf

LEMMA ReadAsCode ==
    ASSUME NEW i, NEW begin, built[i].at = begin, NEW end,
           EndOf(i, built, Len(text_sector_byte)) = end,
           Token(built[i].statement) # ASMDIRIMM,
           NEW operation, NEW size, NEW operands,
           Decode(text_sector_byte, begin) = instruction(operation, size, operands, end - begin)
    PROVE  Read(i) = Means(operation, size, AtPlaces(operands))
<1> DEFINE code == Decode(text_sector_byte, begin)
<1>1. /\ code.operation = operation /\ code.size = size /\ code.operands = operands
      /\ code.length = end - begin
  BY DEF instruction
<1> HIDE DEF code
<1>2. Read(i) = Means(code.operation, code.size,
                      [k \in DOMAIN code.operands |-> Located(code.operands[k])])
  BY <1>1 DEF Read, EndOf, code
<1>3. QED
  BY <1>1, <1>2 DEF AtPlaces

\* The tokens of a statement are where it begins.
LEMMA TokensOf ==
    ASSUME Layout, NEW j \in 1 .. Len(statements)
    PROVE  /\ Written(statements[j])
           /\ Token(starts[j]) = statements[j][1]
           /\ Len(statements[j]) >= 2 => Token(starts[j] + 1) = statements[j][2]
<1> DEFINE s == statements[j]
           begin == starts[j]
<1>1. /\ Written(s)
      /\ begin + Len(s) = Place(j + 1, starts, Len(token_array))
      /\ Place(j + 1, starts, Len(token_array)) <= Len(token_array)
      /\ \A i \in 1 .. Len(s) : token_array[begin + i] = s[i]
      /\ token_count \in Nat
  <2>1. token_count \in Nat
    BY DEF Layout, Laid, token_count
  <2>2. QED
    BY <2>1 DEF Layout, Laid
<1>2. begin \in Nat
  <2>1. starts \in Seq(Nat) /\ Len(starts) = Len(statements)
    BY DEF Layout, Laid
  <2>2. QED
    BY <2>1, ElementOfSeq
<1>3. Len(s) \in Nat /\ Len(s) >= 1
  BY <1>1, WrittenTypes
<1>4. begin + Len(s) <= token_count
  BY <1>1 DEF token_count
<1> HIDE DEF s, begin
<1>5. Token(begin) = s[1]
  <2>1. begin < token_count /\ 1 \in 1 .. Len(s)
    BY <1>1, <1>2, <1>3, <1>4
  <2>2. QED
    BY <1>1, <2>1 DEF Token
<1>6. ASSUME Len(s) >= 2 PROVE Token(begin + 1) = s[2]
  <2>1. begin + 1 < token_count /\ 2 \in 1 .. Len(s) /\ begin + 1 + 1 = begin + 2
    BY <1>1, <1>2, <1>3, <1>4, <1>6
  <2>2. QED
    BY <1>1, <2>1 DEF Token
<1>7. QED
  BY <1>1, <1>5, <1>6 DEF s, begin

LEMMA SomeWidth == NoField.width = 0 /\ \A id, base : Field(D32, id, base).width = 4
BY DEF NoField, Field, WidthOf, D8, D16, D32

\* What is held somewhere is what is found there.
LEMMA HeldThere ==
    ASSUME NEW text \in Seq(Byte), NEW at \in Nat, NEW bytes \in Seq(Byte), Holds(text, at, bytes)
    PROVE  SubSeq(text, at + 1, at + Len(bytes)) = bytes
<1> DEFINE n == Len(bytes)
           found == SubSeq(text, at + 1, at + n)
<1>1. n \in Nat /\ at + n <= Len(text) /\ \A i \in 1 .. n : text[at + i] = bytes[i]
  BY DEF Holds
<1> HIDE DEF n
<1>2. found \in Seq(Byte) /\ Len(found) = n /\ \A i \in 1 .. n : found[i] = text[at + i]
  BY <1>1
<1> HIDE DEF found
<1>3. Len(found) = Len(bytes) /\ \A i \in 1 .. Len(found) : found[i] = bytes[i]
  BY <1>1, <1>2 DEF n
<1>4. found = bytes
  BY <1>2, <1>3
<1>5. QED
  BY <1>4 DEF found, n

LEMMA ReadsData ==
    ASSUME Reachable, Layout, NEW k, NEW j \in 1 .. Len(statements), Right(statements[j]),
           NEW begin \in Nat, built[k].at = begin, built[k].statement = starts[j],
           NEW end, EndOf(k, built, Len(text_sector_byte)) = end,
           DataIn(begin, end, statements[j], text_sector_byte, empty_holes)
    PROVE  Read(k) = Promised!Meaning(statements[j])
<1> DEFINE s == statements[j]
           data == DataOf(s)
<1>1. s[1] = ASMDIRIMM /\ end = begin + Len(data) /\ Holds(text_sector_byte, begin, data)
  BY DEF DataIn
<1>2. data \in Seq(Byte)
  BY <1>1, SomeData
<1>3. text_sector_byte \in Seq(Byte)
  BY ReachableTypes
<1>4. /\ Written(s) /\ \A i \in 1 .. Len(s) : IsWord(s[i])
      /\ s[2] \in {D8, D16, D32} /\ s[3] \in Nat /\ s[3] >= 1 /\ Len(s) = s[3] + 3
  BY <1>1, RightKinds
<1>5. Token(starts[j]) = ASMDIRIMM /\ Token(starts[j] + 1) = s[2]
  <2>1. Len(s) >= 2
    BY <1>4
  <2>2. QED
    BY <1>1, <2>1, TokensOf
<1> HIDE DEF data, s
<1>6. SubSeq(text_sector_byte, begin + 1, end) = data
  BY <1>1, <1>2, <1>3, HeldThere
<1>7. Read(k) = Means(ASMDIRIMM, s[2], <<Immediate(data)>>)
  <2>1. Token(built[k].statement) = ASMDIRIMM /\ Token(built[k].statement + 1) = s[2]
    BY <1>5
  <2>2. Read(k) = Means(ASMDIRIMM, Token(built[k].statement + 1),
                        <<Immediate(SubSeq(text_sector_byte, begin + 1, end))>>)
    BY <2>1, ReadAsData
  <2>3. QED
    BY <1>6, <2>1, <2>2
<1>8. Promised!Meaning(s) = Means(ASMDIRIMM, s[2], <<Immediate(data)>>)
  BY <1>1, <1>4, MeantData DEF data
<1>9. QED
  BY <1>7, <1>8 DEF s

LEMMA ReadsCode ==
    ASSUME Reachable, Layout, patched = Len(empty_holes),
           NEW k, NEW j \in 1 .. Len(statements), Right(statements[j]),
           NEW begin \in Nat, built[k].at = begin, built[k].statement = starts[j],
           NEW end, EndOf(k, built, Len(text_sector_byte)) = end,
           MakesSome(statements[j]),
           CodeIn(begin, end, statements[j], text_sector_byte, empty_holes, empty_store, patched)
    PROVE  Read(k) = Promised!Meaning(statements[j])
<1> DEFINE s == statements[j]
           text == text_sector_byte
<1>1. s[1] # ASMDIRIMM /\ s[1] # ASMDIRMEM /\ Right(s)
  BY DEF CodeIn, MakesSome
<1>2. PICK n \in 1 .. 12 : Form(n, s)
  <2>1. ~Declaring(s)
    BY <1>1, RightKinds
  <2>2. QED
    BY <1>1, <2>1, RightForms
<1>3. PICK result : CodeOf(result, begin, end, s, text, empty_holes, empty_store, patched)
  BY DEF CodeIn
<1> DEFINE length == Len(result.head)
           at == begin + length
<1>4. /\ Encoded(result, s) /\ length \in Nat
      /\ Holds(text, begin, result.head)
      /\ \/ result.field = NoField /\ end = at
         \/ /\ result.field # NoField /\ end = at + 4
            /\ FieldIn(at, result.field, text, empty_holes, empty_store, patched)
  BY <1>3 DEF CodeOf
<1>5. Len(text) \in Nat /\ Near(Len(text)) /\ \A id \in Ids : empty_store[id] \in Nat
                                                        /\ Near(empty_store[id])
  <2>1. /\ Len(text) \in Nat /\ Len(text) <= 4 * TokenPlaces
        /\ \A id \in Ids : empty_store[id] \in Nat /\ empty_store[id] <= Len(text)
    BY ReachableTypes DEF Reachable
  <2> HIDE DEF text
  <2>2. QED
    BY <2>1 DEF Near, TokenPlaces
<1> HIDE DEF length, text, s
<1>6. ASSUME NEW target \in Nat, Near(target), Emplaced(text, begin, result, target),
             Linked(s, target), length + result.field.width = end - begin
      PROVE  Read(k) = Promised!Meaning(s)
  <2>1. ReadAs(text, begin, result, s[1], SizeOf(s), Operands(s, target))
    BY <1>4, <1>5, <1>6 DEF Encoded, DecodedAs
  <2>2. Decode(text, begin) = instruction(s[1], SizeOf(s), Operands(s, target), end - begin)
    BY <1>6, <2>1 DEF ReadAs, length
  <2>3. Token(starts[j]) # ASMDIRIMM
    BY <1>1, TokensOf DEF s
  <2>4. Read(k) = Meant(s, target)
    BY <2>2, <2>3, ReadAsCode DEF Meant, text
  <2>5. QED
    BY <1>2, <1>6, <2>4, MeantRight
<1>7. CASE result.field = NoField
  <2>1. end = at /\ length + result.field.width = end - begin
    <3>1. result.field.width = 0
      BY <1>7, SomeWidth
    <3>2. QED
      BY <1>4, <1>7, <3>1
  <2>2. ~Refers(s)
    BY <1>4, <1>7, FieldDiffers DEF Encoded, FieldOfStatement
  <2>3. Emplaced(text, begin, result, 0) /\ Linked(s, 0) /\ Near(0)
    BY <1>4, <1>5, <1>7, <2>2 DEF Emplaced, Linked, Near
  <2>4. QED
    BY <1>6, <2>1, <2>3 DEF s
<1>8. CASE result.field # NoField
  <2> DEFINE id == result.field.id
             base == result.field.base
  <2>1. end = at + 4 /\ FieldIn(at, result.field, text, empty_holes, empty_store, patched)
    BY <1>4, <1>8
  <2>2. id = Referred(s) /\ result.field.width = 4
    <3>1. PICK some : result.field = Field(D32, Referred(s), some)
      BY <1>4, <1>8 DEF Encoded, FieldOfStatement
    <3>2. QED
      BY <3>1, FieldDiffers
  <2>3. PICK h \in 1 .. Len(empty_holes) :
            /\ h <= patched => id \in Ids
            /\ Holds(text, at, LittleEndian(Base(base, at)
                                            + (IF h <= patched THEN empty_store[id] ELSE 0)))
    BY <2>1 DEF FieldIn
  <2> HIDE DEF id, base, at
  <2>4. id \in Ids /\ Holds(text, at, LittleEndian(Base(base, at) + empty_store[id]))
    BY <2>3
  <2>5. Emplaced(text, begin, result, empty_store[id])
    BY <1>4, <1>5, <2>4 DEF Emplaced, id, base, at, length
  <2>6. Linked(s, empty_store[id])
    BY <2>2, <2>4 DEF Linked
  <2>7. length + result.field.width = end - begin
    BY <1>4, <2>1, <2>2 DEF at
  <2>8. empty_store[id] \in Nat /\ Near(empty_store[id])
    BY <1>5, <2>4
  <2>9. QED
    BY <1>6, <2>5, <2>6, <2>7, <2>8 DEF s
<1>9. QED
  BY <1>7, <1>8

LEMMA ReadsEntry ==
    ASSUME Reachable, Layout, patched = Len(empty_holes),
           NEW k \in 1 .. Len(built), NEW j \in Making(Len(statements), statements),
           Right(statements[j]),
           EntryOf(k, j, statements, starts, built, text_sector_byte, empty_holes, empty_store,
                   patched)
    PROVE  Read(k) = Promised!Meaning(statements[j])
<1> DEFINE begin == built[k].at
           end == EndOf(k, built, Len(text_sector_byte))
<1>1. begin \in Nat /\ j \in 1 .. Len(statements) /\ MakesSome(statements[j])
  BY ReachableTypes DEF Making
<1>2. /\ built[k].statement = starts[j]
      /\ IsEntry(begin, end, statements[j], text_sector_byte, empty_holes, empty_store, patched)
  BY DEF EntryOf
<1> HIDE DEF end
<1>3. CASE DataIn(begin, end, statements[j], text_sector_byte, empty_holes)
  BY <1>1, <1>2, <1>3, ReadsData DEF end
<1>4. CASE CodeIn(begin, end, statements[j], text_sector_byte, empty_holes, empty_store, patched)
  BY <1>1, <1>2, <1>4, ReadsCode DEF end
<1>5. QED
  BY <1>2, <1>3, <1>4 DEF IsEntry

\* The k-th entry is of the statement that makes it.
LEMMA EmitterIs ==
    ASSUME Layout, NEW j \in Making(Len(statements), statements),
           NEW k, Cardinality(Making(j, statements)) = k
    PROVE  Promised!Emitter(k) = j
<1> DEFINE n == Len(statements)
<1>1. n \in Nat
  BY DEF Layout, Laid
<1>2. Promised!Emitter(k)
          = CHOOSE i \in Making(n, statements) : Cardinality(Making(i, statements)) = k
  BY SamePlaces, SameCardinality DEF Promised!Emitter
<1>3. \A i \in Making(n, statements) : Cardinality(Making(i, statements)) = k => i = j
  BY <1>1, MakingApart
<1>4. QED
  BY <1>2, <1>3

\* Once every field is filled in.
LEMMA ListingIs ==
    ASSUME Reachable, Layout, AllRight, patched = Len(empty_holes), Progress(Len(statements))
    PROVE  [i \in DOMAIN built |-> Read(i)] = Promised!Translation
<1> DEFINE n == Len(statements)
           m == Len(built)
<1>1. m \in Nat /\ DOMAIN built = 1 .. m /\ m = Cardinality(Making(n, statements))
  BY ReachableTypes DEF Reachable
<1>2. Promised!Translation = [k \in 1 .. m |-> Promised!Meaning(statements[Promised!Emitter(k)])]
  BY <1>1, SamePlaces, SameCardinality DEF Promised!Translation
<1>3. ASSUME NEW k \in 1 .. m
      PROVE  Read(k) = Promised!Meaning(statements[Promised!Emitter(k)])
  <2>1. PICK j \in Making(n, statements) :
            EntryOf(k, j, statements, starts, built, text_sector_byte, empty_holes, empty_store,
                    patched)
    BY DEF Progress, Entries
  <2>2. Promised!Emitter(k) = j
    BY <2>1, EmitterIs DEF EntryOf
  <2>3. Right(statements[j])
    BY DEF AllRight, Making
  <2>4. Read(k) = Promised!Meaning(statements[j])
    BY <2>1, <2>3, ReadsEntry
  <2>5. QED
    BY <2>2, <2>4
<1>4. QED
  BY <1>1, <1>2, <1>3

LEMMA EntryIs ==
    ASSUME Reachable, Layout, main_entry_point = empty_store[0]
    PROVE  PlaceAt(main_entry_point) = Promised!Place(0) /\ PlaceAt(main_entry_point) # 0
<1>1. 0 \in Ids
  BY IdsAssumption
<1>2. PlaceAt(main_entry_point) = PlaceOf(0) /\ PlaceOf(0) \in Nat /\ PlaceOf(0) >= 1
  BY <1>1, PlaceAtStore
<1>3. QED
  BY <1>2, SamePlaces

-----------------------------------------------------------------------------
(***************************************************************************)
(* The assembler implements what it promises.                              *)
(***************************************************************************)
LEMMA ReachableAtEnd ==
    ASSUME TypesAndGrowth, Layout, Progress(Len(statements)), token_count <= TokenPlaces
    PROVE  Reachable
<1> DEFINE n == Len(statements)
<1>1. TypeOK /\ \A id \in Ids : empty_store[id] <= Len(text_sector_byte)
  BY DEF TypesAndGrowth, Types
<1>2. index = token_count
  <2>1. n \in Nat /\ Len(starts) = n
    BY DEF Layout, Laid
  <2>2. ~(n + 1 <= Len(starts))
    BY <2>1
  <2>3. index = Place(n + 1, starts, Len(token_array))
    BY DEF Progress
  <2>4. QED
    BY <2>2, <2>3 DEF Place, token_count
<1>3. Len(text_sector_byte) <= 4 * TokenPlaces
  <2>1. Len(text_sector_byte) <= 4 * index /\ index \in Nat /\ Len(text_sector_byte) \in Nat
    BY <1>1 DEF TypesAndGrowth, Grown, GrowthBounded, TypeOK
  <2>2. QED
    BY <1>2, <2>1 DEF TokenPlaces
<1>4. /\ \A k \in 1 .. Len(built) : built[k].at < Len(text_sector_byte)
      /\ Len(built) = Cardinality(Making(n, statements))
  BY DEF Progress, Entries
<1>5. \A id \in Ids : StoredAt(empty_store[id], id, n, statements, built, Len(text_sector_byte))
  BY DEF Progress
<1>6. QED
  BY <1>1, <1>3, <1>4, <1>5 DEF Reachable

LEMMA InitAllRight == Init => AllRight
<1>1. Len(<<>>) = 0 /\ 1 .. 0 = {}
  OBVIOUS
<1>2. QED
  BY <1>1 DEF Init, AllRight

LEMMA PushRight ==
    ASSUME Layout, AllRight, NEW group \in Seq(Seq(Int)), Push(group),
           \A i \in 1 .. Len(group) : Right(group[i])
    PROVE  AllRight'
<1>1. statements \in Seq(Seq(Int)) /\ statements' = statements \o group
  BY DEF Push, Layout, Laid
<1>2. /\ Len(statements') = Len(statements) + Len(group)
      /\ \A k \in 1 .. Len(statements) : statements'[k] = statements[k]
      /\ \A i \in 1 .. Len(group) : statements'[Len(statements) + i] = group[i]
  BY <1>1, Behind
<1>3. Len(statements) \in Nat /\ Len(group) \in Nat
  BY <1>1
<1>4. ASSUME NEW k \in 1 .. Len(statements) + Len(group) PROVE Right(statements'[k])
  <2>1. CASE k <= Len(statements)
    <3>1. k \in 1 .. Len(statements)
      BY <1>3, <2>1
    <3>2. QED
      BY <1>2, <3>1 DEF AllRight
  <2>2. CASE ~(k <= Len(statements))
    <3>1. k - Len(statements) \in 1 .. Len(group) /\ k = Len(statements) + (k - Len(statements))
      BY <1>3, <2>2
    <3>2. QED
      BY <1>2, <3>1
  <2>3. QED
    BY <2>1, <2>2
<1>5. QED
  BY <1>2, <1>4 DEF AllRight

\* What a reduction or a variable appends.
LEMMA GroupsPushed ==
    ASSUME RightGroups
    PROVE  /\ \A group \in Reductions :
                  /\ group \in AppendedGroups /\ group \in Seq(Seq(Int))
                  /\ \A i \in 1 .. Len(group) : Right(group[i])
           /\ \A variable \in Variables :
                  LET group == <<<<ASMDIRMEM, variable.id>>, variable.data>>
                  IN  /\ group \in AppendedGroups /\ group \in Seq(Seq(Int))
                      /\ \A i \in 1 .. Len(group) : Right(group[i])
<1>1. ASSUME NEW group \in AppendedGroups, group \in Seq(Seq(Int))
      PROVE  \A i \in 1 .. Len(group) : Right(group[i])
  BY <1>1 DEF RightGroups
<1>2. ASSUME NEW group \in Reductions
      PROVE  /\ group \in AppendedGroups /\ group \in Seq(Seq(Int))
             /\ \A i \in 1 .. Len(group) : Right(group[i])
  <2>1. group \in AppendedGroups /\ group \in Seq(Seq(Int))
    BY StatementsAssumption DEF AppendedGroups
  <2>2. QED
    BY <1>1, <2>1
<1>3. ASSUME NEW variable \in Variables, NEW group,
             group = <<<<ASMDIRMEM, variable.id>>, variable.data>>
      PROVE  /\ group \in AppendedGroups /\ group \in Seq(Seq(Int))
             /\ \A i \in 1 .. Len(group) : Right(group[i])
  <2>1. group \in AppendedGroups /\ group \in Seq(Seq(Int))
    BY <1>3, VariableStatements DEF AppendedGroups
  <2>2. QED
    BY <1>1, <2>1
<1>4. QED
  BY <1>2, <1>3

Elsewhere ==
    \/ Compile \/ Assemble
    \/ StoreMemory \/ StoreRelative \/ StoreImmediate \/ BuildInstruction \/ NoBuilder
    \/ StoreElsewhere \/ StoreEndlessly \/ EndBuild \/ Patch \/ PatchElsewhere

\* The other steps change neither the program nor its listing, and do not end.
LEMMA NothingElse ==
    ASSUME Elsewhere
    PROVE  UNCHANGED <<statements, listing>> /\ phase # "done" /\ phase' # "done"
BY DEF Elsewhere, Compile, Assemble, StoreMemory, StoreRelative, StoreImmediate,
   BuildInstruction, NoBuilder, StoreElsewhere, StoreEndlessly, EndBuild, Patch, PatchElsewhere,
   Building, unbuilt

LEMMA Steps ==
    [Next]_vars =>
        \/ \E group \in Reductions : AppendInstructions(group)
        \/ \E variable \in Variables : DumpVariable(variable)
        \/ Elsewhere \/ EndLink \/ UNCHANGED vars
BY DEF Next, Step, Halted, Elsewhere

LEMMA StaysRight ==
    ASSUME RightGroups, Layout, AllRight, [Next]_vars
    PROVE  AllRight'
<1>1. ASSUME NEW group \in Reductions, AppendInstructions(group) PROVE AllRight'
  BY <1>1, GroupsPushed, PushRight DEF AppendInstructions
<1>2. ASSUME NEW variable \in Variables, DumpVariable(variable) PROVE AllRight'
  <2> DEFINE group == <<<<ASMDIRMEM, variable.id>>, variable.data>>
  <2>1. Push(group)
    BY <1>2 DEF DumpVariable
  <2>2. group \in Seq(Seq(Int)) /\ \A i \in 1 .. Len(group) : Right(group[i])
    BY GroupsPushed
  <2> HIDE DEF group
  <2>3. QED
    BY <2>1, <2>2, PushRight
<1>3. CASE statements' = statements
  BY <1>3 DEF AllRight
<1>4. CASE Elsewhere
  BY <1>3, <1>4, NothingElse
<1>5. CASE EndLink
  BY <1>3, <1>5 DEF EndLink
<1>6. CASE UNCHANGED vars
  BY <1>3, <1>6 DEF vars
<1>7. QED
  BY <1>1, <1>2, <1>4, <1>5, <1>6, Steps

LEMMA EndsAsPromised ==
    ASSUME TypesAndGrowth, Layout, AllRight, token_count <= TokenPlaces, Carried, EndLink
    PROVE  Promised!Translate
<1>1. /\ phase = "link" /\ phase' = "done" /\ patched = Len(empty_holes)
      /\ listing' = [i \in DOMAIN built |-> Read(i)]
      /\ UNCHANGED <<text_sector_byte, built, main_entry_point, statements>>
  BY DEF EndLink
<1>2. Progress(Len(statements)) /\ main_entry_point = empty_store[0]
  BY <1>1 DEF Carried, Linking
<1>3. Reachable
  BY <1>2, ReachableAtEnd
<1>4. listing' = Promised!Translation
  BY <1>1, <1>2, <1>3, ListingIs
<1>5. Entry = 0 /\ Entry' = PlaceAt(main_entry_point)
  BY <1>1 DEF Entry, PlaceAt
<1>6. Entry' = Promised!Place(0) /\ Entry' # 0
  BY <1>2, <1>3, <1>5, EntryIs
<1>7. QED
  BY <1>1, <1>4, <1>5, <1>6 DEF Promised!Translate

LEMMA StepsAsPromised ==
    ASSUME TypesAndGrowth, Layout, RightGroups, AllRight, token_count <= TokenPlaces, Carried,
           [Next]_vars
    PROVE  Promised!Next \/ UNCHANGED <<statements, listing, Entry>>
<1>1. ASSUME NEW group \in Reductions, AppendInstructions(group) PROVE Promised!Next
  <2>1. /\ phase = "parse" /\ phase' = "parse" /\ listing' = listing
        /\ statements' = statements \o group
    BY <1>1 DEF AppendInstructions, Push, unbuilt
  <2>2. Entry = 0 /\ Entry' = 0
    BY <2>1 DEF Entry
  <2>3. Promised!Write(group)
    BY <2>1, <2>2 DEF Promised!Write
  <2>4. group \in AppendedGroups
    BY GroupsPushed
  <2>5. QED
    BY <2>3, <2>4 DEF Promised!Next
<1>2. ASSUME NEW variable \in Variables, DumpVariable(variable) PROVE Promised!Next
  <2> DEFINE group == <<<<ASMDIRMEM, variable.id>>, variable.data>>
  <2>1. /\ phase = "dump" /\ phase' = "dump" /\ listing' = listing
        /\ statements' = statements \o group
    BY <1>2 DEF DumpVariable, Push, unbuilt
  <2>2. group \in AppendedGroups
    BY GroupsPushed
  <2> HIDE DEF group
  <2>3. Entry = 0 /\ Entry' = 0
    BY <2>1 DEF Entry
  <2>4. Promised!Write(group)
    BY <2>1, <2>3 DEF Promised!Write
  <2>5. QED
    BY <2>2, <2>4 DEF Promised!Next
<1>3. CASE EndLink
  <2>1. Promised!Translate
    BY <1>3, EndsAsPromised
  <2>2. QED
    BY <2>1 DEF Promised!Next
<1>4. CASE Elsewhere
  <2>1. UNCHANGED <<statements, listing>> /\ phase # "done" /\ phase' # "done"
    BY <1>4, NothingElse
  <2>2. Entry = 0 /\ Entry' = 0
    BY <2>1 DEF Entry
  <2>3. QED
    BY <2>1, <2>2
<1>5. CASE UNCHANGED vars
  <2>1. UNCHANGED <<statements, listing, phase, main_entry_point, text_sector_byte, built>>
    BY <1>5 DEF vars
  <2>2. Entry' = Entry
    BY <2>1 DEF Entry, PlaceAt
  <2>3. QED
    BY <2>1, <2>2
<1>6. QED
  BY <1>1, <1>2, <1>3, <1>4, <1>5, Steps

LEMMA StartsAsPromised == Init => Promised!Init
<1>1. Init => Entry = 0
  BY DEF Init, Entry
<1>2. QED
  BY <1>1 DEF Init, Promised!Init

\* A finished program of right statements has become what it says.
THEOREM RightAreTranslated ==
    Spec => [](AllRight /\ token_count <= TokenPlaces => TranslatedAsWritten)
<1>1. TypesAndGrowth /\ Aligned /\ Carried
        => (AllRight /\ token_count <= TokenPlaces => TranslatedAsWritten)
  <2> SUFFICES ASSUME TypesAndGrowth, Aligned, Carried, AllRight, token_count <= TokenPlaces,
                      phase = "done"
               PROVE  listing = Promised!Translation
    BY DEF TranslatedAsWritten
  <2>1. Layout /\ Progress(Len(statements)) /\ Listed
    BY DEF Aligned, Carried, Linking
  <2>2. Reachable
    BY <2>1, ReachableAtEnd
  <2>3. [i \in DOMAIN built |-> Read(i)] = Promised!Translation
    BY <2>1, <2>2, ListingIs DEF Listed
  <2>4. QED
    BY <2>1, <2>3 DEF Listed
<1>2. QED
  BY <1>1, AlwaysGrown, AlwaysAligned, AlwaysCarried, PTL

\* The assembler implements what it promises, for programs of right statements.
THEOREM CodeIsAsWritten ==
    ASSUME RightGroups
    PROVE  Spec /\ [](token_count <= TokenPlaces) => ExecutesAsWritten
<1> DEFINE Fits == token_count <= TokenPlaces
<1>1. Layout /\ AllRight /\ [Next]_vars => AllRight'
  BY StaysRight
<1>2. Aligned => Layout
  BY DEF Aligned
<1>3. Init => AllRight
  BY InitAllRight
<1>4. TypesAndGrowth /\ Layout /\ AllRight /\ Fits /\ Carried /\ [Next]_vars
        => [Promised!Next]_(Promised!vars)
  BY StepsAsPromised DEF Promised!vars
<1> HIDE DEF Fits
<1>5. Spec /\ []Fits => Promised!Spec
  BY <1>1, <1>2, <1>3, <1>4, StartsAsPromised, AlwaysGrown, AlwaysAligned, AlwaysCarried, PTL
  DEF Spec, Promised!Spec
<1>6. QED
  BY <1>5 DEF ExecutesAsWritten, Fits
=============================================================================
