---------------------------- MODULE DriverProofs ----------------------------
(***************************************************************************)
(* What TLAPS proves of Driver: the output of the program against what it  *)
(* returns, the reasons it crashes for, and the warnings of values, for    *)
(* every input and whichever calls of the system fail.                     *)
(***************************************************************************)
EXTENDS Driver, MemoryProofs, SequenceProofs

-----------------------------------------------------------------------------
(***************************************************************************)
(* The image: an executable is loaded as its code expects for all sizes,   *)
(* not only those of an instance.                                          *)
(***************************************************************************)
\* A number is less than a page above the beginning of its page.
LEMMA PageDownNear ==
    ASSUME NEW n \in Int
    PROVE  PageDown(n) \in Int /\ PageDown(n) <= n /\ n < PageDown(n) + PAGE
<1>1. PAGE \in Int /\ PAGE > 0
  BY ElfAssumption
<1>2. n % PAGE \in Int /\ 0 <= n % PAGE /\ n % PAGE < PAGE
  BY <1>1
<1> QED
  BY <1>1, <1>2 DEF PageDown

\* The beginning of a page is a multiple of the size of pages.
LEMMA PageDownMultiple ==
    ASSUME NEW n \in Int
    PROVE  \E q \in Int : PageDown(n) = PAGE * q
<1>1. PAGE \in Int /\ PAGE > 0
  BY ElfAssumption
<1>2. n % PAGE \in Int /\ n \div PAGE \in Int
  BY <1>1
<1>3. n = PAGE * (n \div PAGE) + (n % PAGE)
  BY <1>1
<1>4. PageDown(n) = PAGE * (n \div PAGE)
  BY <1>1, <1>2, <1>3 DEF PageDown
<1> QED
  BY <1>2, <1>4

\* The pages of numbers are in the order of the numbers.
LEMMA PageDownMonotonic ==
    ASSUME NEW m \in Int, NEW n \in Int, m <= n
    PROVE  PageDown(m) <= PageDown(n)
<1>1. PICK p \in Int : PageDown(m) = PAGE * p
  BY PageDownMultiple
<1>2. PICK q \in Int : PageDown(n) = PAGE * q
  BY PageDownMultiple
<1>3. PAGE * p < PAGE * q + PAGE
  BY <1>1, <1>2, PageDownNear, ElfAssumption
<1>4. PAGE * p < PAGE * (q + 1)
  BY <1>3, ElfAssumption
<1>5. p <= q
  BY <1>4, ElfAssumption
<1> QED
  BY <1>1, <1>2, <1>5, ElfAssumption

\* The pages that hold what ends at n go to n at least, and less than a page further.
LEMMA PageUpNear ==
    ASSUME NEW n \in Int
    PROVE  PageUp(n) \in Int /\ n <= PageUp(n) /\ PageUp(n) < n + PAGE
<1>1. PAGE \in Int /\ n + PAGE - 1 \in Int
  BY ElfAssumption
<1> QED
  BY <1>1, PageDownNear DEF PageUp

\* What begins a page behind the end of something shares no page with it.
LEMMA PagesApart ==
    ASSUME NEW m \in Int
    PROVE  PageUp(m) <= PageDown(m + PAGE)
<1>1. PAGE \in Int /\ m + PAGE - 1 \in Int /\ m + PAGE \in Int /\ m + PAGE - 1 <= m + PAGE
  BY ElfAssumption
<1> QED
  BY <1>1, PageDownMonotonic DEF PageUp

-----------------------------------------------------------------------------
(***************************************************************************)
(* An executable whose variables are reserved at least the bytes that are  *)
(* emitted for them, as variable_size_sum does, is loaded as its code      *)
(* expects exactly if there is no code, or the pages of the text segment   *)
(* still hold all of it (elf_main_header, elf_text_sector and              *)
(* elf_data_sector, for all sizes).                                        *)
(***************************************************************************)
THEOREM LoadsIfPagesSuffice ==
    ASSUME NEW code \in Nat, NEW emitted \in Nat, NEW reserved \in Nat, NEW entry,
           emitted <= reserved, reserved <= ELF_HEADER_SIZE + code + emitted
    PROVE  LET core == Core(code + emitted, reserved)
           IN  LoadsAsAddressed(code, emitted, reserved, entry) <=>
                 \/ code = 0
                 \/ core > 0 /\ BASE + ELF_HEADER_SIZE + code <= PageUp(BASE + core)
<1> DEFINE H == ELF_HEADER_SIZE
           core == Core(code + emitted, reserved)
           text == TextSegment(code + emitted, reserved)
           data == DataSegment(code + emitted, reserved)
           size == H + (code + emitted)
<1>1. H \in Nat /\ PAGE \in Nat \ {0} /\ BASE \in Nat
  BY ElfAssumption
<1>2. core \in Nat /\ core = H + code + emitted - reserved
  BY <1>1 DEF Core
<1> HIDE DEF core
<1>3. /\ text.offset = 0 /\ text.address = BASE /\ text.size = core
      /\ data.offset = core /\ data.address = BASE + PAGE + core /\ data.size = reserved
  BY DEF TextSegment, DataSegment, Segment, core
<1>4. Loadable(text, size) /\ Loadable(data, size)
  BY <1>1, <1>2, <1>3 DEF Loadable
<1>5. ~Overlap(text, data)
  <2>1. BASE + core \in Int /\ PageUp(BASE + core) <= PageDown(BASE + core + PAGE)
    BY <1>1, <1>2, PagesApart
  <2>2. BASE + PAGE + core = BASE + core + PAGE /\ BASE + PAGE + core \in Int
    BY <1>1, <1>2
  <2>3. PageUp(BASE + core) \in Int /\ PageDown(BASE + PAGE + core) \in Int
    BY <2>1, <2>2, PageUpNear, PageDownNear
  <2> QED
    BY <1>3, <2>1, <2>2, <2>3 DEF Overlap
<1>6. \A o \in code .. code + emitted - 1 :
         /\ Maps(data, VariableAddress(o))
         /\ FileOffset(data, VariableAddress(o)) = H + o
  <2> SUFFICES ASSUME NEW o \in code .. code + emitted - 1
               PROVE  /\ Maps(data, VariableAddress(o))
                      /\ FileOffset(data, VariableAddress(o)) = H + o
    OBVIOUS
  <2>1. o \in Nat /\ VariableAddress(o) = BASE + PAGE + H + o
    BY <1>1 DEF VariableAddress
  <2>2. BASE + PAGE + core \in Int /\ BASE + PAGE + core + reserved \in Int
    BY <1>1, <1>2
  <2>3. PageDown(data.address) <= data.address /\ PageDown(data.address) \in Int
    BY <1>3, <2>2, PageDownNear
  <2>4. /\ data.address + data.size <= PageUp(data.address + data.size)
        /\ PageUp(data.address + data.size) \in Int
    BY <1>3, <2>2, PageUpNear
  <2> QED
    BY <1>1, <1>2, <1>3, <2>1, <2>3, <2>4 DEF Maps, FileOffset
<1>7. \A o \in 0 .. code - 1 : FileOffset(text, CodeAddress(o)) = H + o
  BY <1>1, <1>3 DEF FileOffset, CodeAddress
<1>8. (\A o \in 0 .. code - 1 : Maps(text, CodeAddress(o))) <=>
         code = 0 \/ (core > 0 /\ BASE + H + code <= PageUp(BASE + core))
  <2>1. PageDown(BASE) \in Int /\ PageDown(BASE) <= BASE /\ PageUp(BASE + core) \in Int
    BY <1>1, <1>2, PageDownNear, PageUpNear
  <2>2. ASSUME NEW o \in 0 .. code - 1
        PROVE  Maps(text, CodeAddress(o)) <=>
                 core > 0 /\ BASE + H + o < PageUp(BASE + core)
    BY <1>1, <1>2, <1>3, <2>1 DEF Maps, CodeAddress
  <2>3. ASSUME code # 0, \A o \in 0 .. code - 1 : Maps(text, CodeAddress(o))
        PROVE  core > 0 /\ BASE + H + code <= PageUp(BASE + core)
    <3>1. code - 1 \in 0 .. code - 1
      BY <2>3
    <3>2. core > 0 /\ BASE + H + (code - 1) < PageUp(BASE + core)
      BY <2>2, <2>3, <3>1
    <3> QED
      BY <1>1, <2>1, <3>2
  <2>4. ASSUME core > 0, BASE + H + code <= PageUp(BASE + core), NEW o \in 0 .. code - 1
        PROVE  Maps(text, CodeAddress(o))
    BY <1>1, <2>1, <2>2, <2>4
  <2>5. ASSUME code = 0 PROVE \A o \in 0 .. code - 1 : Maps(text, CodeAddress(o))
    BY <2>5
  <2> QED
    BY <2>3, <2>4, <2>5
<1>9. EntryAddress(entry) = CodeAddress(entry)
  BY DEF EntryAddress, CodeAddress
<1> QED
  BY <1>4, <1>5, <1>6, <1>7, <1>8, <1>9 DEF LoadsAsAddressed, core

(***************************************************************************)
(* An executable whose variables are reserved what is emitted for them,    *)
(* none of them being of 64 bits, is loaded as its code expects, whatever  *)
(* its size.                                                               *)
(***************************************************************************)
THEOREM LoadsForAllSizes ==
    ASSUME NEW code \in Nat, NEW emitted \in Nat, NEW entry
    PROVE  LoadsAsAddressed(code, emitted, emitted, entry)
<1>1. ELF_HEADER_SIZE \in Nat /\ BASE \in Nat
  BY ElfAssumption
<1>2. Core(code + emitted, emitted) = ELF_HEADER_SIZE + code
  BY <1>1 DEF Core
<1>3. BASE + (ELF_HEADER_SIZE + code) <= PageUp(BASE + (ELF_HEADER_SIZE + code))
  BY <1>1, PageUpNear
<1>4. emitted <= emitted /\ emitted <= ELF_HEADER_SIZE + code + emitted
  BY <1>1
<1>5. code = 0 \/ Core(code + emitted, emitted) > 0
  BY <1>1, <1>2
<1> QED
  BY <1>1, <1>2, <1>3, <1>4, <1>5, LoadsIfPagesSuffice

-----------------------------------------------------------------------------
(***************************************************************************)
(* Values.                                                                 *)
(***************************************************************************)
\* The parts of a variable.
LEMMA DescribedParts ==
    ASSUME NEW v, Described(v)
    PROVE  /\ v.type \in Types /\ v.elements \in Int
           /\ v.given \in {"nothing", "number", "literal"} /\ v.length \in Nat
           /\ v.number.negative \in BOOLEAN /\ v.number.bits \in Nat
           /\ v.given # "number" => v.number.bits = 0 /\ v.number.negative = FALSE
           /\ Emitted(v) \in Int /\ Reserved(v) \in Int
           /\ v.elements \in Nat => Emitted(v) \in Nat /\ Reserved(v) \in Nat
<1>1. /\ v.type \in Types /\ v.elements \in Int
      /\ v.given \in {"nothing", "number", "literal"} /\ v.length \in Nat
      /\ v.number.negative \in BOOLEAN /\ v.number.bits \in Nat
  BY DEF Described
<1>2. v.given # "number" => v.number.bits = 0 /\ v.number.negative = FALSE
  BY DEF Described, None, Number
<1>3. SizeInBytes(v.type) \in Nat /\ EmittedBytesOf(v.type) \in Nat
  BY <1>1 DEF Types, Signed, Unsigned, SizeInBytes, EmittedBytesOf
<1>4. /\ Emitted(v) \in Int /\ Reserved(v) \in Int
      /\ v.elements \in Nat => Emitted(v) \in Nat /\ Reserved(v) \in Nat
  BY <1>1, <1>3 DEF Emitted, Reserved
<1> QED
  BY <1>1, <1>2, <1>4

\* What is stored for the value of one element.
LEMMA StoredBits ==
    ASSUME NEW v, Described(v)
    PROVE  /\ v.given = "number" =>
                 /\ StoredNumber(v).bits = (IF v.number.bits > 63 THEN 63 ELSE v.number.bits)
                 /\ StoredNumber(v).negative = v.number.negative
           /\ v.given = "literal" => StoredNumber(v).bits = 47 /\ StoredNumber(v).negative = FALSE
           /\ v.given = "nothing" => StoredNumber(v).bits = 0 /\ StoredNumber(v).negative = FALSE
<1>1. v.number \in [negative : BOOLEAN, bits : Nat]
  BY DEF Described
<1>2. /\ Clamped(v.number).bits = (IF v.number.bits > 63 THEN 63 ELSE v.number.bits)
      /\ Clamped(v.number).negative = v.number.negative
  BY <1>1 DEF Clamped
<1> QED
  BY <1>2 DEF StoredNumber, POINTER, None, Number

\* Each of the types.
LEMMA WarningsOfOne ==
    ASSUME NEW v, Described(v), v.elements = 1, NEW followed \in BOOLEAN
    PROVE  /\ Lost(v, followed) /\ ~Warned(v) <=> LostSilently(v, followed)
           /\ Warned(v) /\ ~Lost(v, followed) <=> WarnedOfWrongly(v)
<1> DEFINE neg == v.number.negative
           bits == v.number.bits
           stored == StoredNumber(v).bits
           below == StoredNumber(v).negative
<1>1. /\ v.type \in Types /\ v.given \in {"nothing", "number", "literal"} /\ v.length \in Nat
      /\ neg \in BOOLEAN /\ bits \in Nat
      /\ v.given # "number" => bits = 0 /\ neg = FALSE
  BY DescribedParts
<1>2. /\ v.given = "number" => stored = (IF bits > 63 THEN 63 ELSE bits) /\ below = neg
      /\ v.given = "literal" => stored = 47 /\ below = FALSE
      /\ v.given = "nothing" => stored = 0 /\ below = FALSE
  BY StoredBits
<1>3. Warned(v) <=> (v.given = "literal" /\ 1 < v.length)
                    \/ ~(IF below THEN v.type \in Signed /\ stored <= Least(v.type)
                         ELSE stored <= Most(v.type))
  BY DEF Warned, can_fit
<1>4. Lost(v, followed) <=>
         \/ v.given = "literal"
         \/ ~(bits <= 8 * SizeInBytes(v.type) - (IF v.type \in Signed THEN 1 ELSE 0)
              /\ (neg => v.type \in Signed))
         \/ v.type \in {"U64", "S64"} /\ (followed \/ neg \/ bits > 32)
  BY DEF Lost, InRange, Wide
<1> HIDE DEF neg, bits, stored, below
<1>5. CASE v.type = "U8"
  BY <1>1, <1>2, <1>3, <1>4, <1>5
     DEF Least, Most, SizeInBytes, Signed, LostSilently, WarnedOfWrongly, neg, bits
<1>6. CASE v.type = "S8"
  BY <1>1, <1>2, <1>3, <1>4, <1>6
     DEF Least, Most, SizeInBytes, Signed, LostSilently, WarnedOfWrongly, neg, bits
<1>7. CASE v.type = "U16"
  BY <1>1, <1>2, <1>3, <1>4, <1>7
     DEF Least, Most, SizeInBytes, Signed, LostSilently, WarnedOfWrongly, neg, bits
<1>8. CASE v.type = "S16"
  BY <1>1, <1>2, <1>3, <1>4, <1>8
     DEF Least, Most, SizeInBytes, Signed, LostSilently, WarnedOfWrongly, neg, bits
<1>9. CASE v.type = "U32"
  BY <1>1, <1>2, <1>3, <1>4, <1>9
     DEF Least, Most, SizeInBytes, Signed, LostSilently, WarnedOfWrongly, neg, bits
<1>10. CASE v.type = "S32"
  BY <1>1, <1>2, <1>3, <1>4, <1>10
     DEF Least, Most, SizeInBytes, Signed, LostSilently, WarnedOfWrongly, neg, bits
<1>11. CASE v.type = "U64"
  BY <1>1, <1>2, <1>3, <1>4, <1>11
     DEF Least, Most, SizeInBytes, Signed, LostSilently, WarnedOfWrongly, neg, bits
<1>12. CASE v.type = "S64"
  BY <1>1, <1>2, <1>3, <1>4, <1>12
     DEF Least, Most, SizeInBytes, Signed, LostSilently, WarnedOfWrongly, neg, bits
<1> QED
  BY <1>1, <1>5, <1>6, <1>7, <1>8, <1>9, <1>10, <1>11, <1>12 DEF Types, Unsigned, Signed

-----------------------------------------------------------------------------
(***************************************************************************)
(* What is declared, and the memory of the back end.                       *)
(***************************************************************************)
DeclaredInv ==
    /\ declared \in Seq(Declarable) /\ Len(declared) <= MaxVariables
    /\ dumped \subseteq DOMAIN declared
    /\ ~has_encountered_error => \A i \in DOMAIN declared : declared[i].elements \in Nat

\* A declared variable is one statement, if it has elements.
LEMMA StatementOfVariable ==
    ASSUME DeclaredInv, NEW i \in DOMAIN declared, declared[i].elements \in Nat
    PROVE  Wellformed(StatementOf(i))
<1> DEFINE v == declared[i]
<1>1. declared \in Seq(Declarable) /\ i \in 1 .. Len(declared) /\ Len(declared) <= MaxVariables
      /\ Len(declared) \in Nat
  BY DEF DeclaredInv
<1>2. v \in Declarable
  BY <1>1, ElementOfSeq
<1>3. Emitted(v) \in Nat /\ v.elements \in Nat
  BY <1>2, DeclarableAssumption, DescribedParts
<1>4. i \in 0 .. HolePlaces - 1
  BY <1>1, Sizes, IdentifiersAssumption
<1>5. NoField \in [id : 0 .. HolePlaces - 1, at : Nat]
  BY Sizes DEF NoField
<1>6. 5 + v.elements \in Nat \ {0}
  BY <1>3
<1> HIDE DEF v
<1>7. StatementOf(i) = [tokens |-> 5 + v.elements, bytes |-> Emitted(v), place |-> i,
                        field |-> NoField, builder |-> FALSE]
  BY DEF StatementOf, v
<1> QED
  BY <1>3, <1>4, <1>5, <1>6, <1>7 DEF Wellformed, StatementType

LEMMA DeclaredInit == Init => DeclaredInv
<1> SUFFICES ASSUME Init PROVE DeclaredInv
  OBVIOUS
<1>1. declared = <<>> /\ dumped = {} /\ Len(declared) = 0 /\ DOMAIN declared = {}
  BY DEF Init
<1> QED
  BY <1>1, IdentifiersAssumption DEF DeclaredInv

LEMMA DeclaredKeeps == DeclaredInv /\ [Next]_vars => DeclaredInv'
<1> SUFFICES ASSUME DeclaredInv, [Next]_vars PROVE DeclaredInv'
  OBVIOUS
<1>1. ASSUME NEW v \in Declarable, ParseVariable(v) PROVE DeclaredInv'
  <2>1. /\ declared' = Append(declared, v) /\ Len(declared) < MaxVariables /\ dumped' = dumped
        /\ has_encountered_error' = (has_encountered_error \/ v.elements < 1)
    BY <1>1 DEF ParseVariable
  <2>2. /\ declared' \in Seq(Declarable) /\ Len(declared') = Len(declared) + 1
        /\ \A i \in 1 .. Len(declared) : declared'[i] = declared[i]
        /\ declared'[Len(declared) + 1] = v
        /\ DOMAIN declared = 1 .. Len(declared) /\ DOMAIN declared' = 1 .. Len(declared) + 1
        /\ Len(declared) \in Nat
    BY <2>1, AppendProperties, LenProperties DEF DeclaredInv
  <2>3. Len(declared') <= MaxVariables /\ dumped' \subseteq DOMAIN declared'
    BY <2>1, <2>2, IdentifiersAssumption DEF DeclaredInv
  <2>4. v.elements \in Int
    BY DeclarableAssumption, DescribedParts
  <2>5. ASSUME ~has_encountered_error', NEW i \in DOMAIN declared'
        PROVE  declared'[i].elements \in Nat
    <3>1. ~has_encountered_error /\ ~(v.elements < 1)
      BY <2>1, <2>5
    <3>2. CASE i \in 1 .. Len(declared)
      BY <2>2, <3>1, <3>2 DEF DeclaredInv
    <3>3. CASE i = Len(declared) + 1
      BY <2>2, <2>4, <3>1, <3>3
    <3> QED
      BY <2>2, <3>2, <3>3
  <2> QED
    BY <2>2, <2>3, <2>5 DEF DeclaredInv
<1>2. ASSUME UNCHANGED declared, dumped' \subseteq DOMAIN declared,
             has_encountered_error => has_encountered_error'
      PROVE  DeclaredInv'
  BY <1>2 DEF DeclaredInv
<1>3. CASE AssembleNothing
  BY <1>2, <1>3 DEF AssembleNothing, InternalError, DeclaredInv
<1>4. ASSUME NEW i, DumpVariable(i) PROVE DeclaredInv'
  BY <1>2, <1>4 DEF DumpVariable, parsed, DeclaredInv
<1>5. CASE UNCHANGED vars
  BY <1>2, <1>5 DEF vars, vars_of_driver, DeclaredInv
<1>6. CASE Usage \/ OpenInput \/ ParseShell \/ ParseError \/ ParserCrashes \/ EndParse
  BY <1>2, <1>6 DEF Usage, OpenInput, ParseShell, ParseError, ParserCrashes, EndParse,
                    parsed, DeclaredInv
<1>7. ASSUME NEW s, ParseStatement(s) PROVE DeclaredInv'
  BY <1>2, <1>7 DEF ParseStatement, vars_of_driver, DeclaredInv
<1>8. CASE AllocateText \/ RunAssembler
  BY <1>2, <1>8 DEF AllocateText, RunAssembler, parsed, vars_of_driver, DeclaredInv
<1>9. CASE OpenOutput \/ WritePart \/ WriteFails \/ CloseOutput \/ MakeExecutable \/ Exit
  BY <1>2, <1>9 DEF OpenOutput, WritePart, WriteFails, CloseOutput, MakeExecutable, Exit,
                    unwritten, parsed, DeclaredInv
<1> QED
  BY <1>1, <1>3, <1>4, <1>5, <1>6, <1>7, <1>8, <1>9 DEF Next, Parsing, Working, Halted

\* Values that are lost are warned of, but for the exceptions Values lists, for every number
\* a declaration can give and every order of the dump (can_fit).
THEOREM WarningsAreKnown == Spec => []WarningsKnown
<1>1. DeclaredInv => WarningsKnown
  <2> SUFFICES ASSUME DeclaredInv, NEW i \in DOMAIN declared, declared[i].elements = 1
               PROVE  LET v == declared[i]
                          followed == Followed(i)
                      IN  /\ Lost(v, followed) /\ ~Warned(v) <=> LostSilently(v, followed)
                          /\ Warned(v) /\ ~Lost(v, followed) <=> WarnedOfWrongly(v)
    BY DEF WarningsKnown
  <2>1. declared[i] \in Declarable
    BY ElementOfSeq DEF DeclaredInv
  <2>2. Described(declared[i])
    BY <2>1, DeclarableAssumption
  <2>3. Followed(i) \in BOOLEAN
    BY DEF Followed
  <2> QED
    BY <2>2, <2>3, WarningsOfOne
<1> QED
  BY <1>1, DeclaredInit, DeclaredKeeps, PTL DEF Spec

-----------------------------------------------------------------------------
(***************************************************************************)
(* The memory, under the steps of the program.                             *)
(***************************************************************************)
LEMMA MemoryUnderDriver ==
    MemoryInv /\ DeclaredInv /\ (stage = "compile" => ~has_encountered_error) /\ [Next]_vars
        => MemoryInv'
<1> SUFFICES ASSUME MemoryInv, DeclaredInv, stage = "compile" => ~has_encountered_error,
                    [Next]_vars
             PROVE  MemoryInv'
  OBVIOUS
<1>1. ASSUME UNCHANGED vars_of_memory PROVE MemoryInv'
  BY <1>1, StutterKeeps
<1>2. ASSUME MemoryNext PROVE MemoryInv'
  BY <1>2, MemoryInductive
<1>3. ASSUME NEW i \in DOMAIN declared, DumpVariable(i) PROVE MemoryInv'
  <2>1. CASE UNCHANGED vars_of_memory
    BY <1>1, <2>1
  <2>2. CASE AppendInstructions(StatementOf(i))
    <3>1. declared[i].elements \in Nat
      BY <1>3 DEF DumpVariable, DeclaredInv
    <3> QED
      BY <2>2, <3>1, StatementOfVariable, AppendKeeps
  <2> QED
    BY <1>3, <2>1, <2>2 DEF DumpVariable
<1>4. CASE OpenInput \/ EndParse \/ AllocateText \/ RunAssembler
  <2>1. MemoryNext \/ UNCHANGED vars_of_memory
    BY <1>4 DEF OpenInput, EndParse, AllocateText, RunAssembler, MemoryNext
  <2> QED
    BY <1>1, <1>2, <2>1
<1>5. ASSUME NEW s \in Statements, ParseStatement(s) PROVE MemoryInv'
  <2>1. MemoryNext
    BY <1>5 DEF ParseStatement, MemoryNext
  <2> QED
    BY <1>2, <2>1
<1>6. ASSUME NEW v, ParseVariable(v) PROVE MemoryInv'
  BY <1>1, <1>6 DEF ParseVariable
<1>7. CASE \/ Usage \/ ParseShell \/ ParseError \/ ParserCrashes \/ AssembleNothing
           \/ OpenOutput \/ WritePart \/ WriteFails \/ CloseOutput \/ MakeExecutable \/ Exit
  BY <1>1, <1>7 DEF Usage, ParseShell, ParseError, ParserCrashes, AssembleNothing, OpenOutput,
                    WritePart, WriteFails, CloseOutput, MakeExecutable, Exit, unwritten
<1>8. CASE UNCHANGED vars
  BY <1>1, <1>8 DEF vars
<1> QED
  BY <1>3, <1>4, <1>5, <1>6, <1>7, <1>8 DEF Next, Parsing, Working, Halted

-----------------------------------------------------------------------------
(***************************************************************************)
(* The control flow of main and compile.                                   *)
(***************************************************************************)
Writing == {"write", "chmod"}

\* Failure is told from success.
LEMMA StatusesDiffer == 1 # 0
OBVIOUS

\* What runs at each stage.
Staged ==
    /\ stage \in {"start", "parse", "compile", "write", "chmod", "deinit"} \union Ended
    /\ stage = "start" => phase = "init"
    /\ stage = "parse" => phase = "parse"
    /\ stage = "compile" => phase \in {"dump", "text", "build", "link", "linked"}
    /\ phase = "misread" => stage = "misread"
    /\ stage = "misread" => phase = "misread"
    /\ stage \in Writing => phase = "linked"
    /\ stage \in {"compile"} \union Writing => ~has_encountered_error
    /\ stage \in {"start", "parse", "compile"} \union Writing => ~was_instruction_array_empty

\* How much is written, and how much of it is in the file.
Amounts == written \in Nat /\ written <= Parts /\ output \in Before .. written

\* What is in the output.
Reported ==
    /\ stage \in {"start", "parse", "compile"} =>
          written = 0 /\ output = Before /\ failed = FALSE
    /\ stage = "deinit" /\ has_encountered_error => output = Before
    /\ stage = "chmod" /\ ~failed => output = Parts
    /\ stage = "deinit" /\ ~has_encountered_error /\ ~failed =>
          output = Parts /\ executable /\ ~was_instruction_array_empty

\* What the assembler goes astray in.
MayStray ==
    \/ \E n \in 1 .. Len(program) - 1 : program[n] \in WideMoves
    \/ \E n \in DOMAIN program : program[n] \in Addresses

\* What ends the program.
Outcome ==
    /\ RejectedLeavesOutput /\ SuccessIsWhole
    /\ stage = "null_array" => \E i \in DOMAIN declared : Unreadable(declared[i])
    /\ stage = "behind_literal" => \E i \in DOMAIN declared : ReadBehind(declared[i])
    /\ stage = "strayed" => MayStray
    /\ stage = "null_file" => failed

Kinds ==
    /\ source \in {"none", "file", "standard input"}
    /\ system_type \in {"UNIX", "SHELL"}
    /\ has_encountered_error \in BOOLEAN /\ was_instruction_array_empty \in BOOLEAN
    /\ executable \in BOOLEAN /\ failed \in BOOLEAN
    /\ status \in {0, 1}

DriverInv == Kinds /\ Staged /\ Amounts /\ Reported /\ Outcome /\ DeclaredInv /\ MemoryInv

LEMMA DriverInit == Init => DriverInv
<1> SUFFICES ASSUME Init PROVE DriverInv
  OBVIOUS
<1>1. DeclaredInv /\ MemoryInv
  BY DeclaredInit, InitHolds DEF Init
<1>2. /\ stage = "start" /\ phase = "init" /\ written = 0 /\ output = -1 /\ failed = FALSE
      /\ system_type = "UNIX"
  BY DEF Init, MemoryInit, Before
<1>3. Kinds /\ Staged
  BY <1>2 DEF Init, Kinds, Staged, Ended, Crashed, Writing
<1>4. Amounts /\ Reported /\ Outcome
  BY <1>2 DEF Amounts, Reported, Outcome, RejectedLeavesOutput, SuccessIsWhole, Before, Parts
<1> QED
  BY <1>1, <1>3, <1>4 DEF DriverInv

\* No part is written twice, and none is in the file that was not written.
LEMMA AmountsKeep == DriverInv /\ [Next]_vars => Amounts'
<1> SUFFICES ASSUME DriverInv, [Next]_vars PROVE Amounts'
  OBVIOUS
<1>1. /\ written \in Nat /\ written <= Parts /\ output \in -1 .. written
      /\ Parts \in {1, 4} /\ Before = -1
  BY DEF DriverInv, Amounts, Parts, Before
<1>2. ASSUME UNCHANGED <<written, output, system_type>> PROVE Amounts'
  BY <1>1, <1>2 DEF Amounts, Parts, Before
<1>3. CASE Usage \/ OpenInput \/ ParseError \/ ParserCrashes \/ EndParse \/ UNCHANGED vars
  BY <1>2, <1>3 DEF Usage, OpenInput, ParseError, ParserCrashes, EndParse, vars, vars_of_driver,
                    files, parsed
<1>4. ASSUME NEW s, ParseStatement(s) PROVE Amounts'
  BY <1>2, <1>4 DEF ParseStatement, vars_of_driver
<1>5. ASSUME NEW v, ParseVariable(v) PROVE Amounts'
  BY <1>2, <1>5 DEF ParseVariable, files
<1>6. ASSUME NEW i, DumpVariable(i) PROVE Amounts'
  BY <1>2, <1>6 DEF DumpVariable, files, parsed
<1>7. CASE AllocateText \/ AssembleNothing \/ RunAssembler \/ MakeExecutable \/ Exit
  BY <1>2, <1>7 DEF AllocateText, AssembleNothing, RunAssembler, MakeExecutable, Exit,
                    vars_of_driver, files, parsed, unwritten
<1>8. CASE ParseShell
  <2>1. written = 0 /\ output = -1 /\ written' = 0 /\ output' = -1 /\ system_type' = "SHELL"
    BY <1>8 DEF DriverInv, Reported, ParseShell, files, Before
  <2>2. 0 <= Parts' /\ -1 \in -1 .. 0
    BY <2>1 DEF Parts
  <2> QED
    BY <2>1, <2>2 DEF Amounts, Before
<1>9. CASE OpenOutput \/ WriteFails \/ CloseOutput
  <2>1. written' = written /\ system_type' = system_type /\ output' \in {output} \union 0 .. written
    BY <1>1, <1>9 DEF OpenOutput, WriteFails, CloseOutput, unwritten, parsed
  <2>2. Parts' = Parts /\ output' \in -1 .. written
    BY <1>1, <2>1 DEF Parts
  <2> QED
    BY <1>1, <2>1, <2>2 DEF Amounts
<1>10. CASE WritePart
  <2>1. written' = written + 1 /\ written < Parts /\ system_type' = system_type /\ output' = output
    BY <1>10 DEF WritePart, unwritten, parsed
  <2>2. Parts' = Parts /\ output' \in -1 .. written + 1
    BY <1>1, <2>1 DEF Parts
  <2> QED
    BY <1>1, <2>1, <2>2 DEF Amounts
<1> QED
  BY <1>3, <1>4, <1>5, <1>6, <1>7, <1>8, <1>9, <1>10 DEF Next, Parsing, Working, Halted

\* The steps before there is anything to compile.
LEMMA FrontKeeps ==
    ASSUME DriverInv,
           Usage \/ OpenInput \/ (\E s : ParseStatement(s)) \/ (\E v : ParseVariable(v))
           \/ ParseShell \/ ParseError \/ ParserCrashes \/ EndParse
    PROVE  Kinds' /\ Staged' /\ Reported' /\ Outcome'
<1> USE DEF DriverInv, Kinds, Staged, Reported, Outcome, Ended, Crashed, Writing,
            RejectedLeavesOutput, SuccessIsWhole, Parts, Before
<1>1. CASE Usage
  <2>1. Kinds' /\ Staged'
    BY <1>1 DEF Usage, files, parsed, vars_of_memory
  <2>3. Reported'
    BY <1>1 DEF Usage, files, parsed, vars_of_memory
  <2>4. Outcome'
    <3>1. stage' = "exited" /\ status' = 1 /\ output' = Before
      BY <1>1 DEF Usage, files
    <3> QED
      BY <3>1, StatusesDiffer
  <2> QED
    BY <2>1, <2>3, <2>4
<1>2. CASE OpenInput
  <2>1. Kinds' /\ Staged'
    BY <1>2 DEF OpenInput, CompileInit, files, parsed
  <2>3. Reported'
    BY <1>2 DEF OpenInput, CompileInit, files, parsed
  <2>4. Outcome'
    BY <1>2 DEF OpenInput, CompileInit, files, parsed
  <2> QED
    BY <2>1, <2>3, <2>4
<1>3. ASSUME NEW s, ParseStatement(s) PROVE Kinds' /\ Staged' /\ Reported' /\ Outcome'
  <2>1. Kinds' /\ Staged'
    BY <1>3 DEF ParseStatement, AppendInstructions, vars_of_driver
  <2>3. Reported'
    BY <1>3 DEF ParseStatement, AppendInstructions, vars_of_driver
  <2>4. Outcome'
    BY <1>3 DEF ParseStatement, AppendInstructions, vars_of_driver
  <2> QED
    BY <2>1, <2>3, <2>4
<1>4. ASSUME NEW v, ParseVariable(v) PROVE Kinds' /\ Staged' /\ Reported' /\ Outcome'
  <2>1. Kinds' /\ Staged'
    BY <1>4 DEF ParseVariable, files, vars_of_memory
  <2>3. Reported'
    BY <1>4 DEF ParseVariable, files, vars_of_memory
  <2>4. Outcome'
    BY <1>4 DEF ParseVariable, files, vars_of_memory
  <2> QED
    BY <2>1, <2>3, <2>4
<1>5. CASE ParseShell
  <2>1. Kinds' /\ Staged'
    BY <1>5 DEF ParseShell, files, vars_of_memory
  <2>3. Reported'
    BY <1>5 DEF ParseShell, files, vars_of_memory
  <2>4. Outcome'
    BY <1>5 DEF ParseShell, files, vars_of_memory
  <2> QED
    BY <2>1, <2>3, <2>4
<1>6. CASE ParseError
  <2>1. Kinds' /\ Staged'
    BY <1>6 DEF ParseError, files, vars_of_memory
  <2>3. Reported'
    BY <1>6 DEF ParseError, files, vars_of_memory
  <2>4. Outcome'
    BY <1>6 DEF ParseError, files, vars_of_memory
  <2> QED
    BY <2>1, <2>3, <2>4
<1>7. CASE EndParse
  <2>1. Kinds' /\ Staged'
    <3>1. /\ stage = "parse" /\ phase = "parse"
          /\ UNCHANGED <<source, system_type, has_encountered_error,
                         was_instruction_array_empty, executable, failed, status>>
      BY <1>7 DEF EndParse, files, parsed
    <3>2. CASE MayCompile /\ stage' = "compile" /\ BeginDump
      <4>1. ~has_encountered_error /\ phase' = "dump"
        BY <3>2 DEF MayCompile, BeginDump
      <4> QED
        BY <3>1, <3>2, <4>1
    <3>3. CASE stage' = "deinit" /\ UNCHANGED vars_of_memory
      <4>1. phase' = "parse"
        BY <3>1, <3>3 DEF vars_of_memory
      <4> QED
        BY <3>1, <3>3, <4>1
    <3> QED
      BY <1>7, <3>2, <3>3 DEF EndParse
  <2>3. Reported'
    BY <1>7 DEF EndParse, MayCompile, BeginDump, files, parsed, vars_of_memory
  <2>4. Outcome'
    BY <1>7 DEF EndParse, MayCompile, BeginDump, files, parsed, vars_of_memory
  <2> QED
    BY <2>1, <2>3, <2>4
<1>8. CASE ParserCrashes
  <2>1. Kinds' /\ Staged'
    BY <1>8 DEF ParserCrashes, files, parsed, vars_of_memory
  <2>3. Reported'
    BY <1>8 DEF ParserCrashes, files, parsed, vars_of_memory
  <2>4. Outcome'
    BY <1>8 DEF ParserCrashes, files, parsed, vars_of_memory
  <2> QED
    BY <2>1, <2>3, <2>4
<1> QED
  BY <1>1, <1>2, <1>3, <1>4, <1>5, <1>6, <1>7, <1>8

\* compile, up to the output.
LEMMA CompileKeeps ==
    ASSUME DriverInv,
           (\E i : DumpVariable(i)) \/ AllocateText \/ AssembleNothing \/ RunAssembler
    PROVE  Kinds' /\ Staged' /\ Reported' /\ Outcome'
<1> USE DEF DriverInv, Kinds, Staged, Reported, Outcome, Ended, Crashed, Writing,
            RejectedLeavesOutput, SuccessIsWhole, Parts, Before
<1>1. ASSUME NEW i, DumpVariable(i) PROVE Kinds' /\ Staged' /\ Reported' /\ Outcome'
  <2>1. Kinds' /\ Staged'
    BY <1>1 DEF DumpVariable, AppendInstructions, files, parsed, vars_of_memory
  <2>3. Reported'
    BY <1>1 DEF DumpVariable, AppendInstructions, files, parsed, vars_of_memory
  <2>4. Outcome'
    BY <1>1 DEF DumpVariable, AppendInstructions, files, parsed, vars_of_memory
  <2> QED
    BY <2>1, <2>3, <2>4
<1>2. CASE AllocateText
  <2>1. Kinds' /\ Staged'
    BY <1>2 DEF AllocateText, EndDump, vars_of_driver
  <2>3. Reported'
    BY <1>2 DEF AllocateText, EndDump, vars_of_driver
  <2>4. Outcome'
    BY <1>2 DEF AllocateText, EndDump, vars_of_driver
  <2> QED
    BY <2>1, <2>3, <2>4
<1>3. CASE AssembleNothing
  <2>1. Kinds' /\ Staged'
    BY <1>3 DEF AssembleNothing, InternalError, files, vars_of_memory
  <2>3. Reported'
    BY <1>3 DEF AssembleNothing, InternalError, files, vars_of_memory
  <2>4. Outcome'
    BY <1>3 DEF AssembleNothing, InternalError, files, vars_of_memory
  <2> QED
    BY <2>1, <2>3, <2>4
<1>4. CASE RunAssembler
  <2>1. /\ UNCHANGED <<source, parsed, dumped, was_instruction_array_empty, files, status>>
        /\ stage = "compile"
    BY <1>4 DEF RunAssembler
  <2>2. CASE /\ Assemble \/ Assembling
             /\ stage' = IF phase' = "misread" THEN "misread" ELSE stage
    <3>1. phase' \in {"build", "link", "linked", "misread"}
      BY <2>2 DEF Assemble, Assembling, Build, MisreadToken, EndBuild, Patch, MisreadHole, EndLink
    <3>2. Kinds' /\ Staged'
      BY <2>1, <2>2, <3>1 DEF files, parsed
    <3>3. Reported'
      BY <2>1, <2>2, <3>1 DEF files, parsed
    <3>4. Outcome'
      BY <2>1, <2>2, <3>1 DEF files, parsed
    <3> QED
      BY <3>2, <3>3, <3>4
  <2>3. CASE /\ TokenSkipped \/ AddressFollowed
             /\ stage' = "strayed" /\ UNCHANGED vars_of_memory
    <3>1. MayStray' /\ phase' = phase
      BY <2>3 DEF TokenSkipped, AddressFollowed, MayStray, vars_of_memory
    <3>2. Kinds' /\ Staged'
      BY <2>1, <2>3, <3>1 DEF files, parsed
    <3>3. Reported'
      BY <2>1, <2>3 DEF files, parsed
    <3>4. Outcome'
      BY <2>1, <2>3, <3>1 DEF files, parsed
    <3> QED
      BY <3>2, <3>3, <3>4
  <2> QED
    BY <1>4, <2>2, <2>3 DEF RunAssembler
<1> QED
  BY <1>1, <1>2, <1>3, <1>4

\* The output, and the exit.
LEMMA OutputKeeps ==
    ASSUME DriverInv,
           OpenOutput \/ WritePart \/ WriteFails \/ CloseOutput \/ MakeExecutable \/ Exit
           \/ UNCHANGED vars
    PROVE  Kinds' /\ Staged' /\ Reported' /\ Outcome'
<1> USE DEF DriverInv, Kinds, Staged, Reported, Outcome, Ended, Crashed, Writing,
            RejectedLeavesOutput, SuccessIsWhole, Parts, Before, unwritten, parsed, files,
            vars_of_memory
<1>1. CASE OpenOutput
  <2>1. Kinds' /\ Staged'
    BY <1>1 DEF OpenOutput
  <2>3. Reported'
    BY <1>1 DEF OpenOutput
  <2>4. Outcome'
    BY <1>1 DEF OpenOutput
  <2> QED
    BY <2>1, <2>3, <2>4
<1>2. CASE WritePart
  <2>1. Kinds' /\ Staged'
    BY <1>2 DEF WritePart
  <2>3. Reported'
    BY <1>2 DEF WritePart
  <2>4. Outcome'
    BY <1>2 DEF WritePart
  <2> QED
    BY <2>1, <2>3, <2>4
<1>3. CASE WriteFails
  <2>1. Kinds' /\ Staged'
    BY <1>3 DEF WriteFails
  <2>3. Reported'
    BY <1>3 DEF WriteFails
  <2>4. Outcome'
    BY <1>3 DEF WriteFails
  <2> QED
    BY <2>1, <2>3, <2>4
<1>4. CASE CloseOutput
  <2>1. Kinds' /\ Staged'
    BY <1>4 DEF CloseOutput
  <2>3. Reported'
    BY <1>4 DEF CloseOutput
  <2>4. Outcome'
    BY <1>4 DEF CloseOutput
  <2> QED
    BY <2>1, <2>3, <2>4
<1>5. CASE MakeExecutable
  <2>1. Kinds' /\ Staged'
    BY <1>5 DEF MakeExecutable
  <2>3. Reported'
    BY <1>5 DEF MakeExecutable
  <2>4. Outcome'
    BY <1>5 DEF MakeExecutable
  <2> QED
    BY <2>1, <2>3, <2>4
<1>6. CASE Exit
  <2>1. Kinds' /\ Staged'
    BY <1>6 DEF Exit
  <2>3. Reported'
    BY <1>6 DEF Exit
  <2>4. Outcome'
    <3>1. /\ stage = "deinit" /\ stage' = "exited"
          /\ UNCHANGED <<system_type, output, executable, failed, was_instruction_array_empty>>
      BY <1>6 DEF Exit
    <3>2. CASE has_encountered_error
      <4>1. status' = 1 /\ output' = Before
        BY <1>6, <3>1, <3>2 DEF Exit
      <4> QED
        BY StatusesDiffer, <3>1, <4>1
    <3>3. CASE ~has_encountered_error
      <4>1. status' = 0
        BY <1>6, <3>3 DEF Exit
      <4>2. ~failed => output = Parts /\ executable /\ ~was_instruction_array_empty
        BY <3>1, <3>3
      <4> QED
        BY StatusesDiffer, <3>1, <4>1, <4>2
    <3> QED
      BY <3>2, <3>3
  <2> QED
    BY <2>1, <2>3, <2>4
<1>7. CASE UNCHANGED vars
  <2>1. Kinds' /\ Staged'
    <3>1. UNCHANGED <<stage, source, system_type, has_encountered_error,
                      was_instruction_array_empty, executable, failed, status>>
      BY <1>7 DEF vars, vars_of_driver
    <3>2. phase' = phase
      BY <1>7 DEF vars
    <3>3. Kinds'
      BY <3>1
    <3>4. Staged'
      BY <3>1, <3>2
    <3> QED
      BY <3>3, <3>4
  <2>3. Reported'
    BY <1>7 DEF vars, vars_of_driver
  <2>4. Outcome'
    BY <1>7 DEF vars, vars_of_driver, MayStray
  <2> QED
    BY <2>1, <2>3, <2>4
<1> QED
  BY <1>1, <1>2, <1>3, <1>4, <1>5, <1>6, <1>7

LEMMA DriverInductive == DriverInv /\ [Next]_vars => DriverInv'
<1> SUFFICES ASSUME DriverInv, [Next]_vars PROVE DriverInv'
  OBVIOUS
<1>1. DeclaredInv' /\ MemoryInv'
  BY DeclaredKeeps, MemoryUnderDriver DEF DriverInv, Staged
<1>2. Kinds' /\ Staged' /\ Amounts' /\ Reported' /\ Outcome'
  BY AmountsKeep, FrontKeeps, CompileKeeps, OutputKeeps DEF Next, Parsing, Working, Halted
<1> QED
  BY <1>1, <1>2 DEF DriverInv

\* The invariant, in the words of the properties.
LEMMA DriverInvImplies ==
    DriverInv => TypeOK /\ RejectedLeavesOutput /\ SuccessIsWhole /\ CrashesKnown
<1> SUFFICES ASSUME DriverInv PROVE TypeOK /\ CrashesKnown
  BY DEF DriverInv, Outcome
<1>1. written \in 0 .. 4
  BY DEF DriverInv, Amounts, Parts
<1>2. status \in 0 .. 1
  <2>1. status = 0 \/ status = 1
    BY DEF DriverInv, Kinds
  <2> QED
    BY <2>1
<1>3. TypeOK
  BY <1>1, <1>2 DEF DriverInv, Kinds, Staged, Amounts, DeclaredInv, TypeOK
<1>4. CrashesKnown
  BY DEF DriverInv, Staged, Outcome, MayStray, MemoryInv, ReadsAsWritten, CrashesKnown
<1> QED
  BY <1>3, <1>4

(***************************************************************************)
(* The variables of main and compile keep their types.                     *)
(***************************************************************************)
THEOREM DriverTypes == Spec => []TypeOK
BY DriverInit, DriverInductive, DriverInvImplies, PTL DEF Spec

(***************************************************************************)
(* What is reported as wrong never touches the output file (main checks    *)
(* has_encountered_error before compile, and compile before fopen).        *)
(***************************************************************************)
THEOREM RejectionIsHarmless == Spec => []RejectedLeavesOutput
BY DriverInit, DriverInductive, DriverInvImplies, PTL DEF Spec

(***************************************************************************)
(* Success means a whole, executable file, unless a call of the system     *)
(* failed after the input was opened.                                      *)
(***************************************************************************)
THEOREM SuccessIsComplete == Spec => []SuccessIsWhole
BY DriverInit, DriverInductive, DriverInvImplies, PTL DEF Spec

(***************************************************************************)
(* What the program is lost for behind the parser, with any number of      *)
(* places, any statements and any variables.  That memory is misread only  *)
(* for want of places is the invariant of Memory; the other reasons are    *)
(* those at which dump_variable_to_assembler, the passes and fopen are     *)
(* left, of an input that was accepted.                                    *)
(***************************************************************************)
THEOREM CrashesAreKnown == Spec => []CrashesKnown
BY DriverInit, DriverInductive, DriverInvImplies, PTL DEF Spec

-----------------------------------------------------------------------------
(***************************************************************************)
(* The sizes in the headers: the bytes of the variables are a part of      *)
(* those of the text.                                                      *)
(***************************************************************************)
BytesOf == [k \in 1 .. Len(program) |-> program[k].bytes]

EmittedOf  == [k \in 1 .. Len(declared) |-> Emitted(declared[k])]
ReservedOf == [k \in 1 .. Len(declared) |-> Reserved(declared[k])]
DumpedOf   == [k \in 1 .. Len(declared) |-> IF k \in dumped THEN Emitted(declared[k]) ELSE 0]

\* What is in the text besides the variables is a natural number of bytes.
Contained ==
    \E code \in Nat : SumOf(Len(program), BytesOf) = code + SumOf(Len(declared), DumpedOf)

LostInDump == {"null_array", "behind_literal"}

ImageInv ==
    /\ text_sector_size = SumOf(built, BytesOf)
    /\ \A i \in dumped : declared[i].elements \in Nat
    /\ phase \in {"init", "parse"} => dumped = {}
    /\ phase \notin {"init", "parse", "dump"} => dumped = DOMAIN declared
    /\ phase \in {"link", "linked"} => built = Len(program)
    /\ output # Before => phase = "linked"
    /\ phase \notin {"init", "parse"} /\ stage \notin LostInDump => Contained

\* The bytes of statements, and those of variables.
LEMMA BytesAreNumbers ==
    ASSUME DriverInv
    PROVE  /\ Len(program) \in Nat /\ built \in 0 .. Len(program)
           /\ \A k \in 1 .. Len(program) : BytesOf[k] = program[k].bytes /\ BytesOf[k] \in Nat
<1>1. program \in Seq(StatementType) /\ Len(program) \in Nat /\ built \in 0 .. Len(program)
  BY DEF DriverInv, MemoryInv, Typed
<1>2. ASSUME NEW k \in 1 .. Len(program)
      PROVE  BytesOf[k] = program[k].bytes /\ BytesOf[k] \in Nat
  <2>1. program[k] \in StatementType
    BY <1>1, ElementOfSeq
  <2>2. program[k].bytes \in Nat
    BY <2>1 DEF StatementType
  <2> QED
    BY <2>2 DEF BytesOf
<1> QED
  BY <1>1, <1>2

LEMMA VariablesAreNumbers ==
    ASSUME DeclaredInv
    PROVE  /\ Len(declared) \in Nat /\ DOMAIN declared = 1 .. Len(declared)
           /\ \A k \in 1 .. Len(declared) :
                 /\ Emitted(declared[k]) \in Int /\ Reserved(declared[k]) \in Int
                 /\ declared[k].elements \in Nat => Emitted(declared[k]) \in Nat
<1>1. declared \in Seq(Declarable)
  BY DEF DeclaredInv
<1>2. Len(declared) \in Nat /\ DOMAIN declared = 1 .. Len(declared)
  BY <1>1, LenProperties
<1>3. ASSUME NEW k \in 1 .. Len(declared) PROVE Described(declared[k])
  BY <1>1, ElementOfSeq, DeclarableAssumption
<1> QED
  BY <1>2, <1>3, DescribedParts

\* EmittedSum and ReservedSum are sums.
LEMMA EmittedIsSum == DeclaredInv => EmittedSum = SumOf(Len(declared), EmittedOf)
<1> SUFFICES ASSUME DeclaredInv PROVE EmittedSum = SumOf(Len(declared), EmittedOf)
  OBVIOUS
<1> DEFINE n == Len(declared)
           Adds(f) == f = [k \in 0 .. n |-> IF k = 0 THEN 0 ELSE f[k - 1] + Emitted(declared[k])]
           sum == CHOOSE f : Adds(f)
<1>1. n \in Nat /\ n \in 0 .. n /\ \A k \in 1 .. n : EmittedOf[k] = Emitted(declared[k]) /\ EmittedOf[k] \in Int
  BY VariablesAreNumbers DEF EmittedOf
<1>2. PICK s : IsSum(s, n, EmittedOf)
  BY <1>1, SumExists
<1>3. Adds(s)
  <2>1. s = [k \in 0 .. n |-> s[k]]
    BY <1>2 DEF IsSum
  <2>2. ASSUME NEW k \in 0 .. n
        PROVE  s[k] = IF k = 0 THEN 0 ELSE s[k - 1] + Emitted(declared[k])
    <3>1. k # 0 => k \in 1 .. n
      BY <1>1
    <3> QED
      BY <1>1, <1>2, <3>1 DEF IsSum
  <2> QED
    BY <2>1, <2>2
<1>4. Adds(sum)
  BY <1>3
<1>5. EmittedSum = sum[n]
  BY DEF EmittedSum
<1> HIDE DEF sum
<1>6. sum[0] = 0 /\ \A k \in 1 .. n : sum[k] = sum[k - 1] + EmittedOf[k]
  BY <1>1, <1>4
<1> QED
  BY <1>1, <1>5, <1>6, SumIs

LEMMA ReservedIsSum == DeclaredInv => ReservedSum = SumOf(Len(declared), ReservedOf)
<1> SUFFICES ASSUME DeclaredInv PROVE ReservedSum = SumOf(Len(declared), ReservedOf)
  OBVIOUS
<1> DEFINE n == Len(declared)
           Adds(f) == f = [k \in 0 .. n |-> IF k = 0 THEN 0 ELSE f[k - 1] + Reserved(declared[k])]
           sum == CHOOSE f : Adds(f)
<1>1. n \in Nat /\ n \in 0 .. n /\ \A k \in 1 .. n : ReservedOf[k] = Reserved(declared[k]) /\ ReservedOf[k] \in Int
  BY VariablesAreNumbers DEF ReservedOf
<1>2. PICK s : IsSum(s, n, ReservedOf)
  BY <1>1, SumExists
<1>3. Adds(s)
  <2>1. s = [k \in 0 .. n |-> s[k]]
    BY <1>2 DEF IsSum
  <2>2. ASSUME NEW k \in 0 .. n
        PROVE  s[k] = IF k = 0 THEN 0 ELSE s[k - 1] + Reserved(declared[k])
    <3>1. k # 0 => k \in 1 .. n
      BY <1>1
    <3> QED
      BY <1>1, <1>2, <3>1 DEF IsSum
  <2> QED
    BY <2>1, <2>2
<1>4. Adds(sum)
  BY <1>3
<1>5. ReservedSum = sum[n]
  BY DEF ReservedSum
<1> HIDE DEF sum
<1>6. sum[0] = 0 /\ \A k \in 1 .. n : sum[k] = sum[k - 1] + ReservedOf[k]
  BY <1>1, <1>4
<1> QED
  BY <1>1, <1>5, <1>6, SumIs

-----------------------------------------------------------------------------
LEMMA ImageInit == Init => ImageInv
<1> SUFFICES ASSUME Init PROVE ImageInv
  OBVIOUS
<1>1. /\ phase = "init" /\ text_sector_size = 0 /\ built = 0 /\ dumped = {} /\ output = Before
  BY DEF Init, MemoryInit
<1>2. SumOf(0, BytesOf) = 0
  BY SumZero
<1> QED
  BY <1>1, <1>2 DEF ImageInv

\* The steps that leave sums and phase alone.
LEMMA ImageSame ==
    ASSUME DriverInv, ImageInv,
           UNCHANGED <<text_sector_size, built, program, declared, dumped, phase>>,
           output' # Before => phase = "linked", stage \in LostInDump => stage' \in LostInDump
    PROVE  ImageInv'
<1>1. BytesOf' = BytesOf /\ DumpedOf' = DumpedOf
  BY DEF BytesOf, DumpedOf
<1>2. Contained' <=> Contained
  BY <1>1 DEF Contained
<1> QED
  BY <1>1, <1>2 DEF ImageInv

\* Up to the first pass there is no text.
LEMMA ImageEmpty ==
    ASSUME DriverInv, ImageInv, phase' \in {"parse", "dump"}, phase \in Early,
           UNCHANGED <<text_sector_size, built, output>>,
           stage \in {"start", "parse", "compile"},
           \A i \in dumped' : declared'[i].elements \in Nat,
           phase' = "parse" => dumped' = {},
           phase' = "dump" /\ stage' \notin LostInDump => Contained'
    PROVE  ImageInv'
<1>1. text_sector_size = 0 /\ built = 0
  BY DEF DriverInv, MemoryInv, OnlyTokens
<1>2. SumOf(0, BytesOf') = 0
  BY SumZero
<1>3. output' = Before
  BY DEF DriverInv, Reported
<1> QED
  BY <1>1, <1>2, <1>3 DEF ImageInv

\* What the parser appends is not looked at before the end of the input.
LEMMA ImageParsed ==
    ASSUME DriverInv, ImageInv,
           \/ OpenInput \/ EndParse
           \/ \E s : ParseStatement(s)
           \/ \E v : ParseVariable(v)
    PROVE  ImageInv'
<1>1. CASE OpenInput
  <2>1. /\ phase = "init" /\ phase' = "parse" /\ stage = "start"
        /\ UNCHANGED <<declared, dumped, text_sector_size, built, output>>
    BY <1>1 DEF OpenInput, CompileInit, passes, parsed, files
  <2> QED
    BY <2>1, ImageEmpty DEF ImageInv, Early
<1>2. ASSUME NEW s, ParseStatement(s) PROVE ImageInv'
  <2>1. /\ stage = "parse" /\ phase = "parse" /\ phase' = "parse"
        /\ UNCHANGED <<declared, dumped, text_sector_size, built, output>>
    BY <1>2 DEF ParseStatement, AppendInstructions, vars_of_driver, passes, DriverInv, Staged
  <2> QED
    BY <2>1, ImageEmpty DEF ImageInv, Early
<1>3. ASSUME NEW v, ParseVariable(v) PROVE ImageInv'
  <2>1. /\ stage = "parse" /\ phase = "parse" /\ phase' = "parse"
        /\ UNCHANGED <<dumped, text_sector_size, built, output>>
    BY <1>3 DEF ParseVariable, vars_of_memory, files, DriverInv, Staged
  <2>2. dumped' = {}
    BY <2>1 DEF ImageInv
  <2> QED
    BY <2>1, <2>2, ImageEmpty DEF Early
<1>4. CASE EndParse
  <2>1. /\ stage = "parse" /\ phase = "parse"
        /\ UNCHANGED <<declared, dumped, text_sector_size, built, program, output>>
        /\ phase' = "dump" \/ phase' = "parse"
    BY <1>4 DEF EndParse, BeginDump, vars_of_memory, passes, parsed, files, input_of_assemble,
                DriverInv, Staged
  <2>2. dumped = {} /\ dumped' = {}
    BY <2>1 DEF ImageInv
  <2>3. BytesOf' = BytesOf
    BY <2>1 DEF BytesOf
  <2>4. SumOf(Len(program), BytesOf) \in Nat
    BY BytesAreNumbers, SumNat
  <2>5. SumOf(Len(declared), DumpedOf') = 0
    <3>1. Len(declared) \in Nat
      BY VariablesAreNumbers DEF DriverInv
    <3>2. \A k \in 1 .. Len(declared) : DumpedOf'[k] = 0
      BY <2>1, <2>2 DEF DumpedOf
    <3> QED
      BY <3>1, <3>2, SumZero
  <2>6. Contained'
    <3>1. SumOf(Len(program), BytesOf) = SumOf(Len(program), BytesOf) + 0
      BY <2>4
    <3> QED
      BY <2>1, <2>3, <2>4, <2>5, <3>1 DEF Contained
  <2> QED
    BY <2>1, <2>2, <2>6, ImageEmpty DEF Early
<1> QED
  BY <1>1, <1>2, <1>3, <1>4

\* A variable that is dumped is one statement more, of as many bytes as are counted for it.
LEMMA ImageDumped ==
    ASSUME DriverInv, ImageInv, NEW i \in DOMAIN declared, DumpVariable(i)
    PROVE  ImageInv'
<1> DEFINE v == declared[i]
           s == StatementOf(i)
           n == Len(declared)
           p == Len(program)
<1>1. /\ stage = "compile" /\ phase = "dump" /\ i \notin dumped /\ dumped' = dumped \union {i}
      /\ declared' = declared /\ output' = output
  BY DEF DumpVariable, parsed, files
<1>2. declared[i].elements \in Nat /\ DeclaredInv /\ i \in 1 .. n /\ n \in Nat
      /\ \A k \in 1 .. n : Emitted(declared[k]) \in Int
  BY <1>1, VariablesAreNumbers DEF DriverInv, Staged, DeclaredInv
<1>3. \A k \in dumped' : declared'[k].elements \in Nat
  BY <1>1, <1>2 DEF ImageInv
<1>4. CASE stage' \in LostInDump /\ UNCHANGED vars_of_memory
  BY <1>1, <1>3, <1>4, ImageEmpty DEF vars_of_memory, Early
<1>5. CASE AppendInstructions(s)
  <2>1. /\ phase' = phase /\ program' = Append(program, s)
        /\ UNCHANGED <<text_sector_size, built>>
    BY <1>5 DEF AppendInstructions, passes
  <2>2. s \in StatementType /\ s.bytes = Emitted(v) /\ program \in Seq(StatementType)
        /\ Emitted(v) \in Nat
    BY <1>2, StatementOfVariable, VariablesAreNumbers
       DEF Wellformed, StatementOf, DriverInv, MemoryInv, Typed
  <2> HIDE DEF s, v
  <2>3. /\ Len(program') = p + 1 /\ program'[p + 1] = s
        /\ \A k \in 1 .. p : program'[k] = program[k]
    BY <2>1, <2>2, AppendProperties
  <2>4. p \in Nat /\ \A k \in 1 .. p : BytesOf[k] = program[k].bytes /\ BytesOf[k] \in Nat
    BY BytesAreNumbers
  <2>5. /\ \A k \in 1 .. p : BytesOf'[k] = BytesOf[k] /\ BytesOf'[k] \in Int
        /\ BytesOf'[p + 1] = Emitted(v)
    <3>1. \A k \in 1 .. p + 1 : BytesOf'[k] = program'[k].bytes
      BY <2>3 DEF BytesOf
    <3>2. p + 1 \in 1 .. p + 1 /\ \A k \in 1 .. p : k \in 1 .. p + 1
      BY <2>4
    <3> QED
      BY <2>2, <2>3, <2>4, <3>1, <3>2
  <2>6. SumOf(p + 1, BytesOf') = SumOf(p, BytesOf) + Emitted(v)
    <3>1. p + 1 \in Nat /\ p + 1 \in 1 .. p + 1 /\ (p + 1) - 1 = p
          /\ \A k \in 1 .. p + 1 : BytesOf'[k] \in Int
      BY <2>2, <2>4, <2>5
    <3>2. SumOf(p + 1, BytesOf') = SumOf(p, BytesOf') + BytesOf'[p + 1]
      BY <3>1, SumStep
    <3>3. SumOf(p, BytesOf') = SumOf(p, BytesOf)
      BY <2>4, <2>5, SumSame
    <3> QED
      BY <2>5, <3>2, <3>3
  <2>7. SumOf(n, DumpedOf') = SumOf(n, DumpedOf) + Emitted(v)
    <3>1. \A k \in 1 .. n :
             /\ DumpedOf[k] = IF k \in dumped THEN Emitted(declared[k]) ELSE 0
             /\ DumpedOf'[k] = IF k \in dumped' THEN Emitted(declared[k]) ELSE 0
      BY <1>1 DEF DumpedOf
    <3>2. \A k \in 1 .. n : /\ DumpedOf[k] \in Int /\ DumpedOf'[k] \in Int
                            /\ k # i => DumpedOf'[k] = DumpedOf[k]
      BY <1>1, <1>2, <3>1
    <3>3. DumpedOf[i] = 0 /\ DumpedOf'[i] = Emitted(v)
      BY <1>1, <1>2, <3>1 DEF v
    <3>4. SumOf(n, DumpedOf') = SumOf(n, DumpedOf) + (DumpedOf'[i] - DumpedOf[i])
      BY <1>2, <3>2, SumChange
    <3> QED
      BY <2>2, <3>3, <3>4
  <2>8. Contained'
    <3>1. PICK code \in Nat : SumOf(p, BytesOf) = code + SumOf(n, DumpedOf)
      BY <1>1 DEF ImageInv, LostInDump, Contained
    <3>2. SumOf(n, DumpedOf) \in Int
      <4>1. \A k \in 1 .. n : DumpedOf[k] \in Int
        BY <1>2 DEF DumpedOf
      <4>2. n \in 0 .. n
        BY <1>2
      <4> QED
        BY <1>2, <4>1, <4>2, SumStep
    <3>3. SumOf(p + 1, BytesOf') = code + SumOf(n, DumpedOf')
      BY <2>2, <2>6, <2>7, <3>1, <3>2
    <3> QED
      BY <1>1, <2>3, <3>3 DEF Contained
  <2> QED
    BY <1>1, <1>3, <2>1, <2>8, ImageEmpty DEF Early
<1> QED
  BY <1>4, <1>5 DEF DumpVariable, LostInDump

\* The text is as long as the statements that are built.
LEMMA ImageBuilt ==
    ASSUME DriverInv, ImageInv, AllocateText \/ RunAssembler
    PROVE  ImageInv'
<1>1. /\ UNCHANGED <<declared, dumped, output, program>>
      /\ stage = "compile" /\ output = Before /\ phase' \notin {"init", "parse", "dump"}
      /\ phase \notin {"init", "parse"} /\ dumped' = DOMAIN declared'
  <2>1. CASE AllocateText
    BY <2>1 DEF AllocateText, EndDump, vars_of_driver, input_of_assemble, DriverInv, Reported
  <2>2. CASE RunAssembler
    <3>1. /\ UNCHANGED <<declared, dumped, output, program>>
          /\ phase \in {"text", "build", "link"} /\ stage = "compile"
          /\ phase' \in {"build", "link", "linked", "misread"}
      BY <2>2 DEF RunAssembler, TokenSkipped, AddressFollowed, parsed, files, Assemble,
                  Assembling, Build, MisreadToken, EndBuild, Patch, MisreadHole, EndLink,
                  input_of_assemble, vars_of_memory
    <3> QED
      BY <3>1 DEF DriverInv, Reported, ImageInv
  <2> QED
    BY <2>1, <2>2
<1>2. BytesOf' = BytesOf /\ DumpedOf' = DumpedOf
  BY <1>1 DEF BytesOf, DumpedOf
<1>3. Contained'
  BY <1>1, <1>2 DEF Contained, ImageInv, LostInDump
<1>4. text_sector_size' = SumOf(built', BytesOf)
  <2>1. CASE Build
    <3>1. /\ built \in 0 .. Len(program) /\ built < Len(program) /\ Len(program) \in Nat
          /\ built' = built + 1
          /\ text_sector_size' = text_sector_size + program[built + 1].bytes
          /\ \A k \in 1 .. Len(program) : BytesOf[k] = program[k].bytes /\ BytesOf[k] \in Nat
      BY <2>1, BytesAreNumbers DEF Build, Statement
    <3>2. built + 1 \in 1 .. Len(program) /\ (built + 1) - 1 = built
          /\ \A k \in 1 .. Len(program) : BytesOf[k] \in Int
      BY <3>1
    <3>3. SumOf(built + 1, BytesOf) = SumOf(built, BytesOf) + BytesOf[built + 1]
      BY <3>1, <3>2, SumStep
    <3> QED
      BY <3>1, <3>2, <3>3 DEF ImageInv
  <2>2. CASE ~Build
    <3>1. UNCHANGED <<text_sector_size, built>>
      BY <2>2 DEF AllocateText, EndDump, RunAssembler, Assemble, Assembling, MisreadToken,
                  EndBuild, Patch, MisreadHole, EndLink, passes, vars_of_memory
    <3> QED
      BY <3>1 DEF ImageInv
  <2> QED
    BY <2>1, <2>2
<1>5. phase' \in {"link", "linked"} => built' = Len(program')
  BY <1>1 DEF AllocateText, EndDump, RunAssembler, Assemble, Assembling, Build, MisreadToken,
              EndBuild, Patch, MisreadHole, EndLink, passes, vars_of_memory, ImageInv
<1> QED
  BY <1>1, <1>2, <1>3, <1>4, <1>5 DEF ImageInv

LEMMA ImageKeeps == DriverInv /\ ImageInv /\ [Next]_vars => ImageInv'
<1> SUFFICES ASSUME DriverInv, ImageInv, [Next]_vars PROVE ImageInv'
  OBVIOUS
<1>1. CASE \/ OpenInput \/ EndParse
           \/ \E s : ParseStatement(s)
           \/ \E v : ParseVariable(v)
  BY <1>1, ImageParsed
<1>2. ASSUME NEW i \in DOMAIN declared, DumpVariable(i) PROVE ImageInv'
  BY <1>2, ImageDumped
<1>3. CASE AllocateText \/ RunAssembler
  BY <1>3, ImageBuilt
<1>4. CASE OpenOutput
  <2>1. UNCHANGED vars_of_memory /\ UNCHANGED <<declared, dumped>> /\ phase = "linked"
        /\ stage = "compile"
    BY <1>4 DEF OpenOutput, unwritten, parsed
  <2> QED
    BY <2>1, ImageSame DEF vars_of_memory, LostInDump
<1>5. CASE WritePart \/ WriteFails \/ CloseOutput
  <2>1. /\ UNCHANGED vars_of_memory /\ UNCHANGED <<declared, dumped>>
        /\ stage = "write"
    BY <1>5 DEF WritePart, WriteFails, CloseOutput, unwritten, parsed
  <2>2. phase = "linked"
    BY <2>1 DEF DriverInv, Staged, Writing
  <2> QED
    BY <2>1, <2>2, ImageSame DEF vars_of_memory, LostInDump
<1>6. CASE \/ Usage \/ ParseShell \/ ParseError \/ ParserCrashes \/ AssembleNothing
           \/ MakeExecutable \/ Exit
  <2>1. /\ UNCHANGED vars_of_memory /\ UNCHANGED <<declared, dumped, output>>
        /\ stage \notin LostInDump
    BY <1>6 DEF Usage, ParseShell, ParseError, ParserCrashes, AssembleNothing, MakeExecutable,
                Exit, unwritten, parsed, files, LostInDump
  <2> QED
    BY <2>1, ImageSame DEF vars_of_memory, ImageInv
<1>7. CASE UNCHANGED vars
  BY <1>7, ImageSame DEF vars, vars_of_memory, vars_of_driver, ImageInv
<1> QED
  BY <1>1, <1>2, <1>3, <1>4, <1>5, <1>6, <1>7 DEF Next, Parsing, Working, Halted

(***************************************************************************)
(* Every whole executable without a variable of 64 bits is loaded as its   *)
(* code expects, whatever the program and the sizes of headers and pages   *)
(* (variable_size_sum, elf_text_sector, elf_data_sector, elf_main_header). *)
(***************************************************************************)
THEOREM ImagesLoad == Spec => []ImageLoads
<1>1. ASSUME DriverInv, ImageInv PROVE ImageLoads
  <2> SUFFICES ASSUME stage = "exited", output = Parts,
                      \A i \in DOMAIN declared : ~Wide(declared[i].type)
               PROVE  LoadsAsAddressed(text_sector_size - EmittedSum, EmittedSum, ReservedSum,
                                       EntryPlaced)
    BY DEF ImageLoads
  <2>1. output # Before
    BY DEF Parts, Before
  <2>2. /\ phase = "linked" /\ built = Len(program) /\ dumped = DOMAIN declared /\ Contained
        /\ text_sector_size = SumOf(Len(program), BytesOf)
        /\ \A k \in DOMAIN declared : declared[k].elements \in Nat
    BY <1>1, <2>1 DEF ImageInv, LostInDump
  <2>3. /\ DeclaredInv /\ Len(declared) \in Nat /\ DOMAIN declared = 1 .. Len(declared)
        /\ \A k \in 1 .. Len(declared) : Emitted(declared[k]) \in Nat
    BY <1>1, <2>2, VariablesAreNumbers DEF DriverInv
  <2>4. \A k \in 1 .. Len(declared) :
           /\ EmittedOf[k] = Emitted(declared[k]) /\ EmittedOf[k] \in Nat /\ EmittedOf[k] \in Int
           /\ DumpedOf[k] = EmittedOf[k]
    BY <2>2, <2>3 DEF EmittedOf, DumpedOf
  <2>5. \A k \in 1 .. Len(declared) : ReservedOf[k] = EmittedOf[k]
    <3> SUFFICES ASSUME NEW k \in 1 .. Len(declared)
                 PROVE  Reserved(declared[k]) = Emitted(declared[k])
      BY <2>4 DEF ReservedOf
    <3>1. declared[k] \in Declarable
      BY <2>3, ElementOfSeq DEF DeclaredInv
    <3>2. declared[k].type \in Types \ {"U64", "S64"}
      BY <2>3, <3>1, DeclarableAssumption, DescribedParts DEF Wide
    <3>3. SizeInBytes(declared[k].type) = EmittedBytesOf(declared[k].type)
      BY <3>2 DEF Types, Signed, Unsigned, SizeInBytes, EmittedBytesOf
    <3> QED
      BY <3>3 DEF Reserved, Emitted
  <2>6. EmittedSum = SumOf(Len(declared), EmittedOf) /\ EmittedSum \in Nat
    BY <2>3, <2>4, EmittedIsSum, SumNat
  <2>7. ReservedSum = EmittedSum
    BY <2>3, <2>4, <2>5, <2>6, ReservedIsSum, SumSame
  <2>8. SumOf(Len(declared), DumpedOf) = EmittedSum
    BY <2>3, <2>4, <2>6, SumSame
  <2>9. PICK code \in Nat : text_sector_size = code + EmittedSum
    BY <2>2, <2>8 DEF Contained
  <2>10. text_sector_size - EmittedSum \in Nat
    BY <2>6, <2>9
  <2> QED
    BY <2>6, <2>7, <2>10, LoadsForAllSizes
<1>2. DriverInv /\ ImageInv /\ [Next]_vars => (DriverInv /\ ImageInv)'
  BY DriverInductive, ImageKeeps
<1>3. Init => DriverInv /\ ImageInv
  BY DriverInit, ImageInit
<1> QED
  BY <1>1, <1>2, <1>3, PTL DEF Spec

=============================================================================
