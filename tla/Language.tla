------------------------------ MODULE Language ------------------------------
(***************************************************************************)
(* What a source program means, told from its text alone: no ids, no       *)
(* stacks, no tokens and no offsets.  It is the reference the compiler is  *)
(* compared with, from the rules of the grammar in eaxhla.y.               *)
(*                                                                         *)
(* A source is a sequence of items, one for each construct in the order of *)
(* the text.  Its meaning is a listing, as in Assembly: for each thing the *)
(* processor will find, in order, what it does; jumps, calls and operands  *)
(* name entries of the listing.  The variables come last, in any order.    *)
(***************************************************************************)
EXTENDS X86, SequencesExt

\* `name' is what is declared or referred to, or how a condition compares; `number' a level
\* of nesting, the elements of a variable, or the code of an exit.
Item(op, name, number) == [op |-> op, name |-> name, number |-> number]

Opening == {"repeat", "if"}
Closing == {"end repeat", "end if"}

Found(source, ops, i, j) == Cardinality({k \in i .. j : source[k].op \in ops})

\* The end of the block that opens at `i'.
BlockEnd(source, i) ==
    Min({j \in i + 1 .. Len(source) :
            Found(source, Opening, i, j) = Found(source, Closing, i, j)})

\* The beginning of the block that closes at `i'.
BlockBegin(source, i) ==
    CHOOSE j \in 1 .. i - 1 : source[j].op \in Opening /\ BlockEnd(source, j) = i

\* The loops around `i', and the n-th of them from the inside.
LoopsAround(source, i) ==
    {j \in 1 .. i : source[j].op = "repeat" /\ BlockEnd(source, j) > i}
Loop(source, i, n) ==
    CHOOSE j \in LoopsAround(source, i) :
        Cardinality({k \in LoopsAround(source, i) : k >= j}) = n

\* The program or procedure `i' is in.
Unit(source, i) == Max({k \in 1 .. i : source[k].op \in {"program", "procedure"}})

\* What a name stands for at `i': something of the same unit, or a procedure.
Named(source, ops, i) ==
    {k \in DOMAIN source :
        /\ source[k].op \in ops
        /\ source[k].name = source[i].name
        /\ source[k].op = "procedure" \/ Unit(source, k) = Unit(source, i)}
Label(source, i)    == CHOOSE k \in Named(source, {"label", "procedure"}, i) : TRUE
Variable(source, i) == CHOOSE k \in Named(source, {"variable"}, i) : TRUE

\* A label and a procedure of one name, or a program and a procedure, whose labels and
\* variables have one scope: the text does not say which is meant.
Ambiguous(source) ==
    \E i, j \in DOMAIN source :
        /\ source[i].op \in {"label", "program"} /\ source[j].op = "procedure"
        /\ source[i].name = source[j].name

-----------------------------------------------------------------------------
Entries(op) ==
    CASE op \in {"end procedure", "end repeat", "break", "continue", "jump", "fastcall", "nop",
                 "increment", "address"} -> 1
      [] op = "condition" -> 2
      [] op = "exit"      -> 3
      [] OTHER            -> 0

\* The entry that follows what comes before `i'.
EntryOf(source, i) ==
    LET before[k \in 1 .. Len(source) + 1] ==
            IF k = 1 THEN 1 ELSE before[k - 1] + Entries(source[k - 1].op)
    IN  before[i]

EntryBehind(source, i) == EntryOf(source, i + 1)

Goto(operation, entry) == Means(operation, D32, <<Code(entry)>>)

Dword(number) == Immediate(<<number, 0, 0, 0>>)

\* A variable's entry, `order' being the variables in the order they are placed in.
VariableEntry(source, order, i) ==
    LET place == CHOOSE k \in DOMAIN order : order[k] = Variable(source, i)
    IN  EntryBehind(source, Len(source)) + place - 1

\* What a condition compares with, and the processor's jump for when it does not hold, of
\* the sixteen in their order (jo, jno, jb, jae, je, jne, ...).
Conditions == {"=", "<", ">"}
Unless(comparison) ==
    JE - 4 + CASE comparison = "=" -> 5 [] comparison = "<" -> 13 [] comparison = ">" -> 14

Meaning(source, order, i) ==
    LET item == source[i] IN
    CASE item.op = "end procedure" -> <<Means(RETN, D32, <<>>)>>
      [] item.op = "end repeat" -> <<Goto(JMP, EntryOf(source, BlockBegin(source, i)))>>
      [] item.op = "continue" -> <<Goto(JMP, EntryOf(source, Loop(source, i, item.number)))>>
      [] item.op = "break" ->
            <<Goto(JMP, EntryBehind(source, BlockEnd(source, Loop(source, i, item.number))))>>
      [] item.op = "condition" ->
            <<Means(CMP, D32, <<Register(1), Register(3)>>),
              Goto(Unless(item.name), EntryOf(source, BlockEnd(source, i - 1)))>>
      [] item.op = "jump" -> <<Goto(JMP, EntryOf(source, Label(source, i)))>>
      [] item.op = "fastcall" -> <<Goto(CALL, EntryOf(source, Label(source, i)))>>
      [] item.op = "increment" ->
            <<Means(INC, D32, <<Memory(VariableEntry(source, order, i))>>)>>
      [] item.op = "address" ->
            <<Means(MOV, D32, <<Register(6), AddressOf(VariableEntry(source, order, i))>>)>>
      [] item.op = "nop" -> <<Means(NOP, D32, <<>>)>>
      [] item.op = "exit" ->
            <<Means(MOV, D32, <<Register(0), Dword(60)>>),
              Means(MOV, D32, <<Register(7), Dword(item.number)>>),
              Means(SYSCALL, D32, <<>>)>>
      [] OTHER -> <<>>

\* A variable has the elements 1, 2 and so on.
Contents(item) ==
    Means(ASMDIRIMM, D16, <<Immediate(FlattenSeq([k \in 1 .. item.number |-> <<k, 0>>]))>>)

Listing(source, order) ==
    FlattenSeq([i \in DOMAIN source |-> Meaning(source, order, i)])
    \o [k \in DOMAIN order |-> Contents(source[order[k]])]

\* The orders the variables may be placed in.
Orders(source) == SetToSeqs({i \in DOMAIN source : source[i].op = "variable"})

\* Where execution starts, if there is a program.
Start(source) ==
    LET programs == {i \in DOMAIN source : source[i].op = "program"}
    IN  IF programs = {} THEN {} ELSE {EntryOf(source, Max(programs))}

=============================================================================
