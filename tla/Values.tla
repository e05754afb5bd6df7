------------------------------- MODULE Values -------------------------------
(***************************************************************************)
(* The types of variables, and what a declared value becomes: can_fit and  *)
(* the sizes of eaxhla.c, the dump of compile.c, and the bytes that        *)
(* inset_immediate makes of an element.                                    *)
(*                                                                         *)
(* All ranges in the code are powers of two, so a number is its sign and   *)
(* the number of bits it needs: n bits are 0 .. 2^n - 1, or -2^n .. -1     *)
(* when it is negative.                                                    *)
(***************************************************************************)
EXTENDS Integers

Unsigned == {"U8", "U16", "U32", "U64"}
Signed   == {"S8", "S16", "S32", "S64"}
Types    == Unsigned \union Signed

Number(negative, bits) == [negative |-> negative, bits |-> bits]
None == Number(FALSE, 0)

\* type2size and size2bytes.
SizeInBytes(type) ==
    CASE type \in {"U8", "S8"}   -> 1
      [] type \in {"U16", "S16"} -> 2
      [] type \in {"U32", "S32"} -> 4
      [] type \in {"U64", "S64"} -> 8

\* inset_immediate emits the bytes of a D64 as those of a D32.
EmittedBytesOf(type) == IF SizeInBytes(type) = 8 THEN 4 ELSE SizeInBytes(type)

\* The bits of the largest value of a type, as can_fit has it, and of the smallest.
\* Mutant: the largest byte taken for one of seven bits.
MostOfSigned(type) ==
    CASE type = "U8" -> 7 [] type = "U16" -> 16 [] type = "U32" -> 32 [] type = "U64" -> 63
      [] type = "S8" -> 7 [] type = "S16" -> 8  [] type = "S32" -> 16 [] type = "S64" -> 32

Most(type) ==
    CASE type = "U8" -> 8 [] type = "U16" -> 16 [] type = "U32" -> 32 [] type = "U64" -> 63
      [] type = "S8" -> 7 [] type = "S16" -> 8  [] type = "S32" -> 16 [] type = "S64" -> 32

Least(type) == IF type \in Signed THEN Most(type) ELSE 0

can_fit(type, value) ==
    IF value.negative THEN type \in Signed /\ value.bits <= Least(type)
    ELSE value.bits <= Most(type)

-----------------------------------------------------------------------------
(***************************************************************************)
(* A variable as it is declared: its type, how many elements, and what is  *)
(* given for its value, a number or a literal of some length.              *)
(***************************************************************************)
Variable(type, elements, given, number, length) ==
    [type |-> type, elements |-> elements, given |-> given, number |-> number, length |-> length]

\* The number is there only if it is given.
Described(v) ==
    /\ v \in [type : Types, elements : Int, given : {"nothing", "number", "literal"},
              number : [negative : BOOLEAN, bits : Nat], length : Nat]
    /\ v.given # "number" => v.number = None

Scalar(type)              == Variable(type, 1, "nothing", None, 0)
Initialised(type, number) == Variable(type, 1, "number", number, 0)
Array(type, n)            == Variable(type, n, "nothing", None, 0)
Filled(type, n, length)   == Variable(type, n, "literal", None, length)

\* strtol stops at the largest long.
Clamped(number) == [number EXCEPT !.bits = IF @ > 63 THEN 63 ELSE @]

\* The bits of the address of a literal.
POINTER == Number(FALSE, 47)

\* What `value' holds: a literal of one element is taken for the number its address is.
StoredNumber(v) ==
    CASE v.given = "number" -> Clamped(v.number)
      [] v.given = "literal" -> POINTER
      [] v.given = "nothing" -> None

\* Whether the declaration gets a warning.
Warned(v) ==
    \/ v.given = "literal" /\ v.elements < v.length
    \/ v.elements = 1 /\ ~can_fit(v.type, StoredNumber(v))

\* What dump_variable_to_assembler reads the elements through.
Unreadable(v) == v.elements # 1 /\ v.given = "nothing"
ReadBehind(v) == v.elements # 1 /\ v.given = "literal" /\ v.elements > v.length

Emitted(v)  == v.elements * EmittedBytesOf(v.type)
Reserved(v) == v.elements * SizeInBytes(v.type)

-----------------------------------------------------------------------------
(***************************************************************************)
(* What the types promise.                                                 *)
(***************************************************************************)
\* Whether a number is of a type.
InRange(type, number) ==
    number.bits <= 8 * SizeInBytes(type) - (IF type \in Signed THEN 1 ELSE 0)
    /\ (number.negative => type \in Signed)

Wide(type) == type \in {"U64", "S64"}

\* Whether the variable, read as its type, may have another value than it was declared with.
\* Four bytes are emitted for a wide one, and its upper half is zero if nothing is behind
\* them; if it is followed by a variable, its upper half is that one's value.
Lost(v, followed) ==
    /\ v.elements = 1
    /\ \/ v.given = "literal"
       \/ ~InRange(v.type, v.number)
       \/ Wide(v.type) /\ (followed \/ v.number.negative \/ v.number.bits > 32)

\* The declarations whose value is lost without a warning.
LostSilently(v, followed) ==
    \/ v.type = "U64" /\ v.given = "literal" /\ v.length <= 1
    \/ v.type = "U64" /\ v.given # "literal" /\ ~v.number.negative
       /\ (followed \/ v.number.bits > 32)
    \/ v.type = "S64" /\ v.given # "literal" /\ v.number.bits <= 32
       /\ (followed \/ v.number.negative)

\* Those that are warned of and right.
WarnedOfWrongly(v) ==
    \/ v.type = "S16" /\ v.number.bits \in 9 .. 15
    \/ v.type = "S32" /\ v.number.bits \in 17 .. 31

=============================================================================
