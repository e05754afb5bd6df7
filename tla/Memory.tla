------------------------------- MODULE Memory -------------------------------
(***************************************************************************)
(* The memory of the back end: the token array of compile.c, the text, and *)
(* the three arrays of the assembler lie side by side in one chunk of the  *)
(* arena, and nothing checks an index against the end of any.              *)
(*                                                                         *)
(* What a byte of the chunk holds is who wrote it last.  Whoever reads     *)
(* finds what was written for him if every byte is his; if not, the code   *)
(* goes on with a number of somebody else's, and the model stops at        *)
(* "misread".  A statement is as many tokens, as many bytes of code, and   *)
(* perhaps a field: what the builders make of it is in Assembler, and what *)
(* happens where they take other tokens than were appended is in Driver.   *)
(*                                                                         *)
(* The builders decide with an argument and not with an `if' whether a     *)
(* byte or a field is emitted: the place behind the last is written either *)
(* way, and the counter is advanced or not.                                *)
(***************************************************************************)
EXTENDS Arena

CONSTANTS
    TokenPlaces,    \* Of token_array, 1440.
    TextPlaces,     \* Of text_sector_byte, 4096.
    HolePlaces,     \* Of empty_array, empty_imbue and empty_store, 1024.
    Statements,     \* What is appended at once.
    MaxTokens       \* Bounds the tokens of the input.

WORD == 4           \* sizeof(unsigned)

\* A statement: how many tokens it is, the bytes it becomes, the id it gives a place to, or
\* NoId, the field it has, or NoField, and whether its builder writes fields at all.
NoId == -1
NoField == [id |-> 0, at |-> 0]

ASSUME PlacesAssumption ==
    /\ TokenPlaces \in Nat /\ TextPlaces \in Nat /\ HolePlaces \in Nat /\ MaxTokens \in Nat
    \* Enough for all the tokens there is place for, and one more.
    /\ TokenPlaces + 3 < 3 * HolePlaces

ASSUME SpaceAssumption ==
    /\ WORD * (TokenPlaces + 3 * HolePlaces) + TextPlaces < ARENA_CHUNK
    /\ WORD * MaxTokens < ARENA_CHUNK
    /\ {WORD * TokenPlaces, TextPlaces, WORD * HolePlaces} \subseteq Requests

StatementType ==
    [tokens : Nat \ {0}, bytes : Nat, place : {NoId} \union 0 .. HolePlaces - 1,
     field : [id : 0 .. HolePlaces - 1, at : Nat], builder : BOOLEAN]

Wellformed(s) ==
    /\ s \in StatementType
    /\ s.place # NoId => ~s.builder
    /\ s.field # NoField => s.builder /\ s.tokens >= 3 /\ s.field.at < s.bytes

ASSUME StatementsAssumption == \A s \in Statements : Wellformed(s)

VARIABLES
    phase,              \* What runs.
    memory,             \* For each byte of the chunk, who wrote it last.
    program,            \* The statements appended so far.
    token_count,
    built,              \* How many of the statements the first pass is through with,
    index,              \* and the token it is at.
    text_sector_size,
    empty_holes,
    holes,              \* For each hole, its id and its place in the text.
    patched             \* The hole the second pass is at.

vars_of_memory == <<arena, phase, memory, program, token_count, built, index,
                    text_sector_size, empty_holes, holes, patched>>

Phases == {"init", "parse", "dump", "text", "build", "link", "linked", "misread"}
Writers == {"zero", "token", "text", "array", "imbue", "store"}

\* The blocks, in the order in which they are asked for.
Block(n) == arena.blocks[n].spot
token_array      == Block(1)
text_sector_byte == Block(2)
empty_array      == Block(3)
empty_imbue      == Block(4)
empty_store      == Block(5)

Words(block, i, n)  == block + WORD * i .. block + WORD * (i + n) - 1
Word(block, i)      == Words(block, i, 1)
Bytes(block, i, n)  == block + i .. block + i + n - 1

\* The bytes `who' wrote.
Wrote(cells, who) == [a \in DOMAIN memory |-> IF a \in cells THEN who ELSE memory[a]]

Holds(cells, writers) == \A a \in cells \intersect DOMAIN memory : memory[a] \in writers

-----------------------------------------------------------------------------
\* Mutant: the first hole is the first place.
FirstPlace == 0
FirstHole == 1

MemoryInit ==
    /\ ArenaInit
    /\ phase = "init"
    /\ memory = [a \in 0 .. ARENA_CHUNK - 1 |-> "zero"]
    /\ program = <<>>
    /\ token_count = 0
    /\ built = 0
    /\ index = 0
    /\ text_sector_size = 0
    /\ empty_holes = FirstHole
    /\ holes = <<>>
    /\ patched = FirstHole

input_of_assemble == <<program, token_count>>
passes == <<built, index, text_sector_size, empty_holes, holes, patched>>

CompileInit ==
    /\ phase = "init" /\ phase' = "parse"
    /\ arena' = aalloc(arena, WORD * TokenPlaces)
    /\ UNCHANGED <<memory, input_of_assemble, passes>>

AppendInstructions(s) ==
    /\ phase \in {"parse", "dump"}
    /\ token_count + s.tokens <= MaxTokens
    /\ token_count' = token_count + s.tokens
    /\ program' = Append(program, s)
    /\ memory' = Wrote(Words(token_array, token_count, s.tokens), "token")
    /\ UNCHANGED <<arena, phase, passes>>

BeginDump ==
    /\ phase = "parse" /\ phase' = "dump"
    /\ UNCHANGED <<arena, memory, input_of_assemble, passes>>

EndDump ==
    /\ phase = "dump" /\ phase' = "text"
    /\ arena' = aalloc(arena, TextPlaces)
    /\ UNCHANGED <<memory, input_of_assemble, passes>>

Assemble ==
    /\ phase = "text" /\ phase' = "build"
    /\ token_count > 0
    /\ LET more(a) == aalloc(a, WORD * HolePlaces)
       IN  arena' = more(more(more(arena)))
    /\ UNCHANGED <<memory, input_of_assemble, passes>>

-----------------------------------------------------------------------------
Statement == program[built + 1]

\* A label emits nothing, not even the byte behind.
Emits(s) == s.bytes > 0 \/ s.place = NoId

\* Whether what the first pass reads next is what was appended.
TokensOfStatement == Words(token_array, index, Statement.tokens)

\* The bytes of the code, and the one behind.
EmittedBytes == Bytes(text_sector_byte, text_sector_size, Statement.bytes + 1)

Build ==
    LET s      == Statement
        fields == IF s.builder THEN Word(empty_array, empty_holes) ELSE {}
        imbues == IF s.builder THEN Word(empty_imbue, empty_holes) ELSE {}
        place  == IF s.place # NoId THEN Word(empty_store, s.place) ELSE {}
    IN  /\ phase = "build" /\ built < Len(program)
        /\ Holds(TokensOfStatement, {"token"})
        /\ memory' = [a \in DOMAIN memory |->
                        IF a \in fields THEN "array"
                        ELSE IF a \in imbues THEN "imbue"
                        ELSE IF a \in place THEN "store"
                        ELSE IF Emits(s) /\ a \in EmittedBytes THEN "text"
                        ELSE memory[a]]
        /\ text_sector_size' = text_sector_size + s.bytes
        /\ IF s.field = NoField
           THEN UNCHANGED <<empty_holes, holes>>
           ELSE /\ empty_holes' = empty_holes + 1
                /\ holes' = Append(holes, [id |-> s.field.id, at |-> text_sector_size + s.field.at])
        /\ built' = built + 1
        /\ index' = index + s.tokens
        /\ UNCHANGED <<arena, phase, input_of_assemble, patched>>

\* A token that is no longer the one that was appended; or that something emitted for
\* the statement itself reaches before it is read.
MisreadToken ==
    /\ phase = "build" /\ built < Len(program)
    /\ \/ ~Holds(TokensOfStatement, {"token"})
       \/ Emits(Statement) /\ TokensOfStatement \intersect EmittedBytes # {}
    /\ phase' = "misread"
    /\ UNCHANGED <<arena, memory, input_of_assemble, passes>>

EndBuild ==
    /\ phase = "build" /\ built = Len(program)
    /\ phase' = IF Holds(Word(empty_store, 0), {"zero", "store"}) THEN "link" ELSE "misread"
    /\ UNCHANGED <<arena, memory, input_of_assemble, passes>>

-----------------------------------------------------------------------------
Hole == holes[patched + 1 - FirstHole]

\* Mutant: the loop without its step.
Same(i) == i
Following(i) == i + 1

HoleIsIntact ==
    /\ Holds(Word(empty_array, patched), {"array"})
    /\ Holds(Word(empty_imbue, patched), {"imbue"})
    /\ Holds(Word(empty_store, Hole.id), {"zero", "store"})

\* Four bytes from the field on, whatever its width.
Patch ==
    /\ phase = "link" /\ patched < empty_holes
    /\ HoleIsIntact
    /\ memory' = Wrote(Bytes(text_sector_byte, Hole.at, WORD), "text")
    /\ patched' = Following(patched)
    /\ UNCHANGED <<arena, phase, input_of_assemble, built, index, text_sector_size,
                   empty_holes, holes>>

MisreadHole ==
    /\ phase = "link" /\ patched < empty_holes
    /\ ~HoleIsIntact
    /\ phase' = "misread"
    /\ UNCHANGED <<arena, memory, input_of_assemble, passes>>

EndLink ==
    /\ phase = "link" /\ patched = empty_holes
    /\ phase' = IF Holds(Bytes(text_sector_byte, 0, text_sector_size), {"text"})
                THEN "linked" ELSE "misread"
    /\ UNCHANGED <<arena, memory, input_of_assemble, passes>>

Assembling == Build \/ MisreadToken \/ EndBuild \/ Patch \/ MisreadHole \/ EndLink

MemoryNext ==
    \/ CompileInit
    \/ \E s \in Statements : AppendInstructions(s)
    \/ BeginDump \/ EndDump \/ Assemble
    \/ Assembling

MemorySpec == MemoryInit /\ [][MemoryNext]_vars_of_memory

-----------------------------------------------------------------------------
\* The tokens and the code stay within their own arrays.
WithinPlaces == token_count <= TokenPlaces /\ text_sector_size <= TextPlaces

\* As long as the tokens and the code have their places, all of the back end reads what
\* was written for it: the other three arrays need no limit of their own, and the bytes
\* that are written behind the end, or for nothing, meet none that counts.
ReadsAsWritten == WithinPlaces => phase # "misread"

=============================================================================
