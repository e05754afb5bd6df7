------------------------------- MODULE Arena -------------------------------
(***************************************************************************)
(* The arena of arena.h: aalloc hands out blocks of zeroed chunks and      *)
(* never takes one back.                                                   *)
(***************************************************************************)
EXTENDS Integers, Sequences

CONSTANTS
    ARENA_CHUNK,    \* The bytes of a chunk.
    Requests        \* The sizes asked for.

ASSUME ChunkAssumption == ARENA_CHUNK \in Nat \ {0}
\* Nothing checks that an empty chunk has room for a request.
ASSUME RequestsAssumption == Requests \subseteq 0 .. ARENA_CHUNK

VARIABLE arena      \* How much of each chunk is taken, and the blocks handed out.

NoArena == [chunks |-> <<>>, blocks |-> <<>>]

\* The chunks, the last of which has room.
Opened(chunks) == IF chunks = <<>> THEN <<0>> ELSE chunks

Room(chunks, size) ==
    IF chunks[Len(chunks)] + size >= ARENA_CHUNK THEN Append(chunks, 0) ELSE chunks

\* Mutant: a block is not counted.
Kept(spot, size) == spot
Taken(spot, size) == spot + size

\* The arena after aalloc(size), which returns the last of its blocks.
aalloc(a, size) ==
    LET chunks == Room(Opened(a.chunks), size)
        last   == Len(chunks)
        spot   == chunks[last]
    IN  [chunks |-> [chunks EXCEPT ![last] = Taken(spot, size)],
         blocks |-> Append(a.blocks, [chunk |-> last, spot |-> spot, size |-> size])]

ArenaInit == arena = NoArena

Allocate == \E size \in Requests : arena' = aalloc(arena, size)

ArenaSpec == ArenaInit /\ [][Allocate]_arena

-----------------------------------------------------------------------------
\* Blocks lie inside of their chunks and share no byte with each other (aalloc against
\* the sizes its callers ask for).
BlocksApart ==
    /\ \A i \in DOMAIN arena.blocks :
          LET b == arena.blocks[i]
          IN  b.chunk \in DOMAIN arena.chunks /\ b.spot + b.size <= ARENA_CHUNK
    /\ \A i, j \in DOMAIN arena.blocks :
          LET b == arena.blocks[i]
              c == arena.blocks[j]
          IN  i < j /\ b.chunk = c.chunk => b.spot + b.size <= c.spot

=============================================================================
