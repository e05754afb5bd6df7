---------------------------- MODULE MemoryProofs ----------------------------
(***************************************************************************)
(* What TLAPS proves of Arena, for every size of a chunk and of requests,  *)
(* and of Memory: with any number of places, and any program               *)
(* whose tokens and code have theirs, nobody reads what was written for    *)
(* somebody else.                                                          *)
(***************************************************************************)
EXTENDS Memory, SequenceTheorems, TLAPS

Place == [chunk : Nat, spot : Nat, size : Nat]

\* Blocks lie below the end of what is taken of their chunks, each behind the earlier ones.
ArenaInv(a) ==
    /\ a \in [chunks : Seq(0 .. ARENA_CHUNK), blocks : Seq(Place)]
    /\ \A i \in DOMAIN a.blocks :
          /\ a.blocks[i].chunk \in DOMAIN a.chunks
          /\ a.blocks[i].spot + a.blocks[i].size <= a.chunks[a.blocks[i].chunk]
    /\ \A i, j \in DOMAIN a.blocks :
          i < j /\ a.blocks[i].chunk = a.blocks[j].chunk =>
              a.blocks[i].spot + a.blocks[i].size <= a.blocks[j].spot

\* What aalloc makes of the chunks: they keep what is taken of them, and the last has room.
LEMMA RoomForRequest ==
    ASSUME NEW chunks \in Seq(0 .. ARENA_CHUNK), NEW size \in 0 .. ARENA_CHUNK
    PROVE  LET room == Room(Opened(chunks), size)
           IN  /\ room \in Seq(0 .. ARENA_CHUNK) /\ Len(room) \in Nat \ {0}
               /\ DOMAIN chunks \subseteq DOMAIN room
               /\ \A k \in DOMAIN chunks : room[k] = chunks[k]
               /\ room[Len(room)] + size <= ARENA_CHUNK
<1> DEFINE some == Opened(chunks)
           room == Room(some, size)
<1>1. ARENA_CHUNK \in Nat \ {0}
  BY ChunkAssumption
<1>2. /\ some \in Seq(0 .. ARENA_CHUNK) /\ Len(some) \in Nat \ {0}
      /\ DOMAIN chunks \subseteq DOMAIN some /\ \A k \in DOMAIN chunks : some[k] = chunks[k]
  <2>1. CASE chunks = <<>>
    BY <1>1, <2>1 DEF Opened
  <2>2. CASE chunks # <<>>
    BY <2>2, EmptySeq DEF Opened
  <2> QED
    BY <2>1, <2>2
<1> HIDE DEF some
<1>3. Len(some) \in 1 .. Len(some) /\ DOMAIN some = 1 .. Len(some)
  BY <1>2, LenProperties
<1>0. some[Len(some)] \in 0 .. ARENA_CHUNK
  BY <1>2, <1>3, ElementOfSeq
<1>4. CASE some[Len(some)] + size >= ARENA_CHUNK
  <2>1. room = Append(some, 0)
    BY <1>4 DEF Room
  <2>2. /\ room \in Seq(0 .. ARENA_CHUNK) /\ Len(room) = Len(some) + 1
        /\ \A k \in 1 .. Len(some) : room[k] = some[k]
        /\ room[Len(some) + 1] = 0
    BY <1>1, <1>2, <2>1, AppendProperties
  <2>3. DOMAIN room = 1 .. Len(some) + 1
    BY <2>2, LenProperties
  <2>4. /\ DOMAIN chunks \subseteq DOMAIN room
        /\ \A k \in DOMAIN chunks : room[k] = chunks[k]
    BY <1>2, <1>3, <2>2, <2>3
  <2>5. room[Len(room)] + size <= ARENA_CHUNK
    BY <1>1, <2>2
  <2> QED
    BY <1>2, <2>2, <2>4, <2>5 DEF some
<1>5. CASE ~(some[Len(some)] + size >= ARENA_CHUNK)
  <2>1. room = some
    BY <1>5 DEF Room
  <2> QED
    BY <1>0, <1>1, <1>2, <1>5, <2>1 DEF some
<1> QED
  BY <1>4, <1>5

\* aalloc keeps the blocks apart.
LEMMA AllocateKeeps ==
    ASSUME NEW a, ArenaInv(a), NEW size \in 0 .. ARENA_CHUNK
    PROVE  /\ ArenaInv(aalloc(a, size))
           /\ Len(aalloc(a, size).blocks) = Len(a.blocks) + 1
           /\ \A i \in DOMAIN a.blocks : aalloc(a, size).blocks[i] = a.blocks[i]
           /\ aalloc(a, size).blocks[Len(a.blocks) + 1].size = size
<1> DEFINE room == Room(Opened(a.chunks), size)
           last == Len(room)
           spot == room[last]
           new  == [chunk |-> last, spot |-> spot, size |-> size]
           b    == aalloc(a, size)
<1>1. ARENA_CHUNK \in Nat \ {0} /\ a.chunks \in Seq(0 .. ARENA_CHUNK) /\ a.blocks \in Seq(Place)
  BY ChunkAssumption DEF ArenaInv
<1>2. /\ room \in Seq(0 .. ARENA_CHUNK) /\ last \in Nat \ {0}
      /\ DOMAIN a.chunks \subseteq DOMAIN room
      /\ \A k \in DOMAIN a.chunks : room[k] = a.chunks[k]
      /\ spot + size <= ARENA_CHUNK
  BY <1>1, RoomForRequest
<1> HIDE DEF room
<1>0. last \in 1 .. last
  BY <1>2
<1>3. last \in 1 .. last /\ DOMAIN room = 1 .. last /\ spot \in 0 .. ARENA_CHUNK
  BY <1>0, <1>2, LenProperties, ElementOfSeq
<1>4. spot + size \in 0 .. ARENA_CHUNK
  BY <1>1, <1>2, <1>3
<1>5. b.chunks = [room EXCEPT ![last] = spot + size] /\ b.blocks = Append(a.blocks, new)
  BY DEF aalloc, Taken, room
<1>6. new \in Place
  BY <1>2, <1>3, <1>1 DEF Place
<1>7. /\ b.blocks \in Seq(Place) /\ Len(b.blocks) = Len(a.blocks) + 1
      /\ \A i \in 1 .. Len(a.blocks) : b.blocks[i] = a.blocks[i]
      /\ b.blocks[Len(a.blocks) + 1] = new
  BY <1>1, <1>5, <1>6, AppendProperties
<1>8. /\ b.chunks \in Seq(0 .. ARENA_CHUNK) /\ DOMAIN b.chunks = 1 .. last
      /\ \A k \in 1 .. last : b.chunks[k] = IF k = last THEN spot + size ELSE room[k]
  BY <1>2, <1>3, <1>4, <1>5, ExceptSeq, LenProperties
<1>9. Len(a.blocks) \in Nat /\ DOMAIN a.blocks = 1 .. Len(a.blocks)
      /\ DOMAIN b.blocks = 1 .. Len(a.blocks) + 1
  BY <1>1, <1>7, LenProperties
<1>10. b \in [chunks : Seq(0 .. ARENA_CHUNK), blocks : Seq(Place)]
  BY <1>7, <1>8 DEF aalloc
<1> HIDE DEF b
<1>11. ASSUME NEW i \in 1 .. Len(a.blocks)
       PROVE  /\ a.blocks[i].spot \in Nat /\ a.blocks[i].size \in Nat
              /\ a.blocks[i].chunk \in 1 .. last
              /\ a.blocks[i].spot + a.blocks[i].size <= room[a.blocks[i].chunk]
              /\ room[a.blocks[i].chunk] \in Nat
  <2>1. a.blocks[i] \in Place
    BY <1>1, ElementOfSeq
  <2>2. /\ a.blocks[i].chunk \in DOMAIN a.chunks
        /\ a.blocks[i].spot + a.blocks[i].size <= a.chunks[a.blocks[i].chunk]
    BY <1>9 DEF ArenaInv
  <2>3. a.blocks[i].chunk \in 1 .. last
    BY <1>2, <1>3, <2>2
  <2>4. room[a.blocks[i].chunk] \in 0 .. ARENA_CHUNK
    BY <1>2, <2>3, ElementOfSeq
  <2>5. a.blocks[i].spot \in Nat /\ a.blocks[i].size \in Nat
    BY <2>1 DEF Place
  <2>6. room[a.blocks[i].chunk] = a.chunks[a.blocks[i].chunk]
    BY <1>2, <2>2
  <2>7. room[a.blocks[i].chunk] \in Nat
    BY <1>1, <2>4
  <2> QED
    BY <2>2, <2>3, <2>5, <2>6, <2>7
<1>12. \A i \in DOMAIN b.blocks :
          /\ b.blocks[i].chunk \in DOMAIN b.chunks
          /\ b.blocks[i].spot + b.blocks[i].size <= b.chunks[b.blocks[i].chunk]
  <2> SUFFICES ASSUME NEW i \in DOMAIN b.blocks
               PROVE  /\ b.blocks[i].chunk \in DOMAIN b.chunks
                      /\ b.blocks[i].spot + b.blocks[i].size <= b.chunks[b.blocks[i].chunk]
    OBVIOUS
  <2>1. CASE i \in 1 .. Len(a.blocks)
    <3>1. b.blocks[i] = a.blocks[i]
      BY <1>7, <2>1
    <3>2. /\ a.blocks[i].chunk \in 1 .. last
          /\ a.blocks[i].spot + a.blocks[i].size <= room[a.blocks[i].chunk]
          /\ a.blocks[i].spot + a.blocks[i].size \in Nat
      BY <1>11, <2>1
    <3>3. CASE a.blocks[i].chunk = last
      <4>1. b.chunks[a.blocks[i].chunk] = spot + size
        BY <1>8, <3>2, <3>3
      <4>2. room[a.blocks[i].chunk] = spot /\ spot \in Nat
        BY <1>1, <1>3, <3>3
      <4>3. a.blocks[i].spot + a.blocks[i].size <= spot + size
        BY <3>2, <4>2
      <4> QED
        BY <1>8, <3>1, <3>2, <4>1, <4>3
    <3>4. CASE a.blocks[i].chunk # last
      BY <1>8, <3>1, <3>2, <3>4
    <3> QED
      BY <3>3, <3>4
  <2>2. CASE i = Len(a.blocks) + 1
    <3>1. b.blocks[i] = new /\ new.chunk = last /\ new.spot = spot /\ new.size = size
      BY <1>7, <2>2
    <3>2. b.chunks[last] = spot + size /\ last \in DOMAIN b.chunks
      BY <1>3, <1>8
    <3> QED
      BY <1>3, <3>1, <3>2
  <2> QED
    BY <1>9, <2>1, <2>2
<1>13. \A i, j \in DOMAIN b.blocks :
          i < j /\ b.blocks[i].chunk = b.blocks[j].chunk =>
              b.blocks[i].spot + b.blocks[i].size <= b.blocks[j].spot
  <2> SUFFICES ASSUME NEW i \in DOMAIN b.blocks, NEW j \in DOMAIN b.blocks,
                      i < j, b.blocks[i].chunk = b.blocks[j].chunk
               PROVE  b.blocks[i].spot + b.blocks[i].size <= b.blocks[j].spot
    OBVIOUS
  <2>1. i \in 1 .. Len(a.blocks) /\ b.blocks[i] = a.blocks[i]
    BY <1>7, <1>9
  <2>2. CASE j \in 1 .. Len(a.blocks)
    BY <1>7, <1>9, <2>1, <2>2 DEF ArenaInv
  <2>3. CASE j = Len(a.blocks) + 1
    <3>1. b.blocks[j] = new /\ new.chunk = last /\ new.spot = spot
      BY <1>7, <2>3
    <3>2. a.blocks[i].chunk = last
      BY <2>1, <3>1
    <3> QED
      BY <1>11, <2>1, <3>1, <3>2
  <2> QED
    BY <1>9, <2>2, <2>3
<1> QED
  BY <1>7, <1>9, <1>10, <1>12, <1>13 DEF ArenaInv, b

\* Blocks that lie below what is taken of their chunks are apart.
LEMMA InvApart ==
    ArenaInv(arena) => BlocksApart
<1> SUFFICES ASSUME ArenaInv(arena) PROVE BlocksApart
  OBVIOUS
<1>1. ARENA_CHUNK \in Nat /\ arena.chunks \in Seq(0 .. ARENA_CHUNK) /\ arena.blocks \in Seq(Place)
  BY ChunkAssumption DEF ArenaInv
<1>2. ASSUME NEW i \in DOMAIN arena.blocks
      PROVE  /\ arena.blocks[i].chunk \in DOMAIN arena.chunks
             /\ arena.blocks[i].spot + arena.blocks[i].size <= ARENA_CHUNK
  <2>1. arena.blocks[i] \in Place
    BY <1>1
  <2>2. arena.chunks[arena.blocks[i].chunk] \in 0 .. ARENA_CHUNK
    BY <1>1 DEF ArenaInv
  <2> QED
    BY <1>1, <2>1, <2>2 DEF ArenaInv, Place
<1> QED
  BY <1>2 DEF BlocksApart, ArenaInv

(***************************************************************************)
(* The blocks aalloc hands out never share a byte and never leave their    *)
(* chunk, for every size of a chunk and requests that fit into one.        *)
(***************************************************************************)
THEOREM AllocatedApart == ArenaSpec => []BlocksApart
<1>1. ArenaInit => ArenaInv(arena)
  BY ChunkAssumption DEF ArenaInit, NoArena, ArenaInv
<1>2. ArenaInv(arena) /\ [Allocate]_arena => ArenaInv(arena)'
  <2> SUFFICES ASSUME ArenaInv(arena), [Allocate]_arena PROVE ArenaInv(arena)'
    OBVIOUS
  <2>1. CASE Allocate
    <3>1. PICK size \in Requests : arena' = aalloc(arena, size)
      BY <2>1 DEF Allocate
    <3>2. size \in 0 .. ARENA_CHUNK
      BY RequestsAssumption
    <3>3. ArenaInv(aalloc(arena, size))
      BY <3>2, AllocateKeeps
    <3> QED
      BY <3>1, <3>3 DEF ArenaInv
  <2>2. CASE UNCHANGED arena
    BY <2>2 DEF ArenaInv
  <2> QED
    BY <2>1, <2>2
<1> QED
  BY <1>1, <1>2, InvApart, PTL DEF ArenaSpec

-----------------------------------------------------------------------------
\* The sizes are numbers, and the five blocks fit into one chunk.
LEMMA Sizes ==
    /\ TokenPlaces \in Nat /\ TextPlaces \in Nat /\ HolePlaces \in Nat \ {0}
    /\ MaxTokens \in Nat /\ ARENA_CHUNK \in Nat \ {0} /\ WORD = 4 /\ FirstHole = 1
    /\ TokenPlaces + 3 < 3 * HolePlaces
    /\ 4 * TokenPlaces + TextPlaces + 12 * HolePlaces < ARENA_CHUNK
    /\ 4 * MaxTokens < ARENA_CHUNK
<1>1. TokenPlaces \in Nat /\ HolePlaces \in Nat /\ TokenPlaces + 3 < 3 * HolePlaces
  BY PlacesAssumption
<1>2. HolePlaces \in Nat \ {0}
  BY <1>1
<1> QED
  BY <1>1, <1>2, PlacesAssumption, SpaceAssumption, ChunkAssumption DEF WORD, FirstHole

-----------------------------------------------------------------------------
(***************************************************************************)
(* The layout: one chunk, and in it one block behind the other.            *)
(***************************************************************************)
TokenEnd  == 4 * TokenPlaces
TextEnd   == TokenEnd + TextPlaces
ArrayEnd  == TextEnd + 4 * HolePlaces
ImbueEnd  == ArrayEnd + 4 * HolePlaces
StoreEnd  == ImbueEnd + 4 * HolePlaces

\* One chunk, of which `top' bytes are taken, and n blocks.
OneChunk(a, n, top) ==
    /\ a.chunks \in Seq(Nat) /\ Len(a.chunks) = 1 /\ a.chunks[1] = top
    /\ a.blocks \in Seq(Place) /\ Len(a.blocks) = n

\* The ends of the blocks are numbers, in their order.
LEMMA Ends ==
    /\ TokenEnd \in Nat /\ TextEnd \in Nat /\ ArrayEnd \in Nat /\ ImbueEnd \in Nat
    /\ StoreEnd \in Nat /\ StoreEnd < ARENA_CHUNK
    /\ TokenEnd = 4 * TokenPlaces /\ TextEnd = TokenEnd + TextPlaces
    /\ ArrayEnd = TextEnd + 4 * HolePlaces /\ ImbueEnd = ArrayEnd + 4 * HolePlaces
    /\ StoreEnd = ImbueEnd + 4 * HolePlaces
BY Sizes DEF TokenEnd, TextEnd, ArrayEnd, ImbueEnd, StoreEnd

\* A request that leaves room in the chunk is given the place behind the last one.
LEMMA AllocateBehind ==
    ASSUME NEW a, NEW n \in Nat, NEW top \in Nat, NEW size \in Nat, NEW b,
           OneChunk(a, n, top), top + size < ARENA_CHUNK, b = aalloc(a, size)
    PROVE  /\ OneChunk(b, n + 1, top + size)
           /\ b.blocks[n + 1].spot = top
           /\ \A i \in 1 .. n : b.blocks[i] = a.blocks[i]
<1> DEFINE new == [chunk |-> 1, spot |-> top, size |-> size]
<1>1. a.chunks \in Seq(Nat) /\ Len(a.chunks) = 1 /\ a.chunks[1] = top
  BY DEF OneChunk
<1>2. a.chunks # <<>>
  BY <1>1, EmptySeq
<1>3. Opened(a.chunks) = a.chunks
  BY <1>2 DEF Opened
<1>4. ~(a.chunks[Len(a.chunks)] + size >= ARENA_CHUNK)
  BY <1>1, Sizes
<1>5. Room(Opened(a.chunks), size) = a.chunks
  BY <1>3, <1>4 DEF Room
<1>6. b.chunks = [a.chunks EXCEPT ![1] = top + size] /\ b.blocks = Append(a.blocks, new)
  BY <1>1, <1>5 DEF aalloc, Taken
<1>7. b.chunks \in Seq(Nat) /\ Len(b.chunks) = 1 /\ b.chunks[1] = top + size
  BY <1>1, <1>6, ExceptSeq, LenProperties
<1>8. new \in Place /\ a.blocks \in Seq(Place) /\ Len(a.blocks) = n
  BY DEF Place, OneChunk
<1>9. /\ b.blocks \in Seq(Place) /\ Len(b.blocks) = n + 1
      /\ \A i \in 1 .. n : b.blocks[i] = a.blocks[i]
      /\ b.blocks[n + 1] = new
  BY <1>6, <1>8, AppendProperties
<1> QED
  BY <1>7, <1>9 DEF OneChunk

\* The first request opens the chunk.
LEMMA AllocateFirst ==
    ASSUME NEW size \in Nat, size < ARENA_CHUNK
    PROVE  /\ OneChunk(aalloc(NoArena, size), 1, size)
           /\ aalloc(NoArena, size).blocks[1].spot = 0
<1> DEFINE b == aalloc(NoArena, size)
           new == [chunk |-> 1, spot |-> 0, size |-> size]
<1>1. NoArena.chunks = <<>> /\ NoArena.blocks = <<>> /\ Opened(<<>>) = <<0>>
  BY DEF NoArena, Opened
<1>2. <<0>> \in Seq(Nat) /\ Len(<<0>>) = 1 /\ <<0>>[1] = 0
  OBVIOUS
<1>3. Room(<<0>>, size) = <<0>>
  BY <1>2, Sizes DEF Room
<1>4. b.chunks = [<<0>> EXCEPT ![1] = 0 + size] /\ b.blocks = Append(<<>>, new)
  BY <1>1, <1>2, <1>3 DEF aalloc, Taken
<1> HIDE DEF b
<1>5. b.chunks \in Seq(Nat) /\ Len(b.chunks) = 1 /\ b.chunks[1] = size
  BY <1>2, <1>4, ExceptSeq, LenProperties
<1>6. new \in Place /\ <<>> \in Seq(Place) /\ Len(<<>>) = 0
  BY DEF Place
<1>7. b.blocks \in Seq(Place) /\ Len(b.blocks) = 1 /\ b.blocks[1] = new
  BY <1>4, <1>6, AppendProperties
<1> QED
  BY <1>5, <1>7 DEF OneChunk, b

-----------------------------------------------------------------------------
(***************************************************************************)
(* The invariant.                                                          *)
(***************************************************************************)
HoleType == [id : 0 .. HolePlaces - 1, at : Nat]

Typed ==
    /\ phase \in Phases
    /\ memory \in [0 .. ARENA_CHUNK - 1 -> Writers]
    /\ program \in Seq(StatementType)
    /\ \A k \in 1 .. Len(program) : Wellformed(program[k])
    /\ token_count \in 0 .. MaxTokens
    /\ built \in 0 .. Len(program)
    /\ index \in Nat
    /\ text_sector_size \in Nat
    /\ empty_holes \in Nat \ {0}
    /\ patched \in Nat \ {0} /\ patched <= empty_holes
    /\ holes \in Seq(HoleType) /\ Len(holes) = empty_holes - 1

Early == {"init", "parse", "dump", "text"}     \* the first pass

\* Where the blocks are.
Placed ==
    /\ phase = "init" => arena = NoArena
    /\ phase \in {"parse", "dump"} => OneChunk(arena, 1, TokenEnd) /\ token_array = 0
    /\ phase = "text" =>
          OneChunk(arena, 2, TextEnd) /\ token_array = 0 /\ text_sector_byte = TokenEnd
    /\ phase \in {"build", "link"} =>
          /\ token_array = 0 /\ text_sector_byte = TokenEnd
          /\ empty_array = TextEnd /\ empty_imbue = ArrayEnd /\ empty_store = ImbueEnd

\* Up to the first pass there is nothing in memory but tokens.
OnlyTokens ==
    phase \in Early =>
        /\ built = 0 /\ index = 0 /\ text_sector_size = 0
        /\ empty_holes = 1 /\ patched = 1
        /\ \A a \in 0 .. ARENA_CHUNK - 1 :
              memory[a] = IF a < 4 * token_count THEN "token" ELSE "zero"
        /\ phase = "init" => token_count = 0

\* The tokens of the statements up to each of them add up to all there are, and to what the
\* first pass has read.
Sums(sum) ==
    /\ sum \in [0 .. Len(program) -> Nat]
    /\ \A k \in 1 .. Len(program) : sum[k] = sum[k - 1] + program[k].tokens
    /\ \A k \in 0 .. Len(program) : sum[k] <= sum[Len(program)]
    /\ sum[Len(program)] = token_count
    /\ sum[built] = index

Counted == \E sum : Sums(sum)

\* What the passes will read is what was written for them.
Intact ==
    /\ 3 * (empty_holes - 1) <= index /\ index <= token_count
    /\ phase = "build" => \A a \in 0 .. 4 * token_count - 1 : memory[a] = "token"
    /\ \A a \in TokenEnd .. TokenEnd + text_sector_size - 1 : memory[a] = "text"
    /\ \A a \in TextEnd + 4 .. TextEnd + 4 * empty_holes - 1 : memory[a] = "array"
    /\ \A a \in ArrayEnd + 4 .. ArrayEnd + 4 * empty_holes - 1 : memory[a] = "imbue"
    /\ \A a \in ImbueEnd .. StoreEnd - 1 : memory[a] \in {"zero", "store"}
    /\ \A k \in 1 .. Len(holes) : holes[k].at < text_sector_size

IntactWithin == phase \in {"build", "link"} /\ WithinPlaces => Intact

MemoryInv ==
    /\ Typed /\ Placed /\ OnlyTokens /\ Counted /\ IntactWithin
    /\ ReadsAsWritten

\* The program starts with nothing.
LEMMA InitHolds == MemoryInit => MemoryInv
<1> SUFFICES ASSUME MemoryInit PROVE MemoryInv
  OBVIOUS
<1> USE Sizes DEF MemoryInit, ArenaInit
<1>1. Typed
  BY DEF Typed, Phases, Writers
<1>2. Placed
  BY DEF Placed
<1>3. OnlyTokens
  BY DEF OnlyTokens
<1>4. Counted
  <2>1. Sums([k \in 0 .. 0 |-> 0])
    BY DEF Sums
  <2> QED
    BY <2>1 DEF Counted
<1>5. IntactWithin /\ ReadsAsWritten
  BY DEF IntactWithin, ReadsAsWritten
<1> QED
  BY <1>1, <1>2, <1>3, <1>4, <1>5 DEF MemoryInv

\* Nothing changes.
LEMMA StutterKeeps == MemoryInv /\ UNCHANGED vars_of_memory => MemoryInv'
<1> SUFFICES ASSUME MemoryInv, UNCHANGED vars_of_memory PROVE MemoryInv'
  OBVIOUS
<1> USE DEF MemoryInv, vars_of_memory
<1>1. Typed'
  BY DEF Typed
<1>2. Placed'
  BY DEF Placed, token_array, text_sector_byte, empty_array, empty_imbue, empty_store, Block
<1>3. OnlyTokens'
  BY DEF OnlyTokens
<1>4. Counted'
  BY DEF Counted, Sums
<1>5. IntactWithin' /\ ReadsAsWritten'
  BY DEF IntactWithin, Intact, ReadsAsWritten, WithinPlaces
<1> QED
  BY <1>1, <1>2, <1>3, <1>4, <1>5
-----------------------------------------------------------------------------
(***************************************************************************)
(* The parser and compile.                                                 *)
(***************************************************************************)
\* The token array is the first block.
LEMMA CompileInitKeeps == MemoryInv /\ CompileInit => MemoryInv'
<1> SUFFICES ASSUME MemoryInv, CompileInit PROVE MemoryInv'
  OBVIOUS
<1> USE DEF MemoryInv, CompileInit, input_of_assemble, passes
<1>1. Typed'
  BY DEF Typed, Phases
<1>2. Placed'
  <2>1. arena = NoArena /\ WORD * TokenPlaces = TokenEnd
    BY Sizes DEF Placed, TokenEnd
  <2>2. OneChunk(arena', 1, TokenEnd) /\ arena'.blocks[1].spot = 0
    BY <2>1, Sizes, Ends, AllocateFirst
  <2> QED
    BY <2>2 DEF Placed, OneChunk, token_array, Block
<1>3. OnlyTokens'
  BY DEF OnlyTokens, Early
<1>4. Counted'
  BY DEF Counted, Sums
<1>5. IntactWithin' /\ ReadsAsWritten'
  BY DEF IntactWithin, ReadsAsWritten
<1> QED
  BY <1>1, <1>2, <1>3, <1>4, <1>5

\* The sums of a program with one more statement.
LEMMA SumsAppend ==
    ASSUME Typed, Counted, built = 0, NEW s \in StatementType,
           program' = Append(program, s), token_count' = token_count + s.tokens,
           UNCHANGED <<built, index>>
    PROVE  Counted'
<1> DEFINE n == Len(program)
<1>1. PICK sum : Sums(sum)
  BY DEF Counted
<1> DEFINE more == [k \in 0 .. n + 1 |-> IF k <= n THEN sum[k] ELSE sum[n] + s.tokens]
<1>2. n \in Nat /\ program \in Seq(StatementType) /\ s.tokens \in Nat
  BY DEF Typed, StatementType
<1>3. /\ Len(program') = n + 1 /\ program'[n + 1] = s
      /\ \A k \in 1 .. n : program'[k] = program[k]
  BY <1>2, AppendProperties
<1>4. \A k \in 0 .. n : more[k] = sum[k] /\ sum[k] \in Nat /\ sum[k] <= sum[n]
  BY <1>1, <1>2 DEF Sums
<1>5. more[n + 1] = sum[n] + s.tokens /\ sum[n] = token_count /\ sum[n] \in Nat
  <2>1. n + 1 \in 0 .. n + 1 /\ ~(n + 1 <= n) /\ n \in 0 .. n
    BY <1>2
  <2> QED
    BY <1>1, <2>1 DEF Sums
<1>6. more \in [0 .. n + 1 -> Nat]
  <2>1. ASSUME NEW k \in 0 .. n + 1
        PROVE  (IF k <= n THEN sum[k] ELSE sum[n] + s.tokens) \in Nat
    <3>1. CASE k <= n
      <4>1. k \in 0 .. n
        BY <1>2, <3>1
      <4> QED
        BY <1>4, <3>1, <4>1
    <3>2. CASE ~(k <= n)
      BY <1>2, <1>5, <3>2
    <3> QED
      BY <3>1, <3>2
  <2> QED
    BY <2>1
<1> HIDE DEF more
<1>7. \A k \in 1 .. n + 1 : more[k] = more[k - 1] + program'[k].tokens
  <2> SUFFICES ASSUME NEW k \in 1 .. n + 1 PROVE more[k] = more[k - 1] + program'[k].tokens
    OBVIOUS
  <2>1. CASE k \in 1 .. n
    <3>1. k - 1 \in 0 .. n /\ k \in 0 .. n
      BY <1>2, <2>1
    <3>2. sum[k] = sum[k - 1] + program[k].tokens
      BY <1>1, <2>1 DEF Sums
    <3> QED
      BY <1>3, <1>4, <2>1, <3>1, <3>2
  <2>2. CASE k = n + 1
    <3>1. k - 1 = n /\ n \in 0 .. n
      BY <1>2, <2>2
    <3> QED
      BY <1>3, <1>4, <1>5, <2>2, <3>1
  <2> QED
    BY <1>2, <2>1, <2>2
<1>8. \A k \in 0 .. n + 1 : more[k] <= more[n + 1]
  BY <1>2, <1>4, <1>5
<1>9. more[n + 1] = token_count' /\ more[built'] = index'
  <2>1. 0 \in 0 .. n /\ sum[built] = index
    BY <1>1, <1>2 DEF Sums
  <2> QED
    BY <1>4, <1>5, <2>1
<1> QED
  BY <1>3, <1>6, <1>7, <1>8, <1>9 DEF Counted, Sums

\* Tokens are written behind the tokens.
LEMMA AppendKeeps ==
    ASSUME NEW s, Wellformed(s), MemoryInv, AppendInstructions(s)
    PROVE  MemoryInv'
<1> USE DEF MemoryInv
<1>1. /\ phase \in {"parse", "dump"} /\ phase \in Early
      /\ token_count' = token_count + s.tokens
      /\ token_count' <= MaxTokens /\ program' = Append(program, s)
      /\ UNCHANGED <<arena, phase, passes>>
  BY DEF AppendInstructions, Early
<1>2. s \in StatementType /\ s.tokens \in Nat /\ token_count \in Nat /\ MaxTokens \in Nat
  BY Sizes DEF Wellformed, StatementType, Typed
<1>3. /\ program' \in Seq(StatementType) /\ Len(program') = Len(program) + 1
      /\ \A k \in 1 .. Len(program) : program'[k] = program[k]
      /\ program'[Len(program) + 1] = s
  BY <1>1, <1>2, AppendProperties DEF Typed
<1>4. ASSUME NEW a \in 0 .. ARENA_CHUNK - 1
      PROVE  memory'[a] = IF a < 4 * token_count' THEN "token" ELSE "zero"
  <2>1. token_array = 0 /\ WORD = 4
    BY <1>1, Sizes DEF Placed
  <2>0. /\ memory' = Wrote(Words(token_array, token_count, s.tokens), "token")
        /\ a \in DOMAIN memory
    BY DEF AppendInstructions, Typed
  <2>2. memory'[a] = IF a \in 4 * token_count .. 4 * (token_count + s.tokens) - 1
                     THEN "token" ELSE memory[a]
    <3>1. Words(token_array, token_count, s.tokens)
            = 4 * token_count .. 4 * (token_count + s.tokens) - 1
      BY <1>2, <2>1 DEF Words
    <3> QED
      BY <2>0, <3>1 DEF Wrote
  <2>3. memory[a] = IF a < 4 * token_count THEN "token" ELSE "zero"
    BY <1>1 DEF OnlyTokens
  <2> QED
    BY <1>1, <1>2, <2>2, <2>3
<1>5. DOMAIN memory' = 0 .. ARENA_CHUNK - 1
  BY DEF AppendInstructions, Wrote, Typed
<1>6. Typed'
  <2>1. memory' \in [0 .. ARENA_CHUNK - 1 -> Writers]
    <3>1. memory' = [a \in DOMAIN memory' |-> memory'[a]]
      BY DEF AppendInstructions, Wrote
    <3> QED
      BY <1>4, <1>5, <3>1 DEF Writers
  <2>2. \A k \in 1 .. Len(program') : Wellformed(program'[k])
    <3> SUFFICES ASSUME NEW k \in 1 .. Len(program') PROVE Wellformed(program'[k])
      OBVIOUS
    <3>1. Len(program) \in Nat
      BY DEF Typed
    <3>2. CASE k \in 1 .. Len(program)
      BY <1>3, <3>2 DEF Typed
    <3>3. CASE k = Len(program) + 1
      BY <1>3, <3>3
    <3> QED
      BY <1>3, <3>1, <3>2, <3>3
  <2>3. token_count' \in 0 .. MaxTokens
    BY <1>1, <1>2
  <2>4. built' \in 0 .. Len(program')
    BY <1>1, <1>3 DEF OnlyTokens, passes
  <2> QED
    BY <1>1, <1>3, <2>1, <2>2, <2>3, <2>4 DEF Typed, passes
<1>7. Placed'
  BY <1>1 DEF Placed, token_array, Block
<1>8. OnlyTokens'
  BY <1>1, <1>4 DEF OnlyTokens, passes
<1>9. Counted'
  BY <1>1, <1>2, SumsAppend DEF OnlyTokens, passes
<1>10. IntactWithin' /\ ReadsAsWritten'
  BY <1>1 DEF IntactWithin, ReadsAsWritten
<1> QED
  BY <1>6, <1>7, <1>8, <1>9, <1>10

\* compile follows the parser.
LEMMA BeginDumpKeeps == MemoryInv /\ BeginDump => MemoryInv'
<1> SUFFICES ASSUME MemoryInv, BeginDump PROVE MemoryInv'
  OBVIOUS
<1> USE DEF MemoryInv, BeginDump, input_of_assemble, passes
<1>1. Typed' /\ OnlyTokens'
  BY DEF Typed, Phases, OnlyTokens, Early
<1>2. Placed'
  BY DEF Placed, token_array, Block
<1>3. Counted'
  BY DEF Counted, Sums
<1>4. IntactWithin' /\ ReadsAsWritten'
  BY DEF IntactWithin, ReadsAsWritten
<1> QED
  BY <1>1, <1>2, <1>3, <1>4

\* The text is the second block.
LEMMA EndDumpKeeps == MemoryInv /\ EndDump => MemoryInv'
<1> SUFFICES ASSUME MemoryInv, EndDump PROVE MemoryInv'
  OBVIOUS
<1> USE DEF MemoryInv, EndDump, input_of_assemble, passes
<1>1. Typed' /\ OnlyTokens'
  BY DEF Typed, Phases, OnlyTokens, Early
<1>2. Placed'
  <2>1. OneChunk(arena, 1, TokenEnd) /\ arena.blocks[1].spot = 0
    BY DEF Placed, token_array, Block
  <2>2. PICK b : b = aalloc(arena, TextPlaces) /\ arena' = b
    OBVIOUS
  <2>3. /\ OneChunk(b, 1 + 1, TokenEnd + TextPlaces)
        /\ b.blocks[1 + 1].spot = TokenEnd
        /\ \A i \in 1 .. 1 : b.blocks[i] = arena.blocks[i]
    <3>1. TokenEnd \in Nat /\ TextPlaces \in Nat /\ TokenEnd + TextPlaces < ARENA_CHUNK
      BY Sizes, Ends
    <3> HIDE DEF MemoryInv, EndDump, input_of_assemble, passes
    <3> QED
      BY <2>1, <2>2, <3>1, AllocateBehind
  <2>4. /\ OneChunk(arena', 2, TextEnd)
        /\ arena'.blocks[2].spot = TokenEnd /\ arena'.blocks[1] = arena.blocks[1]
    BY <2>2, <2>3, Ends
  <2> QED
    BY <2>1, <2>4 DEF Placed, token_array, text_sector_byte, Block
<1>3. Counted'
  BY DEF Counted, Sums
<1>4. IntactWithin' /\ ReadsAsWritten'
  BY DEF IntactWithin, ReadsAsWritten
<1> QED
  BY <1>1, <1>2, <1>3, <1>4

\* The three arrays of the assembler are the other blocks, and are zero.
LEMMA AssembleKeeps == MemoryInv /\ Assemble => MemoryInv'
<1> SUFFICES ASSUME MemoryInv, Assemble PROVE MemoryInv'
  OBVIOUS
<1> USE DEF MemoryInv
<1>1. /\ phase = "text" /\ phase' = "build" /\ phase \in Early
      /\ UNCHANGED <<memory, input_of_assemble, passes>>
  BY DEF Assemble, Early
<1>2. Typed' /\ OnlyTokens' /\ Counted'
  BY <1>1 DEF Typed, Phases, OnlyTokens, Early, Counted, Sums, input_of_assemble, passes
<1>3. Placed'
  <2> DEFINE size == WORD * HolePlaces
  <2>1. PICK a3, a4 :
          a3 = aalloc(arena, size) /\ a4 = aalloc(a3, size) /\ arena' = aalloc(a4, size)
    BY DEF Assemble
  <2>2. size \in Nat /\ size = 4 * HolePlaces
    BY Sizes
  <2> HIDE DEF size
  <2>3. /\ OneChunk(arena, 2, TextEnd)
        /\ arena.blocks[1].spot = 0 /\ arena.blocks[2].spot = TokenEnd
    BY <1>1 DEF Placed, token_array, text_sector_byte, Block
  <2>4. TextEnd + size < ARENA_CHUNK /\ ArrayEnd = TextEnd + size /\ TextEnd \in Nat
    BY <2>2, Sizes, Ends
  <2>5. ArrayEnd + size < ARENA_CHUNK /\ ImbueEnd = ArrayEnd + size /\ ArrayEnd \in Nat
    BY <2>2, Sizes, Ends
  <2>6. ImbueEnd + size < ARENA_CHUNK /\ StoreEnd = ImbueEnd + size /\ ImbueEnd \in Nat
    BY <2>2, Sizes, Ends
  <2>7. /\ OneChunk(a3, 2 + 1, TextEnd + size) /\ a3.blocks[2 + 1].spot = TextEnd
        /\ \A i \in 1 .. 2 : a3.blocks[i] = arena.blocks[i]
    BY <2>1, <2>2, <2>3, <2>4, AllocateBehind
  <2>8. /\ OneChunk(a3, 3, ArrayEnd) /\ a3.blocks[3].spot = TextEnd
        /\ a3.blocks[1] = arena.blocks[1] /\ a3.blocks[2] = arena.blocks[2]
    BY <2>4, <2>7
  <2>9. /\ OneChunk(a4, 3 + 1, ArrayEnd + size) /\ a4.blocks[3 + 1].spot = ArrayEnd
        /\ \A i \in 1 .. 3 : a4.blocks[i] = a3.blocks[i]
    BY <2>1, <2>2, <2>5, <2>8, AllocateBehind
  <2>10. /\ OneChunk(a4, 4, ImbueEnd) /\ a4.blocks[4].spot = ArrayEnd
         /\ a4.blocks[1] = a3.blocks[1] /\ a4.blocks[2] = a3.blocks[2]
         /\ a4.blocks[3] = a3.blocks[3]
    BY <2>5, <2>9
  <2>11. /\ arena'.blocks[4 + 1].spot = ImbueEnd
         /\ \A i \in 1 .. 4 : arena'.blocks[i] = a4.blocks[i]
    BY <2>1, <2>2, <2>6, <2>10, AllocateBehind
  <2>12. /\ arena'.blocks[1].spot = 0 /\ arena'.blocks[2].spot = TokenEnd
         /\ arena'.blocks[3].spot = TextEnd /\ arena'.blocks[4].spot = ArrayEnd
         /\ arena'.blocks[5].spot = ImbueEnd
    BY <2>3, <2>8, <2>10, <2>11
  <2> QED
    BY <1>1, <2>12
       DEF Placed, token_array, text_sector_byte, empty_array, empty_imbue, empty_store, Block
<1>4. IntactWithin'
  <2> SUFFICES ASSUME WithinPlaces' PROVE Intact'
    BY DEF IntactWithin
  <2>1. /\ index' = 0 /\ text_sector_size' = 0 /\ empty_holes' = 1 /\ Len(holes') = 0
        /\ token_count' = token_count /\ memory' = memory
    BY <1>1 DEF OnlyTokens, Typed, input_of_assemble, passes
  <2>2. token_count \in Nat /\ token_count <= TokenPlaces
    BY <2>1, Sizes DEF Typed, WithinPlaces
  <2>3. \A a \in 0 .. ARENA_CHUNK - 1 :
          memory'[a] = IF a < 4 * token_count THEN "token" ELSE "zero"
    BY <1>1, <2>1 DEF OnlyTokens
  <2>4. \A a \in 0 .. 4 * token_count' - 1 : memory'[a] = "token"
    BY <2>1, <2>2, <2>3, Sizes
  <2>5. \A a \in ImbueEnd .. StoreEnd - 1 : memory'[a] \in {"zero", "store"}
    BY <2>2, <2>3, Sizes, Ends
  <2> QED
    BY <2>1, <2>2, <2>4, <2>5, Ends DEF Intact
<1>5. ReadsAsWritten'
  BY <1>1 DEF ReadsAsWritten
<1> QED
  BY <1>2, <1>3, <1>4, <1>5

-----------------------------------------------------------------------------
(***************************************************************************)
(* The first pass.                                                         *)
(***************************************************************************)
\* What the invariant says of the statement that is built next.
LEMMA NextStatement ==
    ASSUME MemoryInv, built < Len(program)
    PROVE  /\ Wellformed(Statement) /\ Statement \in StatementType
           /\ Statement.tokens \in Nat \ {0} /\ Statement.bytes \in Nat
           /\ index + Statement.tokens <= token_count
           /\ \A sum : Sums(sum) => sum[built + 1] = index + Statement.tokens
<1> USE DEF MemoryInv
<1>1. built + 1 \in 1 .. Len(program) /\ Len(program) \in Nat /\ built \in Nat
      /\ built + 1 \in 0 .. Len(program) /\ (built + 1) - 1 = built
  BY DEF Typed
<1>2. Wellformed(Statement) /\ Statement \in StatementType
  BY <1>1 DEF Typed, Statement, Wellformed
<1>3. ASSUME NEW sum, Sums(sum)
      PROVE  sum[built + 1] = index + Statement.tokens /\ sum[built + 1] <= token_count
  <2>1. sum[built + 1] = sum[built] + Statement.tokens
    BY <1>1, <1>3 DEF Sums, Statement
  <2> QED
    BY <1>1, <1>3, <2>1 DEF Sums
<1> QED
  BY <1>2, <1>3 DEF Counted, StatementType

\* As long as the tokens have their places, so have the fields.
LEMMA HolesHavePlaces ==
    ASSUME MemoryInv, phase = "build", built < Len(program), WithinPlaces
    PROVE  empty_holes + 1 <= HolePlaces /\ empty_holes \in Nat \ {0}
<1>1. Intact /\ token_count <= TokenPlaces /\ token_count \in Nat
      /\ index \in Nat /\ empty_holes \in Nat \ {0}
  BY Sizes DEF MemoryInv, IntactWithin, WithinPlaces, Typed
<1>2. index + Statement.tokens <= token_count /\ Statement.tokens \in Nat \ {0}
  BY NextStatement
<1>3. 3 * (empty_holes - 1) <= index
  BY <1>1 DEF Intact
<1> QED
  BY <1>1, <1>2, <1>3, Sizes

\* What a builder writes, byte for byte.
LEMMA Written ==
    ASSUME MemoryInv, Build, NEW a \in 0 .. ARENA_CHUNK - 1
    PROVE  LET s == Statement
               field == 4 * empty_holes
               byte == TokenEnd + text_sector_size
           IN  memory'[a] =
                 IF s.builder /\ a \in TextEnd + field .. TextEnd + field + 3 THEN "array"
                 ELSE IF s.builder /\ a \in ArrayEnd + field .. ArrayEnd + field + 3 THEN "imbue"
                 ELSE IF s.place # NoId /\ a \in ImbueEnd + 4 * s.place .. ImbueEnd + 4 * s.place + 3
                      THEN "store"
                 ELSE IF Emits(s) /\ a \in byte .. byte + s.bytes THEN "text"
                 ELSE memory[a]
<1> DEFINE s == Statement
           fields == IF s.builder THEN Word(empty_array, empty_holes) ELSE {}
           imbues == IF s.builder THEN Word(empty_imbue, empty_holes) ELSE {}
           place  == IF s.place # NoId THEN Word(empty_store, s.place) ELSE {}
<1>1. /\ phase = "build" /\ a \in DOMAIN memory
      /\ memory' = [c \in DOMAIN memory |->
                        IF c \in fields THEN "array"
                        ELSE IF c \in imbues THEN "imbue"
                        ELSE IF c \in place THEN "store"
                        ELSE IF Emits(s) /\ c \in EmittedBytes THEN "text"
                        ELSE memory[c]]
  BY DEF Build, MemoryInv, Typed
<1>2. memory'[a] = IF a \in fields THEN "array"
                   ELSE IF a \in imbues THEN "imbue"
                   ELSE IF a \in place THEN "store"
                   ELSE IF Emits(s) /\ a \in EmittedBytes THEN "text"
                   ELSE memory[a]
  BY <1>1
<1>3. /\ text_sector_byte = TokenEnd /\ empty_array = TextEnd
      /\ empty_imbue = ArrayEnd /\ empty_store = ImbueEnd
  BY <1>1 DEF MemoryInv, Placed
<1>4. /\ empty_holes \in Nat /\ text_sector_size \in Nat /\ s.bytes \in Nat
      /\ s.place # NoId => s.place \in Nat
  <2>1. built < Len(program)
    BY DEF Build
  <2>2. Statement \in StatementType /\ s.bytes \in Nat
    BY <2>1, NextStatement
  <2>3. s.place \in {NoId} \union 0 .. HolePlaces - 1
    BY <2>2 DEF StatementType
  <2> QED
    BY <2>2, <2>3, Sizes DEF MemoryInv, Typed
<1>5. /\ Word(empty_array, empty_holes) = TextEnd + 4 * empty_holes .. TextEnd + 4 * empty_holes + 3
      /\ Word(empty_imbue, empty_holes) = ArrayEnd + 4 * empty_holes .. ArrayEnd + 4 * empty_holes + 3
  BY <1>3, <1>4, Sizes, Ends DEF Word, Words
<1>6. s.place # NoId =>
        Word(empty_store, s.place) = ImbueEnd + 4 * s.place .. ImbueEnd + 4 * s.place + 3
  BY <1>3, <1>4, Sizes, Ends DEF Word, Words
<1>7. EmittedBytes = TokenEnd + text_sector_size .. TokenEnd + text_sector_size + s.bytes
  BY <1>3, <1>4, Ends DEF EmittedBytes, Bytes
<1> HIDE DEF s
<1> QED
  BY <1>2, <1>5, <1>6, <1>7 DEF s

\* A statement that is built.
LEMMA BuildKeeps == MemoryInv /\ Build => MemoryInv'
<1> SUFFICES ASSUME MemoryInv, Build PROVE MemoryInv'
  OBVIOUS
<1> DEFINE s == Statement
<1>1. /\ phase = "build" /\ built < Len(program)
      /\ text_sector_size' = text_sector_size + s.bytes
      /\ IF s.field = NoField
         THEN empty_holes' = empty_holes /\ holes' = holes
         ELSE /\ empty_holes' = empty_holes + 1
              /\ holes' = Append(holes, [id |-> s.field.id, at |-> text_sector_size + s.field.at])
      /\ built' = built + 1 /\ index' = index + s.tokens
      /\ arena' = arena /\ phase' = phase /\ program' = program
      /\ token_count' = token_count /\ patched' = patched
  BY DEF Build, input_of_assemble
<1>2. /\ Wellformed(s) /\ s \in StatementType /\ s.tokens \in Nat \ {0} /\ s.bytes \in Nat
      /\ index + s.tokens <= token_count
      /\ \A sum : Sums(sum) => sum[built + 1] = index + s.tokens
  BY <1>1, NextStatement
<1> HIDE DEF s
<1>3. /\ Typed /\ built \in Nat /\ index \in Nat /\ text_sector_size \in Nat
      /\ token_count \in Nat /\ empty_holes \in Nat \ {0} /\ Len(program) \in Nat
      /\ holes \in Seq(HoleType) /\ Len(holes) = empty_holes - 1
      /\ memory \in [0 .. ARENA_CHUNK - 1 -> Writers]
  BY Sizes DEF MemoryInv, Typed
<1>4. s.field \in [id : 0 .. HolePlaces - 1, at : Nat] /\ s.place \in {NoId} \union 0 .. HolePlaces - 1
  BY <1>2 DEF StatementType
<1>5. s.field # NoField => s.builder /\ s.tokens >= 3 /\ s.field.at < s.bytes
  BY <1>2 DEF Wellformed
<1>a. /\ text_sector_size' = text_sector_size + s.bytes /\ index' = index + s.tokens
      /\ token_count' = token_count
      /\ empty_holes' = empty_holes + IF s.field = NoField THEN 0 ELSE 1
  BY <1>1, <1>3
<1>b. /\ s.tokens \in Nat \ {0} /\ s.bytes \in Nat /\ index + s.tokens <= token_count
      /\ index \in Nat /\ text_sector_size \in Nat /\ token_count \in Nat
      /\ empty_holes \in Nat \ {0}
  BY <1>2, <1>3
<1>6. /\ holes' \in Seq(HoleType) /\ Len(holes') = empty_holes' - 1
      /\ empty_holes' \in Nat \ {0} /\ empty_holes <= empty_holes'
      /\ \A k \in 1 .. Len(holes') :
            IF k <= Len(holes) THEN holes'[k] = holes[k]
            ELSE holes'[k].at = text_sector_size + s.field.at /\ s.field # NoField
  <2>1. CASE s.field = NoField
    BY <1>1, <1>3, <2>1
  <2>2. CASE s.field # NoField
    <3> DEFINE h == [id |-> s.field.id, at |-> text_sector_size + s.field.at]
    <3>1. h \in HoleType
      BY <1>3, <1>4 DEF HoleType
    <3>2. holes' = Append(holes, h) /\ empty_holes' = empty_holes + 1
      BY <1>1, <2>2
    <3>3. /\ holes' \in Seq(HoleType) /\ Len(holes') = Len(holes) + 1
          /\ \A k \in 1 .. Len(holes) : holes'[k] = holes[k]
          /\ holes'[Len(holes) + 1] = h
      BY <1>3, <3>1, <3>2, AppendProperties
    <3>4. h.at = text_sector_size + s.field.at /\ Len(holes) \in Nat
      BY <1>3
    <3> HIDE DEF h
    <3> QED
      BY <1>3, <2>2, <3>2, <3>3, <3>4
  <2> QED
    BY <2>1, <2>2
<1>7. Typed'
  <2>1. memory' \in [0 .. ARENA_CHUNK - 1 -> Writers]
    <3>1. DOMAIN memory' = 0 .. ARENA_CHUNK - 1 /\ memory' = [a \in DOMAIN memory' |-> memory'[a]]
      BY <1>3 DEF Build
    <3>2. ASSUME NEW a \in 0 .. ARENA_CHUNK - 1 PROVE memory'[a] \in Writers
      <4>1. memory[a] \in Writers
        BY <1>3
      <4>2. memory'[a] \in {"array", "imbue", "store", "text", memory[a]}
        BY Written
      <4> QED
        BY <4>1, <4>2 DEF Writers
    <3> QED
      BY <3>1, <3>2
  <2>2. built' \in 0 .. Len(program')
    BY <1>1, <1>3
  <2>3. patched' \in Nat \ {0} /\ patched' <= empty_holes'
    BY <1>1, <1>3, <1>6 DEF Typed
  <2>4. index' \in Nat /\ text_sector_size' \in Nat
    BY <1>a, <1>b
  <2> QED
    BY <1>1, <1>3, <1>6, <2>1, <2>2, <2>3, <2>4 DEF Typed
<1>8. Placed'
  BY <1>1 DEF MemoryInv, Placed, token_array, text_sector_byte, empty_array, empty_imbue,
              empty_store, Block
<1>9. OnlyTokens'
  BY <1>1 DEF OnlyTokens, Early
<1>10. Counted'
  <2>1. PICK sum : Sums(sum)
    BY DEF MemoryInv, Counted
  <2>2. Sums(sum)'
    BY <1>1, <1>2, <2>1 DEF Sums
  <2> QED
    BY <2>2 DEF Counted
<1>11. IntactWithin'
  <2> SUFFICES ASSUME WithinPlaces' PROVE Intact'
    BY DEF IntactWithin
  <2>1. /\ WithinPlaces /\ token_count <= TokenPlaces
        /\ text_sector_size + s.bytes <= TextPlaces
    BY <1>1, <1>2, <1>3, Sizes DEF WithinPlaces
  <2>2. Intact
    BY <1>1, <2>1 DEF MemoryInv, IntactWithin
  <2>3. empty_holes + 1 <= HolePlaces
    BY <1>1, <2>1, HolesHavePlaces
  <2> DEFINE field == 4 * empty_holes
             byte == TokenEnd + text_sector_size
  <2>4. \A a \in 0 .. ARENA_CHUNK - 1 :
          memory'[a] =
            IF s.builder /\ a \in TextEnd + field .. TextEnd + field + 3 THEN "array"
            ELSE IF s.builder /\ a \in ArrayEnd + field .. ArrayEnd + field + 3 THEN "imbue"
            ELSE IF s.place # NoId /\ a \in ImbueEnd + 4 * s.place .. ImbueEnd + 4 * s.place + 3
                 THEN "store"
            ELSE IF Emits(s) /\ a \in byte .. byte + s.bytes THEN "text"
            ELSE memory[a]
    BY Written DEF s
  <2>5. /\ TokenEnd \in Nat /\ TextEnd \in Nat /\ ArrayEnd \in Nat /\ ImbueEnd \in Nat
        /\ StoreEnd \in Nat /\ StoreEnd < ARENA_CHUNK /\ ARENA_CHUNK \in Nat
        /\ 4 * token_count <= TokenEnd /\ TokenEnd <= TextEnd /\ TextEnd <= ArrayEnd
        /\ byte + s.bytes <= TextEnd
        /\ TextEnd + field + 4 <= ArrayEnd /\ ArrayEnd + field + 4 <= ImbueEnd
        /\ ImbueEnd <= StoreEnd /\ byte \in Nat /\ field \in Nat /\ TokenEnd <= byte
    BY <1>2, <1>3, <2>1, <2>3, Sizes, Ends
  <2>6. s.place # NoId => s.place \in Nat /\ ImbueEnd + 4 * s.place >= ImbueEnd
    BY <1>4, <2>5, Sizes
  <2> DEFINE last == 4 * empty_holes'
  <2>7. /\ last \in Nat
        /\ \/ last = field
           \/ last = field + 4 /\ s.builder
    BY <1>1, <1>3, <1>5
  <2>8. 3 * (empty_holes' - 1) <= index' /\ index' <= token_count'
    <3>1. 3 * (empty_holes - 1) <= index
      BY <2>2 DEF Intact
    <3> QED
      BY <1>a, <1>b, <1>5, <3>1
  <2> HIDE DEF field, byte, last
  <2>9. \A a \in 0 .. 4 * token_count' - 1 : memory'[a] = "token"
    <3> SUFFICES ASSUME NEW a \in 0 .. 4 * token_count - 1 PROVE memory'[a] = "token"
      BY <1>1
    <3>1. memory[a] = "token"
      BY <1>1, <2>2 DEF Intact
    <3>2. a \in 0 .. ARENA_CHUNK - 1 /\ a < TokenEnd /\ a \in Nat
      BY <1>3, <2>5
    <3> QED
      BY <1>2, <2>4, <2>5, <2>6, <3>1, <3>2
  <2>10. \A a \in TokenEnd .. TokenEnd + text_sector_size' - 1 : memory'[a] = "text"
    <3> SUFFICES ASSUME NEW a \in TokenEnd .. TokenEnd + (text_sector_size + s.bytes) - 1
                 PROVE  memory'[a] = "text"
      BY <1>1
    <3>1. a \in 0 .. ARENA_CHUNK - 1 /\ a < TextEnd /\ a \in Nat /\ a < byte + s.bytes
      BY <1>b, <2>5 DEF byte
    <3>2. CASE a < byte
      <4>1. a \in TokenEnd .. TokenEnd + text_sector_size - 1
        BY <1>3, <2>5, <3>2 DEF byte
      <4>2. memory[a] = "text"
        BY <2>2, <4>1 DEF Intact
      <4> QED
        BY <1>2, <2>4, <2>5, <2>6, <3>1, <3>2, <4>2
    <3>3. CASE byte <= a
      <4>1. s.bytes > 0
        BY <1>2, <2>5, <3>1, <3>3
      <4>2. Emits(s)
        BY <4>1 DEF Emits
      <4> QED
        BY <1>2, <2>4, <2>5, <2>6, <3>1, <3>3, <4>2
    <3> QED
      BY <2>5, <3>1, <3>2, <3>3
  <2>11. \A a \in TextEnd + 4 .. TextEnd + last - 1 : memory'[a] = "array"
    <3> SUFFICES ASSUME NEW a \in TextEnd + 4 .. TextEnd + last - 1
                 PROVE  memory'[a] = "array"
      OBVIOUS
    <3>1. a \in 0 .. ARENA_CHUNK - 1 /\ a \in Nat /\ a > TextEnd /\ a < ArrayEnd
      BY <2>5, <2>7
    <3>2. CASE a < TextEnd + field
      <4>1. a \in TextEnd + 4 .. TextEnd + 4 * empty_holes - 1
        BY <2>5, <3>1, <3>2 DEF field
      <4>2. memory[a] = "array"
        BY <2>2, <4>1 DEF Intact
      <4> QED
        BY <1>2, <2>4, <2>5, <2>6, <3>1, <3>2, <4>2
    <3>3. CASE TextEnd + field <= a
      <4>1. s.builder /\ a \in TextEnd + field .. TextEnd + field + 3
        BY <2>5, <2>7, <3>1, <3>3
      <4> QED
        BY <2>4, <3>1, <4>1
    <3> QED
      BY <2>5, <3>1, <3>2, <3>3
  <2>12. \A a \in ArrayEnd + 4 .. ArrayEnd + last - 1 : memory'[a] = "imbue"
    <3> SUFFICES ASSUME NEW a \in ArrayEnd + 4 .. ArrayEnd + last - 1
                 PROVE  memory'[a] = "imbue"
      OBVIOUS
    <3>1. a \in 0 .. ARENA_CHUNK - 1 /\ a \in Nat /\ a > ArrayEnd /\ a < ImbueEnd
      BY <2>5, <2>7
    <3>2. CASE a < ArrayEnd + field
      <4>1. a \in ArrayEnd + 4 .. ArrayEnd + 4 * empty_holes - 1
        BY <2>5, <3>1, <3>2 DEF field
      <4>2. memory[a] = "imbue"
        BY <2>2, <4>1 DEF Intact
      <4> QED
        BY <1>2, <2>4, <2>5, <2>6, <3>1, <3>2, <4>2
    <3>3. CASE ArrayEnd + field <= a
      <4>1. s.builder /\ a \in ArrayEnd + field .. ArrayEnd + field + 3
        BY <2>5, <2>7, <3>1, <3>3
      <4>2. ~(a \in TextEnd + field .. TextEnd + field + 3)
        BY <2>5, <3>1
      <4> QED
        BY <2>4, <3>1, <4>1, <4>2
    <3> QED
      BY <2>5, <3>1, <3>2, <3>3
  <2>13. \A a \in ImbueEnd .. StoreEnd - 1 : memory'[a] \in {"zero", "store"}
    <3> SUFFICES ASSUME NEW a \in ImbueEnd .. StoreEnd - 1
                 PROVE  memory'[a] \in {"zero", "store"}
      OBVIOUS
    <3>1. a \in 0 .. ARENA_CHUNK - 1 /\ a \in Nat /\ a >= ImbueEnd
      BY <2>5
    <3>2. memory[a] \in {"zero", "store"}
      BY <2>2 DEF Intact
    <3>3. /\ ~(a \in TextEnd + field .. TextEnd + field + 3)
          /\ ~(a \in ArrayEnd + field .. ArrayEnd + field + 3)
      BY <2>5, <3>1
    <3>4. a > byte + s.bytes
      BY <1>2, <2>3, <2>5, <3>1, <1>3 DEF field
    <3>5. ~(a \in byte .. byte + s.bytes)
      BY <1>2, <2>5, <3>1, <3>4
    <3> QED
      BY <2>4, <3>1, <3>2, <3>3, <3>5
  <2>14. \A k \in 1 .. Len(holes') : holes'[k].at < text_sector_size'
    <3> SUFFICES ASSUME NEW k \in 1 .. Len(holes') PROVE holes'[k].at < text_sector_size'
      OBVIOUS
    <3>1. CASE k <= Len(holes)
      <4>1. k \in 1 .. Len(holes)
        BY <1>3, <1>6, <3>1
      <4>2. holes'[k] = holes[k] /\ holes[k].at < text_sector_size
        BY <1>6, <2>2, <3>1, <4>1 DEF Intact
      <4>3. holes[k].at \in Nat
        <5>1. holes[k] \in HoleType
          BY <1>3, <4>1, ElementOfSeq
        <5> QED
          BY <5>1 DEF HoleType
      <4> QED
        BY <1>a, <1>b, <4>2, <4>3
    <3>2. CASE ~(k <= Len(holes))
      <4>1. holes'[k].at = text_sector_size + s.field.at /\ s.field.at < s.bytes
        BY <1>5, <1>6, <3>2
      <4>2. s.field.at \in Nat
        BY <1>4
      <4> HIDE DEF s
      <4> QED
        BY <1>a, <1>b, <4>1, <4>2
    <3> QED
      BY <3>1, <3>2
  <2> QED
    BY <2>8, <2>9, <2>10, <2>11, <2>12, <2>13, <2>14, Ends
       DEF Intact, TokenEnd, TextEnd, ArrayEnd, ImbueEnd, StoreEnd, last
<1>12. ReadsAsWritten'
  BY <1>1 DEF ReadsAsWritten
<1> QED
  BY <1>7, <1>8, <1>9, <1>10, <1>11, <1>12 DEF MemoryInv

\* No step but the last of a pass changes more than the phase.
LEMMA PhaseKeeps ==
    ASSUME MemoryInv, phase \in {"build", "link"}, phase' \in {"link", "linked", "misread"},
           UNCHANGED <<arena, memory, input_of_assemble, passes>>, ReadsAsWritten'
    PROVE  MemoryInv'
<1> USE DEF MemoryInv, input_of_assemble, passes
<1>1. Typed'
  BY DEF Typed, Phases
<1>2. Placed'
  BY DEF Placed, token_array, text_sector_byte, empty_array, empty_imbue, empty_store, Block
<1>3. OnlyTokens'
  BY DEF OnlyTokens, Early
<1>4. Counted'
  BY DEF Counted, Sums
<1>5. IntactWithin'
  BY DEF IntactWithin, Intact, WithinPlaces
<1> QED
  BY <1>1, <1>2, <1>3, <1>4, <1>5

\* A token is only misread if the tokens or the code have no place.
LEMMA MisreadTokenKeeps == MemoryInv /\ MisreadToken => MemoryInv'
<1> SUFFICES ASSUME MemoryInv, MisreadToken PROVE MemoryInv'
  OBVIOUS
<1>1. /\ phase = "build" /\ built < Len(program) /\ phase' = "misread"
      /\ UNCHANGED <<arena, memory, input_of_assemble, passes>>
  BY DEF MisreadToken
<1>2. ReadsAsWritten'
  <2> SUFFICES ASSUME WithinPlaces' PROVE FALSE
    BY DEF ReadsAsWritten
  <2>1. WithinPlaces /\ Intact
    BY <1>1 DEF WithinPlaces, MemoryInv, IntactWithin, input_of_assemble, passes
  <2>2. /\ index \in Nat /\ Statement.tokens \in Nat \ {0} /\ token_count \in Nat
        /\ text_sector_size \in Nat /\ index + Statement.tokens <= token_count
        /\ token_count <= TokenPlaces
    BY <1>1, <2>1, NextStatement, Sizes DEF MemoryInv, Typed, WithinPlaces
  <2>3. token_array = 0 /\ text_sector_byte = TokenEnd
    BY <1>1 DEF MemoryInv, Placed
  <2>4. \A a \in TokensOfStatement : a \in 0 .. 4 * token_count - 1 /\ a < TokenEnd
    BY <2>2, <2>3, Sizes, Ends DEF TokensOfStatement, Words
  <2>5. Holds(TokensOfStatement, {"token"})
    BY <1>1, <2>1, <2>4 DEF Holds, Intact
  <2>6. \A a \in EmittedBytes : a >= TokenEnd /\ a \in Int
    <3>1. TokenEnd \in Nat /\ Statement.bytes \in Nat
      BY <1>1, Ends, NextStatement
    <3> QED
      BY <2>2, <2>3, <3>1 DEF EmittedBytes, Bytes
  <2>7. TokensOfStatement \intersect EmittedBytes = {}
    BY <2>4, <2>6, Ends
  <2> QED
    BY <2>5, <2>7 DEF MisreadToken
<1> QED
  BY <1>1, <1>2, PhaseKeeps

\* The first pass ends with the place of the id that is none.
LEMMA EndBuildKeeps == MemoryInv /\ EndBuild => MemoryInv'
<1> SUFFICES ASSUME MemoryInv, EndBuild PROVE MemoryInv'
  OBVIOUS
<1>1. /\ phase = "build" /\ phase' \in {"link", "misread"}
      /\ UNCHANGED <<arena, memory, input_of_assemble, passes>>
  BY DEF EndBuild
<1>2. ReadsAsWritten'
  <2> SUFFICES ASSUME WithinPlaces' PROVE phase' # "misread"
    BY DEF ReadsAsWritten
  <2>1. Intact
    BY <1>1 DEF WithinPlaces, MemoryInv, IntactWithin, input_of_assemble, passes
  <2>2. empty_store = ImbueEnd
    BY <1>1 DEF MemoryInv, Placed
  <2>3. Holds(Word(empty_store, 0), {"zero", "store"})
    BY <2>1, <2>2, Sizes, Ends DEF Holds, Word, Words, Intact
  <2> QED
    BY <2>3 DEF EndBuild
<1> QED
  BY <1>1, <1>2, PhaseKeeps

-----------------------------------------------------------------------------
(***************************************************************************)
(* The second pass.                                                        *)
(***************************************************************************)
\* What the invariant says of the hole the second pass is at.
LEMMA NextHole ==
    ASSUME MemoryInv, phase = "link", patched < empty_holes, WithinPlaces
    PROVE  /\ Intact /\ HoleIsIntact /\ Hole \in HoleType
           /\ Hole.at < text_sector_size /\ text_sector_size <= TextPlaces
           /\ text_sector_byte = TokenEnd
<1>1. Intact /\ text_sector_size <= TextPlaces /\ token_count <= TokenPlaces
  BY DEF MemoryInv, IntactWithin, WithinPlaces
<1>2. /\ token_array = 0 /\ text_sector_byte = TokenEnd
      /\ empty_array = TextEnd /\ empty_imbue = ArrayEnd /\ empty_store = ImbueEnd
  BY DEF MemoryInv, Placed
<1>3. /\ patched \in Nat \ {0} /\ empty_holes \in Nat \ {0}
      /\ holes \in Seq(HoleType) /\ Len(holes) = empty_holes - 1
      /\ index \in Nat /\ token_count \in Nat
  BY Sizes DEF MemoryInv, Typed
<1>4. patched \in 1 .. Len(holes) /\ patched + 1 - FirstHole = patched
  BY <1>3, Sizes
<1>5. Hole = holes[patched] /\ Hole \in HoleType
  BY <1>3, <1>4, ElementOfSeq DEF Hole
<1>6. Hole.at < text_sector_size
  BY <1>1, <1>4, <1>5 DEF Intact
<1>7. Hole.id \in 0 .. HolePlaces - 1
  BY <1>5 DEF HoleType
<1>8. Holds(Word(empty_array, patched), {"array"})
  <2>1. \A a \in Word(empty_array, patched) : a \in TextEnd + 4 .. TextEnd + 4 * empty_holes - 1
    BY <1>2, <1>3, Sizes, Ends DEF Word, Words
  <2> QED
    BY <1>1, <2>1 DEF Intact, Holds
<1>9. Holds(Word(empty_imbue, patched), {"imbue"})
  <2>1. \A a \in Word(empty_imbue, patched) : a \in ArrayEnd + 4 .. ArrayEnd + 4 * empty_holes - 1
    BY <1>2, <1>3, Sizes, Ends DEF Word, Words
  <2> QED
    BY <1>1, <2>1 DEF Intact, Holds
<1>10. Holds(Word(empty_store, Hole.id), {"zero", "store"})
  <2>1. \A a \in Word(empty_store, Hole.id) : a \in ImbueEnd .. StoreEnd - 1
    BY <1>2, <1>7, Sizes, Ends DEF Word, Words
  <2> QED
    BY <1>1, <2>1 DEF Intact, Holds
<1> QED
  BY <1>1, <1>2, <1>5, <1>6, <1>8, <1>9, <1>10 DEF HoleIsIntact

\* A field that is patched.
LEMMA PatchKeeps == MemoryInv /\ Patch => MemoryInv'
<1> SUFFICES ASSUME MemoryInv, Patch PROVE MemoryInv'
  OBVIOUS
<1>1. /\ phase = "link" /\ patched < empty_holes /\ patched' = patched + 1
      /\ memory' = Wrote(Bytes(text_sector_byte, Hole.at, WORD), "text")
      /\ UNCHANGED <<arena, phase, program, token_count, built, index, text_sector_size,
                     empty_holes, holes>>
  BY DEF Patch, Following, input_of_assemble
<1>2. /\ memory \in [0 .. ARENA_CHUNK - 1 -> Writers]
      /\ patched \in Nat \ {0} /\ empty_holes \in Nat \ {0}
      /\ text_sector_size \in Nat
  BY DEF MemoryInv, Typed
<1>3. /\ memory' \in [0 .. ARENA_CHUNK - 1 -> Writers]
      /\ \A a \in 0 .. ARENA_CHUNK - 1 :
            memory'[a] = IF a \in Bytes(text_sector_byte, Hole.at, WORD) THEN "text" ELSE memory[a]
  BY <1>1, <1>2 DEF Wrote, Writers
<1>4. Typed'
  <2>1. patched' \in Nat \ {0} /\ patched' <= empty_holes'
    BY <1>1, <1>2
  <2> QED
    BY <1>1, <1>3, <2>1 DEF MemoryInv, Typed
<1>5. Placed'
  BY <1>1 DEF MemoryInv, Placed, token_array, text_sector_byte, empty_array, empty_imbue,
              empty_store, Block
<1>6. OnlyTokens'
  BY <1>1 DEF OnlyTokens, Early
<1>7. Counted'
  BY <1>1 DEF MemoryInv, Counted, Sums
<1>8. IntactWithin'
  <2> SUFFICES ASSUME WithinPlaces' PROVE Intact'
    BY DEF IntactWithin
  <2>1. /\ Intact /\ Hole \in HoleType /\ Hole.at < text_sector_size
        /\ text_sector_size <= TextPlaces /\ text_sector_byte = TokenEnd
    BY <1>1, NextHole DEF WithinPlaces
  <2>2. Hole.at \in Nat
    BY <2>1 DEF HoleType
  <2>3. \A a \in 0 .. ARENA_CHUNK - 1 : memory'[a] \in {"text", memory[a]}
    BY <1>3
  <2>4. \A a \in 0 .. ARENA_CHUNK - 1 : a > TextEnd + 3 => memory'[a] = memory[a]
    <3> SUFFICES ASSUME NEW a \in 0 .. ARENA_CHUNK - 1, a > TextEnd + 3
                 PROVE  ~(a \in Bytes(text_sector_byte, Hole.at, WORD))
      BY <1>3
    <3> QED
      BY <1>2, <2>1, <2>2, Sizes, Ends DEF Bytes
  <2>5. \A a \in TokenEnd .. TokenEnd + text_sector_size - 1 : memory'[a] = "text"
    <3> SUFFICES ASSUME NEW a \in TokenEnd .. TokenEnd + text_sector_size - 1
                 PROVE  memory'[a] = "text"
      OBVIOUS
    <3>1. a \in 0 .. ARENA_CHUNK - 1
      BY <1>2, <2>1, Sizes, Ends
    <3>2. memory[a] = "text"
      BY <2>1 DEF Intact
    <3> QED
      BY <2>3, <3>1, <3>2
  <2>6. empty_holes <= HolePlaces
    <3>1. 3 * (empty_holes - 1) <= index /\ index <= token_count
      BY <2>1 DEF Intact
    <3>2. token_count <= TokenPlaces /\ token_count \in Nat /\ index \in Nat
      BY <1>1, Sizes DEF MemoryInv, Typed, WithinPlaces
    <3> QED
      BY <1>2, <3>1, <3>2, Sizes
  <2>7. \A a \in TextEnd + 4 .. TextEnd + 4 * empty_holes - 1 : memory'[a] = "array"
    <3>1. \A a \in TextEnd + 4 .. TextEnd + 4 * empty_holes - 1 :
             a \in 0 .. ARENA_CHUNK - 1 /\ a > TextEnd + 3
      BY <1>2, <2>6, Sizes, Ends
    <3> QED
      BY <2>1, <2>4, <3>1 DEF Intact
  <2>8. \A a \in ArrayEnd + 4 .. ArrayEnd + 4 * empty_holes - 1 : memory'[a] = "imbue"
    <3>1. \A a \in ArrayEnd + 4 .. ArrayEnd + 4 * empty_holes - 1 :
             a \in 0 .. ARENA_CHUNK - 1 /\ a > TextEnd + 3
      BY <1>2, <2>6, Sizes, Ends
    <3> QED
      BY <2>1, <2>4, <3>1 DEF Intact
  <2>9. \A a \in ImbueEnd .. StoreEnd - 1 : memory'[a] \in {"zero", "store"}
    <3>1. \A a \in ImbueEnd .. StoreEnd - 1 : a \in 0 .. ARENA_CHUNK - 1 /\ a > TextEnd + 3
      BY Sizes, Ends
    <3> QED
      BY <2>1, <2>4, <3>1 DEF Intact
  <2> QED
    BY <1>1, <2>1, <2>5, <2>7, <2>8, <2>9
       DEF Intact, TokenEnd, TextEnd, ArrayEnd, ImbueEnd, StoreEnd
<1>9. ReadsAsWritten'
  BY <1>1 DEF ReadsAsWritten
<1> QED
  BY <1>4, <1>5, <1>6, <1>7, <1>8, <1>9 DEF MemoryInv

\* A hole is only misread if the tokens or the code have no place.
LEMMA MisreadHoleKeeps == MemoryInv /\ MisreadHole => MemoryInv'
<1> SUFFICES ASSUME MemoryInv, MisreadHole PROVE MemoryInv'
  OBVIOUS
<1>1. /\ phase = "link" /\ patched < empty_holes /\ ~HoleIsIntact /\ phase' = "misread"
      /\ UNCHANGED <<arena, memory, input_of_assemble, passes>>
  BY DEF MisreadHole
<1>2. ReadsAsWritten'
  BY <1>1, NextHole DEF ReadsAsWritten, WithinPlaces, input_of_assemble, passes
<1> QED
  BY <1>1, <1>2, PhaseKeeps

\* The code is read when it is written to the file.
LEMMA EndLinkKeeps == MemoryInv /\ EndLink => MemoryInv'
<1> SUFFICES ASSUME MemoryInv, EndLink PROVE MemoryInv'
  OBVIOUS
<1>1. /\ phase = "link" /\ phase' \in {"linked", "misread"}
      /\ UNCHANGED <<arena, memory, input_of_assemble, passes>>
  BY DEF EndLink
<1>2. ReadsAsWritten'
  <2> SUFFICES ASSUME WithinPlaces' PROVE phase' # "misread"
    BY DEF ReadsAsWritten
  <2>1. Intact
    BY <1>1 DEF WithinPlaces, MemoryInv, IntactWithin, input_of_assemble, passes
  <2>2. text_sector_byte = TokenEnd /\ text_sector_size \in Nat
    BY <1>1 DEF MemoryInv, Placed, Typed
  <2>3. Holds(Bytes(text_sector_byte, 0, text_sector_size), {"text"})
    BY <2>1, <2>2, Ends DEF Holds, Bytes, Intact
  <2> QED
    BY <2>3 DEF EndLink
<1> QED
  BY <1>1, <1>2, PhaseKeeps

-----------------------------------------------------------------------------
\* The invariant is inductive.
LEMMA MemoryInductive ==
    MemoryInv /\ [MemoryNext]_vars_of_memory => MemoryInv'
<1> SUFFICES ASSUME MemoryInv, [MemoryNext]_vars_of_memory PROVE MemoryInv'
  OBVIOUS
<1>1. CASE CompileInit
  BY <1>1, CompileInitKeeps
<1>2. ASSUME NEW s \in Statements, AppendInstructions(s) PROVE MemoryInv'
  BY <1>2, StatementsAssumption, AppendKeeps
<1>3. CASE BeginDump \/ EndDump \/ Assemble
  BY <1>3, BeginDumpKeeps, EndDumpKeeps, AssembleKeeps
<1>4. CASE Assembling
  BY <1>4, BuildKeeps, MisreadTokenKeeps, EndBuildKeeps, PatchKeeps, MisreadHoleKeeps,
     EndLinkKeeps DEF Assembling
<1>5. CASE UNCHANGED vars_of_memory
  BY <1>5, StutterKeeps
<1> QED
  BY <1>1, <1>2, <1>3, <1>4, <1>5 DEF MemoryNext

(***************************************************************************)
(* As long as the tokens and the code have their places, all of the back   *)
(* end reads what was written for it: for every number of places, every    *)
(* program, and a chunk that holds the five arrays.                        *)
(***************************************************************************)
THEOREM BackEndReadsAsWritten == MemorySpec => []ReadsAsWritten
<1>1. MemoryInv => ReadsAsWritten
  BY DEF MemoryInv
<1> QED
  BY <1>1, InitHolds, MemoryInductive, PTL DEF MemorySpec

(***************************************************************************)
(* The five arrays never share a byte, whatever the program.               *)
(***************************************************************************)
THEOREM ArraysApart == MemorySpec => []BlocksApart
<1>1. MemoryInit => ArenaInv(arena)
  BY ChunkAssumption DEF MemoryInit, ArenaInit, NoArena, ArenaInv
<1>2. ArenaInv(arena) /\ [MemoryNext]_vars_of_memory => ArenaInv(arena)'
  <2> SUFFICES ASSUME ArenaInv(arena), [MemoryNext]_vars_of_memory PROVE ArenaInv(arena')
    BY DEF ArenaInv
  <2>1. /\ WORD * TokenPlaces \in 0 .. ARENA_CHUNK /\ TextPlaces \in 0 .. ARENA_CHUNK
        /\ WORD * HolePlaces \in 0 .. ARENA_CHUNK
    BY Sizes
  <2>2. CASE CompileInit
    BY <2>1, <2>2, AllocateKeeps DEF CompileInit
  <2>3. CASE EndDump
    BY <2>1, <2>3, AllocateKeeps DEF EndDump
  <2>4. CASE Assemble
    <3> DEFINE size == WORD * HolePlaces
    <3>1. PICK a3, a4 :
            a3 = aalloc(arena, size) /\ a4 = aalloc(a3, size) /\ arena' = aalloc(a4, size)
      BY <2>4 DEF Assemble
    <3>2. ArenaInv(a3)
      BY <2>1, <3>1, AllocateKeeps
    <3>3. ArenaInv(a4)
      BY <2>1, <3>1, <3>2, AllocateKeeps
    <3> QED
      BY <2>1, <3>1, <3>3, AllocateKeeps
  <2>5. CASE UNCHANGED arena
    BY <2>5
  <2> QED
    BY <2>2, <2>3, <2>4, <2>5
       DEF MemoryNext, Assembling, AppendInstructions, BeginDump, Build, MisreadToken, EndBuild,
           Patch, MisreadHole, EndLink, vars_of_memory
<1> QED
  BY <1>1, <1>2, InvApart, PTL DEF MemorySpec

=============================================================================
