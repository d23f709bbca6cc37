----------------------------- MODULE Allocators -----------------------------
(***************************************************************************)
(* The two allocators that carve blocks out of larger ones:                *)
(*                                                                         *)
(*  - BuddyCacheAllocator and the BuddyAllocator it derives from           *)
(*    (ESBBuddyCacheAllocator.cpp, ESBBuddyAllocator.cpp): a pool of 2^K   *)
(*    units, split and coalesced in halves, with a failover allocator when *)
(*    the pool has no room.  BuddyAllocator's reallocate() calls allocate  *)
(*    and deallocate virtually, so they are the cache's.                   *)
(*  - DiscardAllocator (ESBDiscardAllocator.cpp), which every transaction  *)
(*    and every connection's parser allocate from: blocks are cut off the  *)
(*    head chunk, nothing is returned before reset().                      *)
(*                                                                         *)
(* Addresses and sizes are in units of one header.  A header inside a      *)
(* block is the block owner's memory: it is Junk here.                     *)
(***************************************************************************)
EXTENDS Integers, Sequences, FiniteSets

CONSTANTS PoolKVal,        \* log2 of the pool's size in units
          RequestSizes,    \* the sizes callers ask the buddy allocator for
          MaxFailover,     \* how many blocks the failover allocator can hold
          ArenaSizes,      \* the sizes callers ask the discard allocator for
          ChunkSize,       \* _chunkSize
          Alignment,       \* _alignmentSize
          MultipleOf,      \* _multipleOf
          MaxChunks        \* how many chunks the source allocator can hold

ASSUME AllocatorAssumption ==
    /\ PoolKVal \in 1..8 /\ RequestSizes \subseteq Nat \ {0} /\ MaxFailover \in Nat
    /\ ArenaSizes \subseteq Nat \ {0} /\ ChunkSize > 0 /\ ChunkSize % Alignment = 0

VARIABLES buddy,     \* the BuddyCacheAllocator
          arena      \* the DiscardAllocator

allocatorVars == <<buddy, arena>>

Overhead == 1              \* sizeof(AvailListElem)
AvailListLength == 64      \* ESB_AVAIL_LIST_LENGTH
PoolSize == 2 ^ PoolKVal
Junk == [kVal |-> 0, tag |-> 0]

-----------------------------------------------------------------------------
(* Buddy allocator: sizes.                                                 *)

\* The binary search from 2^8 that rounds up to a power of two.
RECURSIVE KValSearch(_, _, _, _)
KValSearch(uWord, min, kVal, max) ==
    IF uWord > 2 ^ kVal THEN KValSearch(uWord, kVal, kVal + ((max - kVal) \div 2), max)
    ELSE IF uWord > 2 ^ (kVal - 1) THEN kVal
    ELSE KValSearch(uWord, min, kVal - ((kVal - min) \div 2), kVal)

UWordToKVal(uWord) == KValSearch(uWord, 0, 8, AvailListLength)

AdjustedKVal(size) == UWordToKVal(size + Overhead)

allocationSize(b, block) == 2 ^ b.head[block].kVal - Overhead

-----------------------------------------------------------------------------
(* Buddy allocator: the lists of available blocks, a sequence for each     *)
(* pair of links.                                                          *)

pushAvailList(b, elem) ==
    [b EXCEPT !.head[elem].tag = 1,
              !.avail[b.head[elem].kVal] = <<elem>> \o @]

popAvailList(b, kVal) ==
    [b EXCEPT !.head[Head(b.avail[kVal])].tag = 0, !.avail[kVal] = Tail(@)]

removeFromAvailList(b, elem) ==
    [b EXCEPT !.head[elem].tag = 0,
              !.avail[b.head[elem].kVal] = SelectSeq(@, LAMBDA e : e # elem)]

DownPool == [pool |-> FALSE, avail |-> [k \in 0..PoolKVal |-> <<>>],
             head |-> [a \in 0..(PoolSize - 1) |-> Junk], live |-> <<>>,
             failover |-> 0, stranded |-> 0]

initialize(b) ==
    [b EXCEPT !.pool = TRUE, !.head[0] = [kVal |-> PoolKVal, tag |-> 1],
              !.avail[PoolKVal] = <<0>>]

\* Knuth R3 and R4: the right halves go to the lists.
RECURSIVE split(_, _, _, _)
split(b, elem, minimumKVal, actualKVal) ==
    IF minimumKVal >= actualKVal THEN b
    ELSE LET k == actualKVal - 1
             half == elem + 2 ^ k
             c == [b EXCEPT !.head[elem].kVal = k, !.head[half] = [kVal |-> k, tag |-> 0]]
         IN split(pushAvailList(c, half), elem, minimumKVal, k)

Fitting(b, size) == {k \in AdjustedKVal(size)..PoolKVal : b.avail[k] # <<>>}

buddyHasRoom(b, size) == b.pool /\ Fitting(b, size) # {}

buddyAllocate(b, size) ==
    LET k == CHOOSE j \in Fitting(b, size) : \A i \in Fitting(b, size) : j <= i
        elem == Head(b.avail[k])
        c == split(popAvailList(b, k), elem, AdjustedKVal(size), k)
    IN [c EXCEPT !.live = [e \in DOMAIN c.live \cup {elem} |->
                             IF e = elem THEN size ELSE c.live[e]]]

\* A buddy is merged whatever its size is, as long as it is available.
RECURSIVE coalesceAnySize(_, _)
coalesceAnySize(b, elem) ==
    LET k == b.head[elem].kVal
        right == elem % 2 ^ (k + 1) = 0
        other == IF right THEN elem + 2 ^ k ELSE elem - 2 ^ k
        left == IF right THEN elem ELSE other
        merged == [removeFromAvailList(b, other) EXCEPT !.head[elem] = Junk, !.head[other] = Junk]
    IN IF k = PoolKVal \/ b.head[other].tag = 0
       THEN pushAvailList(b, elem)
       ELSE coalesceAnySize([merged EXCEPT !.head[left] = [kVal |-> k + 1, tag |-> 0]], left)

\* Knuth S2 and S3: as long as the buddy is available and whole, merge.
RECURSIVE coalesce(_, _)
coalesce(b, elem) ==
    LET k == b.head[elem].kVal
        right == elem % 2 ^ (k + 1) = 0
        other == IF right THEN elem + 2 ^ k ELSE elem - 2 ^ k
        left == IF right THEN elem ELSE other
        merged == [removeFromAvailList(b, other) EXCEPT !.head[elem] = Junk, !.head[other] = Junk]
    IN IF k = PoolKVal \/ b.head[other].tag = 0 \/ b.head[other].kVal # k
       THEN pushAvailList(b, elem)
       ELSE coalesce([merged EXCEPT !.head[left] = [kVal |-> k + 1, tag |-> 0]], left)

buddyDeallocate(b, elem) ==
    coalesce([b EXCEPT !.live = [e \in DOMAIN b.live \ {elem} |-> b.live[e]]], elem)

-----------------------------------------------------------------------------
(* Buddy cache allocator: the operations.                                  *)

\* The pool is created by the first allocation that finds it absent.
Prepared(b, sourceOk) == IF ~b.pool /\ sourceOk THEN initialize(b) ELSE b

CacheAllocate(size, sourceOk) ==
    LET b == Prepared(buddy, sourceOk) IN
    \/ /\ buddyHasRoom(b, size)
       /\ buddy' = buddyAllocate(b, size)
    \/ /\ ~buddyHasRoom(b, size)
       /\ b.failover + b.stranded < MaxFailover
       /\ buddy' = [b EXCEPT !.failover = @ + 1]

CacheDeallocate(block) ==
    /\ buddy.pool
    /\ buddy' = buddyDeallocate(buddy, block)

\* A block of the failover allocator.  Without a pool BuddyAllocator answers
\* ESB_INVALID_STATE, not ESB_NOT_OWNER, and the failover is never asked.
CacheDeallocateFailover ==
    /\ buddy.failover > 0
    /\ buddy' = [buddy EXCEPT !.failover = @ - 1,
                              !.stranded = IF buddy.pool THEN @ ELSE @ + 1]

\* Allocate, copy, deallocate; the new block may come from the failover.
CacheReallocate(block, size) ==
    /\ buddy.pool
    /\ \/ /\ buddyHasRoom(buddy, size)
          /\ buddy' = buddyDeallocate(buddyAllocate(buddy, size), block)
       \/ /\ ~buddyHasRoom(buddy, size)
          /\ buddy.failover + buddy.stranded < MaxFailover
          /\ buddy' = [buddyDeallocate(buddy, block) EXCEPT !.failover = @ + 1]

BuddyReset ==
    /\ buddy.pool
    /\ buddy.avail[PoolKVal] # <<>>
    /\ buddy' = [DownPool EXCEPT !.failover = buddy.failover, !.stranded = buddy.stranded]

BuddyNext ==
    \/ \E size \in RequestSizes, sourceOk \in BOOLEAN : CacheAllocate(size, sourceOk)
    \/ \E block \in DOMAIN buddy.live : CacheDeallocate(block)
    \/ CacheDeallocateFailover
    \/ \E block \in DOMAIN buddy.live, size \in RequestSizes : CacheReallocate(block, size)
    \/ BuddyReset

-----------------------------------------------------------------------------
(* Discard allocator.  Chunks are listed from _head on; name tells the     *)
(* memory of one from the memory of another.                               *)

Align(n) == IF n % Alignment = 0 THEN n ELSE ((n \div Alignment) + 1) * Alignment

SizeofChunk == Align(2)

freshChunk(chunks) ==
    CHOOSE c \in 1..MaxChunks : \A i \in DOMAIN chunks : chunks[i].name # c

\* allocateChunk fails when the source has no memory, and refuses a size that
\* is not a multiple of _multipleOf.
chunkAvailable(chunks, size) ==
    Len(chunks) < MaxChunks /\ (SizeofChunk + size) % MultipleOf = 0

Room(chunk) == IF chunk.idx > chunk.size THEN 0 ELSE chunk.size - chunk.idx

\* The next block starts where this one ends, aligned or not, or later.
cutFrom(a, size) ==
    [chunks |-> [a.chunks EXCEPT ![1].idx = @ + Align(size)],
     blocks |-> a.blocks \cup {[chunk |-> a.chunks[1].name, at |-> a.chunks[1].idx, size |-> size]}]

\* A request above the chunk size gets a chunk of its own, full from the start,
\* behind the head.
ArenaAllocateLarge(size) ==
    LET chunk == [name |-> freshChunk(arena.chunks), size |-> size, idx |-> size] IN
    /\ size > ChunkSize
    /\ chunkAvailable(arena.chunks, size)
    /\ arena' = [chunks |-> IF arena.chunks = <<>> THEN <<chunk>>
                            ELSE <<Head(arena.chunks), chunk>> \o Tail(arena.chunks),
                 blocks |-> arena.blocks \cup {[chunk |-> chunk.name, at |-> 0, size |-> size]}]

ArenaAllocate(size) ==
    LET chunks == arena.chunks
        headHasRoom == chunks # <<>> /\ size <= Room(Head(chunks))
        chunk == [name |-> freshChunk(chunks), size |-> ChunkSize, idx |-> 0]
    IN /\ size <= ChunkSize
       /\ headHasRoom \/ chunkAvailable(chunks, ChunkSize)
       /\ arena' = cutFrom(IF headHasRoom THEN arena
                           ELSE [arena EXCEPT !.chunks = <<chunk>> \o @], size)

\* All chunks but the last of the list go back to the source.
ArenaReset ==
    /\ arena.chunks # <<>>
    /\ arena' = [chunks |-> <<[arena.chunks[Len(arena.chunks)] EXCEPT !.idx = 0]>>, blocks |-> {}]

ArenaNext ==
    \/ \E size \in ArenaSizes : ArenaAllocateLarge(size) \/ ArenaAllocate(size)
    \/ ArenaReset

-----------------------------------------------------------------------------

AllocatorInit == buddy = DownPool /\ arena = [chunks |-> <<>>, blocks |-> {}]

AvailBlocks(b) == UNION {{b.avail[k][i] : i \in DOMAIN b.avail[k]} : k \in DOMAIN b.avail}

Units(b, block) == block..(block + 2 ^ b.head[block].kVal - 1)

\* Blocks in use and blocks on the lists of available ones together are the
\* pool, every unit in exactly one of them: nothing handed out overlaps, and
\* nothing is lost in splits and merges.  A block is as large as was asked, and
\* no larger than rounding up to a power of two makes it.
PoolIsPartitioned ==
    buddy.pool =>
      LET free == AvailBlocks(buddy)
          used == DOMAIN buddy.live
      IN /\ free \cap used = {}
         /\ \A b \in free \cup used : \A c \in (free \cup used) \ {b} :
              Units(buddy, b) \cap Units(buddy, c) = {}
         /\ UNION {Units(buddy, b) : b \in free \cup used} = 0..(PoolSize - 1)
         /\ \A b \in used : /\ allocationSize(buddy, b) >= buddy.live[b]
                            /\ allocationSize(buddy, b) < 2 * (buddy.live[b] + Overhead) - Overhead

\* Two halves of one block are never both available: deallocate() merges as far
\* as it can.  So once everything is returned the pool is whole again and
\* reset() can give it back, which is what reset() tests.
BuddiesCoalesce ==
    buddy.pool =>
      \A b, c \in AvailBlocks(buddy) :
        LET k == buddy.head[b].kVal IN
        ~(buddy.head[c].kVal = k /\ b % 2 ^ (k + 1) = 0 /\ c = b + 2 ^ k)

\* Blocks cut since the last reset() are aligned, lie inside a chunk that is
\* still allocated, and do not overlap.
ArenaBlocksApart ==
    /\ \A b \in arena.blocks :
         /\ b.at % Alignment = 0
         /\ \E i \in DOMAIN arena.chunks :
              arena.chunks[i].name = b.chunk /\ b.at + b.size <= arena.chunks[i].size
    /\ \A b \in arena.blocks : \A c \in arena.blocks \ {b} :
         b.chunk = c.chunk => b.at + b.size <= c.at \/ c.at + c.size <= b.at

\* The buddy pool is always cut into blocks that are free or handed out, once
\* each, two free buddies are one block, and no two blocks of the arena share a
\* byte.  (BuddyAllocator and DiscardAllocator, allocate and deallocate)
AllocatorsAreSound == PoolIsPartitioned /\ BuddiesCoalesce /\ ArenaBlocksApart
=============================================================================
