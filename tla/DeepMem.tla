------------------------------ MODULE DeepMem ------------------------------
(***************************************************************************)
(* The allocator of deep_mem.c, at the level of the 32-bit words it reads  *)
(* and writes.  The pool is one buffer:                                    *)
(*                                                                         *)
(*   mem_pool_t | list head node | sorted blocks | remainder | fast blocks *)
(*                                                ^remHead    ^remEnd      *)
(*                                                                         *)
(* Sorted blocks are split off the bottom of the remainder, fast blocks    *)
(* are carved off its top.  A block starts with a head word (payload size, *)
(* flag P "the block below is allocated", flag A "allocated") and has its  *)
(* payload 8 bytes further.  A free fast block keeps its bin's next        *)
(* pointer in the payload; a free sorted block keeps the fields of its     *)
(* skip-list node there (pred, succ, level, one relative offset per        *)
(* level).                                                                 *)
(*                                                                         *)
(* Sizes and addresses are in bytes and multiples of 4.  mem_pool_t is the *)
(* variables remHead, remEnd, bins and freeMemory.  The code is            *)
(* single-threaded, so a call is one step.                                 *)
(*                                                                         *)
(* status leaves "ok" with a call that damages the pool, and the model     *)
(* stops behind it.  The call comes back, with its effect in the state:    *)
(*   "torn"  a fast block was carved four bytes below the remainder's head *)
(*   "stray" the skip list wrote a word of a block it does not own         *)
(*   "engulf" a merge's memset ran into the blocks above the remainder     *)
(* or what it does is not determined by the allocator, and is not followed:*)
(*   "crash" the memset of a split got a wrapped (about 4 GiB) length      *)
(*   "wild"  an offset, level or head was read from client data, from a    *)
(*           pointer or from outside the buffer                            *)
(*   "hang"  a walk along one level of the skip list never ends            *)
(***************************************************************************)
EXTENDS Integers, FiniteSets, SequencesExt

CONSTANTS
  PoolSize,    \* bytes given to deep_mem_init, a multiple of 8
  PoolStruct,  \* sizeof(mem_pool_t): bytes below the list head node (96)
  FastBinMax,  \* FAST_BIN_MAX_SIZE (64)
  Levels,      \* SORTED_BLOCK_INDICES_LEVEL (13)
  HeadMod,     \* 2^32: the width of a head word
  Requests,    \* the sizes clients ask for
  Junk         \* any non-zero data a client has written

Payload  == 8                                 \* block_payload_offset
AlignUp(n)  == ((n + 7) \div 8) * 8           \* ALIGN_MEM_SIZE
NodeSize == AlignUp(Payload + 12 + 4 * Levels)  \* sizeof(sorted_block_t)
ListHead == PoolStruct                        \* pool->sorted_block.addr
FirstBlock == ListHead + NodeSize
PoolEnd  == (PoolSize \div 8) * 8
Aligned(size) == AlignUp(size + Payload)      \* aligned_size of deep_malloc
Addresses == {4 * i : i \in (PoolStruct \div 4) .. (PoolEnd \div 4 - 1)}
BinSizes  == {8 * i : i \in 1 .. FastBinMax \div 8}

ASSUME PoolAssumption ==
  /\ PoolStruct \in Nat /\ PoolStruct > 0 /\ PoolStruct % 4 = 0
  /\ PoolSize \in Nat /\ PoolEnd >= FirstBlock + 16
  /\ FastBinMax \in Nat /\ FastBinMax % 8 = 0 /\ FastBinMax + 8 >= NodeSize
  /\ Levels \in Nat \ {0}
  /\ HeadMod \in Nat /\ HeadMod % 8 = 0 /\ HeadMod > 2 * PoolSize
  /\ Requests \subseteq Nat
  /\ Junk \notin Int

VARIABLES
  mem,         \* the words of the buffer from the list head node on
  remHead,     \* pool->remainder_block_head
  remEnd,      \* pool->remainder_block_end
  bins,        \* pool->fast_bins: the first block of each bin, 0 for NULL
  freeMemory,  \* pool->free_memory
  live,        \* ghost: the blocks clients hold, [at, size]: the payload they
               \* were promised, which the head should say too
  status

vars == <<mem, remHead, remEnd, bins, freeMemory, live, status>>

----------------------------------------------------------------------------
(* Words of a memory m, and the accessors of a block head.                 *)

Word(m, a) == IF a \in DOMAIN m THEN m[a] ELSE Junk

HeadWord(size, P, A) == (size % HeadMod) + (IF P THEN 2 ELSE 0) + (IF A THEN 1 ELSE 0)
HeadSize(w) == ((w % HeadMod) \div 4) * 4
IsAlloc(w)  == w % 2 = 1
PrevAlloc(w) == (w \div 2) % 2 = 1
SetSize(w, size) == HeadWord(size, PrevAlloc(w), IsAlloc(w))
SetAlloc(w, A)   == HeadWord(HeadSize(w), PrevAlloc(w), A)
SetPrev(w, P)    == HeadWord(HeadSize(w), P, IsAlloc(w))

BlockSize(m, b) == HeadSize(m[b])
AlignedSize(m, b) == BlockSize(m, b) + Payload

PredAt(b)  == b + Payload
SuccAt(b)  == b + Payload + 4
LevelAt(b) == b + Payload + 8
OffsetAt(b, i) == b + Payload + 12 + 4 * i

(* A pointer to a block: the address of the buffer is so large that what   *)
(* takes a pointer for an offset is led out of the buffer.                 *)
Buffer == 4 * HeadMod
PointerTo(b) == IF b = 0 THEN 0 ELSE Buffer + b
Target(w) == IF w = 0 THEN 0 ELSE w - Buffer

(* The words of a block, and memset(a, v, n).                              *)
Span(a, n) == {x \in Addresses : a <= x /\ x < a + n}
FillOneMore(m, a, n, v) == [x \in DOMAIN m |-> IF a <= x /\ x <= a + n THEN v ELSE m[x]]
Fill(m, a, n, v) == [x \in DOMAIN m |-> IF a <= x /\ x < a + n THEN v ELSE m[x]]
Inside(a, n) == a >= PoolStruct /\ n >= 0 /\ a + n <= PoolEnd

----------------------------------------------------------------------------
(* The skip list.  A list operation maps a record M to a record: M.m is    *)
(* the memory, M.held the words that are not the list's to write (the      *)
(* blocks clients hold and the fast blocks), M.st the status.  Writing a   *)
(* held word is damage, and the call goes on; once it is lost the rest of  *)
(* it is not followed.                                                     *)

Lost(M) == M.st \in {"crash", "wild", "hang"}
Stop(M, st) == [M EXCEPT !.st = st]
Damage(M, words, st) ==
  IF M.st = "ok" /\ words \cap M.held # {} THEN Stop(M, st) ELSE M

Store(M, a, v) ==
  IF Lost(M) THEN M
  ELSE IF a \notin DOMAIN M.m THEN Stop(M, "wild")
  ELSE [Damage(M, {a}, "stray") EXCEPT !.m[a] = v]

(* memset(a, 0, n); the length is a uint32_t.                              *)
Zero(M, a, n) ==
  IF Lost(M) THEN M
  ELSE IF ~Inside(a, n) THEN Stop(M, "crash")
  ELSE [Damage(M, Span(a, n), "engulf") EXCEPT !.m = Fill(@, a, n, 0)]

(* _find_sorted_block_by_size_on_index from the list head: the node before *)
(* the first node of this level that is at least size big (its chain       *)
(* successor when the sizes are equal and it has one), or the last node.   *)
(* A negative result says why there is none.                               *)
Wild == -1
Hang == -2

Path(m, i) ==
  LET path[k \in 0 .. Cardinality(Addresses)] ==
        IF k = 0 THEN ListHead
        ELSE LET node == path[k - 1] IN node + m[OffsetAt(node, i)]
  IN  path

Readable(m, node) == Word(m, node) # Junk

(* The walk stops at the k-th node.                                        *)
Stopped(m, size, i, path, k) ==
  LET curr == path[k]
      succ == Word(m, SuccAt(curr))
  IN  IF ~Readable(m, curr) THEN Wild
      ELSE IF BlockSize(m, curr) < size
           THEN IF Word(m, OffsetAt(curr, i)) = Junk THEN Wild ELSE curr
      ELSE IF BlockSize(m, curr) = size /\ succ = Junk THEN Wild
      ELSE IF BlockSize(m, curr) = size /\ succ # 0 THEN curr + succ
      ELSE path[IF k = 0 THEN 0 ELSE k - 1]

Search(m, size, i, path) ==
  LET Ends(node) == \/ ~Readable(m, node)
                    \/ BlockSize(m, node) >= size
                    \/ Word(m, OffsetAt(node, i)) \in {0, Junk}
      ends == {k \in DOMAIN path : (\A j \in 0 .. k - 1 : ~Ends(path[j])) /\ Ends(path[k])}
  IN  IF ends = {} THEN Hang ELSE Stopped(m, size, i, path, CHOOSE k \in ends : TRUE)

FindOnIndex(m, size, i) == Search(m, size, i, Path(m, i))

(* _find_sorted_block_by_size, started at the list head.  Its inner loop   *)
(* tests index_level < 13 || .. where && was meant, so it always runs past *)
(* the offsets array of the head, whose size 0 is below any wanted size,   *)
(* and the function returns NULL.  The words it scans on the way belong to *)
(* the first block: see ScanRunsAway.                                      *)
FindBySize == 0

(* The levels a block with this level_of_indices is linked on, in the      *)
(* order of the loops (a garbage level beyond Levels wraps: no iteration). *)
LevelsOf(level) == IF level \in 1 .. Levels
                   THEN [j \in 1 .. level |-> Levels - level + j - 1] ELSE <<>>

(* One iteration of the loop of _insert_sorted_block_to_skiplist: the      *)
(* block is linked behind pos.                                             *)
LinkBehind(M, pos, block, i) ==
  LET off == Word(M.m, OffsetAt(pos, i))
  IN  IF Lost(M) THEN M
      ELSE IF pos = Hang THEN Stop(M, "hang")
      ELSE IF pos = Wild \/ off = Junk THEN Stop(M, "wild")
      ELSE Store(Store(M, OffsetAt(block, i),
                       IF off # 0 THEN off - (block - pos) ELSE 0),
                 OffsetAt(pos, i), block - pos)
LinkOn(M, block, size, i) == LinkBehind(M, FindOnIndex(M.m, size, i), block, i)

(* _insert_sorted_block_to_skiplist; level is what the random number       *)
(* generator gives.                                                        *)
InsertBlock(M, block, level) ==
  LET op(N, i) == LinkOn(N, block, BlockSize(M.m, block), i)
  IN  IF Lost(M) THEN M
      ELSE FoldLeft(op, Store(M, LevelAt(block), level), LevelsOf(level))

(* One iteration of the loop of _remove_sorted_block_from_skiplist: the    *)
(* last node strictly smaller than the block is taken for its predecessor. *)
UnlinkFrom(M, prev, block, i) ==
  LET off  == Word(M.m, OffsetAt(block, i))
      prevOff == Word(M.m, OffsetAt(prev, i))
  IN  IF Lost(M) THEN M
      ELSE IF prev = Hang THEN Stop(M, "hang")
      ELSE IF prev = Wild \/ off = Junk \/ prevOff = Junk THEN Stop(M, "wild")
      ELSE Store(M, OffsetAt(prev, i), IF off # 0 THEN prevOff + off ELSE 0)
UnlinkOn(M, block, size, i) ==
  UnlinkFrom(M, FindOnIndex(M.m, (size - 1) % HeadMod, i), block, i)

(* The end of _remove_sorted_block_from_skiplist: leaving a chain of       *)
(* blocks of the same size.                                                *)
Unchain(M, block) ==
  LET pred == Word(M.m, PredAt(block))
      succ == Word(M.m, SuccAt(block))
      a == SuccAt(block + pred)
      b == PredAt(block + succ)
  IN  IF Lost(M) \/ pred = 0 THEN M
      ELSE IF pred = Junk \/ succ = Junk THEN Stop(M, "wild")
      ELSE IF succ = 0 THEN Store(M, a, 0)
      ELSE IF Word(M.m, a) = Junk \/ Word(M.m, b) = Junk THEN Stop(M, "wild")
      ELSE Store(Store(M, a, M.m[a] + succ), b, M.m[b] + pred)

RemoveBlock(M, block) ==
  LET size  == BlockSize(M.m, block)
      level == Word(M.m, LevelAt(block))
      op(N, i) == UnlinkOn(N, block, size, i)
  IN  IF Lost(M) THEN M
      ELSE IF level = Junk THEN Stop(M, "wild")
      ELSE Unchain(FoldLeft(op, M, LevelsOf(level)), block)

InSkiplist(m, block) == m[PredAt(block)] # 0 \/ m[LevelAt(block)] # 0

(* _merge_into_single_block: curr and next are contiguous, curr < next.    *)
(* Once both are off the list, curr takes the new size, is cleared, gets   *)
(* its footer and goes back on the list.                                   *)
Footed(M, curr, size) == Store(M, curr + size - 4, M.m[curr])
Joined(M, curr, size, level) ==
  IF Lost(M) THEN M
  ELSE InsertBlock(Footed(Zero([M EXCEPT !.m[curr] = SetSize(@, size)],
                               curr + Payload, size - 4),
                          curr, size),
                   curr, level)
MergeSizes(M, curr, next, level) ==
  Joined(M, curr, (BlockSize(M.m, curr) + BlockSize(M.m, next)) % HeadMod, level)
Merge(M, curr, next, level) ==
  MergeSizes(RemoveBlock(RemoveBlock(M, curr), next), curr, next, level)

----------------------------------------------------------------------------
(* The life of the pool.                                                   *)

InitialFree == PoolEnd - PoolStruct - NodeSize - 4

(* deep_mem_init on a zeroed buffer.                                       *)
Init ==
  /\ mem = [a \in Addresses |->
              CASE a = LevelAt(ListHead) -> Levels
                [] a = FirstBlock -> HeadWord(PoolEnd - 8 - FirstBlock - Payload, TRUE, FALSE)
                [] OTHER -> 0]
  /\ remHead = FirstBlock
  /\ remEnd = PoolEnd - 8
  /\ bins = [c \in BinSizes |-> 0]
  /\ freeMemory = InitialFree
  /\ live = {}
  /\ status = "ok"

RemainderSizeUncarved == PoolEnd - 8 - remHead
RemainderSize == remEnd - remHead     \* get_remainder_size

FastRegion == Span(remEnd, PoolEnd - 8 - remEnd)
HeldBy(blocks) == FastRegion \cup UNION {Span(b.at, b.size + Payload) : b \in blocks}
HeldWithout(block) == HeldBy(live \ {block})

Halt(st) == status' = st /\ UNCHANGED <<mem, remHead, remEnd, bins, freeMemory, live>>

(* What a caller of deep_malloc gets: the block with its payload zeroed.   *)
HandOutChargesHead(m, b, size) ==
  /\ mem' = Fill(m, b + Payload, size, 0)
  /\ freeMemory' = freeMemory - size - Payload
HandOutStale(m, b, size) ==
  /\ mem' = m
  /\ freeMemory' = freeMemory - size
HandOut(m, b, size) ==
  /\ mem' = Fill(m, b + Payload, size, 0)
  /\ freeMemory' = freeMemory - size

Shrunk(w, n) == SetSize(w, HeadSize(w) - n)

(* The head of the remainder a split leaves (its P flag is set at the end  *)
(* of deep_malloc_sorted_bins).                                            *)
SplitHeadNoPrev(size) == HeadWord(size, FALSE, FALSE)
SplitHead(size) == HeadWord(size, TRUE, FALSE)

(* deep_malloc_fast_bins, a block of the bin.                              *)
MallocFromBin(size) ==
  LET aligned == Aligned(size)
      b    == bins[aligned]
      next == Word(mem, b + Payload)
      w    == Word(mem, b)
  IN  /\ status = "ok" /\ size > 0 /\ size <= freeMemory
      /\ aligned <= FastBinMax
      /\ b # 0
      /\ IF next = Junk \/ w = Junk
         THEN Halt("wild")
         ELSE /\ HandOut([mem EXCEPT ![b] = SetAlloc(w, TRUE)], b, HeadSize(w))
              /\ live' = live \cup {[at |-> b, size |-> aligned - Payload]}
              /\ bins' = [bins EXCEPT ![aligned] = Target(next)]
              /\ UNCHANGED <<remHead, remEnd, status>>

(* deep_malloc_fast_bins, a block off the top of the remainder.  The guard *)
(* compares the remainder with aligned, but aligned + 4 bytes are taken:   *)
(* off a remainder of exactly aligned bytes, the head lies over the last   *)
(* word of the sorted block below, or of the list head node.               *)
MallocCarve(size) ==
  LET aligned == Aligned(size)
      b == remEnd - aligned - 4
  IN  /\ status = "ok" /\ size > 0 /\ size <= freeMemory
      /\ aligned <= FastBinMax
      /\ bins[aligned] = 0
      /\ aligned <= RemainderSize
      /\ HandOut([mem EXCEPT ![remHead] = Shrunk(@, aligned + 4),
                             ![b] = HeadWord(aligned - Payload, FALSE, TRUE)],
                 b, aligned - Payload)
      /\ live' = live \cup {[at |-> b, size |-> aligned - Payload]}
      /\ remEnd' = b
      /\ status' = IF b < remHead THEN "torn" ELSE status
      /\ UNCHANGED <<remHead, bins>>

(* deep_malloc_sorted_bins: the list search gives nothing, so the block is *)
(* split off the bottom of the remainder.                                  *)
MallocSorted(size) ==
  LET aligned == Aligned(size)
      b   == remHead
      new == b + aligned
      newSize == RemainderSize - Payload - aligned - Payload
  IN  /\ status = "ok" /\ size > 0 /\ size <= freeMemory
      /\ aligned > FastBinMax
      /\ FindBySize = 0
      /\ aligned <= RemainderSize
      /\ IF newSize + Payload < 0
         THEN Halt("crash")
         ELSE /\ LET cleared == Fill(mem, new, newSize + Payload, 0)
                 IN  HandOut([cleared EXCEPT ![new] = SplitHead(newSize),
                                ![b] = HeadWord(aligned - Payload, PrevAlloc(@), TRUE)],
                             b, aligned - Payload)
              /\ live' = live \cup {[at |-> b, size |-> aligned - Payload]}
              /\ remHead' = new
              /\ UNCHANGED <<remEnd, bins, status>>

(* The calls deep_malloc refuses: no free memory, or no block.             *)
MallocNull(size) ==
  LET aligned == Aligned(size)
  IN  /\ status = "ok"
      /\ \/ size = 0
         \/ freeMemory < size
         \/ aligned > RemainderSize /\ (aligned <= FastBinMax => bins[aligned] = 0)
      /\ UNCHANGED vars

(* A search of the list scans the words of the first block for an offset;  *)
(* client data there is followed anywhere (both callers of the search).    *)
ScanRunsAway ==
  /\ status = "ok"
  /\ \E a \in DOMAIN mem : mem[a] = Junk
  /\ \/ \E size \in Requests : size > 0 /\ size <= freeMemory /\ Aligned(size) > FastBinMax
     \/ \E b \in live : b.size + Payload > FastBinMax
  /\ Halt("wild")

(* deep_free_fast_bins.                                                    *)
FreeFast(block) ==
  LET b == block.at
      w == Word(mem, b)
      bin == HeadSize(w) + Payload
      zeroed == Fill([mem EXCEPT ![b] = SetAlloc(w, FALSE)], b + Payload, HeadSize(w), 0)
  IN  /\ status = "ok" /\ block \in live
      /\ w # Junk /\ IsAlloc(w) /\ bin <= FastBinMax
      /\ mem' = IF bins[bin] # 0 THEN [zeroed EXCEPT ![b + Payload] = PointerTo(bins[bin])] ELSE zeroed
      /\ bins' = [bins EXCEPT ![bin] = b]
      /\ freeMemory' = freeMemory + HeadSize(w)
      /\ live' = live \ {block}
      /\ UNCHANGED <<remHead, remEnd, status>>

(* deep_free_sorted_bins, stage by stage.  The record now also has M.base, *)
(* the block as it stands, and M.rem, the remainder's head.                *)
Cleared(block) ==
  LET w == mem[block.at]
  IN  Zero([m |-> [mem EXCEPT ![block.at] = SetAlloc(w, FALSE)], st |-> status,
            held |-> HeldWithout(block), base |-> block.at, rem |-> remHead],
           block.at + Payload, HeadSize(w))

(* The head above is looked for 4 whole sorted_block_t down.               *)
MergeAbove(M, level) ==
  LET prevHead == Word(M.m, M.base - 4 * NodeSize)
      above == M.base - HeadSize(prevHead)
  IN  IF Lost(M) \/ PrevAlloc(M.m[M.base]) THEN M
      ELSE IF prevHead = Junk \/ Word(M.m, above) = Junk THEN Stop(M, "wild")
      ELSE Merge([M EXCEPT !.base = above], above, M.base, level)

RemainderStays(M, below) == M
UpdateRemainder(M, below) == [M EXCEPT !.rem = IF below = @ THEN M.base ELSE @]

MergeWith(M, below, level) ==
  LET v == Word(M.m, below)
  IN  IF Lost(M) THEN M
      ELSE IF v = Junk THEN Stop(M, "wild")
      ELSE IF IsAlloc(v) THEN UpdateRemainder(M, below)
      ELSE UpdateRemainder(Merge(M, M.base, below, level), below)
MergeBelow(M, level) == MergeWith(M, M.base + AlignedSize(M.m, M.base), level)

Relist(M, level) ==
  IF Lost(M) \/ InSkiplist(M.m, M.base) THEN M ELSE InsertBlock(M, M.base, level)

Released(M, block) ==
  IF Lost(M)
  THEN Halt(M.st)
  ELSE /\ mem' = M.m
       /\ remHead' = M.rem
       /\ freeMemory' = freeMemory + HeadSize(mem[block.at])
       /\ live' = live \ {block}
       /\ status' = M.st
       /\ UNCHANGED <<remEnd, bins>>

(* The levels are the random numbers of up to three insertions.            *)
FreeSorted(block, levels) ==
  LET w == Word(mem, block.at)
  IN  /\ status = "ok" /\ block \in live
      /\ w # Junk /\ IsAlloc(w) /\ HeadSize(w) + Payload > FastBinMax
      /\ Released(Relist(MergeBelow(MergeAbove(Cleared(block), levels[1]), levels[2]),
                         levels[3]), block)

(* The client fills the block it holds (once: Junk is any data).           *)
ClientWrites(block) ==
  /\ status = "ok" /\ block \in live
  /\ mem[block.at + Payload] # Junk
  /\ mem' = Fill(mem, block.at + Payload, block.size, Junk)
  /\ UNCHANGED <<remHead, remEnd, bins, freeMemory, live, status>>

Next ==
  \/ \E size \in Requests :
       \/ MallocFromBin(size) \/ MallocCarve(size)
       \/ MallocSorted(size)  \/ MallocNull(size)
  \/ ScanRunsAway
  \/ \E block \in live :
       \/ FreeFast(block)
       \/ \E levels \in [1 .. 3 -> 1 .. Levels] : FreeSorted(block, levels)
       \/ ClientWrites(block)

Spec == Init /\ [][Next]_vars

----------------------------------------------------------------------------
(* The shape of every variable.                                            *)
TypeOK ==
  /\ mem \in [Addresses -> Int \cup {Junk}]
  /\ remHead \in Nat /\ remEnd \in Nat
  /\ bins \in [BinSizes -> {0} \cup Addresses]
  /\ freeMemory \in Nat
  /\ live \subseteq [at : Addresses, size : Nat]
  /\ status \in {"ok", "torn", "crash", "stray", "engulf", "wild", "hang"}

EndOf(b) == b.at + b.size + Payload

(* The carve that fits exactly: the head of b lies over the last word of   *)
(* the topmost sorted block, c, or of the list head node.                  *)
TornBy(b) == status = "torn" /\ b.at = remEnd /\ remHead = b.at + 4
Torn(b, c) == TornBy(b) /\ EndOf(c) = remHead

(* What the allocator owes every client (deep_malloc, deep_free): a block  *)
(* it holds lies in the pool, outside the remainder, and its head says its *)
(* size and "allocated", whatever damage a call has done.  It is apart     *)
(* from every other held block, but for the word a carve that fits exactly *)
(* takes from the block below.                                             *)
LiveBlocksIntact ==
  \A b \in live :
    /\ b.at >= FirstBlock - (IF TornBy(b) THEN 4 ELSE 0) /\ EndOf(b) <= PoolEnd - 8
    /\ EndOf(b) <= remHead \/ b.at >= remEnd
    /\ IsAlloc(mem[b.at]) /\ BlockSize(mem, b.at) = b.size
    /\ \A c \in live \ {b} :
         \/ EndOf(b) <= c.at \/ EndOf(c) <= b.at
         \/ Torn(b, c) \/ Torn(c, b)

(* free_memory is the initial amount less the payloads handed out, whatever *)
(* was merged, split, reused or refused in between.                         *)
FreeMemoryAccounts ==
  freeMemory = InitialFree - MapThenSumSet(LAMBDA b : b.size, live)

(* The blocks of a bin, from its first on; a fast block takes 20 bytes of  *)
(* the remainder or more.                                                  *)
BinBlock(c) ==
  LET path[k \in 0 .. (PoolEnd - FirstBlock) \div 20] ==
        IF k = 0 THEN bins[c]
        ELSE LET b == path[k - 1] IN IF b = 0 THEN 0 ELSE Target(Word(mem, b + Payload))
  IN  path

FreeOfSize(b, c) ==
  /\ remEnd <= b /\ b < PoolEnd - 8 /\ b % 4 = 0
  /\ mem[b] # Junk /\ ~IsAlloc(mem[b])
  /\ BlockSize(mem, b) + Payload = c

(* Every bin's chain ends, and holds free blocks of its size from the fast *)
(* region, none of them held by a client.                                  *)
BinsHoldFreeBlocks ==
  \A c \in BinSizes :
    LET path == BinBlock(c)
    IN  /\ \E k \in DOMAIN path : path[k] = 0
        /\ \A k \in DOMAIN path : path[k] # 0 => FreeOfSize(path[k], c)

(* Every held sorted block has its P flag set: the flag is never cleared,  *)
(* so "merge above" and its address arithmetic never run.                  *)
PrevFlagAlwaysSet ==
  \A b \in live : b.size + Payload > FastBinMax => PrevAlloc(mem[b.at])

(* Above a held sorted block is a block: the remainder, or a head that     *)
(* says free, or another held block, so "merge below" looks at a head.     *)
BelowIsAHead ==
  \A b \in live :
    LET next == b.at + b.size + Payload
    IN  b.size + Payload > FastBinMax =>
          \/ next = remHead
          \/ \E c \in live : c.at = next
          \/ mem[next] # Junk /\ ~IsAlloc(mem[next]) /\ next < remHead

(* The remainder's head never claims more than the remainder (read as a    *)
(* signed number: it may go below zero), whatever was carved, split or     *)
(* merged.  An empty remainder has no head: a fast block starts there.     *)
Signed(size) == IF size >= HeadMod \div 2 THEN size - HeadMod ELSE size
RemainderInSync ==
  LET w == mem[remHead]
  IN  remHead < remEnd =>
        w # Junk /\ ~IsAlloc(w) /\ Signed(HeadSize(w)) + Payload <= RemainderSize

(***************************************************************************)
(* What deep_free takes for granted when it looks at the blocks around one *)
(* and deep_malloc when it takes the first of a bin.                       *)
(***************************************************************************)
HeapShape ==
  /\ PrevFlagAlwaysSet /\ BelowIsAHead
  /\ status = "ok" => BinsHoldFreeBlocks /\ RemainderInSync

(* Where the list leads, from its head on: nodes, but also blocks that are *)
(* in use again and what has been left of a listed remainder.              *)
Nodes ==
  UNION {LET path == Path(mem, i)
             Reached(k) == \A j \in 0 .. k - 1 : Word(mem, OffsetAt(path[j], i)) \notin {0, Junk}
         IN  {path[k] : k \in {n \in DOMAIN path : Reached(n)}} : i \in 0 .. Levels - 1}

(* Some node the list leads to is not, or no longer, a free place that has *)
(* room for a node.                                                        *)
ListStale == \E n \in Nodes : Span(n, NodeSize) \cap HeldBy(live) # {}

(***************************************************************************)
(* A call changes no data of a block a client keeps across it, with two    *)
(* exceptions that damage the pool: the word under the head of a carve     *)
(* that fits exactly; and what a list operation writes when the skip list  *)
(* already leads to a block in use, or to a remainder that has become too  *)
(* small for a node, with blocks in use above it.                          *)
(***************************************************************************)
ClientDataPreserved ==
  [][live' # live =>
       \A b \in live \cap live' : \A a \in Span(b.at + Payload, b.size) :
         mem'[a] # mem[a] =>
           \/ status' = "torn" /\ a = remEnd' /\ a = EndOf(b) - 4
           \/ status' # "ok" /\ ListStale]_vars

(***************************************************************************)
(* A payload is handed out zeroed, whatever its bytes were used for before *)
(* (a client's data, a bin's next pointer, a list node).  The interpreter  *)
(* needs it for local variables and linear memory, the loader for the next *)
(* pointer of its last section.                                            *)
(***************************************************************************)
HandsOutZeroed ==
  [][\A b \in live' \ live : \A a \in Span(b.at + Payload, b.size) : mem'[a] = 0]_vars

(* The blocks of a bin, after damage as far as the chain leads through     *)
(* free blocks.                                                            *)
Binned(c) ==
  LET path == BinBlock(c)
      proper == {n \in DOMAIN path : status = "ok" \/ \A j \in 0 .. n : FreeOfSize(path[j], c)}
  IN  {[at |-> b, size |-> c - Payload] : b \in {path[k] : k \in proper} \ {0}}

(* The word-level allocator does what the block-level one does, until it   *)
(* is damaged, and in the call that does the damage.  The bins are read    *)
(* back from their chains.                                                 *)
BlockLevel == INSTANCE Pool WITH
  TopEnd <- PoolEnd - 8,
  ok     <- status = "ok",
  spare  <- UNION {Binned(c) : c \in {n \in BinSizes : bins[n] # 0}}
ImplementsPool == BlockLevel!Spec

----------------------------------------------------------------------------
(* What the comments of deep_mem.c and deep_mem.h claim.                   *)

(* "so a later merge does not over-merge into blocks carved above it".     *)
NeverOverMerges == status # "engulf"
=============================================================================
