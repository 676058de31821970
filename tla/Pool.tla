-------------------------------- MODULE Pool --------------------------------
(***************************************************************************)
(* The allocator of deep_mem.c at the level of blocks: who holds what, the *)
(* remainder between the sorted blocks (below) and the fast blocks         *)
(* (above), the free fast blocks, free_memory.  Heads, payload words and   *)
(* the skip list are left to DeepMem, which implements this module: the    *)
(* search of the list never finds a block, so a free sorted block is       *)
(* usable again only when it goes back into the remainder.                 *)
(*                                                                         *)
(* ok turns FALSE when a call damages the pool.  The model has the call's  *)
(* effect, if it returns, and stops behind it.                             *)
(***************************************************************************)
EXTENDS Integers

CONSTANTS
  FirstBlock,  \* the first byte behind the list head node
  TopEnd,      \* the last 8 bytes of the pool, kept free
  FastBinMax,  \* FAST_BIN_MAX_SIZE
  Requests     \* the sizes clients ask for

ASSUME PoolAssumption ==
  /\ FirstBlock \in Nat /\ TopEnd \in Nat /\ FirstBlock <= TopEnd
  /\ FastBinMax \in Nat
  /\ Requests \subseteq Nat

VARIABLES
  live,        \* the blocks clients hold, [at, size]
  spare,       \* the blocks in the fast bins
  remHead, remEnd,
  freeMemory,
  ok

vars == <<live, spare, remHead, remEnd, freeMemory, ok>>

Header == 8                                            \* block_payload_offset
Aligned(size) == ((size + Header + 7) \div 8) * 8      \* aligned_size
BlockWithHead(b, aligned) == [at |-> b, size |-> aligned]
Block(b, aligned) == [at |-> b, size |-> aligned - Header]
End(b) == b.at + b.size + Header
IsFast(b) == b.size + Header <= FastBinMax
RemainderSizeUncarved == TopEnd - remHead
RemainderSize == remEnd - remHead

Init ==
  /\ live = {} /\ spare = {}
  /\ remHead = FirstBlock /\ remEnd = TopEnd
  /\ freeMemory = TopEnd - FirstBlock + 4
  /\ ok = TRUE

Accepted(size) == ok /\ size > 0 /\ size <= freeMemory

HandOut(b) == live' = live \cup {b} /\ freeMemory' = freeMemory - b.size

(* A call that does not return.                                            *)
Break == ok' = FALSE /\ UNCHANGED <<live, spare, remHead, remEnd, freeMemory>>

MallocFromBin(size) ==
  /\ Accepted(size) /\ Aligned(size) <= FastBinMax
  /\ UNCHANGED <<remHead, remEnd, ok>>
  /\ \E b \in spare :
       /\ b.size = Aligned(size) - Header
       /\ HandOut(b)
       /\ spare' = spare \ {b}

(* The guard compares the remainder with the block, but four bytes more    *)
(* are taken: off a remainder of exactly the block's size, those are the   *)
(* last ones of what lies below it.                                        *)
MallocCarve(size) ==
  LET b == Block(remEnd - Aligned(size) - 4, Aligned(size))
  IN  /\ Accepted(size) /\ Aligned(size) <= FastBinMax
      /\ Aligned(size) <= RemainderSize
      /\ \A c \in spare : c.size # b.size
      /\ HandOut(b)
      /\ remEnd' = b.at
      /\ ok' = (b.at >= remHead)
      /\ UNCHANGED <<spare, remHead>>

MallocSorted(size) ==
  LET b == Block(remHead, Aligned(size))
  IN  /\ Accepted(size) /\ Aligned(size) > FastBinMax
      /\ Aligned(size) <= RemainderSize
      /\ IF RemainderSize - Aligned(size) < Header
         THEN Break
         ELSE /\ HandOut(b)
              /\ remHead' = End(b)
              /\ UNCHANGED <<spare, remEnd, ok>>

FreeFast(b) ==
  /\ ok /\ IsFast(b)
  /\ live' = live \ {b}
  /\ spare' = spare \cup {b}
  /\ freeMemory' = freeMemory + b.size
  /\ UNCHANGED <<remHead, remEnd, ok>>

(* Above an empty remainder is a fast block.  When that is free, a block   *)
(* just below is merged with it as if it were the remainder: its head goes,*)
(* and the chain of its bin may be cut at it.                              *)
Engulfs(b) == End(b) = remHead /\ remHead = remEnd /\ \E c \in spare : c.at = remHead

FreeSortedAlwaysMerges(b) ==
  /\ ok /\ ~IsFast(b)
  /\ live' = live \ {b}
  /\ remHead' = b.at
  /\ freeMemory' = freeMemory + b.size
  /\ UNCHANGED <<spare, remEnd, ok>>

(* A block just below the remainder goes back into it.  The skip list may  *)
(* store into a block it does not own (ok' = FALSE).                       *)
FreeSorted(b) ==
  /\ ok /\ ~IsFast(b)
  /\ live' = live \ {b}
  /\ remHead' = IF End(b) = remHead THEN b.at ELSE remHead
  /\ freeMemory' = freeMemory + b.size
  /\ UNCHANGED remEnd
  /\ \/ UNCHANGED <<ok, spare>> /\ ~Engulfs(b)
     \/ ok' = FALSE /\ spare' \in SUBSET spare

(* A request or a release that uses the skip list may run into client data *)
(* or into a cycle, and never come back.                                   *)
ListBreaks ==
  /\ ok
  /\ \/ live # {} /\ \E size \in Requests : Accepted(size) /\ Aligned(size) > FastBinMax
     \/ \E b \in live : ~IsFast(b)
  /\ Break

Next ==
  \/ \E b \in live : FreeFast(b) \/ FreeSorted(b)
  \/ \E size \in Requests : MallocFromBin(size) \/ MallocCarve(size) \/ MallocSorted(size)
  \/ ListBreaks

Spec == Init /\ [][Next]_vars

----------------------------------------------------------------------------
(* The shape of every variable.                                            *)
TypeOK ==
  /\ live \subseteq [at : Int, size : Nat]
  /\ spare \subseteq [at : Int, size : Nat]
  /\ remHead \in Int /\ remEnd \in Int
  /\ freeMemory \in Int
  /\ ok \in BOOLEAN

Apart(b, c) == End(b) <= c.at \/ End(c) <= b.at

(* The head of b, a fast block, lies over the last four bytes of c, a      *)
(* sorted block, or some of them.                                          *)
Torn(b, c) == IsFast(b) /\ ~IsFast(c) /\ End(c) - 4 <= b.at

(* Blocks in use share no byte, as long as the pool is not damaged; and no *)
(* call with which it is hands out more of a block in use than its last    *)
(* four bytes, which a carve that fits exactly (deep_mem.c:222) does.      *)
LiveBlocksApart ==
  \A b, c \in live :
    b # c => Apart(b, c) \/ (~ok /\ (Torn(b, c) \/ Torn(c, b)))

(* The sorted blocks fill the pool from below, the fast blocks, free ones  *)
(* included, from above, and the remainder lies between them.              *)
Regions ==
  /\ FirstBlock <= remHead /\ remHead <= remEnd /\ remEnd <= TopEnd
  /\ \A b \in live \cup spare :
       IF IsFast(b) THEN remEnd <= b.at /\ End(b) <= TopEnd
                    ELSE FirstBlock <= b.at /\ End(b) <= remHead

(* A block in a fast bin is fast, in use by nobody, and overlaps nothing.  *)
BinsApart ==
  /\ \A b \in spare : IsFast(b)
  /\ \A b \in spare : \A c \in live \cup spare : b # c => Apart(b, c)
  /\ live \cap spare = {}

(* Until it is damaged the pool is in order: what is in use lies where its *)
(* size says, and what a bin holds is no one's.                            *)
Layout == ok => Regions /\ BinsApart

(* The allocator keeps the promise of Heap until it breaks.                *)
Promise == INSTANCE Heap WITH
  Lo <- FirstBlock, Hi <- TopEnd,
  Sizes <- {Aligned(size) - Header : size \in Requests}
KeepsPromise == Promise!Spec
=============================================================================
