----------------------------- MODULE PoolProofs -----------------------------
(***************************************************************************)
(* Proofs about Pool, for every pool size, request set and fast-bin limit. *)
(***************************************************************************)
EXTENDS Pool, TLAPS

(* The alignment arithmetic of deep_malloc: an aligned size has room for   *)
(* the request and the head.                                               *)
LEMMA AlignedBounds ==
  ASSUME NEW size \in Nat
  PROVE  Aligned(size) \in Nat /\ Aligned(size) >= size + Header
BY SMT DEF Aligned, Header

LEMMA TypeStep == TypeOK /\ [Next]_vars => TypeOK'
<1> SUFFICES ASSUME TypeOK, [Next]_vars PROVE TypeOK'
  OBVIOUS
<1> USE PoolAssumption DEF TypeOK, Header, HandOut, Break, Block, End
<1>1. ASSUME NEW size \in Requests, MallocFromBin(size) PROVE TypeOK'
  BY <1>1 DEF MallocFromBin
<1>2. ASSUME NEW size \in Requests, MallocCarve(size) PROVE TypeOK'
  <2>1. Aligned(size) \in Nat /\ Aligned(size) >= 8
    BY AlignedBounds
  <2> DEFINE b == Block(remEnd - Aligned(size) - 4, Aligned(size))
  <2>2. b \in [at : Int, size : Nat]
    BY <2>1
  <2>3. /\ live' = live \cup {b} /\ freeMemory' = freeMemory - b.size
        /\ remEnd' = b.at /\ ok' \in BOOLEAN /\ UNCHANGED <<spare, remHead>>
    BY <1>2 DEF MallocCarve
  <2>4. QED BY <2>2, <2>3
<1>3. ASSUME NEW size \in Requests, MallocSorted(size) PROVE TypeOK'
  <2> DEFINE b == Block(remHead, Aligned(size))
  <2>1. Aligned(size) \in Nat /\ Aligned(size) >= 8
    BY AlignedBounds
  <2>2. b \in [at : Int, size : Nat] /\ End(b) \in Int
    BY <2>1
  <2>3. CASE RemainderSize - Aligned(size) < Header
    BY <1>3, <2>3 DEF MallocSorted
  <2>4. CASE ~(RemainderSize - Aligned(size) < Header)
    <3>1. /\ live' = live \cup {b} /\ freeMemory' = freeMemory - b.size
          /\ remHead' = End(b) /\ UNCHANGED <<spare, remEnd, ok>>
      BY <1>3, <2>4 DEF MallocSorted
    <3>2. QED BY <3>1, <2>2
  <2>5. QED BY <2>3, <2>4
<1>4. ASSUME NEW b \in live, FreeFast(b) PROVE TypeOK'
  BY <1>4 DEF FreeFast
<1>5. ASSUME NEW b \in live, FreeSorted(b) PROVE TypeOK'
  <2>1. b \in [at : Int, size : Nat]
    OBVIOUS
  <2>2. /\ live' = live \ {b}
        /\ remHead' = IF End(b) = remHead THEN b.at ELSE remHead
        /\ freeMemory' = freeMemory + b.size
        /\ spare' \subseteq spare /\ ok' \in BOOLEAN /\ UNCHANGED remEnd
    BY <1>5 DEF FreeSorted
  <2>3. QED BY <2>1, <2>2
<1>6. CASE ListBreaks
  BY <1>6 DEF ListBreaks
<1>7. CASE UNCHANGED vars
  BY <1>7 DEF vars
<1>8. QED BY <1>1, <1>2, <1>3, <1>4, <1>5, <1>6, <1>7 DEF Next

(* Every variable keeps its type, in every pool.                           *)
THEOREM TypeCorrect == Spec => []TypeOK
<1>1. Init => TypeOK
  BY PoolAssumption DEF Init, TypeOK
<1>2. QED BY <1>1, TypeStep, PTL DEF Spec

(* The pool before it is damaged.  Disjointness of the blocks in use alone *)
(* is not inductive: a block comes out of a bin or off the remainder, so   *)
(* it takes that the bins are disjoint from everything and that the        *)
(* remainder is between the two kinds of blocks.                           *)
NoOverlap == \A b, c \in live : b # c => Apart(b, c)
Whole == TypeOK /\ Regions /\ NoOverlap /\ BinsApart

(* The inductive invariant.                                                *)
IInv == TypeOK /\ LiveBlocksApart /\ (ok => Whole)

(* Going back into the remainder, a sorted block takes no other with it:   *)
(* it is the topmost one.                                                  *)
LEMMA TopmostSorted ==
  ASSUME Whole, NEW b \in live, ~IsFast(b), End(b) = remHead,
         NEW c \in (live \cup spare) \ {b}, ~IsFast(c)
  PROVE  End(c) <= b.at
<1>1. c \in live /\ c # b
  BY DEF Whole, BinsApart
<1>2. Apart(b, c)
  BY <1>1 DEF Whole, NoOverlap
<1>3. End(c) <= remHead
  BY <1>1 DEF Whole, Regions
<1>4. c.at \in Int /\ c.size \in Nat /\ b.at \in Int /\ b.size \in Nat
  BY <1>1 DEF Whole, TypeOK
<1>5. QED BY <1>2, <1>3, <1>4 DEF Apart, End, Header

LEMMA InitInvariant == Init => Whole
BY PoolAssumption DEF Init, Whole, TypeOK, Regions, NoOverlap, BinsApart

(* A block added to those in use keeps the invariant if it is new, apart   *)
(* from everything and in its region of the pool as it is afterwards.      *)
LEMMA AddBlock ==
  ASSUME Whole, TypeOK', NEW b,
         b \in [at : Int, size : Nat],
         live' = live \cup {b}, spare' = spare, b \notin spare,
         \A c \in live \cup spare : Apart(b, c),
         FirstBlock <= remHead', remHead <= remHead',
         remHead' <= remEnd', remEnd' <= remEnd,
         IF IsFast(b) THEN remEnd' <= b.at /\ End(b) <= TopEnd
                      ELSE FirstBlock <= b.at /\ End(b) <= remHead'
  PROVE  Whole'
<1>1. \A c \in live \cup spare : Apart(c, b)
  BY DEF Apart
<1>2. NoOverlap'
  BY <1>1 DEF Whole, NoOverlap, Apart, End
<1>3. BinsApart'
  BY <1>1 DEF Whole, BinsApart, Apart, End, IsFast
<1>4. Regions'
  <2>1. remEnd' <= TopEnd
    BY PoolAssumption DEF Whole, Regions, TypeOK
  <2>2. ASSUME NEW c \in (live \cup spare)'
        PROVE  IF IsFast(c) THEN remEnd' <= c.at /\ End(c) <= TopEnd
                            ELSE FirstBlock <= c.at /\ End(c) <= remHead'
    <3>1. CASE c = b
      BY <3>1
    <3>2. CASE c \in live \cup spare
      <4>1. c.at \in Int /\ c.size \in Nat
        BY <3>2 DEF Whole, TypeOK
      <4>2. IF IsFast(c) THEN remEnd <= c.at /\ End(c) <= TopEnd
                         ELSE FirstBlock <= c.at /\ End(c) <= remHead
        BY <3>2 DEF Whole, Regions
      <4>3. CASE IsFast(c)
        BY <4>1, <4>2, <4>3 DEF Whole, TypeOK
      <4>4. CASE ~IsFast(c)
        BY <4>1, <4>2, <4>4 DEF Whole, TypeOK, End, Header
      <4>5. QED BY <4>3, <4>4
    <3>3. QED BY <3>1, <3>2
  <2>3. QED BY <2>1, <2>2 DEF Regions, IsFast, End
<1>5. QED BY <1>2, <1>3, <1>4 DEF Whole

(* A call that leaves ok does no damage.                                   *)
LEMMA StepWhole == Whole /\ [Next]_vars /\ ok' => Whole'
<1> SUFFICES ASSUME Whole, [Next]_vars, ok' PROVE Whole'
  OBVIOUS
<1>t. TypeOK'
  BY TypeStep DEF Whole
<1>s. ~Break
  BY DEF Break
<1>1. ASSUME NEW size \in Requests, MallocFromBin(size) PROVE Whole'
  <2>1. PICK b \in spare : /\ live' = live \cup {b} /\ spare' = spare \ {b}
                           /\ UNCHANGED <<remHead, remEnd, ok>>
    BY <1>1 DEF MallocFromBin, HandOut
  <2>2. (live \cup spare)' = live \cup spare
    BY <2>1
  <2>3. Regions'
    BY <2>1, <2>2 DEF Whole, Regions, End, IsFast
  <2>4. NoOverlap'
    BY <2>1 DEF Whole, NoOverlap, BinsApart, Apart, End
  <2>5. BinsApart'
    BY <2>1, <2>2 DEF Whole, BinsApart, Apart, End, IsFast
  <2>6. QED BY <1>t, <2>3, <2>4, <2>5 DEF Whole
<1>2. ASSUME NEW size \in Requests, MallocCarve(size) PROVE Whole'
  <2> DEFINE b == Block(remEnd - Aligned(size) - 4, Aligned(size))
  <2>1. Aligned(size) \in Nat /\ Aligned(size) >= 8 /\ Aligned(size) <= FastBinMax
    BY <1>2, AlignedBounds, PoolAssumption DEF Header, MallocCarve
  <2>2. CASE ~(b.at >= remHead)
    BY <1>2, <2>2 DEF MallocCarve
  <2>3. CASE b.at >= remHead
    <3>1. /\ live' = live \cup {b} /\ remEnd' = b.at
          /\ UNCHANGED <<spare, remHead>>
      BY <1>2, <2>3 DEF MallocCarve, HandOut
    <3>2. b \in [at : Int, size : Nat] /\ End(b) = remEnd - 4 /\ IsFast(b)
      BY <2>1, <2>3 DEF Block, End, IsFast, Header, Whole, TypeOK
    <3>3. remHead <= b.at /\ b.at <= remEnd
      BY <2>1, <2>3, <3>2 DEF Whole, TypeOK, Block
    <3>4. ASSUME NEW c \in live \cup spare PROVE Apart(b, c) /\ b # c
      <4>1. c.at \in Int /\ c.size \in Nat
        BY DEF Whole, TypeOK
      <4>2. IF IsFast(c) THEN remEnd <= c.at ELSE End(c) <= remHead
        BY DEF Whole, Regions
      <4>3. CASE IsFast(c)
        BY <3>2, <4>1, <4>2, <4>3 DEF Apart, End, Header, Whole, TypeOK
      <4>4. CASE ~IsFast(c)
        BY <3>2, <3>3, <4>1, <4>2, <4>4 DEF Apart, End, Header, Whole, TypeOK
      <4>5. QED BY <4>3, <4>4
    <3>5. End(b) <= TopEnd
      BY <3>2, PoolAssumption DEF Whole, Regions, TypeOK
    <3>6. FirstBlock <= remHead
      BY DEF Whole, Regions
    <3> HIDE DEF b
    <3>7. QED BY <1>t, <3>1, <3>2, <3>3, <3>4, <3>5, <3>6, AddBlock, PoolAssumption
              DEF Whole, TypeOK
  <2>4. QED BY <2>2, <2>3
<1>3. ASSUME NEW size \in Requests, MallocSorted(size) PROVE Whole'
  <2> DEFINE b == Block(remHead, Aligned(size))
  <2>1. Aligned(size) \in Nat /\ Aligned(size) >= 8 /\ Aligned(size) > FastBinMax
    BY <1>3, AlignedBounds, PoolAssumption DEF Header, MallocSorted
  <2>2. CASE RemainderSize - Aligned(size) < Header
    BY <1>3, <1>s, <2>2 DEF MallocSorted
  <2>3. CASE ~(RemainderSize - Aligned(size) < Header)
    <3>1. /\ live' = live \cup {b} /\ remHead' = End(b)
          /\ UNCHANGED <<spare, remEnd, ok>>
      BY <1>3, <2>3 DEF MallocSorted, HandOut
    <3>2. /\ b \in [at : Int, size : Nat] /\ b.at = remHead
          /\ End(b) = remHead + Aligned(size) /\ ~IsFast(b)
      BY <2>1, PoolAssumption DEF Block, End, IsFast, Header, Whole, TypeOK
    <3>3. End(b) <= remEnd
      BY <2>1, <2>3, <3>2 DEF Whole, TypeOK, RemainderSize, Header
    <3>4. ASSUME NEW c \in live \cup spare PROVE Apart(b, c) /\ b # c
      <4>1. c.at \in Int /\ c.size \in Nat
        BY DEF Whole, TypeOK
      <4>2. IF IsFast(c) THEN remEnd <= c.at ELSE End(c) <= remHead
        BY DEF Whole, Regions
      <4>3. CASE IsFast(c)
        BY <2>1, <3>2, <3>3, <4>1, <4>2, <4>3 DEF Apart, Whole, TypeOK
      <4>4. CASE ~IsFast(c)
        BY <3>2, <4>1, <4>2, <4>4 DEF Apart, End, Header, Whole, TypeOK
      <4>5. QED BY <4>3, <4>4
    <3>5. FirstBlock <= remHead /\ remHead <= End(b)
      BY <2>1, <3>2 DEF Whole, Regions, TypeOK
    <3> HIDE DEF b
    <3>6. QED BY <1>t, <3>1, <3>2, <3>3, <3>4, <3>5, AddBlock, PoolAssumption
              DEF Whole, TypeOK
  <2>4. QED BY <2>2, <2>3
<1>4. ASSUME NEW b \in live, FreeFast(b) PROVE Whole'
  <2>1. /\ IsFast(b) /\ live' = live \ {b} /\ spare' = spare \cup {b}
        /\ UNCHANGED <<remHead, remEnd, ok>>
    BY <1>4 DEF FreeFast
  <2>2. (live \cup spare)' = live \cup spare
    BY <2>1
  <2>3. Regions'
    BY <2>1, <2>2 DEF Whole, Regions, End, IsFast
  <2>4. NoOverlap'
    BY <2>1 DEF Whole, NoOverlap, Apart, End
  <2>5. \A c \in live \cup spare : b # c => Apart(b, c)
    BY DEF Whole, NoOverlap, BinsApart, Apart
  <2>6. BinsApart'
    BY <2>1, <2>2, <2>5 DEF Whole, BinsApart, Apart, End, IsFast
  <2>7. QED BY <1>t, <2>3, <2>4, <2>6 DEF Whole
<1>5. ASSUME NEW b \in live, FreeSorted(b) PROVE Whole'
  <2>1. CASE Engulfs(b)
    BY <1>5, <2>1 DEF FreeSorted
  <2>2. CASE ~Engulfs(b)
    <3>1. /\ ~IsFast(b) /\ live' = live \ {b} /\ UNCHANGED <<spare, remEnd>>
          /\ remHead' = IF End(b) = remHead THEN b.at ELSE remHead
      BY <1>5, <2>2 DEF FreeSorted
    <3>2. NoOverlap' /\ BinsApart'
      BY <3>1 DEF Whole, NoOverlap, BinsApart, Apart, End, IsFast
    <3>3. FirstBlock <= b.at /\ b.at <= End(b) /\ End(b) <= remHead
      BY <3>1 DEF Whole, Regions, TypeOK, End, Header
    <3>4. FirstBlock <= remHead' /\ remHead' <= remHead
      BY <3>1, <3>3, PoolAssumption DEF Whole, Regions, TypeOK
    <3>5. remHead' <= remEnd' /\ remEnd' <= TopEnd
      BY <1>t, <3>1, <3>4, PoolAssumption DEF Whole, Regions, TypeOK
    <3>6. ASSUME NEW c \in (live \cup spare)'
          PROVE  IF IsFast(c) THEN remEnd' <= c.at /\ End(c) <= TopEnd
                              ELSE FirstBlock <= c.at /\ End(c) <= remHead'
      <4>1. c \in (live \cup spare) \ {b}
        BY <3>1 DEF Whole, BinsApart
      <4>2. IF IsFast(c) THEN remEnd <= c.at /\ End(c) <= TopEnd
                         ELSE FirstBlock <= c.at /\ End(c) <= remHead
        BY <4>1 DEF Whole, Regions
      <4>3. ~IsFast(c) => End(c) <= remHead'
        BY <3>1, <4>1, <4>2, TopmostSorted
      <4>4. QED BY <3>1, <4>2, <4>3
    <3>7. Regions'
      BY <3>4, <3>5, <3>6 DEF Regions, IsFast, End
    <3>8. QED BY <1>t, <3>2, <3>7 DEF Whole
  <2>3. QED BY <2>1, <2>2
<1>6. CASE ListBreaks
  BY <1>6, <1>s DEF ListBreaks
<1>7. CASE UNCHANGED vars
  BY <1>7 DEF vars, Whole, TypeOK, Regions, NoOverlap, BinsApart, End, IsFast, Apart
<1>8. QED BY <1>1, <1>2, <1>3, <1>4, <1>5, <1>6, <1>7 DEF Next

(* The carve that fits exactly: all it shares with the blocks in use is up *)
(* to four bytes, the last ones of sorted blocks.                          *)
LEMMA CarveTears ==
  ASSUME Whole, NEW size \in Requests, MallocCarve(size), ~ok'
  PROVE  LiveBlocksApart'
<1> DEFINE b == Block(remEnd - Aligned(size) - 4, Aligned(size))
<1>1. Aligned(size) \in Nat /\ Aligned(size) >= 8 /\ Aligned(size) <= FastBinMax
  BY AlignedBounds, PoolAssumption DEF Header, MallocCarve
<1>2. /\ b.at \in Int /\ b.size \in Nat /\ IsFast(b)
      /\ End(b) = remEnd - 4 /\ remHead - 4 <= b.at
  BY <1>1, PoolAssumption
     DEF MallocCarve, RemainderSize, Block, End, IsFast, Header, Whole, TypeOK
<1>3. live' = live \cup {b}
  BY DEF MallocCarve, HandOut
<1> HIDE DEF b
<1>4. ASSUME NEW c \in live PROVE Apart(b, c) \/ Torn(b, c)
  <2>1. c.at \in Int /\ c.size \in Nat
    BY DEF Whole, TypeOK
  <2>2. IF IsFast(c) THEN remEnd <= c.at ELSE End(c) <= remHead
    BY DEF Whole, Regions
  <2>3. CASE IsFast(c)
    BY <1>2, <2>1, <2>2, <2>3 DEF Apart, End, Header, Whole, TypeOK
  <2>4. CASE ~IsFast(c)
    BY <1>2, <2>1, <2>2, <2>4 DEF Torn, End, Header, Whole, TypeOK
  <2>5. QED BY <2>3, <2>4
<1>5. ASSUME NEW c \in live', NEW d \in live', c # d
      PROVE  Apart(c, d) \/ Torn(c, d) \/ Torn(d, c)
  <2>1. CASE c \in live /\ d \in live
    BY <1>5, <2>1 DEF Whole, NoOverlap
  <2>2. CASE c = b /\ d \in live
    BY <1>4, <2>2
  <2>3. CASE d = b /\ c \in live
    BY <1>4, <2>3 DEF Apart
  <2>4. QED BY <1>3, <1>5, <2>1, <2>2, <2>3
<1>6. QED BY <1>5 DEF LiveBlocksApart, Apart, Torn, End, IsFast

LEMMA StepInvariant == IInv /\ [Next]_vars => IInv'
<1> SUFFICES ASSUME IInv, [Next]_vars PROVE IInv'
  OBVIOUS
<1>1. TypeOK'
  BY TypeStep DEF IInv
<1>2. CASE UNCHANGED vars
  BY <1>2 DEF vars, IInv, LiveBlocksApart, Apart, Torn, Whole, TypeOK, Regions,
              NoOverlap, BinsApart, End, IsFast
<1>3. CASE Next
  <2>1. ok /\ Whole
    BY <1>3 DEF Next, IInv, MallocFromBin, MallocCarve, MallocSorted, Accepted,
                FreeFast, FreeSorted, ListBreaks
  <2>2. ok' => Whole'
    BY <2>1, StepWhole
  <2>3. NoOverlap' => LiveBlocksApart'
    BY DEF NoOverlap, LiveBlocksApart, Apart, End
  <2>4. live' \subseteq live => NoOverlap'
    BY <2>1 DEF Whole, NoOverlap, Apart, End
  <2>5. CASE ok'
    BY <1>1, <2>2, <2>3, <2>5 DEF IInv, Whole
  <2>6. CASE ~ok'
    <3>1. LiveBlocksApart'
      <4>1. ASSUME NEW size \in Requests, MallocFromBin(size) PROVE FALSE
        BY <2>1, <2>6, <4>1 DEF MallocFromBin
      <4>2. ASSUME NEW size \in Requests, MallocCarve(size) PROVE LiveBlocksApart'
        BY <2>1, <2>6, <4>2, CarveTears
      <4>3. ASSUME NEW size \in Requests, MallocSorted(size) PROVE LiveBlocksApart'
        BY <2>1, <2>3, <2>4, <2>6, <4>3 DEF MallocSorted, Break
      <4>4. ASSUME NEW b \in live, FreeFast(b) PROVE FALSE
        BY <2>1, <2>6, <4>4 DEF FreeFast
      <4>5. ASSUME NEW b \in live, FreeSorted(b) PROVE LiveBlocksApart'
        BY <2>3, <2>4, <4>5 DEF FreeSorted
      <4>6. CASE ListBreaks
        BY <2>3, <2>4, <4>6 DEF ListBreaks, Break
      <4>7. QED BY <1>3, <4>1, <4>2, <4>3, <4>4, <4>5, <4>6 DEF Next
    <3>2. QED BY <1>1, <2>6, <3>1 DEF IInv
  <2>7. QED BY <2>5, <2>6
<1>4. QED BY <1>2, <1>3

LEMMA Invariance == Spec => []IInv
<1>1. Init => IInv
  BY InitInvariant DEF Init, IInv, Whole, LiveBlocksApart
<1>2. QED BY <1>1, StepInvariant, PTL DEF Spec

(* deep_malloc never hands out a byte twice, for every sequence of calls,  *)
(* but for the four bytes of a carve that fits exactly, with which the     *)
(* pool is damaged and the sequence ends.                                  *)
THEOREM Safety == Spec => []LiveBlocksApart
<1>1. IInv => LiveBlocksApart
  BY DEF IInv
<1>2. QED BY <1>1, Invariance, PTL

(* The three regions of the pool never meet, and a bin holds no block that *)
(* is in use or shares a byte with one, for every sequence of calls until  *)
(* the pool is damaged.                                                    *)
THEOREM LayoutKept == Spec => []Layout
<1>1. IInv => Layout
  BY DEF IInv, Whole, Layout
<1>2. QED BY <1>1, Invariance, PTL

(* In a safe state a step of the pool is a step of the promise or hides    *)
(* from it: what is handed out is in the arena and apart from what clients *)
(* hold, a release takes one block away, damage is a breakdown.            *)
LEMMA StepKeepsPromise ==
  IInv /\ IInv' /\ [Next]_vars => [Promise!Next]_(Promise!vars)
<1> SUFFICES ASSUME IInv, IInv', [Next]_vars PROVE [Promise!Next]_(Promise!vars)
  OBVIOUS
<1> USE DEF Promise!Next, Promise!vars
<1>n. CASE UNCHANGED vars
  BY <1>n DEF vars
<1> SUFFICES ASSUME Next PROVE Promise!Next
  BY <1>n
<1>o. ok /\ Whole
  BY DEF Next, IInv, MallocFromBin, MallocCarve, MallocSorted, Accepted,
         FreeFast, FreeSorted, ListBreaks
<1>b. ASSUME ~ok', live \subseteq live' \/ live' \subseteq live PROVE Promise!Next
  <2>1. ok' = FALSE
    BY <1>b DEF IInv, TypeOK
  <2>2. QED BY <1>b, <1>o, <2>1 DEF Promise!BreakDown
<1>a. ASSUME NEW size \in Requests, NEW b, ok, b \notin live,
             b.size = Aligned(size) - Header, b \in [at : Int, size : Nat],
             live' = live \cup {b}, UNCHANGED ok
      PROVE  Promise!Next
  <2>1. b \in live' /\ \A c \in live : c \in live' /\ c # b
    BY <1>a
  <2>2. \A c \in live : Promise!Apart(b, c)
    BY <1>a, <1>o, <2>1 DEF IInv, Whole, NoOverlap, Apart, End, Promise!Apart, Promise!End
  <2>3. FirstBlock <= b.at /\ End(b) <= TopEnd
    BY <1>a, <1>o, <2>1, PoolAssumption DEF IInv, Whole, Regions, TypeOK, End, Header
  <2>4. b.at <= TopEnd
    BY <1>a, <2>3, PoolAssumption DEF End, Header
  <2>5. b \in Promise!Blocks
    BY <1>a, <2>3, <2>4, PoolAssumption DEF Promise!Blocks
  <2>6. Promise!Alloc(b)
    BY <1>a, <2>2, <2>3 DEF Promise!Alloc, Promise!End, End
  <2>7. QED BY <2>5, <2>6
<1>r. ASSUME NEW b \in live, ok, live' = live \ {b}, UNCHANGED ok
      PROVE  Promise!Next
  BY <1>r DEF Promise!Release
<1>1. ASSUME NEW size \in Requests, MallocFromBin(size) PROVE Promise!Next
  <2>1. PICK b \in spare : /\ b.size = Aligned(size) - Header /\ ok
                           /\ live' = live \cup {b} /\ UNCHANGED ok
    BY <1>1 DEF MallocFromBin, HandOut, Accepted
  <2>2. b \notin live /\ b \in [at : Int, size : Nat]
    BY <1>o DEF Whole, BinsApart, TypeOK
  <2>3. QED BY <2>1, <2>2, <1>a
<1>2. ASSUME NEW size \in Requests, MallocCarve(size) PROVE Promise!Next
  <2> DEFINE b == Block(remEnd - Aligned(size) - 4, Aligned(size))
  <2>2. CASE ~(b.at >= remHead)
    BY <1>2, <1>b, <2>2 DEF MallocCarve, HandOut
  <2>3. CASE b.at >= remHead
    <3>1. live' = live \cup {b} /\ UNCHANGED ok /\ remEnd' = b.at
      BY <1>2, <1>o, <2>3 DEF MallocCarve, HandOut, IInv, TypeOK
    <3>2. b \in [at : Int, size : Nat] /\ b.size = Aligned(size) - Header
      BY <3>1 DEF IInv, TypeOK, Block
    <3>3. b.at < remEnd /\ IsFast(b)
      BY <1>2, AlignedBounds, PoolAssumption
         DEF MallocCarve, Block, IsFast, Header, IInv, TypeOK
    <3>4. b \notin live
      BY <1>o, <3>2, <3>3 DEF Whole, Regions, TypeOK
    <3> HIDE DEF b
    <3>5. QED BY <1>o, <3>1, <3>2, <3>4, <1>a
  <2>4. QED BY <2>2, <2>3
<1>3. ASSUME NEW size \in Requests, MallocSorted(size) PROVE Promise!Next
  <2> DEFINE b == Block(remHead, Aligned(size))
  <2>2. CASE RemainderSize - Aligned(size) < Header
    BY <1>3, <1>b, <2>2 DEF MallocSorted, Break
  <2>3. CASE ~(RemainderSize - Aligned(size) < Header)
    <3>1. live' = live \cup {b} /\ UNCHANGED ok
      BY <1>3, <2>3 DEF MallocSorted, HandOut
    <3>2. /\ b \in [at : Int, size : Nat] /\ b.size = Aligned(size) - Header
          /\ b.at = remHead
      BY <3>1 DEF IInv, TypeOK, Block
    <3>3. ~IsFast(b)
      BY <1>3, AlignedBounds, PoolAssumption DEF MallocSorted, Block, IsFast, Header
    <3>4. b \notin live
      BY <1>o, <3>2, <3>3 DEF Whole, Regions, TypeOK, End, Header
    <3> HIDE DEF b
    <3>5. QED BY <1>o, <3>1, <3>2, <3>4, <1>a
  <2>4. QED BY <2>2, <2>3
<1>4. ASSUME NEW b \in live, FreeFast(b) PROVE Promise!Next
  BY <1>4, <1>o, <1>r DEF FreeFast
<1>5. ASSUME NEW b \in live, FreeSorted(b) PROVE Promise!Next
  <2>1. CASE ok'
    BY <1>5, <1>o, <1>r, <2>1 DEF FreeSorted, IInv, TypeOK
  <2>2. CASE ~ok'
    BY <1>5, <1>b, <2>2 DEF FreeSorted
  <2>3. QED BY <2>1, <2>2
<1>6. CASE ListBreaks
  BY <1>6, <1>b DEF ListBreaks, Break
<1>8. QED BY <1>1, <1>2, <1>3, <1>4, <1>5, <1>6 DEF Next

(* The allocator implements the promise of Heap.                           *)
THEOREM Refinement == Spec => KeepsPromise
<1>1. Init => Promise!Init
  BY DEF Init, Promise!Init
<1>2. QED BY <1>1, Invariance, StepKeepsPromise, PTL DEF Spec, KeepsPromise, Promise!Spec
=============================================================================
