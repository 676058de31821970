---------------------------- MODULE LoaderProofs ----------------------------
(***************************************************************************)
(* deep_load's section list, for every file: whatever bytes the buffer     *)
(* holds, the loop that releases the list meets each node once.            *)
(***************************************************************************)
EXTENDS Loader, TLAPS

(* deep_load is called with any buffer, and with no node held.             *)
LoadInit ==
  /\ loadAt = "start" /\ nodes = <<>> /\ node = NULL
  /\ \A n \in Nat : NodeBlock(n) \notin held
LoadSpec == LoadInit /\ [][Load]_loadVars

(***************************************************************************)
(* The list: every node is linked to the next, the last one to none, and a *)
(* single one to itself.                                                   *)
(***************************************************************************)
NextOf(n, i) == IF n = 1 THEN 1 ELSE IF i < n THEN i + 1 ELSE NULL
Chained(ns) ==
  /\ \E S : ns \in Seq(S)
  /\ \A i \in 1..Len(ns) : ns[i].next = NextOf(Len(ns), i)

(* The nodes held while deep_load is where loadAt says.                    *)
HeldAre(low, high) == \A n \in Nat : NodeBlock(n) \in held <=> (low <= n /\ n <= high)
Where ==
  /\ loadAt \in {"start", "list", "find", "decode"} => HeldAre(1, Len(nodes))
  /\ loadAt = "start" => nodes = <<>>
  /\ loadAt = "find" => node \in 1..Len(nodes)
  /\ loadAt = "decode" =>
       /\ node \in 0..Len(nodes) /\ Len(nodes) > 0
       /\ Len(nodes) = 1 => node = 1
  /\ loadAt = "release" =>
       /\ node \in 0..Len(nodes) /\ Len(nodes) > 1
       /\ HeldAre(IF node = 0 THEN Len(nodes) + 1 ELSE node, Len(nodes))
  /\ loadAt = "loaded" => HeldAre(Len(nodes) + 1, Len(nodes))
LInv == Chained(nodes) /\ Where

(* Linking a new last node keeps the chain.                                *)
LEMMA LinkedChained ==
  ASSUME NEW ns, Chained(ns), NEW section, section.next = NULL
  PROVE  /\ Chained(Linked(Append(ns, section)))
         /\ Len(Linked(Append(ns, section))) = Len(ns) + 1
<1> DEFINE a == Append(ns, section)
           n == Len(ns) + 1
           k == IF n = 1 THEN 1 ELSE n - 1
           new == IF n = 1 THEN 1 ELSE n
           m == LinkedTo(a[k], new)
<1>1. PICK S : ns \in Seq(S)
  BY DEF Chained
<1>2. /\ a \in Seq(S \cup {section}) /\ Len(a) = n /\ n \in Nat \ {0} /\ Len(ns) \in Nat
      /\ a[n] = section /\ \A i \in 1..n - 1 : a[i] = ns[i]
  BY <1>1
<1>3. k \in 1..n
  BY <1>2
<1>4. Linked(a) = [a EXCEPT ![k] = m]
  BY <1>2, <1>3 DEF Linked
<1>5. m.next = new
  BY DEF LinkedTo
<1> HIDE DEF m, a
<1>6. a \in Seq(S \cup {section, m})
  BY <1>2
<1>7. /\ Linked(a) \in Seq(S \cup {section, m}) /\ Len(Linked(a)) = n
      /\ Linked(a)[k] = m /\ \A i \in 1..n : i # k => Linked(a)[i] = a[i]
  BY <1>2, <1>3, <1>4, <1>6
<1>8. ASSUME NEW i \in 1..n
      PROVE  Linked(a)[i].next = NextOf(n, i)
  <2>1. CASE i = k
    BY <1>2, <1>5, <1>7, <2>1 DEF NextOf
  <2>2. CASE i # k /\ i = n
    BY <1>2, <1>7, <2>2 DEF NextOf
  <2>3. CASE i # k /\ i # n
    <3>1. Linked(a)[i] = ns[i] /\ i \in 1..Len(ns) /\ i < Len(ns)
      BY <1>2, <1>7, <2>3
    <3>2. ns[i].next = NextOf(Len(ns), i)
      BY <3>1 DEF Chained
    <3>3. n # 1 /\ Len(ns) # 1 /\ i < n
      BY <3>1, <1>2
    <3>4. NextOf(n, i) = i + 1 /\ NextOf(Len(ns), i) = i + 1
      BY <3>1, <3>3 DEF NextOf
    <3>5. QED BY <3>1, <3>2, <3>4
  <2>4. QED BY <2>1, <2>2, <2>3
<1>9. Chained(Linked(a))
  BY <1>7, <1>8 DEF Chained
<1>10. QED BY <1>7, <1>9 DEF a

(* No block of an array of the module is a node.                           *)
LEMMA BlocksAreNoNodes ==
  ASSUME NEW array, array # "node", NEW at, NEW items, NEW n
  PROVE  NodeBlock(n) \notin Blocks(array, at, items)
BY DEF NodeBlock, Blocks, ArrayBlock, ItemBlocks

(* A decoder that takes no node keeps the invariant, whatever else it does. *)
LEMMA NextKept ==
  ASSUME LInv, loadAt = "decode", node # NULL, NextSection,
         loadAt' \in {"decode", "crash", "abort"},
         \A n \in Nat : NodeBlock(n) \in held' <=> NodeBlock(n) \in held
  PROVE  LInv'
<1>1. nodes' = nodes /\ node' = nodes[node].next
  BY DEF NextSection, Section
<1>2. Chained(nodes)'
  BY <1>1 DEF LInv, Chained
<1>3. /\ node \in 1..Len(nodes) /\ Len(nodes) > 0 /\ Len(nodes) \in Nat
      /\ Len(nodes) = 1 => node = 1 
  <2>1. Len(nodes) \in Nat
    BY DEF LInv, Chained
  <2>2. QED BY <2>1 DEF LInv, Where, NULL
<1>4. node' = NextOf(Len(nodes), node)
  BY <1>1, <1>3 DEF LInv, Chained
<1>5. node' \in 0..Len(nodes) /\ (Len(nodes) = 1 => node' = 1)
  BY <1>3, <1>4 DEF NextOf, NULL
<1>6. HeldAre(1, Len(nodes))'
  BY <1>1 DEF LInv, Where, HeldAre
<1>7. Where'
  BY <1>1, <1>3, <1>5, <1>6 DEF Where
<1>8. QED BY <1>2, <1>7 DEF LInv

LEMMA ArrayKept ==
  ASSUME LInv, loadAt = "decode", node # NULL, NextSection,
         loadAt' \in {"decode", "crash", "abort"},
         NEW array, array # "node", NEW items,
         held' = held \cup Blocks(array, node, items)
  PROVE  LInv'
<1>1. \A n \in Nat : NodeBlock(n) \in held' <=> NodeBlock(n) \in held
  BY BlocksAreNoNodes
<1>2. QED BY <1>1, NextKept

(* Every step keeps the invariant.                                         *)
LEMMA LInvKept == LInv /\ [Load]_loadVars => LInv'
<1> SUFFICES ASSUME LInv, [Load]_loadVars PROVE LInv'
  OBVIOUS
<1> USE DEF NULL
<1>1. Len(nodes) \in Nat /\ DOMAIN nodes = 1..Len(nodes)
  BY DEF LInv, Chained
<1>2. CASE UNCHANGED loadVars
  BY <1>2 DEF loadVars, LInv, Where, Chained, HeldAre
<1>3. CASE CheckMagic
  BY <1>3 DEF CheckMagic, LoadEnds, LInv, Where, Chained, HeldAre
<1>4. CASE CreateNode
  <2> DEFINE section == [type |-> buffer[buf], begin |-> Leb(buf + 1).next, next |-> NULL]
  <2>1. /\ nodes' = Linked(Append(nodes, section))
        /\ held' = held \cup {NodeBlock(Len(nodes) + 1)}
        /\ loadAt = "list" /\ loadAt' = "list"
    BY <1>4 DEF CreateNode
  <2>2. section.next = NULL
    OBVIOUS
  <2> HIDE DEF section
  <2>3. Chained(nodes)' /\ Len(nodes)' = Len(nodes) + 1
    BY <2>1, <2>2, LinkedChained DEF LInv
  <2>4. HeldAre(1, Len(nodes))
    BY <2>1 DEF LInv, Where
  <2>5. \A n \in Nat : NodeBlock(n) = NodeBlock(Len(nodes) + 1) <=> n = Len(nodes) + 1
    BY DEF NodeBlock
  <2>6. HeldAre(1, Len(nodes))'
    BY <1>1, <2>1, <2>3, <2>4, <2>5 DEF HeldAre
  <2>7. QED BY <2>1, <2>3, <2>6 DEF LInv, Where
<1>5. CASE ListEnds
  <2>1. nodes' = nodes /\ loadAt = "list" /\ loadAt' \in {"find", "refused"}
        /\ (loadAt' = "find" => nodes # <<>> /\ node' = 1)
        /\ held' \in {held, held \cup {ModuleBlock}}
    BY <1>5 DEF ListEnds, LoadEnds
  <2>2. \A n : NodeBlock(n) # ModuleBlock
    BY DEF NodeBlock, ModuleBlock
  <2>3. HeldAre(1, Len(nodes))'
    BY <2>1, <2>2 DEF LInv, Where, HeldAre
  <2>4. nodes # <<>> => Len(nodes) > 0
    BY DEF LInv, Chained
  <2>5. QED BY <1>1, <2>1, <2>3, <2>4 DEF LInv, Where, Chained
<1>6. CASE FindCode
  <2>1. /\ nodes' = nodes /\ held' = held /\ loadAt = "find" /\ node \in 1..Len(nodes)
        /\ \/ loadAt' = "decode" /\ node' = 1
           \/ loadAt' = "crash"
           \/ loadAt' = "find" /\ node' = nodes[node].next /\ node' # NULL
    BY <1>6 DEF FindCode, LInv, Where
  <2>2. nodes[node].next = NextOf(Len(nodes), node)
    BY <2>1 DEF LInv, Chained
  <2>3. HeldAre(1, Len(nodes))'
    BY <2>1 DEF LInv, Where, HeldAre
  <2>4. loadAt' = "find" => node' \in 1..Len(nodes)
    BY <1>1, <2>1, <2>2 DEF NextOf
  <2>5. QED BY <1>1, <2>1, <2>3, <2>4 DEF LInv, Where, Chained
<1>7. CASE DecodeTypes
  <2>1. PICK items : held' = held \cup Blocks("types", node, items)
    BY <1>7 DEF DecodeTypes, DecodeArray, TakeArray
  <2>2. QED BY <1>7, <2>1, ArrayKept DEF DecodeTypes, DecodeArray, Decoding
<1>8. CASE DecodeExports
  <2>1. PICK items : held' = held \cup Blocks("exports", node, items)
    BY <1>8 DEF DecodeExports, DecodeArray, TakeArray
  <2>2. QED BY <1>8, <2>1, ArrayKept DEF DecodeExports, DecodeArray, Decoding
<1>9. CASE DecodeElems
  <2>1. PICK items : held' = held \cup Blocks("elems", node, items)
    BY <1>9 DEF DecodeElems, DecodeArray, TakeArray
  <2>2. QED BY <1>9, <2>1, ArrayKept DEF DecodeElems, DecodeArray, Decoding
<1>10. CASE DecodeDatas
  <2>1. PICK items : held' = held \cup Blocks("datas", node, items)
    BY <1>10 DEF DecodeDatas, DecodeArray, TakeArray
  <2>2. QED BY <1>10, <2>1, ArrayKept DEF DecodeDatas, DecodeArray, Decoding
<1>11. CASE DecodeGlobals
  <2>1. PICK items : held' = held \cup Blocks("globals", node, items)
    BY <1>11 DEF DecodeGlobals, DecodeArray, TakeArray
  <2>2. QED BY <1>11, <2>1, ArrayKept DEF DecodeGlobals, DecodeArray, Decoding
<1>12. CASE DecodeImports
  <2>1. PICK items : held' = held \cup Blocks("imports", node, items)
    BY <1>12 DEF DecodeImports
  <2>2. QED BY <1>12, <2>1, ArrayKept DEF DecodeImports, Decoding
<1>13. CASE DecodeTable
  <2>1. held' \in {held, held \cup {<<"table", node, 0, "struct">>}}
    BY <1>13 DEF DecodeTable
  <2>2. \A n : NodeBlock(n) # <<"table", node, 0, "struct">>
    BY DEF NodeBlock
  <2>3. QED BY <1>13, <2>1, <2>2, NextKept DEF DecodeTable, Decoding
<1>14. CASE DecodeMemory
  <2>1. held' \in {held, held \cup {<<"memory", node, 0, "struct">>}}
    BY <1>14 DEF DecodeMemory
  <2>2. \A n : NodeBlock(n) # <<"memory", node, 0, "struct">>
    BY DEF NodeBlock
  <2>3. QED BY <1>14, <2>1, <2>2, NextKept DEF DecodeMemory, Decoding
<1>15. CASE DecodeStart
  BY <1>15, NextKept DEF DecodeStart, Decoding
<1>16. CASE SkipSection
  BY <1>16, NextKept DEF SkipSection, Decoding
<1>17. CASE DecodeFuncs
  <2>1. /\ loadAt = "decode" /\ node # NULL /\ NextSection
        /\ loadAt' \in {"decode", "crash", "abort"}
    BY <1>17 DEF DecodeFuncs, Decoding
  <2>2. held' = held \/ \E items : held' = held \cup Blocks("funcs", node, items)
    BY <1>17 DEF DecodeFuncs, TakeArray
  <2>3. QED BY <2>1, <2>2, NextKept, ArrayKept
<1>18. CASE DecodingDone
  <2>1. /\ loadAt = "decode" /\ node = 0 /\ nodes' = nodes /\ held' = held
        /\ loadAt' = "release" /\ node' = 1
    BY <1>18 DEF DecodingDone
  <2>2. HeldAre(1, Len(nodes)) /\ Len(nodes) > 0 /\ Len(nodes) # 1
    BY <2>1 DEF LInv, Where
  <2>3. HeldAre(1, Len(nodes))'
    BY <2>1, <2>2 DEF HeldAre
  <2>4. QED BY <1>1, <2>1, <2>2, <2>3 DEF LInv, Where, Chained
<1>19. CASE ReleaseNode
  <2>1. /\ loadAt = "release" /\ node # 0 /\ nodes' = nodes /\ loadAt' = "release"
        /\ held' = held \ {NodeBlock(node)} /\ node' = nodes[node].next
    BY <1>19 DEF ReleaseNode
  <2>2. node \in 1..Len(nodes) /\ Len(nodes) > 1 /\ HeldAre(node, Len(nodes))
    BY <1>1, <2>1 DEF LInv, Where
  <2>3. node' = IF node < Len(nodes) THEN node + 1 ELSE 0
    BY <1>1, <2>1, <2>2 DEF LInv, Chained, NextOf
  <2>4. \A n \in Nat : NodeBlock(n) = NodeBlock(node) <=> n = node
    BY DEF NodeBlock
  <2>5. \A n \in Nat : NodeBlock(n) \in held' <=> (node + 1 <= n /\ n <= Len(nodes))
    BY <1>1, <2>1, <2>2, <2>4 DEF HeldAre
  <2>6. HeldAre(IF node = 0 THEN Len(nodes) + 1 ELSE node, Len(nodes))'
    BY <1>1, <2>1, <2>2, <2>3, <2>5 DEF HeldAre
  <2>7. QED BY <1>1, <2>1, <2>2, <2>3, <2>6 DEF LInv, Where, Chained
<1>20. CASE NodesReleased
  <2>1. /\ loadAt = "release" /\ node = 0 /\ nodes' = nodes /\ loadAt' = "loaded"
        /\ held' = held
    BY <1>20 DEF NodesReleased, LoadEnds
  <2>2. HeldAre(Len(nodes) + 1, Len(nodes))
    BY <2>1 DEF LInv, Where
  <2>3. QED BY <1>1, <2>1, <2>2 DEF LInv, Where, Chained, HeldAre
<1>21. QED
  BY <1>2, <1>3, <1>4, <1>5, <1>6, <1>7, <1>8, <1>9, <1>10, <1>11, <1>12, <1>13, <1>14,
     <1>15, <1>16, <1>17, <1>18, <1>19, <1>20 DEF Load

LEMMA LInvReleases == LInv => ListReleased
<1> SUFFICES ASSUME LInv PROVE ListReleased
  OBVIOUS
<1>1. Len(nodes) \in Nat /\ DOMAIN nodes = 1..Len(nodes)
  BY DEF LInv, Chained
<1>2. QED BY <1>1 DEF LInv, Where, HeldAre, ListReleased, NULL

(* deep_load releases a node only while it holds it, and holds none when it *)
(* returns a module.                                                       *)
THEOREM ListIsReleased == LoadSpec => []ListReleased
<1>1. LoadInit => LInv
  BY DEF LoadInit, LInv, Where, Chained, HeldAre
<1>2. QED BY <1>1, LInvReleases, LInvKept, PTL DEF LoadSpec

-----------------------------------------------------------------------------
(***************************************************************************)
(* The blocks of the module.  A slot of it is an array, or the table or    *)
(* the memory, of which there is at most one.                              *)
(***************************************************************************)
Slots == Arrays \cup {"table", "memory"}
SlotType(s) ==
  CASE s = "types" -> 1 [] s = "imports" -> 2 [] s = "funcs" -> 3 [] s = "table" -> 4
    [] s = "memory" -> 5 [] s = "globals" -> 6 [] s = "exports" -> 7 [] s = "elems" -> 9
    [] s = "datas" -> 11
Filled(m, s) == IF s \in Arrays THEN m[s].at # NULL ELSE m[s] # <<>>
SlotAt(m, s) == IF s \in Arrays THEN m[s].at ELSE m[s][1].at
SlotBlocks(m, s) ==
  IF s \in Arrays THEN Blocks(s, m[s].at, m[s].items) ELSE {<<s, m[s][1].at, 0, "struct">>}
Singles(m) == \A s \in {"table", "memory"} : m[s] = <<>> \/ \E a : m[s] = <<a>>

LEMMA ModuleBlocksAre ==
  ASSUME NEW m, Singles(m), NEW b
  PROVE  b \in ModuleBlocks(m)
           <=> b = ModuleBlock \/ \E s \in Slots : Filled(m, s) /\ b \in SlotBlocks(m, s)
<1>1. \A s \in {"table", "memory"} :
        /\ b \in {<<s, x.at, 0, "struct">> : x \in ToSet(m[s])}
             <=> (Filled(m, s) /\ b \in SlotBlocks(m, s))
  <2> SUFFICES ASSUME NEW s \in {"table", "memory"}
               PROVE  b \in {<<s, x.at, 0, "struct">> : x \in ToSet(m[s])}
                        <=> (Filled(m, s) /\ b \in SlotBlocks(m, s))
    OBVIOUS
  <2>1. s \notin Arrays
    BY DEF Arrays
  <2>2. CASE m[s] = <<>>
    <3>1. ToSet(m[s]) = {}
      BY <2>2 DEF ToSet
    <3>2. QED BY <2>1, <2>2, <3>1 DEF Filled
  <2>3. ASSUME NEW a, m[s] = <<a>>
        PROVE  b \in {<<s, x.at, 0, "struct">> : x \in ToSet(m[s])}
                        <=> (Filled(m, s) /\ b \in SlotBlocks(m, s))
    <3>1. ToSet(m[s]) = {a} /\ m[s] # <<>> /\ m[s][1] = a
      BY <2>3 DEF ToSet
    <3>2. QED BY <2>1, <3>1 DEF Filled, SlotBlocks
  <2>4. QED BY <2>2, <2>3 DEF Singles
<1>2. (\E a \in Arrays : m[a].at # NULL /\ b \in Blocks(a, m[a].at, m[a].items))
        <=> \E s \in Arrays : Filled(m, s) /\ b \in SlotBlocks(m, s)
  BY DEF Filled, SlotBlocks
<1>3. b \in ModuleBlocks(m)
        <=> \/ b = ModuleBlock
            \/ \E a \in Arrays : m[a].at # NULL /\ b \in Blocks(a, m[a].at, m[a].items)
            \/ b \in {<<"table", t.at, 0, "struct">> : t \in ToSet(m["table"])}
            \/ b \in {<<"memory", x.at, 0, "struct">> : x \in ToSet(m["memory"])}
  <2> DEFINE U == UNION {Blocks(a, m[a].at, m[a].items) : a \in {c \in Arrays : m[c].at # NULL}}
             T == {<<"table", t.at, 0, "struct">> : t \in ToSet(m.table)}
             M == {<<"memory", x.at, 0, "struct">> : x \in ToSet(m.memory)}
  <2>1. b \in U <=> \E a \in Arrays : m[a].at # NULL /\ b \in Blocks(a, m[a].at, m[a].items)
    BY Zenon
  <2>2. ModuleBlocks(m) = {ModuleBlock} \cup U \cup T \cup M
    BY DEF ModuleBlocks
  <2> HIDE DEF U, T, M
  <2>3. b \in ModuleBlocks(m) <=> b = ModuleBlock \/ b \in U \/ b \in T \/ b \in M
    BY <2>2
  <2>4. QED BY <2>1, <2>3 DEF T, M
<1>4. QED BY <1>1, <1>2, <1>3 DEF Slots

AllNodes == {NodeBlock(n) : n \in Nat}
LEMMA ModuleHasNoNodes ==
  ASSUME NEW m, Singles(m)
  PROVE  ModuleBlocks(m) \cap AllNodes = {}
<1> SUFFICES ASSUME NEW n \in Nat, NodeBlock(n) \in ModuleBlocks(m) PROVE FALSE
  BY DEF AllNodes
<1>1. NodeBlock(n) # ModuleBlock
  BY DEF NodeBlock, ModuleBlock
<1>2. PICK s \in Slots : NodeBlock(n) \in SlotBlocks(m, s)
  BY <1>1, ModuleBlocksAre
<1>3. s # "node"
  BY DEF Slots, Arrays
<1>4. NodeBlock(n) # <<s, m[s][1].at, 0, "struct">>
  BY <1>3 DEF NodeBlock
<1>5. QED BY <1>2, <1>3, <1>4, BlocksAreNoNodes DEF SlotBlocks

(***************************************************************************)
(* While deep_load runs, what is held besides the nodes is what was held   *)
(* before it (extra) and every block of the module so far; that and no     *)
(* more when no section comes twice.  A slot that is filled was filled     *)
(* from a section of its type that has been passed.                        *)
(***************************************************************************)
Twice ==
  \E i, j \in DOMAIN nodes : i # j /\ nodes[i].type = nodes[j].type
                             /\ nodes[i].type \in 1..9 \cup {11}
Owned(extra) == extra \cup ModuleBlocks(module)
Passed ==
  \A s \in Slots : Filled(module, s) =>
    /\ SlotAt(module, s) \in 1..Len(nodes) /\ nodes[SlotAt(module, s)].type = SlotType(s)
    /\ (loadAt = "decode" /\ node # NULL) => SlotAt(module, s) < node
Holding(extra) ==
  /\ Names \subseteq DOMAIN module /\ Singles(module)
  /\ Owned(extra) \subseteq held
  /\ ~Twice => held \ AllNodes = Owned(extra)
HInv(extra) ==
  /\ loadAt \in {"start", "list"} => held \ AllNodes = extra
  /\ loadAt = "find" => Holding(extra) /\ \A s \in Slots : ~Filled(module, s)
  /\ loadAt = "decode" =>
       Holding(extra) /\ Passed /\ \E i \in 1..Len(nodes) : nodes[i].type = SectionCode
  /\ loadAt \in {"release", "loaded"} => Holding(extra)

LEMMA EmptyHasNone ==
  /\ Names \subseteq DOMAIN EmptyModule /\ Singles(EmptyModule)
  /\ \A s \in Slots : ~Filled(EmptyModule, s)
<1>1. /\ DOMAIN EmptyModule = Names
      /\ \A a \in Arrays : EmptyModule[a] = Array(NULL, <<>>)
      /\ \A s \in {"table", "memory"} : EmptyModule[s] = <<>>
  BY DEF EmptyModule, Names, Arrays, Optional
<1>2. QED BY <1>1 DEF Singles, Slots, Filled, Array, Arrays

(* A decoder that takes nothing, or fills a slot.                          *)
TakesNothing ==
  /\ \A s \in Slots : module'[s] = module[s]
  /\ Names \subseteq DOMAIN module'
  /\ UNCHANGED held
Takes(s) ==
  /\ \A t \in Slots \ {s} : module'[t] = module[t]
  /\ Filled(module', s) /\ SlotAt(module', s) = node
  /\ s \in {"table", "memory"} => \E a : module'[s] = <<a>>
  /\ Names \subseteq DOMAIN module'
  /\ held' = held \cup SlotBlocks(module', s)
Decodes(s) ==
  /\ loadAt = "decode" /\ loadAt' = "decode" /\ node # NULL /\ NextSection
  /\ Section.type = SlotType(s)

LEMMA SlotsKept ==
  ASSUME NEW S, \A s \in S : module'[s] = module[s]
  PROVE  /\ \A s \in S : Filled(module', s) <=> Filled(module, s)
         /\ \A s \in S : SlotAt(module', s) = SlotAt(module, s)
         /\ \A s \in S : SlotBlocks(module', s) = SlotBlocks(module, s)
BY DEF Filled, SlotAt, SlotBlocks

LEMMA SingleList ==
  ASSUME LInv, NEW extra, HInv(extra), loadAt = "decode", node # NULL
  PROVE  /\ node \in 1..Len(nodes) /\ Len(nodes) \in Nat /\ DOMAIN nodes = 1..Len(nodes)
         /\ nodes[node].next = NULL \/ nodes[node].next = node + 1
              \/ (nodes[node].next = node /\ nodes[node].type = SectionCode)
<1>1. /\ Len(nodes) \in Nat /\ DOMAIN nodes = 1..Len(nodes) /\ node \in 1..Len(nodes)
      /\ Len(nodes) = 1 => node = 1
  BY DEF LInv, Chained, Where, NULL
<1>2. nodes[node].next = NextOf(Len(nodes), node)
  BY <1>1 DEF LInv, Chained
<1>3. Len(nodes) = 1 => nodes[node].type = SectionCode
  BY <1>1 DEF HInv
<1>4. QED BY <1>1, <1>2, <1>3 DEF NextOf

LEMMA NothingTaken ==
  ASSUME LInv, NEW extra, HInv(extra), loadAt = "decode", node # NULL, NextSection, TakesNothing,
         loadAt' = "decode"
  PROVE  HInv(extra)'
<1>1. /\ \A s \in Slots : Filled(module', s) <=> Filled(module, s)
      /\ \A s \in Slots : SlotAt(module', s) = SlotAt(module, s)
      /\ \A s \in Slots : SlotBlocks(module', s) = SlotBlocks(module, s)
  BY SlotsKept DEF TakesNothing
<1>2. Singles(module) /\ Singles(module')
  BY DEF HInv, Holding, TakesNothing, Singles, Slots
<1>3. \A b : b \in ModuleBlocks(module') <=> b \in ModuleBlocks(module)
  BY <1>1, <1>2, ModuleBlocksAre
<1>4. ModuleBlocks(module') = ModuleBlocks(module)
  BY <1>3
<1>5. /\ nodes' = nodes /\ node' = nodes[node].next /\ held' = held
      /\ Names \subseteq DOMAIN module'
  BY DEF NextSection, Section, TakesNothing
<1>6. Passed'
  BY <1>1, <1>5, SingleList DEF Passed, HInv
<1>7. Holding(extra)'
  BY <1>2, <1>4, <1>5 DEF HInv, Holding, Owned, Twice
<1>8. QED BY <1>5, <1>6, <1>7 DEF HInv

LEMMA SlotTaken ==
  ASSUME LInv, NEW extra, HInv(extra), NEW s \in Slots, Decodes(s), Takes(s)
  PROVE  HInv(extra)'
<1>1. /\ nodes' = nodes /\ node' = nodes[node].next /\ loadAt = "decode" /\ loadAt' = "decode"
      /\ node # NULL /\ nodes[node].type = SlotType(s)
  BY DEF Decodes, NextSection, Section
<1>2. SlotType(s) \in 1..9 \cup {11}
  BY DEF SlotType, Slots, Arrays
<1>3. /\ node \in 1..Len(nodes) /\ Len(nodes) \in Nat /\ DOMAIN nodes = 1..Len(nodes)
      /\ node' = NULL \/ node' = node + 1
  BY <1>1, <1>2, SingleList DEF SectionCode
<1>4. Filled(module, s) => Twice
  <2> SUFFICES ASSUME Filled(module, s) PROVE Twice
    OBVIOUS
  <2>1. SlotAt(module, s) \in 1..Len(nodes) /\ nodes[SlotAt(module, s)].type = SlotType(s)
        /\ SlotAt(module, s) < node
    BY <1>1 DEF HInv, Passed
  <2>2. SlotAt(module, s) # node
    BY <1>3, <2>1
  <2>3. QED BY <1>1, <1>2, <1>3, <2>1, <2>2 DEF Twice
<1>5. Singles(module) /\ Singles(module')
  BY <1>1 DEF HInv, Holding, Takes, Singles, Slots
<1>6. /\ \A t \in Slots \ {s} : Filled(module', t) <=> Filled(module, t)
      /\ \A t \in Slots \ {s} : SlotAt(module', t) = SlotAt(module, t)
      /\ \A t \in Slots \ {s} : SlotBlocks(module', t) = SlotBlocks(module, t)
      /\ Filled(module', s) /\ SlotAt(module', s) = node
  BY SlotsKept DEF Takes
<1> DEFINE new == SlotBlocks(module', s)
<1>7. held' = held \cup new /\ Names \subseteq DOMAIN module'
  BY DEF Takes
<1>8. \A b : b \in ModuleBlocks(module') =>  b \in ModuleBlocks(module) \/ b \in new
  BY <1>5, <1>6, ModuleBlocksAre
<1>9. \A b : b \in new => b \in ModuleBlocks(module')
  BY <1>5, <1>6, ModuleBlocksAre
<1>10. ~Twice => \A b : b \in ModuleBlocks(module) => b \in ModuleBlocks(module')
  BY <1>4, <1>5, <1>6, ModuleBlocksAre
<1> HIDE DEF new
<1>11. new \cap AllNodes = {}
  BY <1>5, <1>9, ModuleHasNoNodes
<1>12. Twice' <=> Twice
  BY <1>1 DEF Twice
<1>13. Holding(extra)
  BY <1>1 DEF HInv
<1>14. Owned(extra)' \subseteq held'
  BY <1>7, <1>8, <1>13 DEF Holding, Owned
<1>15. ~Twice => held' \ AllNodes = Owned(extra)'
  BY <1>7, <1>8, <1>9, <1>10, <1>11, <1>13 DEF Holding, Owned
<1>16. Holding(extra)'
  BY <1>5, <1>7, <1>12, <1>14, <1>15 DEF Holding
<1>17. Passed'
  <2> SUFFICES ASSUME NEW t \in Slots, Filled(module', t)
               PROVE  /\ SlotAt(module', t) \in 1..Len(nodes)
                      /\ nodes[SlotAt(module', t)].type = SlotType(t)
                      /\ node' # NULL => SlotAt(module', t) < node'
    BY <1>1 DEF Passed
  <2>1. CASE t = s
    BY <1>1, <1>3, <1>6, <2>1
  <2>2. CASE t # s
    <3>1. Filled(module, t) /\ SlotAt(module', t) = SlotAt(module, t)
      BY <1>6, <2>2
    <3>2. /\ SlotAt(module, t) \in 1..Len(nodes) /\ nodes[SlotAt(module, t)].type = SlotType(t)
          /\ SlotAt(module, t) < node
      BY <1>1, <3>1 DEF HInv, Passed
    <3>3. QED BY <1>3, <3>1, <3>2
  <2>3. QED BY <2>1, <2>2
<1>18. \E i \in 1..Len(nodes) : nodes[i].type = SectionCode
  BY <1>1 DEF HInv
<1>19. QED BY <1>1, <1>16, <1>17, <1>18 DEF HInv

(* An array, the table or the memory is filled by a change of one field.   *)
LEMMA ArrayTakes ==
  ASSUME NEW extra, HInv(extra), loadAt = "decode", NEW a \in Arrays, NEW items,
         node # NULL,
         \A t \in Slots \ {a} : module'[t] = module[t],
         Names \subseteq DOMAIN module',
         module'[a] = Array(node, items),
         held' = held \cup Blocks(a, node, items)
  PROVE  Takes(a)
<1>1. SlotBlocks(module', a) = Blocks(a, node, items)
  BY DEF SlotBlocks, Array
<1>2. a \notin {"table", "memory"}
  BY DEF Arrays
<1>3. QED BY <1>1, <1>2 DEF Takes, Filled, SlotAt, Array

LEMMA SingleTakes ==
  ASSUME NEW extra, HInv(extra), loadAt = "decode", NEW s \in {"table", "memory"}, NEW items,
         node # NULL,
         \A t \in Slots \ {s} : module'[t] = module[t],
         Names \subseteq DOMAIN module',
         module'[s] = <<Array(node, items)>>,
         held' = held \cup {<<s, node, 0, "struct">>}
  PROVE  Takes(s)
<1>1. s \notin Arrays
  BY DEF Arrays
<1>2. SlotBlocks(module', s) = {<<s, node, 0, "struct">>} /\ module'[s] # <<>>
  BY <1>1 DEF SlotBlocks, Array
<1>3. QED BY <1>1, <1>2 DEF Takes, Filled, SlotAt, Array

LEMMA DecodeArrayKept ==
  ASSUME LInv, NEW extra, HInv(extra), NEW a \in Arrays, NEW items, TakeArray(a, items),
         Decodes(a)
  PROVE  HInv(extra)'
<1>1. /\ module' = [module EXCEPT ![a] = Array(node, items)]
      /\ held' = held \cup Blocks(a, node, items)
  BY DEF TakeArray
<1>2. a \in Slots /\ Names \subseteq DOMAIN module /\ Slots \subseteq Names /\ loadAt = "decode"
  BY DEF HInv, Holding, Slots, Names, Optional, Decodes
<1>3. /\ \A t \in Slots \ {a} : module'[t] = module[t]
      /\ Names \subseteq DOMAIN module'
      /\ module'[a] = Array(node, items)
  BY <1>1, <1>2
<1>4. QED BY <1>1, <1>2, <1>3, ArrayTakes, SlotTaken DEF Decodes

(* Every step of deep_load keeps it.                                       *)
LEMMA HInvKept ==
  ASSUME LInv, NEW extra, extra \cap AllNodes = {}, HInv(extra), [Load]_loadVars
  PROVE  HInv(extra)'
<1>1. Names \subseteq DOMAIN module => Slots \subseteq DOMAIN module
  BY DEF Names, Slots, Optional
<1>2. CASE UNCHANGED loadVars
  BY <1>2 DEF loadVars, HInv, Holding, Passed, Twice, Owned
<1>3. CASE CheckMagic
  <2>1. held' = held /\ loadAt = "start" /\ loadAt' \in {"list", "refused"}
    BY <1>3 DEF CheckMagic, LoadEnds
  <2>2. QED BY <2>1 DEF HInv
<1>4. CASE CreateNode
  <2>1. /\ held' = held \cup {NodeBlock(Len(nodes) + 1)}
        /\ loadAt = "list" /\ loadAt' = "list"
    BY <1>4 DEF CreateNode
  <2>2. Len(nodes) + 1 \in Nat
    BY DEF LInv, Chained
  <2>3. NodeBlock(Len(nodes) + 1) \in AllNodes
    BY <2>2 DEF AllNodes
  <2>4. held' \ AllNodes = held \ AllNodes
    BY <2>1, <2>3
  <2>5. QED BY <2>1, <2>4 DEF HInv
<1>5. CASE ListEnds /\ loadAt' # "find"
  <2>1. loadAt' = "refused"
    BY <1>5 DEF ListEnds, LoadEnds
  <2>2. QED BY <2>1 DEF HInv
<1>6. CASE ListEnds /\ loadAt' = "find"
  <2>1. /\ loadAt = "list" /\ module' = EmptyModule /\ held' = held \cup {ModuleBlock}
    BY <1>6 DEF ListEnds, LoadEnds
  <2>2. held \ AllNodes = extra
    BY <2>1 DEF HInv
  <2>3. /\ Names \subseteq DOMAIN module' /\ Singles(module')
        /\ \A s \in Slots : ~Filled(module', s)
    BY <2>1, EmptyHasNone
  <2>4. \A b : b \in ModuleBlocks(module') <=> b = ModuleBlock
    BY <2>3, ModuleBlocksAre
  <2>5. ModuleBlocks(module') \cap AllNodes = {}
    BY <2>3, ModuleHasNoNodes
  <2>6. held' \ AllNodes = Owned(extra)' /\ Owned(extra)' \subseteq held'
    BY <2>1, <2>2, <2>4, <2>5 DEF Owned
  <2>7. QED BY <1>6, <2>3, <2>6 DEF HInv, Holding
<1>7. CASE FindCode
  <2>1. /\ nodes' = nodes /\ held' = held /\ module' = module /\ loadAt = "find"
        /\ \/ loadAt' = "decode" /\ node' = 1 /\ nodes[node].type = SectionCode
           \/ loadAt' \in {"crash", "find"}
    BY <1>7 DEF FindCode
  <2>2. node \in 1..Len(nodes)
    BY <2>1 DEF LInv, Where
  <2>3. Holding(extra)' /\ \A s \in Slots : ~Filled(module', s)
    BY <2>1 DEF HInv, Holding, Owned, Twice
  <2>4. QED BY <2>1, <2>2, <2>3 DEF HInv, Passed
<1>8. CASE DecodeTypes
  <2>1. "types" \in Arrays /\ SlotType("types") = 1
    BY DEF Arrays, SlotType
  <2>2. Decodes("types") /\ \E items : TakeArray("types", items)
    BY <1>8, <2>1 DEF DecodeTypes, DecodeArray, Decodes, Decoding
  <2>3. QED BY <2>1, <2>2, DecodeArrayKept
<1>9. CASE DecodeExports
  <2>1. "exports" \in Arrays /\ SlotType("exports") = 7
    BY DEF Arrays, SlotType
  <2>2. Decodes("exports") /\ \E items : TakeArray("exports", items)
    BY <1>9, <2>1 DEF DecodeExports, DecodeArray, Decodes, Decoding
  <2>3. QED BY <2>1, <2>2, DecodeArrayKept
<1>10. CASE DecodeElems
  <2>1. "elems" \in Arrays /\ SlotType("elems") = 9
    BY DEF Arrays, SlotType
  <2>2. Decodes("elems") /\ \E items : TakeArray("elems", items)
    BY <1>10, <2>1 DEF DecodeElems, DecodeArray, Decodes, Decoding
  <2>3. QED BY <2>1, <2>2, DecodeArrayKept
<1>11. CASE DecodeDatas
  <2>1. "datas" \in Arrays /\ SlotType("datas") = 11
    BY DEF Arrays, SlotType
  <2>2. Decodes("datas") /\ \E items : TakeArray("datas", items)
    BY <1>11, <2>1 DEF DecodeDatas, DecodeArray, Decodes, Decoding
  <2>3. QED BY <2>1, <2>2, DecodeArrayKept
<1>12. CASE DecodeGlobals
  <2>1. "globals" \in Arrays /\ SlotType("globals") = 6
    BY DEF Arrays, SlotType
  <2>2. Decodes("globals") /\ \E items : TakeArray("globals", items)
    BY <1>12, <2>1 DEF DecodeGlobals, DecodeArray, Decodes, Decoding
  <2>3. QED BY <2>1, <2>2, DecodeArrayKept
<1>13. CASE DecodeImports
  <2>1. "imports" \in Arrays /\ "imports" \in Slots /\ SlotType("imports") = 2
    BY DEF Arrays, Slots, SlotType
  <2>2. Decodes("imports")
    BY <1>13, <2>1 DEF DecodeImports, Decodes, Decoding
  <2>3. PICK imports, n :
          /\ module' = [module EXCEPT !.imports = Array(node, imports), !.importFuncs = n]
          /\ held' = held \cup Blocks("imports", node, imports)
    BY <1>13, Zenon DEF DecodeImports
  <2>4. Names \subseteq DOMAIN module /\ loadAt = "decode" /\ node # NULL
    BY <2>2 DEF HInv, Holding, Decodes
  <2>5. "imports" # "importFuncs" /\ "importFuncs" \notin Slots
    BY DEF Slots, Arrays
  <2>6. /\ \A t \in Slots \ {"imports"} : module'[t] = module[t]
        /\ Names \subseteq DOMAIN module' /\ module'["imports"] = Array(node, imports)
    BY <1>1, <2>1, <2>3, <2>4, <2>5
  <2>7. QED BY <2>1, <2>2, <2>3, <2>4, <2>6, ArrayTakes, SlotTaken
<1>14. CASE DecodeTable
  <2>1. "table" \in Slots /\ SlotType("table") = 4
    BY DEF Arrays, Slots, SlotType
  <2>2. Decodes("table")
    BY <1>14, <2>1 DEF DecodeTable, Decodes, Decoding
  <2>3. Names \subseteq DOMAIN module /\ loadAt = "decode" /\ loadAt' = "decode" /\ node # NULL
        /\ NextSection
    BY <2>2 DEF HInv, Holding, Decodes
  <2>4. "table" # "tableCount" /\ "tableCount" \notin Slots
    BY DEF Slots, Arrays
  <2>5. CASE module' = [module EXCEPT !.tableCount = 0] /\ held' = held
    <3>1. TakesNothing
      BY <1>1, <2>3, <2>4, <2>5 DEF TakesNothing
    <3>2. QED BY <2>3, <3>1, NothingTaken
  <2>6. ASSUME NEW n, NEW items,
               module' = [module EXCEPT !.tableCount = n, !.table = <<Array(node, items)>>],
               held' = held \cup {<<"table", node, 0, "struct">>}
        PROVE  HInv(extra)'
    <3>1. /\ \A t \in Slots \ {"table"} : module'[t] = module[t]
          /\ Names \subseteq DOMAIN module' /\ module'["table"] = <<Array(node, items)>>
      BY <1>1, <2>1, <2>3, <2>4, <2>6
    <3>2. QED BY <2>1, <2>2, <2>3, <2>6, <3>1, SingleTakes, SlotTaken
  <2>7. QED BY <1>14, <2>5, <2>6, Zenon DEF DecodeTable
<1>15. CASE DecodeMemory
  <2>1. "memory" \in Slots /\ SlotType("memory") = 5
    BY DEF Arrays, Slots, SlotType
  <2>2. Decodes("memory")
    BY <1>15, <2>1 DEF DecodeMemory, Decodes, Decoding
  <2>3. Names \subseteq DOMAIN module /\ loadAt = "decode" /\ loadAt' = "decode" /\ node # NULL
        /\ NextSection
    BY <2>2 DEF HInv, Holding, Decodes
  <2>4. CASE module' = module /\ held' = held
    <3>1. TakesNothing
      BY <2>3, <2>4 DEF TakesNothing
    <3>2. QED BY <2>3, <3>1, NothingTaken
  <2>5. ASSUME NEW items, module' = [module EXCEPT !.memory = <<Array(node, items)>>],
               held' = held \cup {<<"memory", node, 0, "struct">>}
        PROVE  HInv(extra)'
    <3>1. /\ \A t \in Slots \ {"memory"} : module'[t] = module[t]
          /\ Names \subseteq DOMAIN module' /\ module'["memory"] = <<Array(node, items)>>
      BY <1>1, <2>1, <2>3, <2>5
    <3>2. QED BY <2>1, <2>2, <2>3, <2>5, <3>1, SingleTakes, SlotTaken
  <2>6. QED BY <1>15, <2>4, <2>5, Zenon DEF DecodeMemory
<1>16. CASE DecodeStart
  <2>1. /\ loadAt = "decode" /\ loadAt' = "decode" /\ node # NULL /\ NextSection /\ held' = held
        /\ \E i : module' = [module EXCEPT !.start = i]
    BY <1>16, Zenon DEF DecodeStart, Decoding
  <2>2. "start" \notin Slots /\ Names \subseteq DOMAIN module
    BY <2>1 DEF Slots, Arrays, HInv, Holding
  <2>3. TakesNothing
    BY <1>1, <2>1, <2>2 DEF TakesNothing
  <2>4. QED BY <2>1, <2>3, NothingTaken
<1>17. CASE SkipSection
  <2>1. /\ loadAt = "decode" /\ loadAt' = "decode" /\ node # NULL /\ NextSection
        /\ held' = held /\ module' = module
    BY <1>17 DEF SkipSection, Decoding
  <2>2. TakesNothing
    BY <2>1 DEF TakesNothing, HInv, Holding
  <2>3. QED BY <2>1, <2>2, NothingTaken
<1>18. CASE DecodeFuncs
  <2>1. "funcs" \in Arrays /\ SlotType("funcs") = 3
    BY DEF Arrays, SlotType
  <2>2. /\ loadAt = "decode" /\ node # NULL /\ NextSection /\ Section.type = 3
        /\ \/ loadAt' = "decode" /\ module' = module /\ held' = held
           \/ loadAt' \in {"crash", "abort"}
           \/ loadAt' = "decode" /\ \E funcs : TakeArray("funcs", funcs)
    BY <1>18, Zenon DEF DecodeFuncs, Decoding
  <2>3. CASE loadAt' \in {"crash", "abort"}
    BY <2>3 DEF HInv
  <2>4. CASE loadAt' = "decode" /\ module' = module /\ held' = held
    <3>1. TakesNothing
      BY <2>2, <2>4 DEF TakesNothing, HInv, Holding
    <3>2. QED BY <2>2, <2>4, <3>1, NothingTaken
  <2>5. CASE loadAt' = "decode" /\ \E funcs : TakeArray("funcs", funcs)
    <3>1. Decodes("funcs")
      BY <2>1, <2>2, <2>5 DEF Decodes
    <3>2. QED BY <2>1, <2>5, <3>1, DecodeArrayKept
  <2>6. QED BY <2>2, <2>3, <2>4, <2>5
<1>19. CASE DecodingDone \/ NodesReleased
  <2>1. /\ nodes' = nodes /\ held' = held /\ module' = module
        /\ \/ loadAt = "decode" /\ loadAt' = "release"
           \/ loadAt = "release" /\ loadAt' = "loaded"
    BY <1>19 DEF DecodingDone, NodesReleased, LoadEnds
  <2>2. QED BY <2>1 DEF HInv, Holding, Owned, Twice
<1>20. CASE ReleaseNode
  <2>1. /\ loadAt = "release" /\ node # NULL /\ nodes' = nodes /\ loadAt' = "release"
        /\ held' = held \ {NodeBlock(node)} /\ module' = module
    BY <1>20 DEF ReleaseNode
  <2>2. node \in Nat
    BY <2>1 DEF LInv, Where, Chained
  <2>3. NodeBlock(node) \in AllNodes
    BY <2>2 DEF AllNodes
  <2>4. Holding(extra) /\ Singles(module)
    BY <2>1 DEF HInv, Holding
  <2>5. ModuleBlocks(module) \cap AllNodes = {}
    BY <2>4, ModuleHasNoNodes
  <2>6. Holding(extra)'
    BY <2>1, <2>3, <2>4, <2>5 DEF Holding, Owned, Twice
  <2>7. QED BY <2>1, <2>6 DEF HInv
<1>21. QED
  BY <1>2, <1>3, <1>4, <1>5, <1>6, <1>7, <1>8, <1>9, <1>10, <1>11, <1>12, <1>13, <1>14,
     <1>15, <1>16, <1>17, <1>18, <1>19, <1>20 DEF Load

(* What is held when a module has been loaded.                             *)
LEMMA LoadedHolds ==
  ASSUME LInv, NEW extra, HInv(extra), loadAt = "loaded"
  PROVE  Owned(extra) \subseteq held /\ (~Twice => held = Owned(extra))
<1>1. \A n \in Nat : NodeBlock(n) \notin held
  BY DEF LInv, Where, HeldAre, Chained
<1>2. held \ AllNodes = held
  BY <1>1 DEF AllNodes
<1>3. QED BY <1>2 DEF HInv, Holding
=============================================================================
