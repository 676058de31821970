---------------------------- MODULE DriverProofs ----------------------------
(***************************************************************************)
(* For every text, program and file: what deepvm holds while it loads,     *)
(* runs and releases a module, whatever sections the file has, and the     *)
(* numbers the assembler gives labels, variables and functions.            *)
(***************************************************************************)
EXTENDS Driver, Foundations, FiniteSetTheorems

(* At each place of main: what it holds, and how far the loader has come.  *)
Fresh == held = {} /\ loadAt = "start" /\ nodes = <<>> /\ node = 0
AllHeld ==
  Ld!Singles(module) /\ Released \subseteq held /\ (~Repeated => held = Released)
DInv ==
  /\ Ld!LInv
  /\ at \in {"text", "wat", "wasm"} => Fresh
  /\ at = "load" => Ld!HInv({FileBlock})
  /\ at \in {"run", "release"} => AllHeld
  /\ NothingLost

(* Nothing that main takes or releases is a node of the section list.      *)
LEMMA MainTakesNoNodes ==
  ASSUME NEW n
  PROVE  /\ Ld!NodeBlock(n) # FileBlock
         /\ Ld!NodeBlock(n) \notin
              StackBlocks \cup {GlobalsBlock} \cup MemoryBlocks \cup TableBlocks
BY DEF Ld!NodeBlock, FileBlock, StackBlocks, GlobalsBlock, MemoryBlocks, TableBlocks

(* Where the loader and the nodes it holds stay the same, so does LInv.    *)
LEMMA LoaderRests ==
  ASSUME Ld!LInv, UNCHANGED <<loadAt, nodes, node>>,
         \A n \in Nat : Ld!NodeBlock(n) \in held' <=> Ld!NodeBlock(n) \in held
  PROVE  Ld!LInv'
BY DEF Ld!LInv, Ld!Chained, Ld!Where, Ld!HeldAre

(* What is to be released depends on the module alone.                     *)
LEMMA ReleasedRests == module' = module => Released' = Released
BY DEF Released, Ld!ModuleBlocks, MemoryBlocks, TableBlocks, TableSlots, TableServed, Pages,
       HasTable, StackBlocks, GlobalsBlock, FileBlock

(* A step of main that leaves the loader and what is held alone.           *)
LEMMA MainRests ==
  ASSUME DInv, UNCHANGED <<loadAt, nodes, node, held, module>>,
         \/ at' \notin {"text", "wat", "wasm", "load", "run", "release", "check"}
         \/ at' = at
         \/ at \in {"text", "wat"} /\ at' \in {"wat", "wasm"}
         \/ at = "run" /\ at' = "release"
  PROVE  DInv'
<1>1. Ld!LInv'
  BY LoaderRests DEF DInv
<1>2. Repeated' <=> Repeated
  BY DEF Repeated
<1>3. Released' = Released
  BY ReleasedRests
<1>4. AllHeld' <=> AllHeld
  BY <1>2, <1>3 DEF AllHeld, Ld!Singles
<1>5. at' \in {"text", "wat", "wasm"} => Fresh'
  BY DEF DInv, Fresh
<1>6. at' = "load" => Ld!HInv({FileBlock})'
  BY DEF DInv, Ld!HInv, Ld!Holding, Ld!Owned, Ld!Passed, Ld!Twice
<1>7. at' \in {"run", "release"} => AllHeld'
  BY <1>4 DEF DInv
<1>8. NothingLost'
  BY <1>2 DEF DInv, NothingLost
<1>9. QED BY <1>1, <1>5, <1>6, <1>7, <1>8 DEF DInv

LEMMA DInvKept == DInv /\ [Next]_vars => DInv'
<1> SUFFICES ASSUME DInv, [Next]_vars PROVE DInv'
  OBVIOUS
<1>1. CASE UNCHANGED vars \/ Finished
  BY <1>1, MainRests DEF Finished, vars, loadVars, mainVars
<1>2. CASE ReadTextStep \/ AssembleStep
  BY <1>2, MainRests DEF ReadTextStep, AssembleStep, loadVars, mainVars
<1>3. CASE TextAccepted \/ WriteFile
  BY <1>3, MainRests DEF TextAccepted, WriteFile, loadVars
<1>4. CASE TextRefused \/ TextOverrun \/ AssemblyFails
  BY <1>4, MainRests DEF TextRefused, TextOverrun, AssemblyFails, TextFails
<1>5. CASE LoadFails \/ RunMain \/ LeakCheck
  BY <1>5, MainRests DEF LoadFails, RunMain, LeakCheck, loadVars
<1>6. CASE ReadFile
  <2>1. /\ at = "wasm" /\ held' = held \cup {FileBlock} /\ at' \in {"-1", "load"}
        /\ UNCHANGED <<loadAt, nodes, node, module>>
    BY <1>6 DEF ReadFile
  <2>2. Fresh
    BY <2>1 DEF DInv
  <2>3. Ld!LInv'
    BY <2>1, LoaderRests, MainTakesNoNodes DEF DInv
  <2>4. FileBlock \notin Ld!AllNodes
    BY MainTakesNoNodes DEF Ld!AllNodes
  <2>5. Ld!HInv({FileBlock})'
    BY <2>1, <2>2, <2>4 DEF Fresh, Ld!HInv, FileBlock
  <2>6. QED BY <2>1, <2>3, <2>5 DEF DInv, NothingLost
<1>7. CASE LoadStep
  <2>1. at = "load" /\ at' = at /\ Ld!Load
    BY <1>7 DEF LoadStep, mainVars
  <2>2. Ld!LInv'
    BY <2>1, Ld!LInvKept DEF DInv
  <2>3. {FileBlock} \cap Ld!AllNodes = {}
    BY MainTakesNoNodes DEF Ld!AllNodes
  <2>4. Ld!HInv({FileBlock})'
    <3>1. Ld!LInv /\ Ld!HInv({FileBlock}) /\ [Ld!Load]_Ld!loadVars
      BY <2>1 DEF DInv
    <3> DEFINE extra == {FileBlock}
    <3>2. extra \cap Ld!AllNodes = {} /\ Ld!HInv(extra)
      BY <2>3, <3>1
    <3>3. QED BY <3>1, <3>2, Ld!HInvKept DEF FileBlock
  <2>5. QED BY <2>1, <2>2, <2>4 DEF DInv, NothingLost
<1>8. CASE BuildEnvironment
  <2> DEFINE env == StackBlocks \cup {GlobalsBlock} \cup MemoryBlocks \cup TableBlocks
  <2>1. /\ at = "load" /\ loadAt = "loaded" /\ at' \in {"run", "crash"} /\ held' = held \cup env
        /\ UNCHANGED <<loadAt, nodes, node, module>>
    BY <1>8 DEF BuildEnvironment
  <2>2. Released' = Released /\ Released = Ld!Owned({FileBlock}) \cup env
    <3>1. Released' = Released
      BY <2>1, ReleasedRests
    <3>2. Released = Ld!Owned({FileBlock}) \cup env
      BY DEF Released, Ld!Owned
    <3>3. QED BY <3>1, <3>2
  <2>3. Repeated' <=> Ld!Twice
    BY <2>1 DEF Repeated, Ld!Twice
  <2>4. /\ Ld!Owned({FileBlock}) \subseteq held
        /\ ~Ld!Twice => held = Ld!Owned({FileBlock})
    <3>1. Ld!LInv /\ Ld!HInv({FileBlock})
      BY <2>1 DEF DInv
    <3>2. QED BY <2>1, <3>1, Ld!LoadedHolds
  <2>5. \A n : Ld!NodeBlock(n) \notin env
    BY MainTakesNoNodes
  <2> HIDE DEF env
  <2>6. AllHeld'
    <3>1. Ld!Singles(module)
      BY <2>1 DEF DInv, Ld!HInv, Ld!Holding
    <3>2. Ld!Singles(module')
      BY <2>1, <3>1
    <3>3. QED BY <2>1, <2>2, <2>3, <2>4, <3>2 DEF AllHeld
  <2>7. Ld!LInv'
    BY <2>1, <2>5, LoaderRests DEF DInv
  <2>8. QED BY <2>1, <2>6, <2>7 DEF DInv, NothingLost
<1>9. CASE Release
  <2>1. /\ at = "release" /\ UNCHANGED <<loadAt, nodes, node, module>>
        /\ \/ at' = "crash" /\ held' = held
           \/ at' = "check" /\ held' = held \ Released
    BY <1>9 DEF Release
  <2>2. CASE at' = "crash" /\ held' = held
    BY <2>1, <2>2, MainRests
  <2>3. CASE at' = "check" /\ held' = held \ Released
    <3>1. NothingLost'
      BY <2>1, <2>3 DEF DInv, AllHeld, NothingLost, Repeated
    <3>2. \A n \in Nat : Ld!NodeBlock(n) \notin Released
      <4>1. Ld!Singles(module)
        BY <2>1 DEF DInv, AllHeld
      <4>2. Ld!ModuleBlocks(module) \cap Ld!AllNodes = {}
        BY <4>1, Ld!ModuleHasNoNodes
      <4>3. \A n \in Nat : Ld!NodeBlock(n) \notin Ld!ModuleBlocks(module)
        BY <4>2 DEF Ld!AllNodes
      <4>4. QED BY <4>3, MainTakesNoNodes DEF Released
    <3>3. Ld!LInv'
      BY <2>1, <2>3, <3>2, LoaderRests DEF DInv
    <3>4. QED BY <2>3, <3>1, <3>3 DEF DInv
  <2>4. QED BY <2>1, <2>2, <2>3
<1>10. QED
  BY <1>1, <1>2, <1>3, <1>4, <1>5, <1>6, <1>7, <1>8, <1>9 DEF Next

THEOREM DriverInvariant == Spec => []DInv
<1>1. Init => DInv
  BY DEF Init, DInv, Fresh, NothingLost, Ld!LInv, Ld!Chained, Ld!Where, Ld!HeldAre, Ld!NULL
<1>2. QED BY <1>1, DInvKept, PTL DEF Spec

(***************************************************************************)
(* The loader's loop over the section list and main at the end release     *)
(* only what is held, whatever the file.                                   *)
(***************************************************************************)
THEOREM FreedOnceAlways == Spec => []FreedOnce
<1>1. DInv => FreedOnce
  BY Ld!LInvReleases DEF DInv, FreedOnce, AllHeld
<1>2. QED BY <1>1, DriverInvariant, PTL

(***************************************************************************)
(* Nothing is held when main compares the free memory, of a file that has  *)
(* no section twice.                                                       *)
(***************************************************************************)
THEOREM NothingLostAlways == Spec => []NothingLost
<1>1. DInv => NothingLost
  BY DEF DInv
<1>2. QED BY <1>1, DriverInvariant, PTL

-----------------------------------------------------------------------------
(***************************************************************************)
(* The assembler.  Words of the text and the opcodes written for them.     *)
(***************************************************************************)
LEMMA OpcodeRows == \A r \in Mnemonics : r[1] \in DOMAIN Opcode /\ Opcode[r[1]] = r[2]
<1>1. \A r, s \in Mnemonics : r[1] = s[1] => r = s
  BY DEF Mnemonics
<1> TAKE r \in Mnemonics
<1>2. (CHOOSE row \in Mnemonics : row[1] = r[1]) = r
  BY <1>1
<1>3. QED BY <1>2 DEF Opcode

LEMMA OpcodesApart ==
  /\ \A w, x \in DOMAIN Opcode : Opcode[w] = Opcode[x] => w = x
  /\ \A w \in DOMAIN Opcode :
       /\ Opcode[w] \in Openers <=> w \in Blocks \cup {"if"}
       /\ Opcode[w] = op_end <=> w = "end"
       /\ Opcode[w] = op_br_table <=> w = "br_table"
       /\ Opcode[w] \in {op_br, op_br_if} <=> w \in BranchWords
  /\ DOMAIN Opcode = {r[1] : r \in Mnemonics}
<1>1. \A w \in DOMAIN Opcode : \E r \in Mnemonics : w = r[1] /\ Opcode[w] = r[2]
  <2>1. DOMAIN Opcode = {r[1] : r \in Mnemonics}
    BY DEF Opcode
  <2> TAKE w \in DOMAIN Opcode
  <2>2. PICK r \in Mnemonics : w = r[1]
    BY <2>1
  <2>3. QED BY <2>2, OpcodeRows
<1>2. \A r, s \in Mnemonics : r[2] = s[2] => r = s
  BY DEF Mnemonics
<1>3. \A r \in Mnemonics :
        /\ r[2] \in Openers <=> r[1] \in Blocks \cup {"if"}
        /\ r[2] = op_end <=> r[1] = "end"
        /\ r[2] = op_br_table <=> r[1] = "br_table"
        /\ r[2] \in {op_br, op_br_if} <=> r[1] \in BranchWords
  BY DEF Mnemonics, Openers, op_block, op_loop, op_if, op_end, op_br_table, op_br, op_br_if,
         Blocks, BranchWords
<1>4. QED BY <1>1, <1>2, <1>3 DEF Opcode

-----------------------------------------------------------------------------
(***************************************************************************)
(* The constructs open in the code.  Of the j-th and what follows it, more *)
(* open than end; and as many more as there are open constructs from it    *)
(* inwards, which q lists from the outside to the inside.                  *)
(***************************************************************************)
OpensIn(c, j, m) == {i \in j..m : Opens(c, i)}
EndsIn(c, j, m) == {i \in j..m : Ends(c, i)}
Outline(c, q) ==
  /\ IsSeq(c) /\ IsSeq(q)
  /\ \A i \in 1..Len(q) : q[i] \in 1..Len(c)
  /\ \A i, j \in 1..Len(q) : i < j => q[i] < q[j]
  /\ OpenAt(c, Len(c) + 1) = {q[i] : i \in 1..Len(q)}
  /\ \A i \in 1..Len(q) : Cardinality(OpensIn(c, q[i], Len(c)))
                          = Cardinality(EndsIn(c, q[i], Len(c))) + (Len(q) - i + 1)

(* One more instruction, counted.                                          *)
LEMMA CountedBefore ==
  ASSUME NEW c, IsSeq(c), NEW e, NEW j \in 1..Len(c), NEW m \in 1..Len(c)
  PROVE  /\ OpensIn(Append(c, e), j, m) = OpensIn(c, j, m)
         /\ EndsIn(Append(c, e), j, m) = EndsIn(c, j, m)
<1>1. /\ Len(c) \in Nat /\ \A k \in 1..Len(c) : Append(c, e)[k] = c[k]
  BY Shape, AppendFacts
<1>2. \A i \in j..m : i \in 1..Len(c)
  BY <1>1
<1>3. QED BY <1>1, <1>2 DEF OpensIn, EndsIn, Opens, Ends

LEMMA CountsAreNatural ==
  ASSUME NEW c, NEW j \in Nat, NEW m \in Nat
  PROVE  /\ IsFiniteSet(OpensIn(c, j, m)) /\ Cardinality(OpensIn(c, j, m)) \in Nat
         /\ IsFiniteSet(EndsIn(c, j, m)) /\ Cardinality(EndsIn(c, j, m)) \in Nat
<1>1. IsFiniteSet(j..m)
  BY FS_Interval
<1>2. OpensIn(c, j, m) \in SUBSET (j..m) /\ EndsIn(c, j, m) \in SUBSET (j..m)
  BY DEF OpensIn, EndsIn
<1>3. IsFiniteSet(OpensIn(c, j, m)) /\ IsFiniteSet(EndsIn(c, j, m))
  BY <1>1, <1>2, FS_Subset
<1>4. QED BY <1>3, FS_CardinalityType

LEMMA CountedLast ==
  ASSUME NEW c, IsSeq(c), NEW e, NEW j \in 1..Len(c)
  PROVE  LET n == Len(c)
             d == Append(c, e)
         IN  /\ e.bytes[1] \in Openers =>
                  Cardinality(OpensIn(d, j, n + 1)) = Cardinality(OpensIn(c, j, n)) + 1
             /\ e.bytes[1] \notin Openers => OpensIn(d, j, n + 1) = OpensIn(c, j, n)
             /\ e.bytes[1] = op_end =>
                  Cardinality(EndsIn(d, j, n + 1)) = Cardinality(EndsIn(c, j, n)) + 1
             /\ e.bytes[1] # op_end => EndsIn(d, j, n + 1) = EndsIn(c, j, n)
<1> DEFINE n == Len(c)
           d == Append(c, e)
<1>1. /\ n \in Nat /\ d[n + 1] = e
      /\ \A k \in 1..n : d[k] = c[k]
  BY Shape, AppendFacts
<1> HIDE DEF n, d
<1>2. \A i : i \in j..n + 1 <=> i \in j..n \/ i = n + 1
  BY <1>1 DEF n
<1>3. \A i \in j..n : i \in 1..n
  BY <1>1 DEF n
<1>4. /\ OpensIn(d, j, n + 1)
           = OpensIn(c, j, n) \cup (IF e.bytes[1] \in Openers THEN {n + 1} ELSE {})
      /\ EndsIn(d, j, n + 1)
           = EndsIn(c, j, n) \cup (IF e.bytes[1] = op_end THEN {n + 1} ELSE {})
  BY <1>1, <1>2, <1>3 DEF OpensIn, EndsIn, Opens, Ends
<1>5. n + 1 \notin OpensIn(c, j, n) /\ n + 1 \notin EndsIn(c, j, n)
  BY <1>1 DEF OpensIn, EndsIn
<1>6. /\ Cardinality(OpensIn(c, j, n) \cup {n + 1}) = Cardinality(OpensIn(c, j, n)) + 1
      /\ Cardinality(EndsIn(c, j, n) \cup {n + 1}) = Cardinality(EndsIn(c, j, n)) + 1
  <2>1. j \in Nat /\ n \in Nat
    BY <1>1 DEF n
  <2>2. IsFiniteSet(OpensIn(c, j, n)) /\ IsFiniteSet(EndsIn(c, j, n))
    BY <2>1, CountsAreNatural
  <2>3. QED BY <1>5, <2>2, FS_AddElement
<1>7. QED BY <1>4, <1>6 DEF n, d

(* What is open before an instruction does not depend on those behind it.  *)
LEMMA OpenBefore ==
  ASSUME NEW c, IsSeq(c), NEW e, NEW n, n = Len(c)
  PROVE  /\ \A k \in 1..n + 1 : OpenAt(Append(c, e), k) = OpenAt(c, k)
         /\ \A j : j \in OpenAt(Append(c, e), n + 2) <=>
              \/ /\ j \in OpenAt(c, n + 1)
                 /\ Cardinality(OpensIn(Append(c, e), j, n + 1))
                      > Cardinality(EndsIn(Append(c, e), j, n + 1))
              \/ e.bytes[1] \in Openers /\ j = n + 1
<1> DEFINE d == Append(c, e)
<1>1. /\ n \in Nat /\ d[n + 1] = e /\ \A k \in 1..n : d[k] = c[k]
  BY Shape, AppendFacts
<1>2. \A s, k : OpenAt(s, k) = {j \in 1..k - 1 : /\ Opens(s, j)
                    /\ \A m \in j..k - 1 : Cardinality(OpensIn(s, j, m))
                                            > Cardinality(EndsIn(s, j, m))}
  BY DEF OpenAt, OpensIn, EndsIn
<1>3. \A j, m \in 1..n : /\ OpensIn(d, j, m) = OpensIn(c, j, m)
                         /\ EndsIn(d, j, m) = EndsIn(c, j, m)
  BY CountedBefore
<1>4. \A j \in 1..n : Opens(d, j) <=> Opens(c, j)
  BY <1>1 DEF Opens
<1> HIDE DEF d
<1>5. ASSUME NEW k \in 1..n + 1 PROVE OpenAt(d, k) = OpenAt(c, k)
  <2>1. \A j \in 1..k - 1 : j \in 1..n /\ \A m \in j..k - 1 : m \in 1..n
    BY <1>1
  <2>2. QED BY <1>2, <1>3, <1>4, <2>1, ZenonT(30)
<1>6. ASSUME NEW j \in 1..n
      PROVE  j \in OpenAt(d, n + 2) <=>
               /\ j \in OpenAt(c, n + 1)
               /\ Cardinality(OpensIn(d, j, n + 1)) > Cardinality(EndsIn(d, j, n + 1))
  <2>1. \A m : m \in j..n + 1 <=> m \in j..n \/ m = n + 1
    BY <1>1
  <2>2. \A m \in j..n : m \in 1..n
    BY <1>1
  <2>3. n + 2 - 1 = n + 1 /\ n + 1 - 1 = n /\ j \in 1..n + 1
    BY <1>1
  <2>4. QED BY <1>2, <1>3, <1>4, <2>1, <2>2, <2>3
<1>7. n + 1 \in OpenAt(d, n + 2) <=> e.bytes[1] \in Openers
  <2>1. n + 2 - 1 = n + 1 /\ n + 1 \in 1..n + 1 /\ (n + 1)..(n + 1) = {n + 1}
    BY <1>1
  <2>2. e.bytes[1] \in Openers =>
          OpensIn(d, n + 1, n + 1) = {n + 1} /\ EndsIn(d, n + 1, n + 1) = {}
    BY <1>1, <2>1
    DEF OpensIn, EndsIn, Opens, Ends, Openers, op_block, op_loop, op_if, op_end
  <2>3. e.bytes[1] \in Openers =>
          Cardinality(OpensIn(d, n + 1, n + 1)) > Cardinality(EndsIn(d, n + 1, n + 1))
    <3>1. Cardinality({n + 1}) = 1 /\ Cardinality({}) = 0
      BY FS_Singleton, FS_EmptySet
    <3>2. 1 > 0
      OBVIOUS
    <3>3. QED BY <2>2, <3>1, <3>2, Zenon
  <2>4. Opens(d, n + 1) <=> e.bytes[1] \in Openers
    BY <1>1 DEF Opens
  <2>5. QED BY <1>2, <2>1, <2>3, <2>4
<1>8. /\ OpenAt(d, n + 2) \subseteq 1..n + 1 /\ OpenAt(c, n + 1) \subseteq 1..n
      /\ \A j \in 1..n + 1 : j \in 1..n \/ j = n + 1
  <2>1. n + 2 - 1 = n + 1 /\ n + 1 - 1 = n
    BY <1>1
  <2>2. QED BY <1>1, <1>2, <2>1
<1>9. n + 1 \notin 1..n
  BY <1>1
<1>10. \A j : j \in OpenAt(d, n + 2) <=>
         \/ /\ j \in OpenAt(c, n + 1)
            /\ Cardinality(OpensIn(d, j, n + 1)) > Cardinality(EndsIn(d, j, n + 1))
         \/ e.bytes[1] \in Openers /\ j = n + 1
  BY <1>6, <1>7, <1>8, <1>9
<1>11. QED BY <1>5, <1>10 DEF d

(* An instruction that opens or ends nothing changes nothing of it, one    *)
(* that opens a construct is the innermost, and an end closes that.        *)
LEMMA OutlineStays ==
  ASSUME NEW c, NEW q, Outline(c, q), NEW e, e.bytes[1] \notin Openers \cup {op_end}
  PROVE  Outline(Append(c, e), q)
<1>1. PICK n \in Nat : n = Len(c)
  BY Shape DEF Outline
<1>2. PICK d : d = Append(c, e)
  OBVIOUS
<1>3. IsSeq(d) /\ Len(d) = n + 1 /\ \A i \in 1..Len(q) : q[i] \in 1..n /\ q[i] \in 1..n + 1
  BY <1>1, <1>2, AppendFacts DEF Outline
<1>4. \A j \in 1..n : /\ Cardinality(OpensIn(d, j, n + 1)) = Cardinality(OpensIn(c, j, n))
                      /\ Cardinality(EndsIn(d, j, n + 1)) = Cardinality(EndsIn(c, j, n))
                      /\ Cardinality(OpensIn(c, j, n)) \in Nat
                      /\ Cardinality(EndsIn(c, j, n)) \in Nat
  <2> TAKE j \in 1..n
  <2>1. n \in 1..n /\ IsSeq(c) /\ e.bytes[1] \notin Openers /\ e.bytes[1] # op_end
    BY <1>1 DEF Outline
  <2>2. j \in Nat /\ n \in Nat
    BY <1>1
  <2>3. /\ Cardinality(OpensIn(c, j, n)) \in Nat /\ Cardinality(EndsIn(c, j, n)) \in Nat
    BY <2>2, CountsAreNatural
  <2>4. OpensIn(d, j, n + 1) = OpensIn(c, j, n) /\ EndsIn(d, j, n + 1) = EndsIn(c, j, n)
    BY <1>1, <1>2, <2>1, CountedLast
  <2>5. QED BY <2>3, <2>4
<1>5. \A i \in 1..Len(q) : Cardinality(OpensIn(d, q[i], n + 1))
                           = Cardinality(EndsIn(d, q[i], n + 1)) + (Len(q) - i + 1)
  BY <1>1, <1>3, <1>4 DEF Outline
<1>6. OpenAt(c, n + 1) = {q[i] : i \in 1..Len(q)}
  BY <1>1 DEF Outline
<1>7. \A j \in OpenAt(c, n + 1) :
        Cardinality(OpensIn(d, j, n + 1)) > Cardinality(EndsIn(d, j, n + 1))
  <2> SUFFICES ASSUME NEW i \in 1..Len(q)
               PROVE  Cardinality(OpensIn(d, q[i], n + 1)) > Cardinality(EndsIn(d, q[i], n + 1))
    BY <1>6
  <2>1. Len(q) \in Nat
    BY Shape DEF Outline
  <2>2. QED BY <1>3, <1>4, <1>5, <2>1
<1>8. OpenAt(d, n + 2) = {q[i] : i \in 1..Len(q)}
  <2>1. \A j : j \in OpenAt(d, n + 2) <=>
          /\ j \in OpenAt(c, n + 1)
          /\ Cardinality(OpensIn(d, j, n + 1)) > Cardinality(EndsIn(d, j, n + 1))
    <3>1. IsSeq(c) /\ ~(e.bytes[1] \in Openers)
      BY DEF Outline
    <3>2. QED BY <1>1, <1>2, <3>1, OpenBefore
  <2>2. QED BY <1>6, <1>7, <2>1
<1>9. Len(d) + 1 = n + 2
  BY <1>1, <1>3
<1>10. QED BY <1>2, <1>3, <1>5, <1>8, <1>9 DEF Outline

LEMMA OutlineGrows ==
  ASSUME NEW c, NEW q, Outline(c, q), NEW e, e.bytes[1] \in Openers
  PROVE  Outline(Append(c, e), Append(q, Len(c) + 1))
<1>1. PICK n \in Nat, m \in Nat : n = Len(c) /\ m = Len(q)
  BY Shape DEF Outline
<1>2. PICK d : d = Append(c, e)
  OBVIOUS
<1>3. PICK r : r = Append(q, n + 1)
  OBVIOUS
<1>4. /\ IsSeq(d) /\ Len(d) = n + 1 /\ IsSeq(r) /\ Len(r) = m + 1 /\ r[m + 1] = n + 1
      /\ \A i \in 1..m : r[i] = q[i] /\ q[i] \in 1..n
  BY <1>1, <1>2, <1>3, AppendFacts DEF Outline
<1>5. \A i \in 1..m + 1 : r[i] \in 1..n + 1 /\ (i \in 1..m \/ i = m + 1)
  BY <1>1, <1>4
<1>6. \A i, j \in 1..m + 1 : i < j => r[i] < r[j]
  <2> TAKE i, j \in 1..m + 1
  <2> HAVE i < j
  <2>1. i \in 1..m
    BY <1>1
  <2>2. CASE j \in 1..m
    BY <1>1, <1>4, <2>1, <2>2 DEF Outline
  <2>3. CASE j = m + 1
    <3>1. q[i] \in 1..n /\ r[i] = q[i] /\ r[j] = n + 1
      BY <1>4, <2>1, <2>3
    <3>2. QED BY <3>1, SMT
  <2>4. QED BY <1>5, <2>2, <2>3
<1>7. e.bytes[1] # op_end
  BY DEF Openers, op_block, op_loop, op_if, op_end
<1>8. \A j \in 1..n : /\ Cardinality(OpensIn(d, j, n + 1)) = Cardinality(OpensIn(c, j, n)) + 1
                      /\ Cardinality(EndsIn(d, j, n + 1)) = Cardinality(EndsIn(c, j, n))
                      /\ Cardinality(OpensIn(c, j, n)) \in Nat
                      /\ Cardinality(EndsIn(c, j, n)) \in Nat
  <2> TAKE j \in 1..n
  <2>1. n \in 1..n /\ IsSeq(c)
    BY <1>1 DEF Outline
  <2>2. j \in Nat /\ n \in Nat
    BY <1>1
  <2>3. /\ Cardinality(OpensIn(c, j, n)) \in Nat /\ Cardinality(EndsIn(c, j, n)) \in Nat
    BY <2>2, CountsAreNatural
  <2>4. /\ Cardinality(OpensIn(d, j, n + 1)) = Cardinality(OpensIn(c, j, n)) + 1
        /\ EndsIn(d, j, n + 1) = EndsIn(c, j, n)
    BY <1>1, <1>2, <1>7, <2>1, CountedLast
  <2>5. QED BY <2>3, <2>4
<1>9. /\ Cardinality(OpensIn(d, n + 1, n + 1)) = 1
      /\ Cardinality(EndsIn(d, n + 1, n + 1)) = 0
  <2>1. (n + 1)..(n + 1) = {n + 1} /\ d[n + 1] = e
    BY <1>1, <1>2, AppendFacts DEF Outline
  <2>2. OpensIn(d, n + 1, n + 1) = {n + 1} /\ EndsIn(d, n + 1, n + 1) = {}
    BY <1>7, <2>1 DEF OpensIn, EndsIn, Opens, Ends
  <2>3. QED BY <2>2, FS_Singleton, FS_EmptySet
<1>10. ASSUME NEW i \in 1..m + 1
       PROVE  Cardinality(OpensIn(d, r[i], n + 1))
              = Cardinality(EndsIn(d, r[i], n + 1)) + (m + 1 - i + 1)
  <2>1. CASE i \in 1..m
    <3>1. Cardinality(OpensIn(c, q[i], n)) = Cardinality(EndsIn(c, q[i], n)) + (m - i + 1)
      BY <1>1, <2>1 DEF Outline
    <3>2. r[i] = q[i] /\ q[i] \in 1..n /\ m + 1 - i + 1 = (m - i + 1) + 1 /\ m - i + 1 \in Nat
      BY <1>1, <1>4, <2>1
    <3>3. QED BY <1>8, <3>1, <3>2
  <2>2. CASE i = m + 1
    BY <1>1, <1>4, <1>9, <2>2
  <2>3. QED BY <1>5, <2>1, <2>2
<1>11. OpenAt(c, n + 1) = {q[i] : i \in 1..m}
  BY <1>1 DEF Outline
<1>12. \A j \in OpenAt(c, n + 1) :
         Cardinality(OpensIn(d, j, n + 1)) > Cardinality(EndsIn(d, j, n + 1))
  <2> SUFFICES ASSUME NEW i \in 1..m
               PROVE  Cardinality(OpensIn(d, q[i], n + 1)) > Cardinality(EndsIn(d, q[i], n + 1))
    BY <1>11
  <2>1. r[i] = q[i] /\ i \in 1..m + 1 /\ q[i] \in 1..n
    BY <1>1, <1>4
  <2>2. QED BY <1>1, <1>8, <1>10, <2>1
<1>13. OpenAt(d, n + 2) = {r[i] : i \in 1..m + 1}
  <2>1. \A j : j \in OpenAt(d, n + 2) <=>
          \/ /\ j \in OpenAt(c, n + 1)
             /\ Cardinality(OpensIn(d, j, n + 1)) > Cardinality(EndsIn(d, j, n + 1))
          \/ j = n + 1
    <3>1. IsSeq(c)
      BY DEF Outline
    <3>2. \A j : j \in OpenAt(Append(c, e), n + 2) <=>
            \/ /\ j \in OpenAt(c, n + 1)
               /\ Cardinality(OpensIn(Append(c, e), j, n + 1))
                    > Cardinality(EndsIn(Append(c, e), j, n + 1))
            \/ e.bytes[1] \in Openers /\ j = n + 1
      BY <1>1, <3>1, OpenBefore
    <3>3. \A j : j \in OpenAt(d, n + 2) <=>
            \/ /\ j \in OpenAt(c, n + 1)
               /\ Cardinality(OpensIn(d, j, n + 1)) > Cardinality(EndsIn(d, j, n + 1))
            \/ e.bytes[1] \in Openers /\ j = n + 1
      <4>1. PICK a : a = Append(c, e)
        OBVIOUS
      <4>2. a = d
        BY <1>2, <4>1
      <4>3. QED BY <3>2, <4>1, <4>2, SMT
    <3>4. QED BY <3>3
  <2>2. OpenAt(d, n + 2) = {q[i] : i \in 1..m} \cup {n + 1}
    BY <1>11, <1>12, <2>1
  <2>3. \A i \in 1..m : i \in 1..m + 1
    BY <1>1
  <2>4. m + 1 \in 1..m + 1
    BY <1>1
  <2>5. QED BY <1>4, <1>5, <2>2, <2>3, <2>4
<1>14. Len(d) + 1 = n + 2
  BY <1>1, <1>4
<1>15. Outline(d, r)
  BY <1>4, <1>5, <1>6, <1>10, <1>13, <1>14 DEF Outline
<1>16. QED BY <1>1, <1>2, <1>3, <1>15

LEMMA OutlineEnds ==
  ASSUME NEW c, NEW q, Outline(c, q), Len(q) > 0, NEW e, e.bytes[1] = op_end
  PROVE  Outline(Append(c, e), Front(q))
<1>1. PICK n \in Nat : n = Len(c)
  BY Shape DEF Outline
<1>2. PICK m \in Nat : m = Len(q)
  BY Shape DEF Outline
<1>3. PICK d : d = Append(c, e)
  OBVIOUS
<1>4. PICK r : r = Front(q)
  OBVIOUS
<1>5. IsSeq(c) /\ IsSeq(q) /\ m > 0 /\ e.bytes[1] \notin Openers
  BY <1>2 DEF Outline, Openers, op_block, op_loop, op_if, op_end
<1>6. IsSeq(d) /\ Len(d) = n + 1
  BY <1>1, <1>3, <1>5, AppendFacts
<1>7. IsSeq(r) /\ Len(r) = m - 1 /\ \A i \in 1..m - 1 : r[i] = q[i] /\ i \in 1..m
  <2>1. m - 1 \in 1 - 1..m /\ 1 \in 1..m + 1
    BY <1>5
  <2>2. /\ IsSeq(SubSeq(q, 1, m - 1)) /\ Len(SubSeq(q, 1, m - 1)) = m - 1 - 1 + 1
        /\ \A k \in 1..m - 1 - 1 + 1 : SubSeq(q, 1, m - 1)[k] = q[1 + k - 1]
    BY <1>2, <1>5, <2>1, SubSeqFacts
  <2>3. m - 1 - 1 + 1 = m - 1 /\ \A k \in 1..m - 1 : 1 + k - 1 = k /\ k \in 1..m
    OBVIOUS
  <2>4. r = SubSeq(q, 1, m - 1)
    BY <1>2, <1>4 DEF Front
  <2>5. QED BY <2>2, <2>3, <2>4
<1>8. \A i \in 1..m : q[i] \in 1..n /\ q[i] \in 1..n + 1
  BY <1>1, <1>2 DEF Outline
<1>9. \A j \in 1..n : /\ OpensIn(d, j, n + 1) = OpensIn(c, j, n)
                      /\ Cardinality(EndsIn(d, j, n + 1)) = Cardinality(EndsIn(c, j, n)) + 1
                      /\ Cardinality(OpensIn(c, j, n)) \in Nat
                      /\ Cardinality(EndsIn(c, j, n)) \in Nat
  <2> TAKE j \in 1..n
  <2>1. j \in Nat /\ n \in Nat
    BY <1>1
  <2>2. /\ Cardinality(OpensIn(c, j, n)) \in Nat /\ Cardinality(EndsIn(c, j, n)) \in Nat
    BY <2>1, CountsAreNatural
  <2>3. /\ OpensIn(d, j, n + 1) = OpensIn(c, j, n)
        /\ Cardinality(EndsIn(d, j, n + 1)) = Cardinality(EndsIn(c, j, n)) + 1
    BY <1>1, <1>3, <1>5, CountedLast
  <2>4. QED BY <2>2, <2>3
<1>10. \A i \in 1..m : Cardinality(OpensIn(c, q[i], n))
                       = Cardinality(EndsIn(c, q[i], n)) + (m - i + 1)
  BY <1>1, <1>2 DEF Outline
<1>11. ASSUME NEW i \in 1..m
       PROVE  Cardinality(OpensIn(d, q[i], n + 1))
              = Cardinality(EndsIn(d, q[i], n + 1)) + (m - 1 - i + 1)
  <2>1. q[i] \in 1..n
    BY <1>8
  <2>2. /\ OpensIn(d, q[i], n + 1) = OpensIn(c, q[i], n)
        /\ Cardinality(EndsIn(d, q[i], n + 1)) = Cardinality(EndsIn(c, q[i], n)) + 1
        /\ Cardinality(EndsIn(c, q[i], n)) \in Nat
    BY <1>9, <2>1
  <2>3. Cardinality(OpensIn(c, q[i], n)) = Cardinality(EndsIn(c, q[i], n)) + (m - i + 1)
    BY <1>10
  <2>4. QED BY <2>2, <2>3
<1>12. \A i \in 1..m : Cardinality(OpensIn(d, q[i], n + 1)) > Cardinality(EndsIn(d, q[i], n + 1))
                       <=> i \in 1..m - 1
  <2> TAKE i \in 1..m
  <2>1. Cardinality(EndsIn(d, q[i], n + 1)) \in Nat
    BY <1>8, CountsAreNatural
  <2>2. \A x, y : (y \in Nat /\ x = y + (m - 1 - i + 1)) => (x > y <=> i \in 1..m - 1)
    OBVIOUS
  <2>3. QED BY <1>11, <2>1, <2>2
<1>13. OpenAt(c, n + 1) = {q[i] : i \in 1..m}
  BY <1>1, <1>2 DEF Outline
<1>14. OpenAt(d, n + 2) = {r[i] : i \in 1..m - 1}
  <2>1. \A j : j \in OpenAt(d, n + 2) <=>
          /\ j \in OpenAt(c, n + 1)
          /\ Cardinality(OpensIn(d, j, n + 1)) > Cardinality(EndsIn(d, j, n + 1))
    BY <1>1, <1>3, <1>5, OpenBefore
  <2>2. \A j : j \in OpenAt(d, n + 2) <=> \E i \in 1..m - 1 : j = q[i]
    BY <1>7, <1>12, <1>13, <2>1
  <2>3. QED BY <1>7, <2>2
<1>15. \A i, j \in 1..m - 1 : i < j => r[i] < r[j]
  BY <1>2, <1>7 DEF Outline
<1>16. \A i \in 1..m - 1 : r[i] \in 1..n + 1
  BY <1>7, <1>8
<1>17. \A i \in 1..m - 1 : Cardinality(OpensIn(d, r[i], n + 1))
                           = Cardinality(EndsIn(d, r[i], n + 1)) + (m - 1 - i + 1)
  BY <1>7, <1>11
<1>18. Outline(d, r)
  <2>1. Len(d) + 1 = n + 2
    BY <1>1, <1>6
  <2>2. QED BY <1>6, <1>7, <1>14, <1>15, <1>16, <1>17, <2>1 DEF Outline
<1>19. QED BY <1>3, <1>4, <1>18

(* The d-th open construct outwards is the d-th from the end of q.         *)
LEMMA OutwardsIs ==
  ASSUME NEW c, NEW k, NEW q, NEW m \in Nat, \A i \in 1..m : q[i] \in Nat,
         \A i, j \in 1..m : i < j => q[i] < q[j],
         OpenAt(c, k) = {q[i] : i \in 1..m},
         NEW d \in 0..m - 1
  PROVE  Outwards(c, k, d) = q[m - d]
<1> DEFINE around == OpenAt(c, k)
           beyond(j) == {i \in around : i > j}
<1>1. ASSUME NEW a \in 1..m PROVE Cardinality(beyond(q[a])) = m - a
  <2> DEFINE f == [b \in a + 1..m |-> q[b]]
  <2>1. \A b \in 1..m : q[b] > q[a] <=> b \in a + 1..m
    BY SMT
  <2>2. beyond(q[a]) = {q[b] : b \in a + 1..m}
    <3>1. \A b \in a + 1..m : b \in 1..m
      OBVIOUS
    <3>2. \A j : j \in beyond(q[a]) <=> \E b \in 1..m : j = q[b] /\ q[b] > q[a]
      BY Zenon
    <3>3. QED BY <2>1, <3>1, <3>2
  <2>3. f \in [a + 1..m -> beyond(q[a])]
    BY <2>2
  <2>4. \A b, x \in a + 1..m : f[b] = f[x] => b = x
    <3> TAKE b, x \in a + 1..m
    <3>1. b \in 1..m /\ x \in 1..m /\ f[b] = q[b] /\ f[x] = q[x]
      OBVIOUS
    <3>2. q[b] \in Nat /\ q[x] \in Nat /\ (b < x => q[b] < q[x]) /\ (x < b => q[x] < q[b])
      BY <3>1
    <3> HIDE DEF f
    <3>3. QED BY <3>1, <3>2
  <2>5. \A y \in beyond(q[a]) : \E b \in a + 1..m : f[b] = y
    BY <2>2
  <2>6. f \in Bijection(a + 1..m, beyond(q[a]))
    BY <2>3, <2>4, <2>5 DEF Bijection, Injection, Surjection, IsInjective
  <2>7. ExistsBijection(a + 1..m, beyond(q[a]))
    BY <2>6 DEF ExistsBijection
  <2>8. IsFiniteSet(a + 1..m) /\ Cardinality(a + 1..m) = m - a
    <3>1. a + 1 \in Int /\ m \in Int
      OBVIOUS
    <3>2. /\ IsFiniteSet(a + 1..m)
          /\ Cardinality(a + 1..m) = IF a + 1 > m THEN 0 ELSE m - (a + 1) + 1
      BY <3>1, FS_Interval
    <3>3. QED BY <3>2
  <2>9. QED BY <2>7, <2>8, FS_Bijection
<1>2. \A j \in around : \E a \in 1..m : j = q[a]
  OBVIOUS
<1>3. m - d \in 1..m
  OBVIOUS
<1>4. {j \in around : Cardinality(beyond(j)) = d} = {q[m - d]}
  <2>1. \A a \in 1..m : m - a = d <=> a = m - d
    OBVIOUS
  <2>2. q[m - d] \in around /\ Cardinality(beyond(q[m - d])) = d
    BY <1>1, <1>3, <2>1
  <2>3. \A j \in around : Cardinality(beyond(j)) = d => j = q[m - d]
    <3> HIDE DEF beyond
    <3>1. QED BY <1>1, <1>2, <2>1
  <2>4. QED BY <2>2, <2>3, Zenon
<1>5. Max({q[m - d]}) = q[m - d]
  BY <1>3 DEF Max
<1>6. QED BY <1>4, <1>5, Zenon DEF Outwards

-----------------------------------------------------------------------------
(***************************************************************************)
(* What is written as the text format has it, and what the assembler gets  *)
(* right: an operand without parentheses is no construct, branch or end, a *)
(* list does not begin with end, and no branch is in the condition of a    *)
(* folded if, whose label is in scope too early (deep_wat.c:611): when a   *)
(* branch is emitted, no instruction that opens a construct is awaited.    *)
(***************************************************************************)
Structural == Blocks \cup {"if", "end"} \cup BranchWords \cup {"br_table"}
Branching ==
  \/ AtWord(BranchWords \cup {"br_table"})
  \/ Doing("refer") /\ Top.word \in BranchWords
  \/ Doing("table")
InCondition == \E i \in DOMAIN work : work[i].do = "put" /\ work[i].note # <<>>
WellWritten ==
  /\ Doing("expr") => IF IsAtom(Top.sx) THEN Top.sx.atom \notin Structural
                      ELSE Word(Top.sx) # "end"
  /\ Branching => ~InCondition

-----------------------------------------------------------------------------
(***************************************************************************)
(* What is left to do.  An item that closes a construct takes a label      *)
(* away; of an if whose condition is being emitted the opening is awaited. *)
(* h gives for each item how many labels there are when its turn comes.    *)
(***************************************************************************)
FlatRoles == {"flat", "flatIf"}
Closes(x) == x.do = "close" \/ (x.do = "seq" /\ x.role \in FlatRoles)
Awaited(x) == x.do = "put" /\ x.note # <<>>
Closing(x) == IF Closes(x) THEN 1 ELSE 0

Level(w, h) == IF Len(w) = 0 THEN 1 ELSE h[1]
Heights(w, h) ==
  /\ IsSeq(w) /\ IsSeq(h) /\ Len(h) = Len(w)
  /\ \A i \in 1..Len(w) :
       /\ h[i] \in Nat
       /\ h[i] = (IF i = Len(w) THEN 1 ELSE h[i + 1]) + Closing(w[i])
       /\ h[i] > Closing(w[i])
       /\ Awaited(w[i]) => h[i] > 1
       /\ Closes(w[i]) /\ w[i].do = "seq" => i < Len(w) /\ w[i + 1].do = "seq"
       /\ w[i].do = "seq" /\ w[i].role = "function" => i = Len(w)
  /\ \A i, k \in 1..Len(w) : i < k =>
       /\ h[k] + Closing(w[i]) <= h[i]
       /\ Awaited(w[i]) /\ Awaited(w[k]) => h[k] < h[i]
AwaitedIn(w, h) == {<<h[i], w[i].note>> : i \in {k \in 1..Len(w) : Awaited(w[k])}}

(* One item more, one item less, one instead of another.                   *)
LEMMA ConsFacts ==
  ASSUME NEW x, NEW w, IsSeq(w)
  PROVE  /\ IsSeq(<<x>> \o w) /\ Len(<<x>> \o w) = Len(w) + 1 /\ (<<x>> \o w)[1] = x
         /\ \A k \in 1..Len(w) : (<<x>> \o w)[k + 1] = w[k]
         /\ \A k \in 2..Len(w) + 1 : (<<x>> \o w)[k] = w[k - 1]
<1>1. IsSeq(<<x>>) /\ Len(<<x>>) = 1 /\ <<x>>[1] = x
  <2>1. <<x>> \in Seq({x})
    OBVIOUS
  <2>2. QED BY <2>1 DEF IsSeq
<1>2. /\ IsSeq(<<x>> \o w) /\ Len(<<x>> \o w) = 1 + Len(w) /\ (<<x>> \o w)[1] = x
      /\ \A k \in 1..Len(w) : (<<x>> \o w)[1 + k] = w[k]
  BY <1>1, ConcatFacts
<1>3. Len(w) \in Nat
  BY Shape
<1>4. \A k \in 1..Len(w) : 1 + k = k + 1
  OBVIOUS
<1>5. \A k \in 2..Len(w) + 1 : k - 1 \in 1..Len(w) /\ 1 + (k - 1) = k
  BY <1>3
<1>6. \A k \in 2..Len(w) + 1 : (<<x>> \o w)[k] = w[k - 1]
  <2> TAKE k \in 2..Len(w) + 1
  <2>1. k - 1 \in 1..Len(w) /\ 1 + (k - 1) = k
    BY <1>5
  <2>2. (<<x>> \o w)[1 + (k - 1)] = w[k - 1]
    BY <1>2, <2>1
  <2>3. QED BY <2>1, <2>2
<1>7. QED BY <1>2, <1>3, <1>4, <1>6

LEMMA TailFacts ==
  ASSUME NEW w, IsSeq(w), Len(w) > 0
  PROVE  /\ IsSeq(Tail(w)) /\ Len(Tail(w)) = Len(w) - 1 /\ Head(w) = w[1]
         /\ \A k \in 1..Len(w) - 1 : Tail(w)[k] = w[k + 1]
         /\ w = <<w[1]>> \o Tail(w)
<1>1. PICK S : w \in Seq(S)
  BY DEF IsSeq
<1>2. w # <<>> /\ Len(w) \in Nat
  BY <1>1
<1>3. /\ Tail(w) \in Seq(S) /\ Len(Tail(w)) = Len(w) - 1 /\ Head(w) = w[1]
      /\ \A k \in 1..Len(w) - 1 : Tail(w)[k] = w[k + 1]
  BY <1>1, <1>2, HeadTailProperties
<1>4. IsSeq(Tail(w))
  BY <1>3 DEF IsSeq
<1>5. /\ IsSeq(<<w[1]>> \o Tail(w)) /\ Len(<<w[1]>> \o Tail(w)) = Len(w) - 1 + 1
      /\ (<<w[1]>> \o Tail(w))[1] = w[1]
      /\ \A k \in 1..Len(w) - 1 : (<<w[1]>> \o Tail(w))[k + 1] = w[k + 1]
  BY <1>3, <1>4, ConsFacts
<1>6. Len(w) - 1 + 1 = Len(w) /\ \A k \in 1..Len(w) : k = 1 \/ k - 1 \in 1..Len(w) - 1
  BY <1>2
<1>7. \A k \in 1..Len(w) : w[k] = (<<w[1]>> \o Tail(w))[k]
  <2> TAKE k \in 1..Len(w)
  <2>1. CASE k = 1
    BY <1>5, <2>1
  <2>2. CASE k - 1 \in 1..Len(w) - 1
    <3>1. (k - 1) + 1 = k
      OBVIOUS
    <3>2. QED BY <1>5, <2>2, <3>1
  <2>3. QED BY <1>6, <2>1, <2>2
<1>8. w = <<w[1]>> \o Tail(w)
  BY <1>5, <1>6, <1>7, Extensional
<1>9. QED BY <1>3, <1>4, <1>8

(* The labels there are when the next item's turn comes, and those of them *)
(* whose construct is still to be opened, with the note it will have.      *)
Stack(w, L, P) == \E h : Heights(w, h) /\ L = Level(w, h) /\ P = AwaitedIn(w, h)

(* An item on top of the others.                                           *)
LEMMA PushOne ==
  ASSUME NEW w, NEW L, NEW P, Stack(w, L, P), NEW x, NEW l, l = L + Closing(x),
         Awaited(x) => l > 1 /\ \A p \in P : p[1] < l,
         Closes(x) /\ x.do = "seq" => Len(w) > 0 /\ w[1].do = "seq",
         x.do = "seq" /\ x.role = "function" => Len(w) = 0
  PROVE  Stack(<<x>> \o w, l, P \cup (IF Awaited(x) THEN {<<l, x.note>>} ELSE {}))
<1> SUFFICES ASSUME NEW h, Heights(w, h), l = Level(w, h) + Closing(x),
                    P = AwaitedIn(w, h),
                    Awaited(x) => \A p \in AwaitedIn(w, h) : p[1] < l
             PROVE  Stack(<<x>> \o w, l, P \cup (IF Awaited(x) THEN {<<l, x.note>>} ELSE {}))
  BY DEF Stack
<1> DEFINE y == <<x>> \o w
           g == <<l>> \o h
           n == Len(w)
<1>1. IsSeq(w) /\ IsSeq(h) /\ Len(h) = n /\ n \in Nat
  BY Shape DEF Heights
<1>2. /\ IsSeq(y) /\ Len(y) = n + 1 /\ y[1] = x
      /\ \A k \in 1..n : y[k + 1] = w[k]
      /\ \A k \in 2..n + 1 : y[k] = w[k - 1]
  BY <1>1, ConsFacts
<1>3. /\ IsSeq(g) /\ Len(g) = n + 1 /\ g[1] = l
      /\ \A k \in 1..n : g[k + 1] = h[k]
      /\ \A k \in 2..n + 1 : g[k] = h[k - 1]
  BY <1>1, ConsFacts
<1>4. Level(w, h) \in Nat /\ Level(w, h) > 0 /\ \A k \in 1..n : h[k] <= Level(w, h)
  <2>1. CASE n = 0
    BY <2>1 DEF Level
  <2>2. CASE n # 0
    <3>1. 1 \in 1..n /\ Level(w, h) = h[1]
      BY <1>1, <2>2 DEF Level
    <3>2. \A k \in 1..n : Closing(w[k]) \in 0..1 /\ h[k] \in Nat /\ h[k] > Closing(w[k])
      BY DEF Closing, Heights
    <3>3. \A k \in 1..n : 1 < k => h[k] + Closing(w[1]) <= h[1]
      BY <3>1 DEF Heights
    <3>4. QED BY <3>1, <3>2, <3>3
  <2>3. QED BY <2>1, <2>2
<1>5. Closing(x) \in 0..1 /\ l \in Nat /\ l > Closing(x) /\ \A k \in 1..n : h[k] + Closing(x) <= l
  BY <1>4 DEF Closing, Heights
<1>6. \A k \in 1..n : Awaited(w[k]) => <<h[k], w[k].note>> \in AwaitedIn(w, h)
  BY DEF AwaitedIn
<1> HIDE DEF y, g
<1>7. ASSUME NEW i \in 1..n + 1
      PROVE  /\ g[i] \in Nat
             /\ g[i] = (IF i = n + 1 THEN 1 ELSE g[i + 1]) + Closing(y[i])
             /\ g[i] > Closing(y[i])
             /\ Awaited(y[i]) => g[i] > 1
             /\ Closes(y[i]) /\ y[i].do = "seq" => i < n + 1 /\ y[i + 1].do = "seq"
             /\ y[i].do = "seq" /\ y[i].role = "function" => i = n + 1
  <2>1. CASE i = 1
    <3>1. i = n + 1 <=> n = 0
      BY <1>1, <2>1
    <3>2. n # 0 => g[i + 1] = h[1] /\ y[i + 1] = w[1] /\ Level(w, h) = h[1]
      <4>1. n # 0 => 1 \in 1..n
        BY <1>1
      <4>2. QED BY <1>2, <1>3, <2>1, <4>1 DEF Level
    <3>3. n = 0 => Level(w, h) = 1
      BY DEF Level
    <3>4. g[i] = l /\ y[i] = x
      BY <1>2, <1>3, <2>1
    <3>5. n > 0 => i < n + 1
      BY <1>1, <2>1
    <3>6. QED BY <1>5, <3>1, <3>2, <3>3, <3>4, <3>5
  <2>2. CASE i # 1
    <3>1. PICK k \in 1..n : k = i - 1
      BY <1>1, <2>2
    <3>2. g[i] = h[k] /\ y[i] = w[k] /\ i = k + 1
      BY <1>2, <1>3, <3>1, <1>1
    <3>3. (k = n <=> i = n + 1) /\ (k < n => g[i + 1] = h[k + 1] /\ y[i + 1] = w[k + 1])
      <4>1. k < n => k + 1 \in 1..n /\ i + 1 = (k + 1) + 1
        BY <1>1, <3>2
      <4>2. k = n <=> i = n + 1
        BY <1>1, <3>2
      <4>3. QED BY <1>2, <1>3, <4>1, <4>2
    <3>4. /\ h[k] \in Nat
          /\ h[k] = (IF k = n THEN 1 ELSE h[k + 1]) + Closing(w[k])
          /\ h[k] > Closing(w[k])
          /\ Awaited(w[k]) => h[k] > 1
          /\ Closes(w[k]) /\ w[k].do = "seq" => k < n /\ w[k + 1].do = "seq"
          /\ w[k].do = "seq" /\ w[k].role = "function" => k = n
      BY DEF Heights
    <3>5. (k < n <=> i < n + 1) /\ (k < n \/ k = n)
      BY <1>1, <3>2
    <3>6. QED BY <3>2, <3>3, <3>4, <3>5
  <2>3. QED BY <2>1, <2>2
<1>8. ASSUME NEW i \in 1..n + 1, NEW k \in 1..n + 1, i < k
      PROVE  /\ g[k] + Closing(y[i]) <= g[i]
             /\ Awaited(y[i]) /\ Awaited(y[k]) => g[k] < g[i]
  <2>1. PICK m \in 1..n : m = k - 1
    BY <1>1, <1>8
  <2>2. g[k] = h[m] /\ y[k] = w[m] /\ k \in 2..n + 1
    BY <1>1, <1>2, <1>3, <2>1
  <2>3. CASE i = 1
    <3>1. g[i] = l /\ y[i] = x
      BY <1>2, <1>3, <2>3
    <3>2. Awaited(w[m]) /\ Awaited(x) => h[m] < l
      <4>1. Awaited(w[m]) => <<h[m], w[m].note>> \in AwaitedIn(w, h)
        BY <1>6
      <4>2. <<h[m], w[m].note>>[1] = h[m]
        OBVIOUS
      <4>3. QED BY <4>1, <4>2
    <3>3. QED BY <1>5, <2>2, <3>1, <3>2
  <2>4. CASE i # 1
    <3>1. PICK j \in 1..n : j = i - 1
      BY <1>1, <2>4
    <3>2. g[i] = h[j] /\ y[i] = w[j] /\ j < m
      BY <1>1, <1>2, <1>3, <1>8, <2>1, <2>4, <3>1
    <3>3. QED BY <2>2, <3>2 DEF Heights
  <2>5. QED BY <2>3, <2>4
<1>9. Heights(y, g)
  BY <1>2, <1>3, <1>7, <1>8 DEF Heights
<1>10. Level(y, g) = l
  BY <1>1, <1>2, <1>3 DEF Level
<1>11. ASSUME NEW p
       PROVE  p \in AwaitedIn(y, g)
                <=> p \in AwaitedIn(w, h) \/ (Awaited(x) /\ p = <<l, x.note>>)
  <2>1. p \in AwaitedIn(y, g) <=> \E i \in 1..n + 1 : Awaited(y[i]) /\ p = <<g[i], y[i].note>>
    BY <1>2 DEF AwaitedIn
  <2>2. p \in AwaitedIn(w, h) <=> \E i \in 1..n : Awaited(w[i]) /\ p = <<h[i], w[i].note>>
    BY DEF AwaitedIn
  <2>3. \A i \in 1..n + 1 : i = 1 \/ \E k \in 1..n : i = k + 1
    <3> TAKE i \in 1..n + 1
    <3>1. i # 1 => i - 1 \in 1..n /\ i = (i - 1) + 1
      BY <1>1
    <3>2. QED BY <3>1
  <2>4. 1 \in 1..n + 1 /\ \A k \in 1..n : k + 1 \in 1..n + 1
    BY <1>1
  <2>5. \A k \in 1..n : y[k + 1] = w[k] /\ g[k + 1] = h[k]
    BY <1>2, <1>3
  <2>6. y[1] = x /\ g[1] = l
    BY <1>2, <1>3
  <2>7. ASSUME p \in AwaitedIn(y, g)
        PROVE  p \in AwaitedIn(w, h) \/ (Awaited(x) /\ p = <<l, x.note>>)
    <3>1. PICK i \in 1..n + 1 : Awaited(y[i]) /\ p = <<g[i], y[i].note>>
      BY <2>1, <2>7
    <3>2. CASE i = 1
      BY <2>6, <3>1, <3>2
    <3>3. CASE \E k \in 1..n : i = k + 1
      BY <2>2, <2>5, <3>1, <3>3
    <3>4. QED BY <2>3, <3>2, <3>3
  <2>8. ASSUME p \in AwaitedIn(w, h) PROVE p \in AwaitedIn(y, g)
    <3>1. PICK k \in 1..n : Awaited(w[k]) /\ p = <<h[k], w[k].note>>
      BY <2>2, <2>8
    <3>2. QED BY <2>1, <2>4, <2>5, <3>1
  <2>9. ASSUME Awaited(x), p = <<l, x.note>> PROVE p \in AwaitedIn(y, g)
    BY <2>1, <2>4, <2>6, <2>9
  <2>10. QED BY <2>7, <2>8, <2>9
<1>12. AwaitedIn(y, g) = AwaitedIn(w, h) \cup (IF Awaited(x) THEN {<<l, x.note>>} ELSE {})
  BY <1>11
<1> HIDE DEF y, g
<1>13. Stack(y, l, AwaitedIn(w, h) \cup (IF Awaited(x) THEN {<<l, x.note>>} ELSE {}))
  BY <1>9, <1>10, <1>12, Zenon DEF Stack
<1>14. QED BY <1>13 DEF y

LEMMA StackBounds ==
  ASSUME NEW w, NEW L, NEW P, Stack(w, L, P)
  PROVE  IsSeq(w) /\ L \in Nat /\ L >= 1 /\ \A p \in P : p[1] \in 2..L
<1>1. PICK h : Heights(w, h) /\ L = Level(w, h) /\ P = AwaitedIn(w, h)
  BY DEF Stack
<1>2. IsSeq(w) /\ Len(w) \in Nat /\ (Len(w) = 0 => L = 1) /\ (Len(w) > 0 => L = h[1])
  BY <1>1, Shape DEF Heights, Level
<1>3. Len(w) > 0 => h[1] \in Nat /\ h[1] > Closing(w[1])
  BY <1>1, <1>2 DEF Heights
<1>4. L \in Nat /\ L >= 1
  BY <1>2, <1>3 DEF Closing
<1>5. ASSUME NEW p \in P PROVE p[1] \in 2..L
  <2>1. PICK i \in 1..Len(w) : Awaited(w[i]) /\ p = <<h[i], w[i].note>>
    BY <1>1, <1>5 DEF AwaitedIn
  <2>2. h[i] \in Nat /\ h[i] > 1 /\ p[1] = h[i]
    BY <1>1, <2>1 DEF Heights
  <2>3. i > 1 => h[i] + Closing(w[1]) <= h[1]
    BY <1>1, <1>2 DEF Heights
  <2>4. h[i] <= h[1]
    <3>1. CASE i > 1
      <4>1. Closing(w[1]) \in {0, 1} /\ h[1] \in Nat
        BY <1>2, <1>3, <3>1 DEF Closing
      <4>2. QED BY <2>2, <2>3, <3>1, <4>1
    <3>2. CASE i = 1
      BY <2>2, <3>2
    <3>3. QED BY <1>2, <3>1, <3>2
  <2>5. QED BY <1>2, <1>4, <2>2, <2>4
<1>6. QED BY <1>2, <1>4, <1>5

(* The top item done.                                                      *)
LEMMA PopOne ==
  ASSUME NEW w, NEW L, NEW P, Stack(w, L, P), Len(w) > 0
  PROVE  /\ \E Q : /\ Stack(Tail(w), L - Closing(w[1]), Q)
                   /\ ~Awaited(w[1]) => Q = P
                   /\ Awaited(w[1]) => /\ \A p \in Q : p[1] < L
                                       /\ \A p : p \in P <=> p \in Q \/ p = <<L, w[1].note>>
         /\ L > Closing(w[1]) /\ (Awaited(w[1]) => L > 1)
         /\ Closes(w[1]) /\ w[1].do = "seq" => Len(w) > 1 /\ w[2].do = "seq"
         /\ w[1].do = "seq" /\ w[1].role = "function" => Len(w) = 1
<1>1. PICK h : Heights(w, h) /\ L = Level(w, h) /\ P = AwaitedIn(w, h)
  BY DEF Stack
<1> DEFINE n == Len(w)
           t == Tail(w)
           g == Tail(h)
<1>2. IsSeq(w) /\ IsSeq(h) /\ Len(h) = n /\ n \in Nat /\ n > 0
  BY <1>1, Shape DEF Heights
<1>3. /\ IsSeq(t) /\ Len(t) = n - 1 /\ \A k \in 1..n - 1 : t[k] = w[k + 1]
      /\ IsSeq(g) /\ Len(g) = n - 1 /\ \A k \in 1..n - 1 : g[k] = h[k + 1]
  BY <1>2, TailFacts
<1> HIDE DEF n, t, g
<1>4. \A i \in 1..n :
       /\ h[i] \in Nat
       /\ h[i] = (IF i = n THEN 1 ELSE h[i + 1]) + Closing(w[i])
       /\ h[i] > Closing(w[i])
       /\ Awaited(w[i]) => h[i] > 1
       /\ Closes(w[i]) /\ w[i].do = "seq" => i < n /\ w[i + 1].do = "seq"
       /\ w[i].do = "seq" /\ w[i].role = "function" => i = n
  BY <1>1 DEF Heights, n
<1>5. \A i, k \in 1..n : i < k =>
       /\ h[k] + Closing(w[i]) <= h[i]
       /\ Awaited(w[i]) /\ Awaited(w[k]) => h[k] < h[i]
  BY <1>1 DEF Heights, n
<1>6. L = h[1]
  BY <1>1, <1>2 DEF Level, n
<1>7. Heights(t, g)
  <2>1. ASSUME NEW i \in 1..n - 1
        PROVE  /\ g[i] \in Nat
               /\ g[i] = (IF i = n - 1 THEN 1 ELSE g[i + 1]) + Closing(t[i])
               /\ g[i] > Closing(t[i])
               /\ Awaited(t[i]) => g[i] > 1
               /\ Closes(t[i]) /\ t[i].do = "seq" => i < n - 1 /\ t[i + 1].do = "seq"
               /\ t[i].do = "seq" /\ t[i].role = "function" => i = n - 1
    <3>1. i + 1 \in 1..n /\ g[i] = h[i + 1] /\ t[i] = w[i + 1]
      BY <1>2, <1>3
    <3>2. i < n - 1 => g[i + 1] = h[i + 1 + 1] /\ t[i + 1] = w[i + 1 + 1]
      BY <1>2, <1>3
    <3>3. i + 1 = n <=> i = n - 1
      BY <1>2
    <3>4. i + 1 < n <=> i < n - 1
      BY <1>2
    <3>5. g[i] = (IF i = n - 1 THEN 1 ELSE g[i + 1]) + Closing(t[i])
      <4>1. CASE i = n - 1
        BY <1>4, <3>1, <3>3, <4>1
      <4>2. CASE i # n - 1
        <5>1. i < n - 1
          BY <1>2, <4>2
        <5>2. h[i + 1] = h[i + 1 + 1] + Closing(w[i + 1])
          BY <1>4, <3>1, <3>3, <4>2
        <5>3. QED BY <3>1, <3>2, <4>2, <5>1, <5>2
      <4>3. QED BY <4>1, <4>2
    <3>6. /\ g[i] \in Nat /\ g[i] > Closing(t[i]) /\ (Awaited(t[i]) => g[i] > 1)
          /\ t[i].do = "seq" /\ t[i].role = "function" => i = n - 1
      BY <1>4, <3>1, <3>3
    <3>7. Closes(t[i]) /\ t[i].do = "seq" => i < n - 1 /\ t[i + 1].do = "seq"
      <4>1. Closes(w[i + 1]) /\ w[i + 1].do = "seq" => i + 1 < n /\ w[i + 1 + 1].do = "seq"
        BY <1>4, <3>1
      <4>2. QED BY <3>1, <3>2, <3>4, <4>1
    <3>8. QED BY <3>5, <3>6, <3>7
  <2>2. ASSUME NEW i \in 1..n - 1, NEW k \in 1..n - 1, i < k
        PROVE  /\ g[k] + Closing(t[i]) <= g[i]
               /\ Awaited(t[i]) /\ Awaited(t[k]) => g[k] < g[i]
    <3>1. i + 1 \in 1..n /\ g[i] = h[i + 1] /\ t[i] = w[i + 1]
      BY <1>2, <1>3
    <3>2. k + 1 \in 1..n /\ g[k] = h[k + 1] /\ t[k] = w[k + 1] /\ i + 1 < k + 1
      BY <1>2, <1>3, <2>2
    <3>3. QED BY <1>5, <3>1, <3>2
  <2>3. QED BY <1>3, <2>1, <2>2 DEF Heights
<1>8. Level(t, g) = L - Closing(w[1])
  <2>1. CASE n = 1
    <3>1. Level(t, g) = 1
      BY <1>3, <2>1 DEF Level
    <3>2. h[1] = 1 + Closing(w[1]) /\ Closing(w[1]) \in {0, 1}
      BY <1>2, <1>4, <2>1 DEF Closing
    <3>3. QED BY <1>6, <3>1, <3>2
  <2>2. CASE n > 1
    <3>1. Level(t, g) = h[1 + 1]
      BY <1>2, <1>3, <2>2 DEF Level
    <3>2. h[1] = h[1 + 1] + Closing(w[1]) /\ Closing(w[1]) \in {0, 1} /\ h[1 + 1] \in Nat
      BY <1>2, <1>4, <2>2 DEF Closing
    <3>3. QED BY <1>6, <3>1, <3>2
  <2>3. QED BY <1>2, <2>1, <2>2
<1> DEFINE Q == AwaitedIn(t, g)
<1>9. \A p : p \in Q <=> \E k \in 1..n - 1 : Awaited(t[k]) /\ p = <<g[k], t[k].note>>
  BY <1>3 DEF AwaitedIn
<1>10. \A p : p \in P <=> \E k \in 1..n : Awaited(w[k]) /\ p = <<h[k], w[k].note>>
  BY <1>1 DEF AwaitedIn, n
<1> HIDE DEF Q
<1>11. ASSUME NEW p \in Q PROVE p \in P /\ (Awaited(w[1]) => p[1] < L)
  <2>1. PICK k \in 1..n - 1 : Awaited(t[k]) /\ p = <<g[k], t[k].note>>
    BY <1>9, <1>11
  <2>2. k + 1 \in 1..n /\ g[k] = h[k + 1] /\ t[k] = w[k + 1] /\ 1 \in 1..n /\ 1 < k + 1
    BY <1>2, <1>3
  <2>3. p \in P
    BY <1>10, <2>1, <2>2
  <2>4. Awaited(w[1]) => h[k + 1] < h[1]
    BY <1>5, <2>1, <2>2
  <2>5. QED BY <1>6, <2>1, <2>2, <2>3, <2>4
<1>12. ASSUME NEW p \in P PROVE p \in Q \/ (Awaited(w[1]) /\ p = <<L, w[1].note>>)
  <2>1. PICK k \in 1..n : Awaited(w[k]) /\ p = <<h[k], w[k].note>>
    BY <1>10, <1>12
  <2>2. CASE k = 1
    BY <1>6, <2>1, <2>2
  <2>3. CASE k > 1
    <3>1. PICK j \in 1..n - 1 : k = j + 1
      <4>1. k - 1 \in 1..n - 1 /\ k = (k - 1) + 1
        BY <1>2, <2>3
      <4>2. QED BY <4>1
    <3>2. g[j] = h[k] /\ t[j] = w[k]
      BY <1>3, <3>1
    <3>3. QED BY <1>9, <2>1, <3>2
  <2>4. QED BY <1>2, <2>2, <2>3
<1>13. ~Awaited(w[1]) => Q = P
  BY <1>11, <1>12
<1>14. Awaited(w[1]) => /\ \A p \in Q : p[1] < L
                        /\ \A p : p \in P <=> p \in Q \/ p = <<L, w[1].note>>
  <2>1. ASSUME Awaited(w[1]) PROVE <<L, w[1].note>> \in P
    <3>1. 1 \in 1..n
      BY <1>2
    <3>2. QED BY <1>6, <1>10, <2>1, <3>1
  <2>2. QED BY <1>11, <1>12, <2>1
<1>15. Stack(t, L - Closing(w[1]), Q)
  BY <1>7, <1>8 DEF Stack, Q
<1>16. 1 \in 1..n
  BY <1>2
<1>17. /\ L > Closing(w[1]) /\ (Awaited(w[1]) => L > 1)
       /\ Closes(w[1]) /\ w[1].do = "seq" => n > 1 /\ w[1 + 1].do = "seq"
       /\ w[1].do = "seq" /\ w[1].role = "function" => n = 1
  BY <1>4, <1>6, <1>16
<1>18. QED BY <1>13, <1>14, <1>15, <1>17 DEF n, t

(* Items that are neither.                                                 *)
Neutral(x) ==
  /\ ~Closes(x) /\ ~Awaited(x)
  /\ x.do = "seq" => x.role # "function"

LEMMA PushNeutral ==
  ASSUME NEW w, NEW L, NEW P, Stack(w, L, P), NEW s, IsSeq(s),
         \A k \in 1..Len(s) : Neutral(s[k])
  PROVE  Stack(s \o w, L, P)
<1>1. PICK h : Heights(w, h) /\ L = Level(w, h) /\ P = AwaitedIn(w, h)
  BY DEF Stack
<1> DEFINE m == Len(s)
           n == Len(w)
           y == s \o w
           f == [k \in 1..m |-> L]
           g == f \o h
<1>2. IsSeq(w) /\ n \in Nat /\ m \in Nat /\ IsSeq(h) /\ Len(h) = n
  BY <1>1, Shape DEF Heights
<1>3. IsSeq(f) /\ Len(f) = m /\ \A k \in 1..m : f[k] = L
  <2>1. f \in Seq({L}) /\ Len(f) = m
    BY <1>2
  <2>2. QED BY <2>1 DEF IsSeq
<1> HIDE DEF f
<1>4. /\ IsSeq(y) /\ Len(y) = m + n
      /\ \A k \in 1..m : y[k] = s[k]
      /\ \A k \in 1..n : y[m + k] = w[k]
  BY <1>2, ConcatFacts
<1>5. /\ IsSeq(g) /\ Len(g) = m + n
      /\ \A k \in 1..m : g[k] = L
      /\ \A k \in 1..n : g[m + k] = h[k]
  <2>1. /\ IsSeq(f \o h) /\ Len(f \o h) = Len(f) + Len(h)
        /\ \A k \in 1..Len(f) : (f \o h)[k] = f[k]
        /\ \A k \in 1..Len(h) : (f \o h)[Len(f) + k] = h[k]
    <3>1. IsSeq(f) /\ IsSeq(h)
      BY <1>2, <1>3
    <3>2. QED BY <3>1, ConcatFacts
  <2>2. QED BY <1>2, <1>3, <2>1
<1> HIDE DEF m, n, y, g
<1>6. /\ L \in Nat /\ L >= 1 /\ (n = 0 => L = 1) /\ (n > 0 => h[1] = L)
      /\ \A p \in P : p[1] \in 2..L
  <2>1. (n = 0 => L = 1) /\ (n > 0 => h[1] = L)
    BY <1>1, <1>2 DEF Level, n
  <2>2. QED BY <2>1, StackBounds
<1>7. \A i \in 1..n :
       /\ h[i] \in Nat
       /\ h[i] = (IF i = n THEN 1 ELSE h[i + 1]) + Closing(w[i])
       /\ h[i] > Closing(w[i])
       /\ Awaited(w[i]) => h[i] > 1
       /\ Closes(w[i]) /\ w[i].do = "seq" => i < n /\ w[i + 1].do = "seq"
       /\ w[i].do = "seq" /\ w[i].role = "function" => i = n
  BY <1>1 DEF Heights, n
<1>8. \A i, k \in 1..n : i < k =>
       /\ h[k] + Closing(w[i]) <= h[i]
       /\ Awaited(w[i]) /\ Awaited(w[k]) => h[k] < h[i]
  BY <1>1 DEF Heights, n
<1>9. \A k \in 1..n : h[k] <= L
  <2> SUFFICES ASSUME NEW k \in 1..n PROVE h[k] <= L
    OBVIOUS
  <2>1. h[1] \in Nat /\ h[k] \in Nat /\ h[1] = L /\ Closing(w[1]) \in {0, 1} /\ 1 \in 1..n
    BY <1>2, <1>6, <1>7 DEF Closing
  <2>2. CASE k = 1
    BY <2>1, <2>2
  <2>3. CASE k > 1
    BY <1>8, <2>1, <2>3
  <2>4. QED BY <1>2, <2>2, <2>3
<1>10. \A k \in 1..m : /\ Closing(s[k]) = 0 /\ ~Closes(s[k]) /\ ~Awaited(s[k])
                       /\ ~(s[k].do = "seq" /\ s[k].role = "function")
  BY DEF Neutral, Closing, m
<1>11. \A i \in 1..m + n : i \in 1..m \/ \E k \in 1..n : i = m + k
  <2> SUFFICES ASSUME NEW i \in 1..m + n, i \notin 1..m PROVE \E k \in 1..n : i = m + k
    OBVIOUS
  <2>1. i - m \in 1..n /\ i = m + (i - m)
    BY <1>2
  <2>2. QED BY <2>1
<1>12. ASSUME NEW i \in 1..m + n
       PROVE  /\ g[i] \in Nat
              /\ g[i] = (IF i = m + n THEN 1 ELSE g[i + 1]) + Closing(y[i])
              /\ g[i] > Closing(y[i])
              /\ Awaited(y[i]) => g[i] > 1
              /\ Closes(y[i]) /\ y[i].do = "seq" => i < m + n /\ y[i + 1].do = "seq"
              /\ y[i].do = "seq" /\ y[i].role = "function" => i = m + n
  <2>1. CASE i \in 1..m
    <3>1. y[i] = s[i] /\ g[i] = L
      BY <1>4, <1>5, <2>1
    <3>2. (IF i = m + n THEN 1 ELSE g[i + 1]) = L
      <4>1. CASE i < m
        <5>1. i + 1 \in 1..m /\ i # m + n
          BY <1>2, <4>1
        <5>2. QED BY <1>5, <5>1
      <4>2. CASE i = m /\ n = 0
        BY <1>2, <1>6, <4>2
      <4>3. CASE i = m /\ n > 0
        <5>1. 1 \in 1..n /\ i # m + n
          BY <1>2, <4>3
        <5>2. g[m + 1] = h[1]
          BY <1>5, <5>1
        <5>3. QED BY <1>6, <4>3, <5>1, <5>2
      <4>4. QED BY <1>2, <2>1, <4>1, <4>2, <4>3
    <3>3. QED BY <1>6, <1>10, <2>1, <3>1, <3>2
  <2>2. ASSUME NEW k \in 1..n, i = m + k
        PROVE  /\ g[i] \in Nat
               /\ g[i] = (IF i = m + n THEN 1 ELSE g[i + 1]) + Closing(y[i])
               /\ g[i] > Closing(y[i])
               /\ Awaited(y[i]) => g[i] > 1
               /\ Closes(y[i]) /\ y[i].do = "seq" => i < m + n /\ y[i + 1].do = "seq"
               /\ y[i].do = "seq" /\ y[i].role = "function" => i = m + n
    <3>1. y[i] = w[k] /\ g[i] = h[k] /\ (i = m + n <=> k = n) /\ (i < m + n <=> k < n)
      BY <1>2, <1>4, <1>5, <2>2
    <3>2. k < n => y[i + 1] = w[k + 1] /\ g[i + 1] = h[k + 1]
      <4> SUFFICES ASSUME k < n PROVE y[i + 1] = w[k + 1] /\ g[i + 1] = h[k + 1]
        OBVIOUS
      <4>1. k + 1 \in 1..n /\ i + 1 = m + (k + 1)
        BY <1>2, <2>2
      <4>2. QED BY <1>4, <1>5, <4>1
    <3>3. g[i] = (IF i = m + n THEN 1 ELSE g[i + 1]) + Closing(y[i])
      <4>1. CASE k = n
        BY <1>7, <3>1, <4>1
      <4>2. CASE k < n
        <5>1. h[k] = h[k + 1] + Closing(w[k])
          BY <1>2, <1>7, <4>2
        <5>2. QED BY <1>2, <3>1, <3>2, <4>2, <5>1
      <4>3. QED BY <1>2, <4>1, <4>2
    <3>4. /\ h[k] \in Nat /\ h[k] > Closing(w[k]) /\ (Awaited(w[k]) => h[k] > 1)
          /\ Closes(w[k]) /\ w[k].do = "seq" => k < n /\ w[k + 1].do = "seq"
          /\ w[k].do = "seq" /\ w[k].role = "function" => k = n
      BY <1>7
    <3>5. QED BY <3>1, <3>2, <3>3, <3>4
  <2>3. QED BY <1>11, <2>1, <2>2
<1>13. ASSUME NEW i \in 1..m + n, NEW k \in 1..m + n, i < k
       PROVE  /\ g[k] + Closing(y[i]) <= g[i]
              /\ Awaited(y[i]) /\ Awaited(y[k]) => g[k] < g[i]
  <2>1. CASE i \in 1..m
    <3>1. y[i] = s[i] /\ g[i] = L /\ Closing(y[i]) = 0 /\ ~Awaited(y[i])
      BY <1>4, <1>5, <1>10, <2>1
    <3>2. g[k] \in Nat /\ g[k] <= L
      <4>1. CASE k \in 1..m
        BY <1>5, <1>6, <4>1
      <4>2. ASSUME NEW j \in 1..n, k = m + j PROVE g[k] \in Nat /\ g[k] <= L
        BY <1>5, <1>7, <1>9, <4>2
      <4>3. QED BY <1>11, <4>1, <4>2
    <3>3. QED BY <1>6, <3>1, <3>2
  <2>2. ASSUME NEW j \in 1..n, i = m + j
        PROVE  /\ g[k] + Closing(y[i]) <= g[i]
               /\ Awaited(y[i]) /\ Awaited(y[k]) => g[k] < g[i]
    <3>1. PICK e \in 1..n : k = m + e
      BY <1>2, <1>11, <1>13, <2>2
    <3>2. j < e
      BY <1>2, <1>13, <2>2, <3>1
    <3>3. y[i] = w[j] /\ g[i] = h[j] /\ y[k] = w[e] /\ g[k] = h[e]
      BY <1>4, <1>5, <2>2, <3>1
    <3>4. QED BY <1>8, <3>2, <3>3
  <2>3. QED BY <1>11, <2>1, <2>2
<1>14. Heights(y, g)
  BY <1>4, <1>5, <1>12, <1>13 DEF Heights
<1>15. Level(y, g) = L
  <2>1. CASE m > 0
    BY <1>2, <1>4, <1>5, <2>1 DEF Level
  <2>2. CASE m = 0 /\ n > 0
    <3>1. 1 \in 1..n /\ m + 1 = 1
      BY <1>2, <2>2
    <3>2. g[1] = h[1]
      BY <1>5, <3>1
    <3>3. QED BY <1>2, <1>4, <1>6, <2>2, <3>2 DEF Level
  <2>3. CASE m = 0 /\ n = 0
    BY <1>4, <1>6, <2>3 DEF Level
  <2>4. QED BY <1>2, <2>1, <2>2, <2>3
<1>16. AwaitedIn(y, g) = P
  <2>1. \A p : p \in P <=> \E k \in 1..n : Awaited(w[k]) /\ p = <<h[k], w[k].note>>
    BY <1>1 DEF AwaitedIn, n
  <2>2. \A p : p \in AwaitedIn(y, g) <=>
              \E k \in 1..m + n : Awaited(y[k]) /\ p = <<g[k], y[k].note>>
    BY <1>4 DEF AwaitedIn
  <2>3. ASSUME NEW p \in P PROVE p \in AwaitedIn(y, g)
    <3>1. PICK k \in 1..n : Awaited(w[k]) /\ p = <<h[k], w[k].note>>
      BY <2>1, <2>3
    <3>2. m + k \in 1..m + n /\ y[m + k] = w[k] /\ g[m + k] = h[k]
      BY <1>2, <1>4, <1>5
    <3>3. QED BY <2>2, <3>1, <3>2
  <2>4. ASSUME NEW p \in AwaitedIn(y, g) PROVE p \in P
    <3>1. PICK k \in 1..m + n : Awaited(y[k]) /\ p = <<g[k], y[k].note>>
      BY <2>2, <2>4
    <3>2. k \notin 1..m
      BY <1>4, <1>10, <3>1
    <3>3. PICK j \in 1..n : k = m + j
      BY <1>11, <3>2
    <3>4. y[k] = w[j] /\ g[k] = h[j]
      BY <1>4, <1>5, <3>3
    <3>5. QED BY <2>1, <3>1, <3>4
  <2>5. QED BY <2>3, <2>4
<1>17. QED BY <1>14, <1>15, <1>16, Zenon DEF Stack, y

(* An emit_seq that goes on, or whose role changes but not to close.       *)
LEMMA ReplaceTop ==
  ASSUME NEW w, NEW L, NEW P, Stack(w, L, P), Len(w) > 0, w[1].do = "seq",
         NEW x, x.do = "seq", Closes(x) <=> Closes(w[1]),
         x.role = "function" => w[1].role = "function"
  PROVE  Stack(<<x>> \o Tail(w), L, P)
<1>1. IsSeq(w) /\ Len(w) \in Nat /\ L \in Nat
  BY StackBounds, Shape
<1>2. ~Awaited(w[1]) /\ ~Awaited(x)
  BY DEF Awaited
<1>3. /\ Stack(Tail(w), L - Closing(w[1]), P)
      /\ Closes(w[1]) => Len(w) > 1 /\ w[2].do = "seq"
      /\ w[1].role = "function" => Len(w) = 1
  BY <1>2, PopOne
<1>4. /\ Len(Tail(w)) = Len(w) - 1
      /\ Len(w) > 1 => Tail(w)[1] = w[2]
  <2>1. Len(Tail(w)) = Len(w) - 1 /\ \A k \in 1..Len(w) - 1 : Tail(w)[k] = w[k + 1]
    BY <1>1, TailFacts
  <2>2. QED BY <1>1, <2>1
<1>5. Closing(x) = Closing(w[1]) /\ Closing(x) \in {0, 1}
  BY DEF Closing
<1> DEFINE M == L - Closing(w[1])
<1>6. M + Closing(x) = L
  BY <1>1, <1>5
<1>7. Closes(x) => Len(Tail(w)) > 0 /\ Tail(w)[1].do = "seq"
  BY <1>1, <1>3, <1>4
<1>8. x.role = "function" => Len(Tail(w)) = 0
  BY <1>1, <1>3, <1>4
<1> HIDE DEF M
<1>9. Stack(Tail(w), M, P)
  BY <1>3 DEF M
<1>10. Stack(<<x>> \o Tail(w), L, P \cup (IF Awaited(x) THEN {<<L, x.note>>} ELSE {}))
  BY <1>2, <1>6, <1>7, <1>8, <1>9, PushOne
<1>11. QED BY <1>2, <1>10

-----------------------------------------------------------------------------
(***************************************************************************)
(* Labels and constructs.  v[j] of the first j labels have their construct *)
(* open in the code; q[v[j]] is where that of the j-th was opened, with    *)
(* the label as its note.  Of those in P the opening is still awaited.     *)
(***************************************************************************)

Pending(P, j) == \E p \in P : p[1] = j
Ranks(v, L, P) ==
  /\ v[1] = 0
  /\ \A j \in 1..L : v[j] \in Nat
  /\ \A j \in 2..L : v[j] = v[j - 1] + (IF Pending(P, j) THEN 0 ELSE 1)
  /\ \A i, j \in 1..L : i <= j => v[i] <= v[j]
NotesAgree(v, q, L, P, ls, c) ==
  \A j \in 2..L : ~Pending(P, j) => c[q[v[j]]].note = <<ls[j]>>
Awaits(L, P, ls) ==
  \A p \in P : p[1] \in 2..L /\ p = <<p[1], <<ls[p[1]]>>>>
Match(L, P, ls, c) ==
  /\ L \in Nat /\ L >= 1
  /\ IsSeq(ls) /\ Len(ls) = L /\ ls[1] = None
  /\ Awaits(L, P, ls)
  /\ \E v, q : /\ Outline(c, q) /\ Ranks(v, L, P) /\ Len(q) = v[L]
               /\ NotesAgree(v, q, L, P, ls, c)

LEMMA RankInside ==
  ASSUME NEW v, NEW L \in Nat, NEW P, Ranks(v, L, P), NEW j \in 2..L, ~Pending(P, j)
  PROVE  v[j] \in 1..v[L]
<1>1. v[j] = v[j - 1] + 1 /\ v[j - 1] \in Nat /\ v[j] <= v[L] /\ v[L] \in Nat
  <2>1. j - 1 \in 1..L /\ j \in 1..L /\ L \in 1..L /\ j <= L
    OBVIOUS
  <2>2. QED BY <2>1 DEF Ranks
<1>2. QED BY <1>1

(* An instruction that opens or ends nothing.                              *)
LEMMA MatchStays ==
  ASSUME NEW L, NEW P, NEW ls, NEW c, Match(L, P, ls, c),
         NEW e, e.bytes[1] \notin Openers \cup {op_end}
  PROVE  Match(L, P, ls, Append(c, e))
<1>1. PICK v, q : /\ Outline(c, q) /\ Ranks(v, L, P) /\ Len(q) = v[L]
                  /\ NotesAgree(v, q, L, P, ls, c)
  BY DEF Match
<1>2. L \in Nat /\ IsSeq(c)
  BY <1>1 DEF Match, Outline
<1>3. Outline(Append(c, e), q)
  BY <1>1, OutlineStays
<1>4. \A i \in 1..Len(q) : Append(c, e)[q[i]] = c[q[i]]
  <2>1. \A i \in 1..Len(q) : q[i] \in 1..Len(c)
    BY <1>1 DEF Outline
  <2>2. QED BY <1>2, <2>1, AppendFacts
<1>5. NotesAgree(v, q, L, P, ls, Append(c, e))
  <2> SUFFICES ASSUME NEW j \in 2..L, ~Pending(P, j)
               PROVE  Append(c, e)[q[v[j]]].note = <<ls[j]>>
    BY DEF NotesAgree
  <2>1. v[j] \in 1..Len(q)
    BY <1>1, <1>2, RankInside
  <2>2. QED BY <1>1, <1>4, <2>1 DEF NotesAgree
<1>6. QED BY <1>1, <1>3, <1>5 DEF Match

(* A label, and its construct.                                             *)
LEMMA MatchOpens ==
  ASSUME NEW L, NEW P, NEW ls, NEW c, Match(L, P, ls, c),
         NEW l, NEW e, e.bytes[1] \in Openers, e.note = <<l>>
  PROVE  Match(L + 1, P, Append(ls, l), Append(c, e))
<1>1. PICK v, q : /\ Outline(c, q) /\ Ranks(v, L, P) /\ Len(q) = v[L]
                  /\ NotesAgree(v, q, L, P, ls, c)
  BY DEF Match
<1>2. /\ L \in Nat /\ L >= 1 /\ IsSeq(c) /\ IsSeq(q) /\ IsSeq(ls) /\ Len(ls) = L
      /\ ls[1] = None /\ Awaits(L, P, ls)
  BY <1>1 DEF Match, Outline
<1> DEFINE n == Len(c)
           d == Append(c, e)
           r == Append(q, n + 1)
           ms == Append(ls, l)
           u == [j \in 1..L + 1 |-> IF j = L + 1 THEN v[L] + 1 ELSE v[j]]
<1>3. Outline(d, r)
  BY <1>1, OutlineGrows
<1>4. /\ IsSeq(d) /\ d[n + 1] = e /\ \A k \in 1..n : d[k] = c[k]
  BY <1>2, AppendFacts
<1>5. /\ Len(r) = Len(q) + 1 /\ r[Len(q) + 1] = n + 1 /\ \A k \in 1..Len(q) : r[k] = q[k]
  BY <1>2, AppendFacts
<1>6. /\ IsSeq(ms) /\ Len(ms) = L + 1 /\ ms[L + 1] = l /\ \A k \in 1..L : ms[k] = ls[k]
  BY <1>2, AppendFacts
<1>7. u[L + 1] = v[L] + 1 /\ \A j \in 1..L : u[j] = v[j]
  BY <1>2
<1> HIDE DEF n, d, r, ms, u
<1>8. ~Pending(P, L + 1)
  BY <1>2 DEF Pending, Awaits
<1>9. v[L] \in Nat /\ \A j \in 1..L : v[j] \in Nat /\ v[j] <= v[L]
  <2>1. L \in 1..L
    BY <1>2
  <2>2. QED BY <1>1, <1>2, <2>1 DEF Ranks
<1>10. Ranks(u, L + 1, P)
  <2>1. u[1] = 0
    BY <1>1, <1>2, <1>7 DEF Ranks
  <2>2. \A j \in 1..L + 1 : u[j] \in Nat
    <3>1. \A j \in 1..L + 1 : j \in 1..L \/ j = L + 1
      BY <1>2
    <3>2. QED BY <1>7, <1>9, <3>1
  <2>3. ASSUME NEW j \in 2..L + 1
        PROVE  u[j] = u[j - 1] + (IF Pending(P, j) THEN 0 ELSE 1)
    <3>1. CASE j = L + 1
      <4>1. j - 1 = L /\ L \in 1..L
        BY <1>2, <3>1
      <4>2. QED BY <1>7, <1>8, <3>1, <4>1
    <3>2. CASE j \in 2..L
      <4>1. j - 1 \in 1..L /\ j \in 1..L
        BY <1>2, <3>2
      <4>2. v[j] = v[j - 1] + (IF Pending(P, j) THEN 0 ELSE 1)
        BY <1>1, <3>2 DEF Ranks
      <4>3. QED BY <1>7, <4>1, <4>2
    <3>3. QED BY <1>2, <3>1, <3>2
  <2>4. ASSUME NEW i \in 1..L + 1, NEW j \in 1..L + 1, i <= j PROVE u[i] <= u[j]
    <3>1. CASE j \in 1..L
      <4>1. i \in 1..L
        BY <1>2, <2>4, <3>1
      <4>2. v[i] <= v[j]
        BY <1>1, <2>4, <3>1, <4>1 DEF Ranks
      <4>3. QED BY <1>7, <3>1, <4>1, <4>2
    <3>2. CASE j = L + 1 /\ i \in 1..L
      BY <1>7, <1>9, <3>2
    <3>3. CASE j = L + 1 /\ i = L + 1
      BY <1>7, <1>9, <3>3
    <3>4. QED BY <1>2, <3>1, <3>2, <3>3
  <2>5. QED BY <2>1, <2>2, <2>3, <2>4 DEF Ranks
<1>11. Len(r) = u[L + 1]
  BY <1>1, <1>5, <1>7
<1>12. NotesAgree(u, r, L + 1, P, ms, d)
  <2> SUFFICES ASSUME NEW j \in 2..L + 1, ~Pending(P, j)
               PROVE  d[r[u[j]]].note = <<ms[j]>>
    BY DEF NotesAgree
  <2>1. CASE j = L + 1
    BY <1>1, <1>4, <1>5, <1>6, <1>7, <2>1
  <2>2. CASE j \in 2..L
    <3>1. v[j] \in 1..Len(q)
      BY <1>1, <1>2, <2>2, RankInside
    <3>2. q[v[j]] \in 1..n
      BY <1>1, <3>1 DEF Outline, n
    <3>3. c[q[v[j]]].note = <<ls[j]>>
      BY <1>1, <2>2 DEF NotesAgree
    <3>4. j \in 1..L
      BY <1>2, <2>2
    <3>5. QED BY <1>4, <1>5, <1>6, <1>7, <3>1, <3>2, <3>3, <3>4
  <2>3. QED BY <1>2, <2>1, <2>2
<1>13. Awaits(L + 1, P, ms)
  <2> SUFFICES ASSUME NEW p \in P PROVE p[1] \in 2..L + 1 /\ p = <<p[1], <<ms[p[1]]>>>>
    BY DEF Awaits
  <2>1. p[1] \in 2..L /\ p = <<p[1], <<ls[p[1]]>>>>
    BY <1>2 DEF Awaits
  <2>2. p[1] \in 2..L + 1 /\ ms[p[1]] = ls[p[1]]
    BY <1>2, <1>6, <2>1
  <2>3. QED BY <2>1, <2>2
<1>14. ms[1] = None
  BY <1>2, <1>6
<1>15. Match(L + 1, P, ms, d)
  BY <1>2, <1>3, <1>6, <1>10, <1>11, <1>12, <1>13, <1>14 DEF Match
<1>16. QED BY <1>15 DEF ms, d

(* A label whose construct is opened later.                                *)
LEMMA MatchAwaits ==
  ASSUME NEW L, NEW P, NEW ls, NEW c, Match(L, P, ls, c), NEW l
  PROVE  Match(L + 1, P \cup {<<L + 1, <<l>>>>}, Append(ls, l), c)
<1>1. PICK v, q : /\ Outline(c, q) /\ Ranks(v, L, P) /\ Len(q) = v[L]
                  /\ NotesAgree(v, q, L, P, ls, c)
  BY DEF Match
<1>2. /\ L \in Nat /\ L >= 1 /\ IsSeq(ls) /\ Len(ls) = L
      /\ ls[1] = None /\ Awaits(L, P, ls)
  BY <1>1 DEF Match, Outline
<1> DEFINE ms == Append(ls, l)
           Q == P \cup {<<L + 1, <<l>>>>}
           u == [j \in 1..L + 1 |-> IF j = L + 1 THEN v[L] ELSE v[j]]
<1>3. /\ IsSeq(ms) /\ Len(ms) = L + 1 /\ ms[L + 1] = l /\ \A k \in 1..L : ms[k] = ls[k]
  BY <1>2, AppendFacts
<1>4. u[L + 1] = v[L] /\ \A j \in 1..L : u[j] = v[j]
  BY <1>2
<1>5. Pending(Q, L + 1) /\ \A j \in 1..L : Pending(Q, j) <=> Pending(P, j)
  <2>1. <<L + 1, <<l>>>> \in Q /\ <<L + 1, <<l>>>>[1] = L + 1
    OBVIOUS
  <2>2. Pending(Q, L + 1)
    BY <2>1 DEF Pending
  <2>3. ASSUME NEW j \in 1..L PROVE Pending(Q, j) <=> Pending(P, j)
    <3>1. j # L + 1
      BY <1>2
    <3>2. QED BY <2>1, <3>1 DEF Pending
  <2>4. QED BY <2>2, <2>3
<1>6. Awaits(L + 1, Q, ms)
  <2> SUFFICES ASSUME NEW p \in Q PROVE p[1] \in 2..L + 1 /\ p = <<p[1], <<ms[p[1]]>>>>
    BY DEF Awaits
  <2>1. CASE p \in P
    <3>1. p[1] \in 2..L /\ p = <<p[1], <<ls[p[1]]>>>>
      BY <1>2, <2>1 DEF Awaits
    <3>2. p[1] \in 2..L + 1 /\ ms[p[1]] = ls[p[1]]
      BY <1>2, <1>3, <3>1
    <3>3. QED BY <3>1, <3>2
  <2>2. CASE p = <<L + 1, <<l>>>>
    BY <1>2, <1>3, <2>2
  <2>3. QED BY <2>1, <2>2
<1> HIDE DEF ms, Q, u
<1>7. v[L] \in Nat /\ \A j \in 1..L : v[j] \in Nat /\ v[j] <= v[L]
  <2>1. L \in 1..L
    BY <1>2
  <2>2. QED BY <1>1, <1>2, <2>1 DEF Ranks
<1>8. Ranks(u, L + 1, Q)
  <2>1. u[1] = 0
    BY <1>1, <1>2, <1>4 DEF Ranks
  <2>2. \A j \in 1..L + 1 : u[j] \in Nat
    <3>1. \A j \in 1..L + 1 : j \in 1..L \/ j = L + 1
      BY <1>2
    <3>2. QED BY <1>4, <1>7, <3>1
  <2>3. ASSUME NEW j \in 2..L + 1
        PROVE  u[j] = u[j - 1] + (IF Pending(Q, j) THEN 0 ELSE 1)
    <3>1. CASE j = L + 1
      <4>1. j - 1 = L /\ L \in 1..L
        BY <1>2, <3>1
      <4>2. QED BY <1>4, <1>5, <1>7, <3>1, <4>1
    <3>2. CASE j \in 2..L
      <4>1. j - 1 \in 1..L /\ j \in 1..L
        BY <1>2, <3>2
      <4>2. v[j] = v[j - 1] + (IF Pending(P, j) THEN 0 ELSE 1)
        BY <1>1, <3>2 DEF Ranks
      <4>3. QED BY <1>4, <1>5, <4>1, <4>2
    <3>3. QED BY <1>2, <3>1, <3>2
  <2>4. ASSUME NEW i \in 1..L + 1, NEW j \in 1..L + 1, i <= j PROVE u[i] <= u[j]
    <3>1. CASE j \in 1..L
      <4>1. i \in 1..L
        BY <1>2, <2>4, <3>1
      <4>2. v[i] <= v[j]
        BY <1>1, <2>4, <3>1, <4>1 DEF Ranks
      <4>3. QED BY <1>4, <3>1, <4>1, <4>2
    <3>2. CASE j = L + 1 /\ i \in 1..L
      BY <1>4, <1>7, <3>2
    <3>3. CASE j = L + 1 /\ i = L + 1
      BY <1>4, <1>7, <3>3
    <3>4. QED BY <1>2, <3>1, <3>2, <3>3
  <2>5. QED BY <2>1, <2>2, <2>3, <2>4 DEF Ranks
<1>9. NotesAgree(u, q, L + 1, Q, ms, c)
  <2> SUFFICES ASSUME NEW j \in 2..L + 1, ~Pending(Q, j)
               PROVE  c[q[u[j]]].note = <<ms[j]>>
    BY DEF NotesAgree
  <2>1. j \in 2..L /\ j \in 1..L
    BY <1>2, <1>5
  <2>2. c[q[v[j]]].note = <<ls[j]>>
    BY <1>1, <1>5, <2>1 DEF NotesAgree
  <2>3. QED BY <1>3, <1>4, <2>1, <2>2
<1>10. ms[1] = None /\ Len(q) = u[L + 1]
  BY <1>1, <1>2, <1>3, <1>4
<1>11. Match(L + 1, Q, ms, c)
  BY <1>1, <1>2, <1>3, <1>6, <1>8, <1>9, <1>10 DEF Match
<1>12. QED BY <1>11 DEF ms, Q

(* The awaited opening of the innermost.                                   *)
LEMMA MatchOpensAwaited ==
  ASSUME NEW L, NEW P, NEW ls, NEW c, Match(L, P, ls, c), L > 1,
         NEW Q, NEW e, \A p \in Q : p[1] < L, \A p : p \in P <=> p \in Q \/ p = <<L, e.note>>,
         e.bytes[1] \in Openers
  PROVE  Match(L, Q, ls, Append(c, e))
<1>1. PICK v, q : /\ Outline(c, q) /\ Ranks(v, L, P) /\ Len(q) = v[L]
                  /\ NotesAgree(v, q, L, P, ls, c)
  BY DEF Match
<1>2. /\ L \in Nat /\ L >= 1 /\ IsSeq(c) /\ IsSeq(q) /\ IsSeq(ls) /\ Len(ls) = L
      /\ ls[1] = None /\ Awaits(L, P, ls)
  BY <1>1 DEF Match, Outline
<1> DEFINE n == Len(c)
           d == Append(c, e)
           r == Append(q, n + 1)
           u == [j \in 1..L |-> IF j = L THEN v[L] + 1 ELSE v[j]]
<1>3. Outline(d, r)
  BY <1>1, OutlineGrows
<1>4. /\ IsSeq(d) /\ d[n + 1] = e /\ \A k \in 1..n : d[k] = c[k]
  BY <1>2, AppendFacts
<1>5. /\ Len(r) = Len(q) + 1 /\ r[Len(q) + 1] = n + 1 /\ \A k \in 1..Len(q) : r[k] = q[k]
  BY <1>2, AppendFacts
<1>7. u[L] = v[L] + 1 /\ \A j \in 1..L - 1 : u[j] = v[j]
  BY <1>2
<1> HIDE DEF n, d, r, u
<1>8. /\ Pending(P, L) /\ ~Pending(Q, L)
      /\ \A j \in 1..L - 1 : Pending(Q, j) <=> Pending(P, j)
  <2>1. <<L, e.note>> \in P /\ <<L, e.note>>[1] = L
    OBVIOUS
  <2>2. Pending(P, L)
    BY <2>1 DEF Pending
  <2>3. ~Pending(Q, L)
    BY <1>2 DEF Pending
  <2>4. ASSUME NEW j \in 1..L - 1 PROVE Pending(Q, j) <=> Pending(P, j)
    <3>1. j # L
      BY <1>2
    <3>2. QED BY <3>1 DEF Pending
  <2>5. QED BY <2>2, <2>3, <2>4
<1>9. v[L] \in Nat /\ \A j \in 1..L : v[j] \in Nat /\ v[j] <= v[L]
  <2>1. L \in 1..L
    BY <1>2
  <2>2. QED BY <1>1, <1>2, <2>1 DEF Ranks
<1>10. Ranks(u, L, Q)
  <2>1. u[1] = 0
    BY <1>1, <1>2, <1>7 DEF Ranks
  <2>2. \A j \in 1..L : u[j] \in Nat
    <3>1. \A j \in 1..L : j \in 1..L - 1 \/ j = L
      BY <1>2
    <3>2. QED BY <1>7, <1>9, <3>1
  <2>3. ASSUME NEW j \in 2..L
        PROVE  u[j] = u[j - 1] + (IF Pending(Q, j) THEN 0 ELSE 1)
    <3>1. j - 1 \in 1..L - 1 /\ v[j] = v[j - 1] + (IF Pending(P, j) THEN 0 ELSE 1)
      BY <1>1, <1>2 DEF Ranks
    <3>2. CASE j = L
      <4>1. v[L] = v[L - 1] /\ u[L - 1] = v[L - 1] /\ v[L] \in Nat
        BY <1>7, <1>8, <1>9, <3>1, <3>2
      <4>2. QED BY <1>7, <1>8, <3>2, <4>1
    <3>3. CASE j \in 2..L - 1
      <4>1. j \in 1..L - 1
        BY <1>2, <3>3
      <4>2. QED BY <1>7, <1>8, <3>1, <4>1
    <3>4. QED BY <1>2, <3>2, <3>3
  <2>4. ASSUME NEW i \in 1..L, NEW j \in 1..L, i <= j PROVE u[i] <= u[j]
    <3>1. CASE j \in 1..L - 1
      <4>1. i \in 1..L - 1
        BY <1>2, <2>4, <3>1
      <4>2. v[i] <= v[j]
        BY <1>1, <2>4 DEF Ranks
      <4>3. QED BY <1>7, <3>1, <4>1, <4>2
    <3>2. CASE j = L /\ i \in 1..L - 1
      BY <1>7, <1>9, <3>2
    <3>3. CASE j = L /\ i = L
      BY <1>7, <1>9, <3>3
    <3>4. QED BY <1>2, <3>1, <3>2, <3>3
  <2>5. QED BY <2>1, <2>2, <2>3, <2>4 DEF Ranks
<1>11. Len(r) = u[L]
  BY <1>1, <1>5, <1>7
<1>12. e.note = <<ls[L]>>
  <2>1. <<L, e.note>> \in P
    OBVIOUS
  <2>2. <<L, e.note>> = <<L, <<ls[L]>>>>
    BY <1>2, <2>1 DEF Awaits
  <2>3. QED BY <2>2
<1>13. NotesAgree(u, r, L, Q, ls, d)
  <2> SUFFICES ASSUME NEW j \in 2..L, ~Pending(Q, j)
               PROVE  d[r[u[j]]].note = <<ls[j]>>
    BY DEF NotesAgree
  <2>1. CASE j = L
    BY <1>1, <1>4, <1>5, <1>7, <1>12, <2>1
  <2>2. CASE j \in 2..L - 1
    <3>0. j \in 1..L - 1 /\ ~Pending(P, j)
      BY <1>2, <1>8, <2>2
    <3>1. v[j] \in 1..Len(q)
      BY <1>1, <1>2, <3>0, RankInside
    <3>2. q[v[j]] \in 1..n
      BY <1>1, <3>1 DEF Outline, n
    <3>3. c[q[v[j]]].note = <<ls[j]>>
      BY <1>1, <3>0 DEF NotesAgree
    <3>5. QED BY <1>4, <1>5, <1>7, <3>0, <3>1, <3>2, <3>3
  <2>3. QED BY <1>2, <2>1, <2>2
<1>14. Awaits(L, Q, ls)
  BY <1>2 DEF Awaits
<1>15. Match(L, Q, ls, d)
  BY <1>2, <1>3, <1>10, <1>11, <1>13, <1>14 DEF Match
<1>16. QED BY <1>15 DEF d

(* The end of the innermost.                                               *)
LEMMA MatchEnds ==
  ASSUME NEW L, NEW P, NEW ls, NEW c, Match(L, P, ls, c), L > 1,
         \A p \in P : p[1] < L, NEW e, e.bytes[1] = op_end
  PROVE  Match(L - 1, P, Front(ls), Append(c, e))
<1>1. PICK v, q : /\ Outline(c, q) /\ Ranks(v, L, P) /\ Len(q) = v[L]
                  /\ NotesAgree(v, q, L, P, ls, c)
  BY DEF Match
<1>2. /\ L \in Nat /\ L >= 1 /\ IsSeq(c) /\ IsSeq(q) /\ IsSeq(ls) /\ Len(ls) = L
      /\ ls[1] = None /\ Awaits(L, P, ls)
  BY <1>1 DEF Match, Outline
<1>3. ~Pending(P, L)
  BY <1>2 DEF Pending
<1>4. v[L] = v[L - 1] + 1 /\ v[L - 1] \in Nat /\ L - 1 \in 1..L
  BY <1>1, <1>2, <1>3 DEF Ranks
<1>5. Len(q) > 0
  BY <1>1, <1>4
<1> DEFINE d == Append(c, e)
           r == Front(q)
           ms == Front(ls)
<1>6. Outline(d, r)
  BY <1>1, <1>5, OutlineEnds
<1>7. \A k \in 1..Len(c) : d[k] = c[k]
  BY <1>2, AppendFacts
<1>8. /\ IsSeq(r) /\ Len(r) = Len(q) - 1 /\ \A k \in 1..Len(q) - 1 : r[k] = q[k]
  <2>1. Len(q) \in Nat
    BY <1>2, Shape
  <2>2. 1 \in 1..Len(q) + 1 /\ Len(q) - 1 \in 1 - 1..Len(q) /\ Len(q) - 1 - 1 + 1 = Len(q) - 1
    BY <1>5, <2>1
  <2>3. /\ IsSeq(SubSeq(q, 1, Len(q) - 1)) /\ Len(SubSeq(q, 1, Len(q) - 1)) = Len(q) - 1
        /\ \A k \in 1..Len(q) - 1 - 1 + 1 : SubSeq(q, 1, Len(q) - 1)[k] = q[1 + k - 1]
    BY <1>2, <2>2, SubSeqFacts
  <2>4. QED BY <2>1, <2>2, <2>3 DEF Front
<1>9. /\ IsSeq(ms) /\ Len(ms) = L - 1 /\ \A k \in 1..L - 1 : ms[k] = ls[k]
  <2>1. 1 \in 1..Len(ls) + 1 /\ Len(ls) - 1 \in 1 - 1..Len(ls) /\ Len(ls) - 1 - 1 + 1 = L - 1
    BY <1>2
  <2>2. /\ IsSeq(SubSeq(ls, 1, Len(ls) - 1)) /\ Len(SubSeq(ls, 1, Len(ls) - 1)) = L - 1
        /\ \A k \in 1..L - 1 : SubSeq(ls, 1, Len(ls) - 1)[k] = ls[1 + k - 1]
    <3>1. IsSeq(ls)
      BY <1>2
    <3>2. QED BY <2>1, <3>1, SubSeqFacts
  <2>3. ms = SubSeq(ls, 1, Len(ls) - 1)
    BY DEF Front
  <2>4. QED BY <1>2, <2>2, <2>3
<1> HIDE DEF d, r, ms
<1>10. Ranks(v, L - 1, P)
  BY <1>1, <1>2 DEF Ranks
<1>11. NotesAgree(v, r, L - 1, P, ms, d)
  <2> SUFFICES ASSUME NEW j \in 2..L - 1, ~Pending(P, j)
               PROVE  d[r[v[j]]].note = <<ms[j]>>
    BY DEF NotesAgree
  <2>1. v[j] \in 1..v[L - 1]
    BY <1>2, <1>10, RankInside
  <2>2. v[j] \in 1..Len(q) - 1
    BY <1>1, <1>4, <2>1
  <2>3. q[v[j]] \in 1..Len(c)
    BY <1>1, <1>4, <2>1 DEF Outline
  <2>4. c[q[v[j]]].note = <<ls[j]>>
    <3>1. j \in 2..L /\ NotesAgree(v, q, L, P, ls, c)
      BY <1>1, <1>2
    <3>2. QED BY <3>1 DEF NotesAgree
  <2>5. j \in 1..L - 1
    BY <1>2
  <2>6. QED BY <1>7, <1>8, <1>9, <2>2, <2>3, <2>4, <2>5
<1>12. Len(r) = v[L - 1] /\ ms[1] = None /\ L - 1 \in Nat /\ L - 1 >= 1
  BY <1>1, <1>2, <1>4, <1>8, <1>9
<1>13. Awaits(L - 1, P, ms)
  <2> SUFFICES ASSUME NEW p \in P PROVE p[1] \in 2..L - 1 /\ p = <<p[1], <<ms[p[1]]>>>>
    BY DEF Awaits
  <2>1. p[1] \in 2..L /\ p = <<p[1], <<ls[p[1]]>>>> /\ p[1] < L
    BY <1>2 DEF Awaits
  <2>2. p[1] \in 2..L - 1 /\ ms[p[1]] = ls[p[1]]
    BY <1>2, <1>9, <2>1
  <2>3. QED BY <2>1, <2>2
<1>14. Match(L - 1, P, ms, d)
  BY <1>6, <1>9, <1>10, <1>11, <1>12, <1>13 DEF Match
<1>15. QED BY <1>14 DEF d, ms

(* The body begins with the function's own label and no code.              *)
LEMMA MatchBegins == Match(1, {}, <<None>>, <<>>)
<1>1. IsSeq(<<None>>) /\ Len(<<None>>) = 1
  <2>1. <<None>> \in Seq({None})
    OBVIOUS
  <2>2. QED BY <2>1 DEF IsSeq
<1>2. IsSeq(<<>>) /\ Len(<<>>) = 0
  <2>1. <<>> \in Seq({})
    OBVIOUS
  <2>2. QED BY <2>1 DEF IsSeq
<1>3. OpenAt(<<>>, Len(<<>>) + 1) = {}
  BY <1>2 DEF OpenAt
<1>4. Outline(<<>>, <<>>)
  BY <1>2, <1>3 DEF Outline
<1> DEFINE v == [j \in 1..1 |-> 0]
<1>5. v[1] = 0 /\ Ranks(v, 1, {})
  BY DEF Ranks
<1> HIDE DEF v
<1>6. Awaits(1, {}, <<None>>) /\ NotesAgree(v, <<>>, 1, {}, <<None>>, <<>>)
  BY DEF Awaits, NotesAgree
<1>7. Len(<<>>) = v[1]
  BY <1>2, <1>5
<1>8. QED BY <1>1, <1>4, <1>5, <1>6, <1>7 DEF Match

-----------------------------------------------------------------------------
(***************************************************************************)
(* Branches.  Every depth an instruction was given for a name leads        *)
(* outwards over constructs of other names to one of that name.            *)
(***************************************************************************)
Resolving(c, k) ==
  \A b \in DOMAIN BranchDepths(c[k]) : c[k].note[b] \in Ids =>
    /\ BranchDepths(c[k])[b] \in Nat
    /\ \A d \in 0..BranchDepths(c[k])[b] :
         /\ Outwards(c, k, d) \in 1..k - 1
         /\ c[Outwards(c, k, d)].note = <<c[k].note[b]>> <=> d = BranchDepths(c[k])[b]
AllResolving(c) == IsSeq(c) /\ \A k \in 1..Len(c) : Resolving(c, k)

LEMMA ResolvingIsLabels == AllResolving(code) => LabelsResolve
<1> SUFFICES ASSUME AllResolving(code), NEW k \in DOMAIN code,
                    NEW b \in DOMAIN BranchDepths(code[k]), code[k].note[b] \in Ids
             PROVE  LET depth == BranchDepths(code[k])[b]
                        target(d) == Outwards(code, k, d)
                    IN  /\ target(depth) # 0
                        /\ code[target(depth)].note = <<code[k].note[b]>>
                        /\ \A d \in 0..depth - 1 : code[target(d)].note # <<code[k].note[b]>>
  BY DEF LabelsResolve
<1> DEFINE depth == BranchDepths(code[k])[b]
<1>1. k \in 1..Len(code) /\ Resolving(code, k)
  BY Shape DEF AllResolving
<1>2. depth \in Nat /\ \A d \in 0..depth :
        /\ Outwards(code, k, d) \in 1..k - 1
        /\ code[Outwards(code, k, d)].note = <<code[k].note[b]>> <=> d = depth
  BY <1>1 DEF Resolving
<1> HIDE DEF depth
<1>3. /\ Outwards(code, k, depth) # 0
      /\ code[Outwards(code, k, depth)].note = <<code[k].note[b]>>
  <2>1. depth \in 0..depth
    BY <1>2
  <2>2. QED BY <1>2, <2>1
<1>4. \A d \in 0..depth - 1 : code[Outwards(code, k, d)].note # <<code[k].note[b]>>
  BY <1>2
<1>5. QED BY <1>3, <1>4 DEF depth

LEMMA ResolvingStays ==
  ASSUME NEW c, AllResolving(c), NEW e, Resolving(Append(c, e), Len(c) + 1)
  PROVE  AllResolving(Append(c, e))
<1> DEFINE d == Append(c, e)
           n == Len(c)
<1>1. IsSeq(c) /\ \A k \in 1..n : Resolving(c, k)
  BY DEF AllResolving
<1>2. n \in Nat /\ IsSeq(d) /\ Len(d) = n + 1 /\ \A k \in 1..n : d[k] = c[k]
  BY <1>1, Shape, AppendFacts
<1>3. \A k \in 1..n + 1 : OpenAt(d, k) = OpenAt(c, k)
  BY <1>1, OpenBefore
<1>4. ASSUME NEW k \in 1..n PROVE Resolving(d, k)
  <2>1. d[k] = c[k] /\ Resolving(c, k) /\ OpenAt(d, k) = OpenAt(c, k) /\ n \in Nat
    BY <1>1, <1>2, <1>3
  <2>2. \A x : Outwards(d, k, x) = Outwards(c, k, x)
    BY <2>1, Zenon DEF Outwards
  <2>3. \A x : x \in 1..k - 1 => d[x] = c[x]
    BY <1>2
  <2> HIDE DEF d, n
  <2>4. QED BY <2>1, <2>2, <2>3 DEF Resolving
<1>5. \A k \in 1..n + 1 : k \in 1..n \/ k = n + 1
  BY <1>2
<1>6. QED BY <1>2, <1>4, <1>5 DEF AllResolving

LEMMA NoBranchResolves ==
  ASSUME NEW c, IsSeq(c), NEW e, BranchDepths(e) = <<>>
  PROVE  Resolving(Append(c, e), Len(c) + 1)
<1>1. Append(c, e)[Len(c) + 1] = e
  BY AppendFacts
<1>2. DOMAIN BranchDepths(e) = {}
  OBVIOUS
<1>3. QED BY <1>1, <1>2 DEF Resolving

(* Without an awaited construct every label but the function's is one.     *)
LEMMA RanksFull ==
  ASSUME NEW v, NEW L \in Nat, L >= 1, Ranks(v, L, {})
  PROVE  \A j \in 1..L : v[j] = j - 1
<1> DEFINE S == {i \in Nat : v[i + 1] = i}
<1>1. 0 \in S
  BY DEF Ranks
<1>2. ASSUME NEW i \in 0..(L - 1) - 1, i \in S PROVE i + 1 \in S
  <2>1. i + 2 \in 2..L /\ i + 2 - 1 = i + 1 /\ i + 1 + 1 = i + 2 /\ v[i + 1] = i
    BY <1>2
  <2>2. v[i + 2] = v[i + 2 - 1] + (IF Pending({}, i + 2) THEN 0 ELSE 1)
    BY <2>1 DEF Ranks
  <2>3. ~Pending({}, i + 2)
    BY DEF Pending
  <2>4. v[i + 2] = i + 1
    BY <2>1, <2>2, <2>3
  <2>5. QED BY <2>1, <2>4
<1> HIDE DEF S
<1>3. 0..L - 1 \subseteq S
  BY <1>1, <1>2, InductionUpTo
<1>4. ASSUME NEW j \in 1..L PROVE v[j] = j - 1
  <2>1. j - 1 \in S /\ j - 1 + 1 = j
    BY <1>3
  <2>2. v[j - 1 + 1] = j - 1
    BY <2>1 DEF S
  <2>3. QED BY <2>1, <2>2
<1>5. QED BY <1>4

(* The innermost label of a name, counted from the inside.                 *)
Innermost(ls, name, depth) ==
  \E k \in 2..Len(ls) :
    ls[k] = name /\ depth = Len(ls) - k /\ \A j \in k + 1..Len(ls) : ls[j] # name

LEMMA BranchResolves ==
  ASSUME NEW L, NEW ls, NEW c, Match(L, {}, ls, c), NEW e, NEW ds, BranchDepths(e) = ds,
         \A b \in DOMAIN ds : e.note[b] \in Ids => Innermost(ls, e.note[b], ds[b])
  PROVE  Resolving(Append(c, e), Len(c) + 1)
<1> DEFINE d == Append(c, e)
           n == Len(c)
<1>1. PICK v, q : /\ Outline(c, q) /\ Ranks(v, L, {}) /\ Len(q) = v[L]
                  /\ NotesAgree(v, q, L, {}, ls, c)
  BY DEF Match
<1>2. L \in Nat /\ L >= 1 /\ IsSeq(c) /\ Len(ls) = L /\ n \in Nat
  BY <1>1, Shape DEF Match, Outline
<1>3. \A j \in 1..L : v[j] = j - 1
  BY <1>1, <1>2, RanksFull
<1>4. Len(q) = L - 1
  BY <1>1, <1>2, <1>3
<1>5. \A i \in 1..L - 1 : q[i] \in 1..n /\ c[q[i]].note = <<ls[i + 1]>>
  <2> SUFFICES ASSUME NEW i \in 1..L - 1 PROVE q[i] \in 1..n /\ c[q[i]].note = <<ls[i + 1]>>
    OBVIOUS
  <2>1. i + 1 \in 2..L /\ i + 1 \in 1..L /\ i + 1 - 1 = i
    BY <1>2
  <2>2. v[i + 1] = i
    BY <1>3, <2>1
  <2>3. ~Pending({}, i + 1)
    BY DEF Pending
  <2>4. QED BY <1>1, <1>4, <2>1, <2>2, <2>3 DEF NotesAgree, Outline
<1>6. /\ d[n + 1] = e /\ \A k \in 1..n : d[k] = c[k]
  BY <1>2, AppendFacts
<1>7. OpenAt(d, n + 1) = {q[i] : i \in 1..L - 1}
  <2>0. \A k \in 1..n + 1 : OpenAt(d, k) = OpenAt(c, k)
    BY <1>2, OpenBefore
  <2>1. OpenAt(d, n + 1) = OpenAt(c, n + 1)
    BY <1>2, <2>0
  <2>2. OpenAt(c, n + 1) = {q[i] : i \in 1..Len(q)}
    BY <1>1 DEF Outline
  <2>3. QED BY <1>4, <2>1, <2>2
<1> HIDE DEF d, n
<1>8. ASSUME NEW x \in 0..L - 1 - 1 PROVE Outwards(d, n + 1, x) = q[L - 1 - x]
  <2>1. L - 1 \in Nat /\ \A i \in 1..L - 1 : q[i] \in Nat
    BY <1>2, <1>5
  <2>2. \A i, j \in 1..L - 1 : i < j => q[i] < q[j]
    BY <1>1, <1>4 DEF Outline
  <2>3. PICK m : m = L - 1
    OBVIOUS
  <2>4. PICK k : k = n + 1
    OBVIOUS
  <2>5. /\ m \in Nat /\ x \in 0..m - 1 /\ OpenAt(d, k) = {q[i] : i \in 1..m}
        /\ \A i \in 1..m : q[i] \in Nat
        /\ \A i, j \in 1..m : i < j => q[i] < q[j]
    BY <1>7, <2>1, <2>2, <2>3, <2>4
  <2>6. Outwards(d, k, x) = q[m - x]
    BY <2>5, OutwardsIs
  <2>7. QED BY <2>3, <2>4, <2>6
<1>9. ASSUME NEW b \in DOMAIN ds, e.note[b] \in Ids
      PROVE  /\ ds[b] \in Nat
             /\ \A x \in 0..ds[b] :
                  /\ Outwards(d, n + 1, x) \in 1..n
                  /\ d[Outwards(d, n + 1, x)].note = <<e.note[b]>> <=> x = ds[b]
  <2>1. PICK k \in 2..L : /\ ls[k] = e.note[b] /\ ds[b] = L - k
                          /\ \A j \in k + 1..L : ls[j] # e.note[b]
    BY <1>2, <1>9 DEF Innermost
  <2>2. ASSUME NEW x \in 0..ds[b]
        PROVE  /\ Outwards(d, n + 1, x) \in 1..n
               /\ d[Outwards(d, n + 1, x)].note = <<e.note[b]>> <=> x = ds[b]
    <3>1. /\ x \in 0..L - 1 - 1 /\ L - 1 - x \in 1..L - 1 /\ L - 1 - x + 1 = L - x
          /\ L - x = k <=> x = ds[b]
          /\ x # ds[b] => L - x \in k + 1..L
      BY <1>2, <2>1
    <3>2. Outwards(d, n + 1, x) = q[L - 1 - x]
      BY <1>8, <3>1
    <3>3. q[L - 1 - x] \in 1..n /\ c[q[L - 1 - x]].note = <<ls[L - x]>>
      BY <1>5, <3>1
    <3>4. ls[L - x] = e.note[b] <=> x = ds[b]
      BY <2>1, <3>1
    <3>5. d[Outwards(d, n + 1, x)].note = <<ls[L - x]>>
      BY <1>6, <3>2, <3>3
    <3>6. QED BY <3>2, <3>3, <3>4, <3>5
  <2>3. QED BY <1>2, <2>1, <2>2
<1>10. \A b \in DOMAIN BranchDepths(d[n + 1]) : d[n + 1].note[b] \in Ids =>
         /\ BranchDepths(d[n + 1])[b] \in Nat
         /\ \A x \in 0..BranchDepths(d[n + 1])[b] :
              /\ Outwards(d, n + 1, x) \in 1..n
              /\ d[Outwards(d, n + 1, x)].note = <<d[n + 1].note[b]>>
                   <=> x = BranchDepths(d[n + 1])[b]
  BY <1>6, <1>9
<1>11. n + 1 - 1 = n
  BY <1>2
<1>12. Resolving(d, n + 1)
  <2>1. PICK m : m = n + 1
    OBVIOUS
  <2>2. m - 1 = n
    BY <1>2, <2>1
  <2>3. Resolving(d, m)
    BY <1>10, <2>1, <2>2 DEF Resolving
  <2>4. QED BY <2>1, <2>3
<1>13. QED BY <1>12 DEF d, n

LEMMA NoneIsNoName == None \notin Ids
  BY Zenon DEF None, Ids

LEMMA GreatestBelow ==
  ASSUME NEW T, NEW n \in Nat, T \subseteq 1..n, T # {}
  PROVE  Max(T) \in T /\ \A j \in T : j <= Max(T)
<1> DEFINE S == {m \in 0..n : n - m \in T}
<1>1. PICK t \in T : TRUE
  OBVIOUS
<1>2. n - t \in S /\ S \subseteq Nat
  BY <1>1
<1>3. PICK m \in S : \A k \in S : m <= k
  BY <1>2, LeastNatural
<1>4. n - m \in T
  BY <1>3
<1>5. ASSUME NEW j \in T PROVE j <= n - m
  <2>1. n - j \in S /\ n - (n - j) = j
    OBVIOUS
  <2>2. m <= n - j
    BY <1>3, <2>1
  <2>3. QED BY <1>3, <2>2
<1>6. \E x \in T : \A y \in T : x >= y
  BY <1>4, <1>5
<1>7. QED BY <1>6 DEF Max

LEMMA LeastFrom ==
  ASSUME NEW T, NEW n \in Nat, T \subseteq 1..n, T # {}
  PROVE  Min(T) \in T /\ \A j \in T : Min(T) <= j
<1>0. T \subseteq Nat
  OBVIOUS
<1>1. PICK m \in T : \A k \in T : m <= k
  BY <1>0, LeastNatural
<1>2. QED BY <1>1 DEF Min

LEMMA LabelDepth ==
  ASSUME NEW ls, IsSeq(ls), ls[1] = None, NEW ref \in Ids, resolve_label_depth(ls, ref) >= 0
  PROVE  Innermost(ls, ref, resolve_label_depth(ls, ref))
<1> DEFINE I == {i \in 1..Len(ls) : ls[i] = ref}
<1>1. Len(ls) \in Nat
  BY Shape
<1>2. SelectLastInSeq(ls, LAMBDA n : n = ref) = IF I # {} THEN Max(I) ELSE 0
  BY DEF SelectLastInSeq
<1>3. ref \in ToSet(ls)
  BY DEF resolve_label_depth
<1>4. I # {}
  BY <1>3, Shape DEF ToSet
<1>5. Max(I) \in I /\ \A j \in I : j <= Max(I)
  BY <1>1, <1>4, GreatestBelow
<1>6. resolve_label_depth(ls, ref) = Len(ls) - Max(I)
  BY <1>2, <1>3, <1>4 DEF resolve_label_depth
<1>7. PICK k : k = Max(I)
  OBVIOUS
<1>8. k \in 1..Len(ls) /\ ls[k] = ref /\ k # 1
  BY <1>5, <1>7, NoneIsNoName
<1>9. \A j \in k + 1..Len(ls) : ls[j] # ref
  <2> SUFFICES ASSUME NEW j \in k + 1..Len(ls), ls[j] = ref PROVE FALSE
    OBVIOUS
  <2>1. j \in I
    BY <1>1, <1>8
  <2>2. j <= k
    BY <1>5, <1>7, <2>1
  <2>3. QED BY <1>1, <1>8, <2>2
<1>10. k \in 2..Len(ls)
  BY <1>1, <1>8
<1>11. QED BY <1>6, <1>7, <1>8, <1>9, <1>10 DEF Innermost

-----------------------------------------------------------------------------
(***************************************************************************)
(* What is left to do, the labels and the code agree, whatever is done     *)
(* next: the code and the labels if all of the body up to here was well    *)
(* written, which is what ok stands for.                                   *)
(***************************************************************************)
Body(w, ls, c, ok) ==
  \E L, P : Stack(w, L, P) /\ (ok => Match(L, P, ls, c) /\ AllResolving(c))

LEMMA BodyShape ==
  ASSUME NEW w, NEW ls, NEW c, NEW ok, Body(w, ls, c, ok)
  PROVE  IsSeq(w) /\ (ok => IsSeq(ls) /\ ls[1] = None /\ AllResolving(c))
<1>1. PICK L, P : Stack(w, L, P) /\ (ok => Match(L, P, ls, c) /\ AllResolving(c))
  BY DEF Body
<1>2. QED BY <1>1, StackBounds DEF Match

LEMMA BodyPush ==
  ASSUME NEW w, NEW ls, NEW c, NEW ok, Body(w, ls, c, ok),
         NEW s, IsSeq(s), \A k \in 1..Len(s) : Neutral(s[k])
  PROVE  Body(s \o w, ls, c, ok)
<1>1. PICK L, P : Stack(w, L, P) /\ (ok => Match(L, P, ls, c) /\ AllResolving(c))
  BY DEF Body
<1>2. Stack(s \o w, L, P)
  BY <1>1, PushNeutral
<1>3. QED BY <1>1, <1>2 DEF Body

LEMMA BodyPop ==
  ASSUME NEW w, NEW ls, NEW c, NEW ok, Body(w, ls, c, ok),
         Len(w) > 0, ~Closes(w[1]), ~Awaited(w[1])
  PROVE  Body(Tail(w), ls, c, ok)
<1>1. PICK L, P : Stack(w, L, P) /\ (ok => Match(L, P, ls, c) /\ AllResolving(c))
  BY DEF Body
<1>2. Stack(Tail(w), L - Closing(w[1]), P)
  BY <1>1, PopOne
<1>3. L \in Nat /\ Closing(w[1]) = 0
  BY <1>1, StackBounds DEF Closing
<1>4. Stack(Tail(w), L, P)
  BY <1>2, <1>3
<1>5. QED BY <1>1, <1>4 DEF Body

LEMMA BodyReplace ==
  ASSUME NEW w, NEW ls, NEW c, NEW ok, Body(w, ls, c, ok), Len(w) > 0, w[1].do = "seq",
         NEW x, x.do = "seq", Closes(x) <=> Closes(w[1]),
         x.role = "function" => w[1].role = "function"
  PROVE  Body(<<x>> \o Tail(w), ls, c, ok)
<1>1. PICK L, P : Stack(w, L, P) /\ (ok => Match(L, P, ls, c) /\ AllResolving(c))
  BY DEF Body
<1>2. Stack(<<x>> \o Tail(w), L, P)
  BY <1>1, ReplaceTop
<1>3. QED BY <1>1, <1>2 DEF Body

(* Instructions that are no part of a construct.                           *)
Plain(bytes) == bytes[1] \notin Openers \cup {op_end, op_br, op_br_if, op_br_table}

LEMMA PlainResolves ==
  ASSUME NEW c, IsSeq(c), NEW e, Plain(e.bytes)
  PROVE  Resolving(Append(c, e), Len(c) + 1)
<1>1. BranchDepths(e) = <<>>
  BY DEF Plain, BranchDepths
<1>2. QED BY <1>1, NoBranchResolves

LEMMA BodyPlain ==
  ASSUME NEW w, NEW ls, NEW c, NEW ok, Body(w, ls, c, ok), NEW e, ok => Plain(e.bytes)
  PROVE  Body(w, ls, Append(c, e), ok)
<1>1. PICK L, P : Stack(w, L, P) /\ (ok => Match(L, P, ls, c) /\ AllResolving(c))
  BY DEF Body
<1>2. ASSUME ok PROVE Match(L, P, ls, Append(c, e)) /\ AllResolving(Append(c, e))
  <2>1. e.bytes[1] \notin Openers \cup {op_end}
    BY <1>2 DEF Plain
  <2>2. Match(L, P, ls, Append(c, e))
    BY <1>1, <1>2, <2>1, MatchStays
  <2>3. IsSeq(c) /\ AllResolving(c)
    BY <1>1, <1>2 DEF AllResolving
  <2>4. Resolving(Append(c, e), Len(c) + 1)
    BY <1>2, <2>3, PlainResolves
  <2>5. QED BY <2>2, <2>3, <2>4, ResolvingStays
<1>3. QED BY <1>1, <1>2 DEF Body

(* A branch, when no construct is awaited.                                 *)
LEMMA BodyBranch ==
  ASSUME NEW w, NEW ls, NEW c, NEW ok, Body(w, ls, c, ok),
         ok => \A k \in 1..Len(w) : ~Awaited(w[k]),
         NEW e, e.bytes[1] \notin Openers \cup {op_end}, NEW ds, BranchDepths(e) = ds,
         ok => \A b \in DOMAIN ds : e.note[b] \in Ids => Innermost(ls, e.note[b], ds[b])
  PROVE  Body(w, ls, Append(c, e), ok)
<1>1. PICK L, P : Stack(w, L, P) /\ (ok => Match(L, P, ls, c) /\ AllResolving(c))
  BY DEF Body
<1>2. ASSUME ok PROVE Match(L, P, ls, Append(c, e)) /\ AllResolving(Append(c, e))
  <2>1. P = {}
    <3>1. PICK h : P = AwaitedIn(w, h)
      BY <1>1 DEF Stack
    <3>2. QED BY <1>2, <3>1 DEF AwaitedIn
  <2>2. Match(L, P, ls, Append(c, e))
    BY <1>1, <1>2, MatchStays
  <2>3. Match(L, {}, ls, c) /\ AllResolving(c)
    BY <1>1, <1>2, <2>1
  <2>4. Resolving(Append(c, e), Len(c) + 1)
    BY <1>2, <2>3, BranchResolves
  <2>5. QED BY <2>2, <2>3, <2>4, ResolvingStays
<1>3. QED BY <1>1, <1>2 DEF Body

LEMMA OpenerIsNoBranch ==
  /\ \A b \in Openers : b \notin {op_br, op_br_if, op_br_table}
  /\ op_end \notin {op_br, op_br_if, op_br_table}
BY DEF Openers, op_block, op_loop, op_if, op_end, op_br, op_br_if, op_br_table

LEMMA StructureResolves ==
  ASSUME NEW c, AllResolving(c), NEW e, e.bytes[1] \in Openers \cup {op_end}
  PROVE  AllResolving(Append(c, e))
<1>1. BranchDepths(e) = <<>>
  BY OpenerIsNoBranch DEF BranchDepths
<1>2. IsSeq(c)
  BY DEF AllResolving
<1>3. Resolving(Append(c, e), Len(c) + 1)
  BY <1>1, <1>2, NoBranchResolves
<1>4. QED BY <1>3, ResolvingStays

(* A construct: its label and its opening together, and what closes it.    *)
LEMMA BodyOpen ==
  ASSUME NEW w, NEW ls, NEW c, NEW ok, Body(w, ls, c, ok), NEW x, Closes(x), ~Awaited(x),
         x.do = "seq" => Len(w) > 0 /\ w[1].do = "seq" /\ x.role # "function",
         NEW l, NEW e, e.bytes[1] \in Openers, e.note = <<l>>
  PROVE  Body(<<x>> \o w, Append(ls, l), Append(c, e), ok)
<1>1. PICK L, P : Stack(w, L, P) /\ (ok => Match(L, P, ls, c) /\ AllResolving(c))
  BY DEF Body
<1>2. L + 1 = L + Closing(x)
  BY DEF Closing
<1>3. Stack(<<x>> \o w, L + 1, P \cup (IF Awaited(x) THEN {<<L + 1, x.note>>} ELSE {}))
  BY <1>1, <1>2, PushOne
<1>4. Stack(<<x>> \o w, L + 1, P)
  BY <1>3
<1>5. ok => Match(L + 1, P, Append(ls, l), Append(c, e))
  BY <1>1, MatchOpens
<1>6. ok => AllResolving(Append(c, e))
  BY <1>1, StructureResolves
<1>7. QED BY <1>4, <1>5, <1>6 DEF Body

(* Its label first, and the opening later.                                 *)
LEMMA BodyIf ==
  ASSUME NEW w, NEW ls, NEW c, NEW ok, Body(w, ls, c, ok),
         NEW s, IsSeq(s), \A k \in 1..Len(s) : Neutral(s[k]),
         NEW l, NEW o, Awaited(o), o.note = <<l>>, NEW z, z.do = "close"
  PROVE  Body(<<o>> \o (s \o (<<z>> \o w)), Append(ls, l), c, ok)
<1>1. PICK L, P : Stack(w, L, P) /\ (ok => Match(L, P, ls, c) /\ AllResolving(c))
  BY DEF Body
<1>2. Closes(z) /\ ~Awaited(z) /\ ~Closes(o) /\ o.do # "seq"
  BY DEF Closes, Awaited
<1>3. L + 1 = L + Closing(z) /\ L \in Nat /\ L >= 1 /\ \A p \in P : p[1] \in 2..L
  BY <1>1, <1>2, StackBounds DEF Closing
<1>4. Stack(<<z>> \o w, L + 1, P \cup (IF Awaited(z) THEN {<<L + 1, z.note>>} ELSE {}))
  BY <1>1, <1>2, <1>3, PushOne
<1>5. Stack(<<z>> \o w, L + 1, P)
  BY <1>2, <1>4
<1>6. Stack(s \o (<<z>> \o w), L + 1, P)
  BY <1>5, PushNeutral
<1>7. L + 1 = L + 1 + Closing(o) /\ L + 1 > 1 /\ \A p \in P : p[1] < L + 1
  BY <1>2, <1>3 DEF Closing
<1> DEFINE y == s \o (<<z>> \o w)
<1> HIDE DEF y
<1>8. PICK m : m = L + 1
  OBVIOUS
<1>9. /\ m = m + Closing(o) /\ Stack(y, m, P) /\ (Awaited(o) => m > 1 /\ \A p \in P : p[1] < m)
      /\ Closes(o) /\ o.do = "seq" => Len(y) > 0 /\ y[1].do = "seq"
      /\ o.do = "seq" /\ o.role = "function" => Len(y) = 0
  BY <1>2, <1>6, <1>7, <1>8 DEF y
<1>10. Stack(<<o>> \o y, m, P \cup (IF Awaited(o) THEN {<<m, o.note>>} ELSE {}))
  BY <1>9, PushOne
<1>11. Stack(<<o>> \o y, L + 1, P \cup {<<L + 1, <<l>>>>})
  BY <1>8, <1>10
<1>12. ok => Match(L + 1, P \cup {<<L + 1, <<l>>>>}, Append(ls, l), c)
  BY <1>1, MatchAwaits
<1>13. QED BY <1>1, <1>11, <1>12 DEF Body, y

LEMMA BodyOpenAwaited ==
  ASSUME NEW w, NEW ls, NEW c, NEW ok, Body(w, ls, c, ok), Len(w) > 0, Awaited(w[1]),
         NEW e, e.bytes[1] \in Openers, e.note = w[1].note
  PROVE  Body(Tail(w), ls, Append(c, e), ok)
<1>1. PICK L, P : Stack(w, L, P) /\ (ok => Match(L, P, ls, c) /\ AllResolving(c))
  BY DEF Body
<1>2. PICK Q : /\ Stack(Tail(w), L - Closing(w[1]), Q)
               /\ \A p \in Q : p[1] < L
               /\ \A p : p \in P <=> p \in Q \/ p = <<L, w[1].note>>
  BY <1>1, PopOne
<1>3. L \in Nat /\ Closing(w[1]) = 0 /\ L > 1
  <2>1. ~Closes(w[1])
    BY DEF Awaited, Closes
  <2>2. L > 1 /\ L \in Nat
    BY <1>1, PopOne, StackBounds
  <2>3. QED BY <2>1, <2>2 DEF Closing
<1>4. Stack(Tail(w), L, Q)
  BY <1>2, <1>3
<1>5. \A p : p \in P <=> p \in Q \/ p = <<L, e.note>>
  BY <1>2
<1>6. ok => Match(L, Q, ls, Append(c, e))
  BY <1>1, <1>2, <1>3, <1>5, MatchOpensAwaited
<1>7. ok => AllResolving(Append(c, e))
  BY <1>1, StructureResolves
<1>8. QED BY <1>4, <1>6, <1>7 DEF Body

(* The end of a construct.                                                 *)
LEMMA BodyEnd ==
  ASSUME NEW w, NEW ls, NEW c, NEW ok, Body(w, ls, c, ok), Len(w) > 0, Closes(w[1]),
         NEW e, e.bytes[1] = op_end
  PROVE  /\ Body(Tail(w), Front(ls), Append(c, e), ok)
         /\ w[1].do = "seq" => Len(w) > 1 /\ w[2].do = "seq"
<1>1. PICK L, P : Stack(w, L, P) /\ (ok => Match(L, P, ls, c) /\ AllResolving(c))
  BY DEF Body
<1>2. ~Awaited(w[1]) /\ Closing(w[1]) = 1
  BY DEF Closes, Awaited, Closing
<1>3. /\ Stack(Tail(w), L - Closing(w[1]), P) /\ L > Closing(w[1])
      /\ w[1].do = "seq" => Len(w) > 1 /\ w[2].do = "seq"
  BY <1>1, <1>2, PopOne
<1>4. L \in Nat /\ L > 1 /\ Stack(Tail(w), L - 1, P)
  BY <1>1, <1>2, <1>3, StackBounds
<1>5. \A p \in P : p[1] < L
  <2>1. \A p \in P : p[1] \in 2..L - 1
    BY <1>4, StackBounds
  <2>2. QED BY <1>4, <2>1
<1>6. ok => Match(L - 1, P, Front(ls), Append(c, e))
  BY <1>1, <1>4, <1>5, MatchEnds
<1>7. ok => AllResolving(Append(c, e))
  BY <1>1, StructureResolves
<1>8. QED BY <1>3, <1>4, <1>6, <1>7 DEF Body

(* The end of the function.                                                *)
LEMMA BodyDone ==
  ASSUME NEW w, NEW ls, NEW c, NEW ok, ok, Body(w, ls, c, ok), Len(w) > 0, w[1].do = "seq",
         w[1].role = "function"
  PROVE  ls = <<None>>
<1>1. PICK L, P : Stack(w, L, P) /\ Match(L, P, ls, c)
  BY DEF Body
<1>2. Len(w) = 1
  BY <1>1, PopOne
<1>3. ~Closes(w[1])
  BY DEF Closes, FlatRoles
<1>4. L = 1
  <2>1. PICK h : Heights(w, h) /\ L = Level(w, h)
    BY <1>1 DEF Stack
  <2>2. 1 \in 1..Len(w) /\ h[1] = 1 + Closing(w[1])
    BY <1>2, <2>1 DEF Heights
  <2>3. QED BY <1>2, <1>3, <2>1, <2>2 DEF Level, Closing
<1>5. IsSeq(ls) /\ Len(ls) = 1 /\ ls[1] = None
  BY <1>1, <1>4 DEF Match
<1>6. IsSeq(<<None>>) /\ Len(<<None>>) = 1 /\ <<None>>[1] = None
  <2>1. <<None>> \in Seq({None})
    OBVIOUS
  <2>2. QED BY <2>1 DEF IsSeq
<1>7. QED BY <1>5, <1>6, Extensional

LEMMA BodyBegins ==
  ASSUME NEW ok, NEW x, x.do = "seq", x.role = "function"
  PROVE  Body(<<x>>, <<None>>, <<>>, ok)
<1>1. IsSeq(<<x>>) /\ Len(<<x>>) = 1 /\ <<x>>[1] = x
  <2>1. <<x>> \in Seq({x})
    OBVIOUS
  <2>2. QED BY <2>1 DEF IsSeq
<1> DEFINE h == <<1>>
<1>2. IsSeq(h) /\ Len(h) = 1 /\ h[1] = 1
  <2>1. h \in Seq({1})
    OBVIOUS
  <2>2. QED BY <2>1 DEF IsSeq
<1>3. ~Closes(x) /\ ~Awaited(x) /\ Closing(x) = 0
  BY DEF Closes, Awaited, Closing, FlatRoles
<1> DEFINE w == <<x>>
<1> HIDE DEF w, h
<1>4. IsSeq(w) /\ Len(w) = 1 /\ w[1] = x
  BY <1>1 DEF w
<1>5. Heights(w, h) /\ Level(w, h) = 1 /\ AwaitedIn(w, h) = {}
  BY <1>2, <1>3, <1>4 DEF Heights, Level, AwaitedIn
<1>6. Stack(w, 1, {})
  BY <1>5 DEF Stack
<1>7. AllResolving(<<>>)
  <2>1. <<>> \in Seq({}) /\ Len(<<>>) = 0
    OBVIOUS
  <2>2. QED BY <2>1 DEF AllResolving, IsSeq
<1>8. QED BY <1>6, <1>7, MatchBegins DEF Body, w

-----------------------------------------------------------------------------
(***************************************************************************)
(* The items: each is one of those the actions put there, about the forms  *)
(* of the program.                                                         *)
(***************************************************************************)
ItemOK(x, ok) ==
  \/ \E elems \in Seq(Forms), i \in Nat, n \in Nat : \E role :
       i >= 1 /\ n <= Len(elems) /\ x = Elements(elems, i, n, role)
  \/ \E sx \in Forms : x = Expr(sx)
  \/ \E b : (ok => Plain(b)) /\ x = Put(b)
  \/ \E b, l : b[1] \in Openers /\ x = Open(b, l)
  \/ \E word \in IndexWords : \E ref : x = Refer(word, ref)
  \/ \E refs : IsSeq(refs) /\ x = Table(refs)
  \/ x = Close
AllOK(w, ok) == IsSeq(w) /\ \A k \in 1..Len(w) : ItemOK(w[k], ok)

LEMMA Items ==
  ASSUME NEW ok
  PROVE
  /\ \A sx \in Forms : ItemOK(Expr(sx), ok)
  /\ \A b : (ok => Plain(b)) => ItemOK(Put(b), ok)
  /\ \A b, l : b[1] \in Openers => ItemOK(Open(b, l), ok)
  /\ \A word \in IndexWords : \A ref : ItemOK(Refer(word, ref), ok)
  /\ \A refs : IsSeq(refs) => ItemOK(Table(refs), ok)
  /\ ItemOK(Close, ok)
  /\ \A elems \in Seq(Forms) : \A i, n \in Nat : \A role :
       i >= 1 /\ n <= Len(elems) => ItemOK(Elements(elems, i, n, role), ok)
<1>1. \A sx \in Forms : ItemOK(Expr(sx), ok)
  BY Zenon DEF ItemOK
<1>2. \A b : (ok => Plain(b)) => ItemOK(Put(b), ok)
  BY Zenon DEF ItemOK
<1>3. \A b, l : b[1] \in Openers => ItemOK(Open(b, l), ok)
  BY Zenon DEF ItemOK
<1>4. \A word \in IndexWords : \A ref : ItemOK(Refer(word, ref), ok)
  BY Zenon DEF ItemOK
<1>5. \A refs : IsSeq(refs) => ItemOK(Table(refs), ok)
  BY Zenon DEF ItemOK
<1>6. ItemOK(Close, ok)
  BY Zenon DEF ItemOK
<1>7. \A elems \in Seq(Forms) : \A i, n \in Nat : \A role :
       i >= 1 /\ n <= Len(elems) => ItemOK(Elements(elems, i, n, role), ok)
  BY ZenonT(40) DEF ItemOK
<1>8. QED BY <1>1, <1>2, <1>3, <1>4, <1>5, <1>6, <1>7

(* What an item that does one thing is.                                    *)
LEMMA ItemIs ==
  ASSUME NEW ok, NEW x, ItemOK(x, ok)
  PROVE  /\ x.do = "seq" => /\ x.elems \in Seq(Forms) /\ x.i \in Nat /\ x.i >= 1
                            /\ x.n \in Nat /\ x.n <= Len(x.elems)
                            /\ x = Elements(x.elems, x.i, x.n, x.role)
         /\ x.do = "expr" => x.sx \in Forms /\ x = Expr(x.sx)
         /\ x.do = "put" => \/ x.note = <<>> /\ (ok => Plain(x.bytes))
                            \/ x.bytes[1] \in Openers /\ \E l : x.note = <<l>>
         /\ x.do = "refer" => x.word \in IndexWords
         /\ x.do = "table" => IsSeq(x.refs)
<1>1. CASE \E elems \in Seq(Forms), i \in Nat, n \in Nat : \E role :
             i >= 1 /\ n <= Len(elems) /\ x = Elements(elems, i, n, role)
  BY <1>1 DEF Elements
<1>2. CASE \E sx \in Forms : x = Expr(sx)
  BY <1>2 DEF Expr
<1>3. CASE \E b : (ok => Plain(b)) /\ x = Put(b)
  BY <1>3 DEF Put
<1>4. CASE \E b, l : b[1] \in Openers /\ x = Open(b, l)
  BY <1>4 DEF Open
<1>5. CASE \E word \in IndexWords : \E ref : x = Refer(word, ref)
  BY <1>5 DEF Refer
<1>6. CASE \E refs : IsSeq(refs) /\ x = Table(refs)
  BY <1>6 DEF Table
<1>7. CASE x = Close
  BY <1>7 DEF Close
<1>8. QED BY <1>1, <1>2, <1>3, <1>4, <1>5, <1>6, <1>7 DEF ItemOK

(* An emit_seq that goes on elsewhere; nothing else has a place.           *)
LEMMA FromAnother ==
  ASSUME NEW ok, NEW x, ItemOK(x, ok), NEW j \in Nat, j >= 1
  PROVE  /\ ItemOK([x EXCEPT !.i = j], ok)
         /\ x.do = "seq" => \A role : ItemOK([[x EXCEPT !.i = j] EXCEPT !.role = role], ok)
         /\ [x EXCEPT !.i = j].do = x.do
         /\ x.do = "seq" => /\ [x EXCEPT !.i = j].role = x.role
                            /\ \A role :
                                 /\ [[x EXCEPT !.i = j] EXCEPT !.role = role].do = "seq"
                                 /\ [[x EXCEPT !.i = j] EXCEPT !.role = role].role = role
<1>1. CASE x.do = "seq"
  <2>1. /\ x.elems \in Seq(Forms) /\ x.n \in Nat /\ x.n <= Len(x.elems)
        /\ x = Elements(x.elems, x.i, x.n, x.role)
    BY <1>1, ItemIs
  <2>2. PICK e, i, n, r : /\ e \in Seq(Forms) /\ n \in Nat /\ n <= Len(e)
                          /\ x = Elements(e, i, n, r)
    BY <2>1
  <2>3. [x EXCEPT !.i = j] = Elements(e, j, n, r)
    BY <2>2 DEF Elements
  <2>4. \A role : [[x EXCEPT !.i = j] EXCEPT !.role = role] = Elements(e, j, n, role)
    <3>1. \A role : [Elements(e, j, n, r) EXCEPT !.role = role] = Elements(e, j, n, role)
      BY DEF Elements
    <3>2. QED BY <2>3, <3>1
  <2>5. \A role : ItemOK(Elements(e, j, n, role), ok)
    BY <2>2, Items
  <2>6. \A role : Elements(e, j, n, role).do = "seq" /\ Elements(e, j, n, role).role = role
    BY DEF Elements
  <2>7. x.role = r
    BY <2>2 DEF Elements
  <2>8. ItemOK([x EXCEPT !.i = j], ok)
    BY <2>3, <2>5
  <2>9. \A role : ItemOK([[x EXCEPT !.i = j] EXCEPT !.role = role], ok)
    BY <2>4, <2>5
  <2>10. [x EXCEPT !.i = j].do = "seq" /\ [x EXCEPT !.i = j].role = x.role
    BY <2>3, <2>6, <2>7
  <2>11. \A role : /\ [[x EXCEPT !.i = j] EXCEPT !.role = role].do = "seq"
                   /\ [[x EXCEPT !.i = j] EXCEPT !.role = role].role = role
    BY <2>4, <2>6
  <2>12. QED BY <1>1, <2>8, <2>9, <2>10, <2>11
<1>2. CASE x.do # "seq"
  <2>1. [x EXCEPT !.i = j] = x
    <3>1. CASE \E sx \in Forms : x = Expr(sx)
      BY <3>1 DEF Expr
    <3>2. CASE \E b : (ok => Plain(b)) /\ x = Put(b)
      BY <3>2 DEF Put
    <3>3. CASE \E b, l : b[1] \in Openers /\ x = Open(b, l)
      BY <3>3 DEF Open
    <3>4. CASE \E word \in IndexWords : \E ref : x = Refer(word, ref)
      BY <3>4 DEF Refer
    <3>5. CASE \E refs : IsSeq(refs) /\ x = Table(refs)
      BY <3>5 DEF Table
    <3>6. CASE x = Close
      BY <3>6 DEF Close
    <3>7. CASE \E elems \in Seq(Forms), i \in Nat, n \in Nat : \E role :
                 i >= 1 /\ n <= Len(elems) /\ x = Elements(elems, i, n, role)
      BY <1>2, <3>7 DEF Elements
    <3>8. QED BY <3>1, <3>2, <3>3, <3>4, <3>5, <3>6, <3>7 DEF ItemOK
  <2>2. QED BY <1>2, <2>1
<1>3. QED BY <1>1, <1>2

LEMMA FewItems ==
  ASSUME NEW ok
  PROVE
  /\ \A x : ItemOK(x, ok) => AllOK(<<x>>, ok)
  /\ \A x, y : ItemOK(x, ok) /\ ItemOK(y, ok) => AllOK(<<x, y>>, ok)
  /\ \A x, y, z : ItemOK(x, ok) /\ ItemOK(y, ok) /\ ItemOK(z, ok) => AllOK(<<x, y, z>>, ok)
  /\ AllOK(<<>>, ok)
<1>1. ASSUME NEW x, ItemOK(x, ok) PROVE AllOK(<<x>>, ok)
  <2>1. <<x>> \in Seq({x}) /\ Len(<<x>>) = 1 /\ <<x>>[1] = x
    OBVIOUS
  <2>2. IsSeq(<<x>>)
    BY <2>1 DEF IsSeq
  <2>3. QED BY <1>1, <2>1, <2>2 DEF AllOK
<1>2. ASSUME NEW x, NEW y, ItemOK(x, ok), ItemOK(y, ok) PROVE AllOK(<<x, y>>, ok)
  <2>1. <<x, y>> \in Seq({x, y}) /\ Len(<<x, y>>) = 2 /\ <<x, y>>[1] = x /\ <<x, y>>[2] = y
    OBVIOUS
  <2>2. IsSeq(<<x, y>>)
    BY <2>1 DEF IsSeq
  <2>3. QED BY <1>2, <2>1, <2>2 DEF AllOK
<1>3. ASSUME NEW x, NEW y, NEW z, ItemOK(x, ok), ItemOK(y, ok), ItemOK(z, ok) PROVE AllOK(<<x, y, z>>, ok)
  <2>1. /\ <<x, y, z>> \in Seq({x, y, z}) /\ Len(<<x, y, z>>) = 3
        /\ <<x, y, z>>[1] = x /\ <<x, y, z>>[2] = y /\ <<x, y, z>>[3] = z
    OBVIOUS
  <2>2. IsSeq(<<x, y, z>>)
    BY <2>1 DEF IsSeq
  <2>3. QED BY <1>3, <2>1, <2>2 DEF AllOK
<1>4. AllOK(<<>>, ok)
  <2>1. <<>> \in Seq({}) /\ Len(<<>>) = 0
    OBVIOUS
  <2>2. QED BY <2>1 DEF AllOK, IsSeq
<1>5. QED BY <1>1, <1>2, <1>3, <1>4

LEMMA ConcatOK ==
  ASSUME NEW ok, NEW s, NEW w, AllOK(s, ok), AllOK(w, ok)
  PROVE  AllOK(s \o w, ok)
<1>1. /\ IsSeq(s) /\ IsSeq(w) /\ Len(s) \in Nat /\ Len(w) \in Nat
  BY Shape DEF AllOK
<1>2. /\ IsSeq(s \o w) /\ Len(s \o w) = Len(s) + Len(w)
      /\ \A k \in 1..Len(s) : (s \o w)[k] = s[k]
      /\ \A k \in 1..Len(w) : (s \o w)[Len(s) + k] = w[k]
  BY <1>1, ConcatFacts
<1>3. ASSUME NEW k \in 1..Len(s) + Len(w) PROVE ItemOK((s \o w)[k], ok)
  <2>1. CASE k \in 1..Len(s)
    BY <1>2, <2>1 DEF AllOK
  <2>2. CASE k \notin 1..Len(s)
    <3>1. k - Len(s) \in 1..Len(w) /\ Len(s) + (k - Len(s)) = k
      BY <1>1, <2>2
    <3>2. (s \o w)[k] = w[k - Len(s)]
      BY <1>2, <3>1
    <3>3. QED BY <3>1, <3>2 DEF AllOK
  <2>3. QED BY <2>1, <2>2
<1>4. QED BY <1>2, <1>3 DEF AllOK

LEMMA TailOK ==
  ASSUME NEW ok, NEW w, AllOK(w, ok), w # <<>>
  PROVE  Len(w) > 0 /\ Head(w) = w[1] /\ ItemOK(w[1], ok) /\ AllOK(Tail(w), ok)
<1>1. IsSeq(w) /\ Len(w) \in Nat
  BY Shape DEF AllOK
<1>2. Len(w) > 0
  <2>1. PICK S : w \in Seq(S)
    BY <1>1 DEF IsSeq
  <2>2. QED BY <1>1, <2>1
<1>3. /\ IsSeq(Tail(w)) /\ Len(Tail(w)) = Len(w) - 1 /\ Head(w) = w[1]
      /\ \A k \in 1..Len(w) - 1 : Tail(w)[k] = w[k + 1]
  BY <1>1, <1>2, TailFacts
<1>4. 1 \in 1..Len(w) /\ \A k \in 1..Len(w) - 1 : k + 1 \in 1..Len(w)
  BY <1>1, <1>2
<1>5. QED BY <1>2, <1>3, <1>4 DEF AllOK

LEMMA ExprsOK ==
  ASSUME NEW ok, NEW s \in Seq(Forms)
  PROVE  AllOK(Exprs(s), ok) /\ \A k \in 1..Len(Exprs(s)) : Exprs(s)[k].do = "expr"
<1> DEFINE t == Exprs(s)
<1>1. t \in Seq({Expr(sx) : sx \in Forms})
  BY DEF Exprs
<1> HIDE DEF t
<1>2. IsSeq(t) /\ \A k \in 1..Len(t) : \E sx \in Forms : t[k] = Expr(sx)
  BY <1>1 DEF IsSeq
<1>3. \A k \in 1..Len(t) : ItemOK(t[k], ok)
  BY <1>2, Items
<1>4. \A k \in 1..Len(t) : t[k].do = "expr"
  <2>1. \A sx : Expr(sx).do = "expr"
    BY DEF Expr
  <2>2. QED BY <1>2, <2>1
<1>5. QED BY <1>2, <1>3, <1>4 DEF AllOK, t

-----------------------------------------------------------------------------
(***************************************************************************)
(* The bytes that are written, and the names looked up for them.           *)
(***************************************************************************)
LEMMA PlainWords ==
  \A w \in DOMAIN Opcode \ Structural :
    Opcode[w] \notin Openers \cup {op_end, op_br, op_br_if, op_br_table}
BY OpcodesApart DEF Structural

LEMMA Words ==
  /\ Blocks \cup {"if", "end", "else", "br_table", "call_indirect"} \subseteq DOMAIN Opcode
  /\ Constants \cup IndexWords \cup Loads \cup Stores \subseteq DOMAIN Opcode
  /\ (Constants \cup Loads \cup Stores \cup {"call_indirect", "else"}) \cap Structural = {}
  /\ (IndexWords \ BranchWords) \cap Structural = {}
  /\ Opcode["br_table"] = op_br_table /\ Opcode["if"] = op_if
<1>1. \A r \in Mnemonics : r[1] \in DOMAIN Opcode /\ Opcode[r[1]] = r[2]
  BY OpcodeRows
<1>2. /\ <<"block", 2>> \in Mnemonics /\ <<"loop", 3>> \in Mnemonics /\ <<"if", 4>> \in Mnemonics
      /\ <<"else", 5>> \in Mnemonics /\ <<"end", 11>> \in Mnemonics
      /\ <<"br", 12>> \in Mnemonics /\ <<"br_if", 13>> \in Mnemonics
      /\ <<"br_table", 14>> \in Mnemonics /\ <<"call", 16>> \in Mnemonics
      /\ <<"call_indirect", 17>> \in Mnemonics
      /\ <<"local.get", 32>> \in Mnemonics /\ <<"local.set", 33>> \in Mnemonics
      /\ <<"local.tee", 34>> \in Mnemonics /\ <<"global.get", 35>> \in Mnemonics
      /\ <<"global.set", 36>> \in Mnemonics /\ <<"i32.load", 40>> \in Mnemonics
      /\ <<"i32.store", 54>> \in Mnemonics /\ <<"i32.const", 65>> \in Mnemonics
      /\ <<"i64.const", 66>> \in Mnemonics /\ <<"f32.const", 67>> \in Mnemonics
      /\ <<"f64.const", 68>> \in Mnemonics
  BY DEF Mnemonics
<1>3. /\ "block" \in DOMAIN Opcode /\ "loop" \in DOMAIN Opcode /\ "if" \in DOMAIN Opcode
      /\ "else" \in DOMAIN Opcode /\ "end" \in DOMAIN Opcode /\ "br" \in DOMAIN Opcode
      /\ "br_if" \in DOMAIN Opcode /\ "br_table" \in DOMAIN Opcode /\ "call" \in DOMAIN Opcode
      /\ "call_indirect" \in DOMAIN Opcode /\ "local.get" \in DOMAIN Opcode
      /\ "local.set" \in DOMAIN Opcode /\ "local.tee" \in DOMAIN Opcode
      /\ "global.get" \in DOMAIN Opcode /\ "global.set" \in DOMAIN Opcode
      /\ "i32.load" \in DOMAIN Opcode /\ "i32.store" \in DOMAIN Opcode
      /\ "i32.const" \in DOMAIN Opcode /\ "i64.const" \in DOMAIN Opcode
      /\ "f32.const" \in DOMAIN Opcode /\ "f64.const" \in DOMAIN Opcode
      /\ Opcode["br_table"] = 14 /\ Opcode["if"] = 4
  BY <1>1, <1>2
<1>4. /\ Blocks \cup {"if", "end", "else", "br_table", "call_indirect"} \subseteq DOMAIN Opcode
      /\ Constants \cup IndexWords \cup Loads \cup Stores \subseteq DOMAIN Opcode
  BY <1>3 DEF Blocks, Constants, IndexWords, Loads, Stores, LocalWords, GlobalWords, BranchWords
<1>5. (Constants \cup Loads \cup Stores \cup {"call_indirect", "else"}) \cap Structural = {}
  BY DEF Structural, Blocks, Constants, Loads, Stores, BranchWords
<1>6. (IndexWords \ BranchWords) \cap Structural = {}
  BY DEF Structural, Blocks, IndexWords, LocalWords, GlobalWords, BranchWords
<1>7. QED BY <1>3, <1>4, <1>5, <1>6 DEF op_br_table, op_if

LEMMA ShortPlain ==
  \A w \in DOMAIN Opcode \ Structural : \A x, y :
    Plain(<<Opcode[w]>>) /\ Plain(<<Opcode[w], x>>) /\ Plain(<<Opcode[w], x, y>>)
BY PlainWords DEF Plain

LEMMA Numbers ==
  /\ \A x \in DOMAIN Numeral : Numeral[x] \in 0..3
  /\ \A sx : Literal(sx) \in 0..3
<1>1. \A x \in DOMAIN Numeral : Numeral[x] \in 0..3
  BY DEF Numeral
<1>2. QED BY <1>1 DEF Literal

LEMMA ConstPlain ==
  ASSUME NEW w \in Constants, NEW n \in 0..3
  PROVE  Plain(ConstBytes(w, n))
<1> DEFINE t == CASE w = "f32.const" -> FloatBytes(4, n)
                  [] w = "f64.const" -> FloatBytes(8, n)
                  [] OTHER -> <<n>>
<1>1. \A width \in {4, 8} : IsSeq(FloatBytes(width, n))
  <2> SUFFICES ASSUME NEW width \in {4, 8} PROVE IsSeq(FloatBytes(width, n))
    OBVIOUS
  <2> DEFINE z == [i \in 1..width - 2 |-> 0]
             top == CASE n = 0 -> <<0, 0>>
                      [] n = 1 -> IF width = 4 THEN <<128, 63>> ELSE <<240, 63>>
                      [] n = 2 -> <<0, 64>>
                      [] n = 3 -> IF width = 4 THEN <<64, 64>> ELSE <<8, 64>>
  <2>1. z \in Seq(Nat) /\ top \in Seq(Nat)
    <3>1. z \in Seq(Nat)
      OBVIOUS
    <3>2. /\ <<0, 0>> \in Seq(Nat) /\ <<128, 63>> \in Seq(Nat) /\ <<240, 63>> \in Seq(Nat)
          /\ <<0, 64>> \in Seq(Nat) /\ <<64, 64>> \in Seq(Nat) /\ <<8, 64>> \in Seq(Nat)
      OBVIOUS
    <3>3. n = 0 \/ n = 1 \/ n = 2 \/ n = 3
      OBVIOUS
    <3>4. /\ n = 0 => top = <<0, 0>>
          /\ n = 1 => top = IF width = 4 THEN <<128, 63>> ELSE <<240, 63>>
          /\ n = 2 => top = <<0, 64>>
          /\ n = 3 => top = IF width = 4 THEN <<64, 64>> ELSE <<8, 64>>
      BY <3>3
    <3> HIDE DEF top
    <3>5. CASE n = 0
      BY <3>1, <3>2, <3>4, <3>5
    <3>6. CASE n = 1
      BY <3>1, <3>2, <3>4, <3>6
    <3>7. CASE n = 2
      BY <3>1, <3>2, <3>4, <3>7
    <3>8. CASE n = 3
      BY <3>1, <3>2, <3>4, <3>8
    <3>9. top \in Seq(Nat)
      BY <3>1, <3>3, <3>5, <3>6, <3>7, <3>8
    <3>10. QED BY <3>1, <3>9
  <2> HIDE DEF z, top
  <2>2. IsSeq(z) /\ IsSeq(top)
    BY <2>1 DEF IsSeq
  <2>3. IsSeq(z \o top)
    BY <2>2, ConcatFacts
  <2>4. QED BY <2>3 DEF FloatBytes, z, top
<1>2. IsSeq(t)
  <2>1. IsSeq(<<n>>)
    <3>1. <<n>> \in Seq({n})
      OBVIOUS
    <3>2. QED BY <3>1 DEF IsSeq
  <2>2. QED BY <1>1, <2>1
<1>3. IsSeq(<<Opcode[w]>>) /\ Len(<<Opcode[w]>>) = 1 /\ <<Opcode[w]>>[1] = Opcode[w]
  <2>1. <<Opcode[w]>> \in Seq({Opcode[w]})
    OBVIOUS
  <2>2. QED BY <2>1 DEF IsSeq
<1>4. ConstBytes(w, n) = <<Opcode[w]>> \o t
  BY DEF ConstBytes
<1> HIDE DEF t
<1>5. ConstBytes(w, n)[1] = Opcode[w]
  BY <1>2, <1>3, <1>4, ConcatFacts
<1>6. w \in DOMAIN Opcode \ Structural
  BY Words
<1>7. QED BY <1>5, <1>6, PlainWords DEF Plain

LEMMA WordPlain ==
  ASSUME NEW w \in DOMAIN Opcode \ Structural
  PROVE  Plain(PlainBytes(w))
BY ShortPlain DEF PlainBytes

-----------------------------------------------------------------------------
(* An instruction written with a name of a variable or a function has the  *)
(* number looked up for it.                                                *)
VariableWords == LocalWords \cup GlobalWords \cup {"call"}
Scope(ns, word) ==
  IF word \in LocalWords THEN ns.locals
  ELSE IF word \in GlobalWords THEN ns.globals ELSE ns.funcs
NamedWell(ns, e) ==
  \A word \in VariableWords : e.note # <<>> /\ e.bytes[1] = Opcode[word] =>
    /\ e.bytes[2] = resolve_name(Scope(ns, word), e.note[1])
    /\ e.bytes[2] >= 0
CodeOK(ns, c) == IsSeq(c) /\ \A k \in 1..Len(c) : NamedWell(ns, c[k])

LEMMA CodeOKAppend ==
  ASSUME NEW ns, NEW c, CodeOK(ns, c), NEW e, NamedWell(ns, e)
  PROVE  CodeOK(ns, Append(c, e))
<1>1. IsSeq(c) /\ Len(c) \in Nat
  BY Shape DEF CodeOK
<1>2. /\ IsSeq(Append(c, e)) /\ Len(Append(c, e)) = Len(c) + 1
      /\ Append(c, e)[Len(c) + 1] = e
      /\ \A k \in 1..Len(c) : Append(c, e)[k] = c[k]
  BY <1>1, AppendFacts
<1>3. \A k \in 1..Len(c) + 1 : k \in 1..Len(c) \/ k = Len(c) + 1
  BY <1>1
<1>4. QED BY <1>2, <1>3 DEF CodeOK

LEMMA InstrParts == \A b, n : Instr(b, n).bytes = b /\ Instr(b, n).note = n
BY DEF Instr

LEMMA VariablesAre ==
  /\ VariableWords \subseteq DOMAIN Opcode /\ VariableWords = IndexWords \ BranchWords
  /\ VariableWords \cap Structural = {}
  /\ \A w \in VariableWords :
       Opcode[w] \notin Openers \cup {op_end, op_br, op_br_if, op_br_table}
<1>1. VariableWords = IndexWords \ BranchWords
  BY DEF VariableWords, IndexWords, LocalWords, GlobalWords, BranchWords
<1>2. QED BY <1>1, Words, PlainWords

LEMMA NamedUnlike ==
  ASSUME NEW ns, NEW e,
         e.note = <<>> \/ e.bytes[1] \in Openers \cup {op_end, op_br, op_br_if, op_br_table}
  PROVE  NamedWell(ns, e)
BY VariablesAre DEF NamedWell

LEMMA EmitPlain ==
  ASSUME NEW w, NEW ls, NEW c, NEW ok, Body(w, ls, c, ok), NEW ns, CodeOK(ns, c),
         NEW b, ok => Plain(b)
  PROVE  Body(w, ls, Append(c, Instr(b, <<>>)), ok) /\ CodeOK(ns, Append(c, Instr(b, <<>>)))
<1>1. PICK e : e = Instr(b, <<>>)
  OBVIOUS
<1>2. e.bytes = b /\ e.note = <<>>
  BY <1>1, InstrParts
<1>3. Body(w, ls, Append(c, e), ok)
  BY <1>2, BodyPlain
<1>4. NamedWell(ns, e)
  BY <1>2, NamedUnlike
<1>5. CodeOK(ns, Append(c, e))
  BY <1>4, CodeOKAppend
<1>6. QED BY <1>1, <1>3, <1>5

Unawaited == \A k \in 1..Len(work) : ~Awaited(work[k])

LEMMA EmitRefer ==
  ASSUME NEW ok, Body(work, labels, code, ok), CodeOK(names, code),
         NEW word \in IndexWords, ok /\ word \in BranchWords => Unawaited,
         NEW ref, resolve(word, ref) >= 0
  PROVE  LET e == Instr(<<Opcode[word], resolve(word, ref)>>, <<ref>>)
         IN  Body(work, labels, Append(code, e), ok) /\ CodeOK(names, Append(code, e))
<1>0. PICK r : r = resolve(word, ref)
  OBVIOUS
<1>1. PICK e : e = Instr(<<Opcode[word], r>>, <<ref>>)
  OBVIOUS
<1>2. /\ e.bytes = <<Opcode[word], r>> /\ e.note = <<ref>> /\ e.bytes[1] = Opcode[word]
      /\ e.bytes[2] = r /\ e.note[1] = ref /\ e.note # <<>>
  <2>1. e.bytes = <<Opcode[word], r>> /\ e.note = <<ref>>
    BY <1>1, InstrParts
  <2>2. <<ref>>[1] = ref /\ <<ref>> # <<>>
    OBVIOUS
  <2>3. <<Opcode[word], r>>[1] = Opcode[word] /\ <<Opcode[word], r>>[2] = r
    OBVIOUS
  <2>4. QED BY <2>1, <2>2, <2>3
<1>3. word \in DOMAIN Opcode
  BY Words
<1>4. NamedWell(names, e)
  <2> SUFFICES ASSUME NEW x \in VariableWords, e.bytes[1] = Opcode[x]
               PROVE  r = resolve_name(Scope(names, x), ref) /\ r >= 0
    BY <1>2 DEF NamedWell
  <2>1. x = word
    BY <1>2, <1>3, VariablesAre, OpcodesApart
  <2>2. word \notin BranchWords
    BY <2>1, VariablesAre
  <2>3. resolve(word, ref) = resolve_name(Scope(names, word), ref)
    BY <2>1, <2>2 DEF resolve, Scope, VariableWords, LocalWords, GlobalWords
  <2>4. QED BY <1>0, <2>1, <2>3
<1>5. CodeOK(names, Append(code, e))
  BY <1>4, CodeOKAppend
<1>6. Body(work, labels, Append(code, e), ok)
  <2>1. CASE word \in BranchWords
    <3>1. Opcode[word] \in {op_br, op_br_if} /\ Opcode[word] \notin Openers \cup {op_end}
      BY <1>3, <2>1, OpcodesApart DEF BranchWords, Blocks
    <3>2. BranchDepths(e) = <<r>>
      <4>1. e.bytes[1] \in {op_br, op_br_if}
        BY <1>2, <3>1
      <4>2. BranchDepths(e) = <<e.bytes[2]>>
        BY <4>1 DEF BranchDepths, op_br_table, op_br, op_br_if
      <4>3. QED BY <1>2, <4>2
    <3>3. r = resolve_label_depth(labels, ref)
      BY <1>0, <2>1 DEF resolve, BranchWords, LocalWords, GlobalWords
    <3>4. ASSUME ok, NEW b \in DOMAIN <<r>>, e.note[b] \in Ids
          PROVE  Innermost(labels, e.note[b], <<r>>[b])
      <4>1. b = 1 /\ <<r>>[1] = r
        OBVIOUS
      <4>2. IsSeq(labels) /\ labels[1] = None
        BY <3>4, BodyShape
      <4>3. ref \in Ids /\ r >= 0
        BY <1>0, <1>2, <3>4, <4>1
      <4>4. Innermost(labels, ref, r)
        BY <3>3, <4>2, <4>3, LabelDepth
      <4>5. QED BY <1>2, <4>1, <4>4
    <3>5. e.bytes[1] \notin Openers \cup {op_end}
      BY <1>2, <3>1
    <3>6. ok => \A k \in 1..Len(work) : ~Awaited(work[k])
      BY <2>1 DEF Unawaited
    <3>7. QED BY <3>2, <3>4, <3>5, <3>6, BodyBranch
  <2>2. CASE word \notin BranchWords
    <3>1. word \in VariableWords
      BY <2>2, VariablesAre
    <3>2. Plain(e.bytes)
      BY <1>2, <3>1, VariablesAre DEF Plain
    <3>3. QED BY <3>2, BodyPlain
  <2>3. QED BY <2>1, <2>2
<1>7. QED BY <1>0, <1>1, <1>5, <1>6

LEMMA EmitTable ==
  ASSUME NEW ok, Body(work, labels, code, ok), CodeOK(names, code),
         ok => Unawaited, NEW refs, IsSeq(refs), Resolved(refs)
  PROVE  LET e == Instr(TableBytes(refs), refs)
         IN  Body(work, labels, Append(code, e), ok) /\ CodeOK(names, Append(code, e))
<1>1. PICK ds : ds = Depths(refs)
  OBVIOUS
<1>2. PICK e : e = Instr(<<op_br_table, Len(refs) - 1>> \o ds, refs)
  OBVIOUS
<1>3. e.bytes = <<op_br_table, Len(refs) - 1>> \o ds /\ e.note = refs
  BY <1>2, InstrParts
<1>4. Len(refs) \in Nat /\ DOMAIN refs = 1..Len(refs)
  BY Shape
<1>5. /\ IsSeq(ds) /\ Len(ds) = Len(refs)
      /\ \A i \in 1..Len(refs) : ds[i] = resolve_label_depth(labels, refs[i])
  <2>1. ds = [i \in 1..Len(refs) |-> resolve_label_depth(labels, refs[i])]
    BY <1>1, <1>4 DEF Depths
  <2>2. ds \in Seq({resolve_label_depth(labels, refs[i]) : i \in 1..Len(refs)})
    BY <1>4, <2>1
  <2>3. IsSeq(ds)
    BY <2>2 DEF IsSeq
  <2>4. DOMAIN ds = 1..Len(refs) /\ DOMAIN ds = 1..Len(ds) /\ Len(ds) \in Nat
    BY <2>1, <2>3, Shape
  <2>5. QED BY <1>4, <2>1, <2>3, <2>4
<1> DEFINE h == <<op_br_table, Len(refs) - 1>>
<1>6. IsSeq(h) /\ Len(h) = 2 /\ h[1] = op_br_table
  <2>1. h \in Seq({op_br_table, Len(refs) - 1})
    OBVIOUS
  <2>2. QED BY <2>1 DEF IsSeq
<1> HIDE DEF h
<1>7. /\ IsSeq(h \o ds) /\ Len(h \o ds) = 2 + Len(ds) /\ (h \o ds)[1] = op_br_table
      /\ \A k \in 1..Len(ds) : (h \o ds)[2 + k] = ds[k]
  <2>1. IsSeq(h) /\ IsSeq(ds)
    BY <1>5, <1>6
  <2>2. /\ IsSeq(h \o ds) /\ Len(h \o ds) = Len(h) + Len(ds)
        /\ \A k \in 1..Len(h) : (h \o ds)[k] = h[k]
        /\ \A k \in 1..Len(ds) : (h \o ds)[Len(h) + k] = ds[k]
    BY <2>1, ConcatFacts
  <2>3. QED BY <1>6, <2>2
<1>8. PICK bytes : bytes = h \o ds
  OBVIOUS
<1>9. SubSeq(bytes, 3, Len(bytes)) = ds
  <2>1. Len(ds) \in Nat /\ Len(bytes) = 2 + Len(ds) /\ IsSeq(bytes)
    BY <1>4, <1>5, <1>7, <1>8
  <2>2. 3 \in 1..Len(bytes) + 1 /\ Len(bytes) \in 3 - 1..Len(bytes)
    BY <2>1
  <2>3. /\ IsSeq(SubSeq(bytes, 3, Len(bytes)))
        /\ Len(SubSeq(bytes, 3, Len(bytes))) = Len(bytes) - 3 + 1
        /\ \A k \in 1..Len(bytes) - 3 + 1 : SubSeq(bytes, 3, Len(bytes))[k] = bytes[3 + k - 1]
    BY <2>1, <2>2, SubSeqFacts
  <2>4. Len(bytes) - 3 + 1 = Len(ds) /\ \A k \in 1..Len(ds) : 3 + k - 1 = 2 + k
    BY <2>1
  <2>5. \A k \in 1..Len(ds) : SubSeq(bytes, 3, Len(bytes))[k] = ds[k]
    BY <1>7, <1>8, <2>3, <2>4
  <2>6. QED BY <1>5, <2>3, <2>4, <2>5, Extensional
<1>10. e.bytes = bytes /\ e.bytes[1] = op_br_table
  BY <1>3, <1>7, <1>8 DEF h
<1>11. NamedWell(names, e)
  BY <1>10, NamedUnlike
<1>12. CodeOK(names, Append(code, e))
  BY <1>11, CodeOKAppend
<1>13. op_br_table \notin Openers \cup {op_end} /\ op_br_table \notin {op_br, op_br_if}
  BY DEF Openers, op_block, op_loop, op_if, op_end, op_br_table, op_br, op_br_if
<1>14. BranchDepths(e) = ds
  BY <1>9, <1>10, <1>13 DEF BranchDepths
<1>15. ASSUME ok, NEW b \in DOMAIN ds, e.note[b] \in Ids
       PROVE  Innermost(labels, e.note[b], ds[b])
  <2>1. b \in 1..Len(refs) /\ b \in DOMAIN refs
    BY <1>4, <1>5, Shape
  <2>2. IsSeq(labels) /\ labels[1] = None
    BY <1>15, BodyShape
  <2>3. Depths(refs)[b] \in 0..255
    BY <2>1 DEF Resolved
  <2>4. ds[b] \in 0..255
    BY <1>1, <2>3
  <2>5. ds[b] = resolve_label_depth(labels, refs[b])
    BY <1>5, <2>1
  <2>6. ds[b] >= 0
    BY <2>4
  <2>7. refs[b] \in Ids /\ e.note[b] = refs[b]
    BY <1>3, <1>15
  <2>8. Innermost(labels, refs[b], resolve_label_depth(labels, refs[b]))
    BY <2>2, <2>5, <2>6, <2>7, LabelDepth
  <2>9. QED BY <2>5, <2>7, <2>8
<1>16. e.bytes[1] \notin Openers \cup {op_end}
  BY <1>10, <1>13
<1>17. ok => \A k \in 1..Len(work) : ~Awaited(work[k])
  BY DEF Unawaited
<1>18. Body(work, labels, Append(code, e), ok)
  BY <1>14, <1>15, <1>16, <1>17, BodyBranch
<1>19. e = Instr(TableBytes(refs), refs)
  BY <1>1, <1>2 DEF TableBytes
<1>20. QED BY <1>12, <1>18, <1>19

-----------------------------------------------------------------------------
(***************************************************************************)
(* One step of emit_seq, emit_folded or emit_expr.                         *)
(***************************************************************************)
Emitted(ns, w, ls, c, ok) == Body(w, ls, c, ok) /\ AllOK(w, ok) /\ CodeOK(ns, c)

(* Sequences of items put together.                                        *)
LEMMA Assoc ==
  ASSUME NEW a, IsSeq(a), NEW b, IsSeq(b), NEW c, IsSeq(c)
  PROVE  (a \o b) \o c = a \o (b \o c)
<1>1. Len(a) \in Nat /\ Len(b) \in Nat /\ Len(c) \in Nat
  BY Shape
<1>2. PICK ab : ab = a \o b
  OBVIOUS
<1>3. /\ IsSeq(ab) /\ Len(ab) = Len(a) + Len(b)
      /\ \A k \in 1..Len(a) : ab[k] = a[k]
      /\ \A k \in 1..Len(b) : ab[Len(a) + k] = b[k]
  BY <1>2, ConcatFacts
<1>4. PICK bc : bc = b \o c
  OBVIOUS
<1>5. /\ IsSeq(bc) /\ Len(bc) = Len(b) + Len(c)
      /\ \A k \in 1..Len(b) : bc[k] = b[k]
      /\ \A k \in 1..Len(c) : bc[Len(b) + k] = c[k]
  BY <1>4, ConcatFacts
<1>0. IsSeq(ab) /\ IsSeq(bc)
  BY <1>3, <1>5
<1>6. /\ IsSeq(ab \o c) /\ Len(ab \o c) = Len(ab) + Len(c)
      /\ \A k \in 1..Len(ab) : (ab \o c)[k] = ab[k]
      /\ \A k \in 1..Len(c) : (ab \o c)[Len(ab) + k] = c[k]
  BY <1>0, ConcatFacts
<1>7. /\ IsSeq(a \o bc) /\ Len(a \o bc) = Len(a) + Len(bc)
      /\ \A k \in 1..Len(a) : (a \o bc)[k] = a[k]
      /\ \A k \in 1..Len(bc) : (a \o bc)[Len(a) + k] = bc[k]
  BY <1>0, ConcatFacts
<1>8. /\ Len(ab \o c) = Len(a \o bc) /\ Len(ab \o c) = Len(a) + Len(b) + Len(c)
      /\ Len(ab) = Len(a) + Len(b) /\ Len(bc) = Len(b) + Len(c)
  BY <1>1, <1>3, <1>5, <1>6, <1>7
<1>9. ASSUME NEW k \in 1..Len(ab \o c) PROVE (ab \o c)[k] = (a \o bc)[k]
  <2>1. CASE k <= Len(a)
    BY <1>1, <1>3, <1>6, <1>7, <2>1
  <2>2. CASE k > Len(a) /\ k <= Len(a) + Len(b)
    <3>1. PICK j : j = k - Len(a)
      OBVIOUS
    <3>2. j \in 1..Len(b) /\ k = Len(a) + j /\ j \in 1..Len(bc) /\ k \in 1..Len(ab)
      BY <1>1, <1>3, <1>5, <2>2, <3>1
    <3>3. ab[k] = b[j] /\ bc[j] = b[j]
      BY <1>3, <1>5, <3>2
    <3>4. QED BY <1>6, <1>7, <3>2, <3>3
  <2>3. CASE k > Len(a) + Len(b)
    <3>1. PICK j : j = k - (Len(a) + Len(b))
      OBVIOUS
    <3>2. PICK i : i = k - Len(a)
      OBVIOUS
    <3>3. /\ j \in 1..Len(c) /\ k = Len(ab) + j /\ i \in 1..Len(bc) /\ i = Len(b) + j
          /\ k = Len(a) + i
      BY <1>1, <1>8, <2>3, <3>1, <3>2
    <3>4. (ab \o c)[k] = c[j] /\ bc[i] = c[j] /\ (a \o bc)[k] = bc[i]
      BY <1>5, <1>6, <1>7, <3>3
    <3>5. QED BY <3>4
  <2>4. k \in Nat
    BY <1>1, <1>8
  <2>5. k <= Len(a) \/ (k > Len(a) /\ k <= Len(a) + Len(b)) \/ k > Len(a) + Len(b)
    BY <1>1, <2>4
  <2>6. QED BY <2>1, <2>2, <2>3, <2>5
<1>10. ab \o c = a \o bc
  BY <1>6, <1>7, <1>8, <1>9, Extensional
<1>11. QED BY <1>2, <1>4, <1>10

LEMMA OneOf ==
  /\ \A x : IsSeq(<<x>>) /\ Len(<<x>>) = 1 /\ <<x>>[1] = x
  /\ \A x, y : IsSeq(<<x, y>>) /\ Len(<<x, y>>) = 2 /\ <<x, y>>[1] = x /\ <<x, y>>[2] = y
<1>1. ASSUME NEW x PROVE IsSeq(<<x>>)
  <2>1. <<x>> \in Seq({x})
    OBVIOUS
  <2>2. QED BY <2>1 DEF IsSeq
<1>2. ASSUME NEW x, NEW y PROVE IsSeq(<<x, y>>)
  <2>1. <<x, y>> \in Seq({x, y})
    OBVIOUS
  <2>2. QED BY <2>1 DEF IsSeq
<1>3. QED BY <1>1, <1>2

LEMMA TwoThen ==
  ASSUME NEW x, NEW y, NEW w, IsSeq(w)
  PROVE  <<x, y>> \o w = <<x>> \o (<<y>> \o w)
<1>1. IsSeq(<<x>>) /\ IsSeq(<<y>>)
  BY OneOf
<1>2. (<<x>> \o <<y>>) \o w = <<x>> \o (<<y>> \o w)
  BY <1>1, Assoc
<1>3. <<x>> \o <<y>> = <<x, y>>
  <2>1. PICK p : p = <<x>>
    OBVIOUS
  <2>2. PICK q : q = <<y>>
    OBVIOUS
  <2>3. PICK t : t = <<x, y>>
    OBVIOUS
  <2>4. IsSeq(p \o q) /\ Len(p \o q) = 2 /\ (p \o q)[1] = x /\ (p \o q)[2] = y
    <3>1. IsSeq(p) /\ Len(p) = 1 /\ p[1] = x
      BY <2>1, OneOf
    <3>2. IsSeq(q) /\ Len(q) = 1 /\ q[1] = y
      BY <2>2, OneOf
    <3>3. /\ IsSeq(p \o q) /\ Len(p \o q) = Len(p) + Len(q)
          /\ \A k \in 1..Len(p) : (p \o q)[k] = p[k]
          /\ \A k \in 1..Len(q) : (p \o q)[Len(p) + k] = q[k]
      <4>1. IsSeq(p) /\ IsSeq(q)
        BY <3>1, <3>2
      <4>2. QED BY <4>1, ConcatFacts
    <3>4. QED BY <3>1, <3>2, <3>3
  <2>5. IsSeq(t) /\ Len(t) = 2 /\ t[1] = x /\ t[2] = y
    BY <2>3, OneOf
  <2>6. \A k \in 1..2 : k = 1 \/ k = 2
    OBVIOUS
  <2>7. \A k \in 1..Len(p \o q) : (p \o q)[k] = t[k]
    BY <2>4, <2>5, <2>6
  <2>8. p \o q = t
    BY <2>4, <2>5, <2>7, Extensional
  <2>9. QED BY <2>1, <2>2, <2>3, <2>8
<1>4. QED BY <1>2, <1>3

LEMMA NoneThen == \A w : IsSeq(w) => <<>> \o w = w
<1> SUFFICES ASSUME NEW w, IsSeq(w) PROVE <<>> \o w = w
  OBVIOUS
<1>1. PICK S : w \in Seq(S)
  BY DEF IsSeq
<1>2. QED BY <1>1

(* What a step puts on top, or leaves of the others.                       *)
LEMMA Popped ==
  ASSUME NEW ns, NEW w, NEW ls, NEW c, NEW ok, Emitted(ns, w, ls, c, ok), w # <<>>,
         ~Closes(w[1]), ~Awaited(w[1])
  PROVE  Emitted(ns, Tail(w), ls, c, ok)
<1>1. Len(w) > 0 /\ AllOK(Tail(w), ok)
  BY TailOK DEF Emitted
<1>2. Body(Tail(w), ls, c, ok)
  BY <1>1, BodyPop DEF Emitted
<1>3. QED BY <1>1, <1>2 DEF Emitted

LEMMA Pushed ==
  ASSUME NEW ns, NEW w, NEW ls, NEW c, NEW ok, Emitted(ns, w, ls, c, ok),
         NEW s, AllOK(s, ok), \A k \in 1..Len(s) : Neutral(s[k])
  PROVE  Emitted(ns, s \o w, ls, c, ok)
<1>1. IsSeq(s)
  BY DEF AllOK
<1>2. Body(s \o w, ls, c, ok)
  BY <1>1, BodyPush DEF Emitted
<1>3. AllOK(s \o w, ok)
  BY ConcatOK DEF Emitted
<1>4. QED BY <1>2, <1>3 DEF Emitted

LEMMA PushedOne ==
  ASSUME NEW ns, NEW w, NEW ls, NEW c, NEW ok, Emitted(ns, w, ls, c, ok),
         NEW x, ItemOK(x, ok), Neutral(x)
  PROVE  Emitted(ns, <<x>> \o w, ls, c, ok)
<1>1. AllOK(<<x>>, ok)
  BY FewItems
<1>2. \A k \in 1..Len(<<x>>) : Neutral(<<x>>[k])
  OBVIOUS
<1>3. QED BY <1>1, <1>2, Pushed

LEMMA Replaced ==
  ASSUME NEW ns, NEW w, NEW ls, NEW c, NEW ok, Emitted(ns, w, ls, c, ok), w # <<>>,
         w[1].do = "seq", NEW x, ItemOK(x, ok), x.do = "seq", Closes(x) <=> Closes(w[1]),
         x.role = "function" => w[1].role = "function"
  PROVE  Emitted(ns, <<x>> \o Tail(w), ls, c, ok)
<1>1. Len(w) > 0 /\ AllOK(Tail(w), ok)
  BY TailOK DEF Emitted
<1>2. Body(<<x>> \o Tail(w), ls, c, ok)
  BY <1>1, BodyReplace DEF Emitted
<1>3. AllOK(<<x>>, ok)
  BY FewItems
<1>4. AllOK(<<x>> \o Tail(w), ok)
  BY <1>1, <1>3, ConcatOK
<1>5. QED BY <1>2, <1>4 DEF Emitted

LEMMA Advanced ==
  ASSUME NEW ns, NEW w, NEW ls, NEW c, NEW ok, Emitted(ns, w, ls, c, ok), w # <<>>,
         w[1].do = "seq", NEW j \in Nat, j >= 1
  PROVE  Emitted(ns, <<[w[1] EXCEPT !.i = j]>> \o Tail(w), ls, c, ok)
<1>1. ItemOK(w[1], ok)
  BY TailOK DEF Emitted
<1>2. PICK x : x = [w[1] EXCEPT !.i = j]
  OBVIOUS
<1>3. /\ ItemOK([w[1] EXCEPT !.i = j], ok) /\ [w[1] EXCEPT !.i = j].do = w[1].do
      /\ [w[1] EXCEPT !.i = j].role = w[1].role
  <2>1. PICK y : y = w[1]
    OBVIOUS
  <2>2. ItemOK(y, ok) /\ y.do = "seq"
    BY <1>1, <2>1
  <2>3. /\ ItemOK([y EXCEPT !.i = j], ok) /\ [y EXCEPT !.i = j].do = y.do
        /\ [y EXCEPT !.i = j].role = y.role
    BY <2>2, FromAnother, ZenonT(30)
  <2>4. QED BY <2>1, <2>3
<1>4. ItemOK(x, ok) /\ x.do = "seq" /\ x.role = w[1].role
  BY <1>2, <1>3
<1>5. Closes(x) <=> Closes(w[1])
  BY <1>4 DEF Closes
<1>6. Emitted(ns, <<x>> \o Tail(w), ls, c, ok)
  BY <1>4, <1>5, Replaced
<1>7. QED BY <1>2, <1>6

LEMMA NeutralItems ==
  /\ \A sx : Neutral(Expr(sx))
  /\ \A b : Neutral(Put(b))
  /\ \A word, ref : Neutral(Refer(word, ref))
  /\ \A refs : Neutral(Table(refs))
  /\ \A elems, i, n : Neutral(Elements(elems, i, n, "folded"))
<1>1. \A sx : Expr(sx).do = "expr"
  BY DEF Expr
<1>2. \A b : Put(b).do = "put" /\ Put(b).note = <<>>
  BY DEF Put
<1>3. \A word, ref : Refer(word, ref).do = "refer"
  BY DEF Refer
<1>4. \A refs : Table(refs).do = "table"
  BY DEF Table
<1>5. \A elems, i, n : LET x == Elements(elems, i, n, "folded") IN x.do = "seq" /\ x.role = "folded"
  BY DEF Elements
<1>6. QED BY <1>1, <1>2, <1>3, <1>4, <1>5 DEF Neutral, Closes, Awaited, FlatRoles

-----------------------------------------------------------------------------
(***************************************************************************)
(* The steps, one by one: the body goes on as it was, is refused, or is    *)
(* done.                                                                   *)
(***************************************************************************)
Good(ok) == outcome = "emitting" /\ Emitted(names, work, labels, code, ok)
Goes(ok) == Good(ok)' /\ names' = names
Refuses == outcome' = "error" /\ UNCHANGED <<names, labels, work, code>>
BodyEnds(ok) ==
  /\ outcome' = "ok" /\ UNCHANGED <<names, code>>
  /\ ok => labels' = <<None>>
Kept(ok) == Goes(ok) \/ Refuses \/ BodyEnds(ok)

LEMMA TopIs ==
  ASSUME NEW ok, Good(ok), work # <<>>
  PROVE  /\ Top = work[1] /\ ItemOK(Top, ok) /\ Len(work) > 0
         /\ IsSeq(work) /\ IsSeq(Rest) /\ work = <<Top>> \o Rest
         /\ AllOK(Rest, ok)
<1>1. Emitted(names, work, labels, code, ok)
  BY DEF Good
<1>2. AllOK(work, ok) /\ IsSeq(work)
  BY <1>1 DEF Emitted, AllOK
<1>3. Len(work) > 0 /\ Head(work) = work[1] /\ ItemOK(work[1], ok) /\ AllOK(Tail(work), ok)
  BY <1>2, TailOK
<1>4. IsSeq(Tail(work)) /\ work = <<work[1]>> \o Tail(work)
  BY <1>2, <1>3, TailFacts
<1>5. QED BY <1>2, <1>3, <1>4 DEF Top, Rest

(* Where an emit_seq is.                                                   *)
LEMMA AtSeq ==
  ASSUME NEW ok, Good(ok), Doing("seq")
  PROVE  /\ work # <<>> /\ Top.do = "seq" /\ work[1].do = "seq"
         /\ Top.elems \in Seq(Forms) /\ Top.i \in Nat /\ Top.i >= 1
         /\ Top.n \in Nat /\ Top.n <= Len(Top.elems)
         /\ Top.i <= Top.n => Elem \in Forms
<1>1. work # <<>> /\ Top.do = "seq"
  BY DEF Doing, Top
<1>2. Top = work[1] /\ ItemOK(Top, ok)
  BY <1>1, TopIs
<1>3. /\ Top.elems \in Seq(Forms) /\ Top.i \in Nat /\ Top.i >= 1
      /\ Top.n \in Nat /\ Top.n <= Len(Top.elems)
  BY <1>1, <1>2, ItemIs
<1>4. Top.i <= Top.n => Elem \in Forms
  BY <1>3 DEF Elem
<1>5. QED BY <1>1, <1>2, <1>3, <1>4

(* What is written, if anything, and what is then left to do.              *)
LEMMA GoesOn ==
  ASSUME NEW ok, Good(ok), NEW ls, NEW c, NEW w, Emitted(names, w, ls, c, ok),
         names' = names, outcome' = outcome, work' = w, labels' = ls, code' = c
  PROVE  Goes(ok)
BY DEF Goes, Good

LEMMA PlainStep ==
  ASSUME NEW ok, Good(ok), Doing("seq"), NEW b, ok => Plain(b), NEW j \in Nat, j >= 1,
         Emit(b, <<>>), GoOn(<<From(j)>>), UNCHANGED labels
  PROVE  Goes(ok)
<1>1. PICK c : c = Append(code, Instr(b, <<>>))
  OBVIOUS
<1>2. Body(work, labels, c, ok) /\ CodeOK(names, c)
  BY <1>1, EmitPlain DEF Good, Emitted
<1>3. Emitted(names, work, labels, c, ok)
  BY <1>2 DEF Good, Emitted
<1>4. work # <<>> /\ work[1].do = "seq" /\ Top = work[1]
  BY AtSeq, TopIs
<1>5. PICK w : w = <<[work[1] EXCEPT !.i = j]>> \o Tail(work)
  OBVIOUS
<1>6. Emitted(names, w, labels, c, ok)
  BY <1>3, <1>4, <1>5, Advanced
<1>7. work' = w /\ code' = c /\ labels' = labels /\ names' = names /\ outcome' = outcome
  BY <1>1, <1>4, <1>5 DEF Emit, GoOn, From, Rest
<1>8. QED BY <1>6, <1>7, GoesOn

LEMMA FunctionEndsKeeps ==
  ASSUME NEW ok, Good(ok), FunctionEnds
  PROVE  Kept(ok)
<1>1. Doing("seq") /\ Top.role = "function"
  BY DEF FunctionEnds, SeqReturns
<1>2. Len(work) > 0 /\ Top = work[1] /\ work[1].do = "seq"
  BY <1>1, AtSeq, TopIs
<1>3. ok => labels = <<None>>
  BY <1>1, <1>2, BodyDone DEF Good, Emitted
<1>4. QED BY <1>3 DEF FunctionEnds, Kept, BodyEnds

LEMMA FoldedEndsKeeps ==
  ASSUME NEW ok, Good(ok), FoldedEnds
  PROVE  Goes(ok)
<1>1. Doing("seq") /\ Top.role = "folded" /\ GoOn(<<>>) /\ UNCHANGED <<labels, code>>
  BY DEF FoldedEnds, SeqReturns
<1>2. work # <<>> /\ work[1].do = "seq" /\ work[1].role = "folded" /\ IsSeq(Rest)
  BY <1>1, AtSeq, TopIs
<1>3. ~Closes(work[1]) /\ ~Awaited(work[1])
  BY <1>2 DEF Closes, Awaited, FlatRoles
<1>4. Emitted(names, Tail(work), labels, code, ok)
  BY <1>2, <1>3, Popped DEF Good
<1>5. work' = Tail(work)
  BY <1>1, <1>2, NoneThen DEF GoOn, Rest
<1>6. QED BY <1>1, <1>4, <1>5, GoesOn DEF GoOn

LEMMA BeyondIs ==
  ASSUME NEW ok, Good(ok), Doing("seq"), NEW how
  PROVE  Beyond(how) \in Nat /\ Beyond(how) >= 1
BY AtSeq DEF Beyond

LEMMA FlatElseKeeps ==
  ASSUME NEW ok, Good(ok), FlatElse
  PROVE  Goes(ok)
<1>1. /\ Doing("seq") /\ Top.role = "flatIf" /\ Emit(<<op_else>>, <<>>) /\ UNCHANGED labels
      /\ GoOn(<<[From(Beyond("else")) EXCEPT !.role = "flat"]>>)
  BY DEF FlatElse, SeqReturns, AtWord
<1>2. PICK j : j = Beyond("else")
  OBVIOUS
<1>3. j \in Nat /\ j >= 1
  BY <1>1, <1>2, BeyondIs
<1>4. work # <<>> /\ work[1].do = "seq" /\ Top = work[1] /\ ItemOK(Top, ok)
  BY <1>1, AtSeq, TopIs
<1>5. PICK x : x = [[Top EXCEPT !.i = j] EXCEPT !.role = "flat"]
  OBVIOUS
<1>6. ItemOK(x, ok) /\ x.do = "seq" /\ x.role = "flat"
  <2>1. PICK y : y = Top
    OBVIOUS
  <2>2. ItemOK(y, ok) /\ y.do = "seq"
    BY <1>4, <2>1
  <2>3. \A role : ItemOK([[y EXCEPT !.i = j] EXCEPT !.role = role], ok)
    BY <1>3, <2>2, FromAnother
  <2>4. PICK elems, i, n, role : y = Elements(elems, i, n, role)
    BY <2>2, ItemIs
  <2>5. x = Elements(elems, j, n, "flat")
    <3>1. [y EXCEPT !.i = j] = Elements(elems, j, n, role)
      BY <2>4 DEF Elements
    <3>2. [Elements(elems, j, n, role) EXCEPT !.role = "flat"] = Elements(elems, j, n, "flat")
      BY DEF Elements
    <3>3. QED BY <1>5, <2>1, <3>1, <3>2
  <2>6. x.do = "seq" /\ x.role = "flat"
    BY <2>5 DEF Elements
  <2>7. QED BY <1>5, <2>1, <2>3, <2>6
<1>7. Closes(x) <=> Closes(work[1])
  BY <1>1, <1>4, <1>6 DEF Closes, FlatRoles
<1>8. Plain(<<op_else>>)
  BY DEF Plain, Openers, op_else, op_end, op_br, op_br_if, op_br_table, op_block, op_loop, op_if
<1>9. PICK c : c = Append(code, Instr(<<op_else>>, <<>>))
  OBVIOUS
<1>10. Body(work, labels, c, ok) /\ CodeOK(names, c)
  BY <1>8, <1>9, EmitPlain DEF Good, Emitted
<1>11. Emitted(names, work, labels, c, ok)
  BY <1>10 DEF Good, Emitted
<1>12. x.role # "function"
  BY <1>6
<1>13. Emitted(names, <<x>> \o Tail(work), labels, c, ok)
  BY <1>4, <1>6, <1>7, <1>11, <1>12, Replaced
<1>14. work' = <<x>> \o Tail(work) /\ code' = c
  BY <1>1, <1>2, <1>5, <1>9 DEF Emit, GoOn, From, Rest
<1>15. QED BY <1>1, <1>13, <1>14, GoesOn DEF GoOn

LEMMA EndsInstr ==
  ASSUME NEW ns, NEW c, CodeOK(ns, c), NEW e, e = Instr(<<op_end>>, <<>>)
  PROVE  e.bytes[1] = op_end /\ CodeOK(ns, Append(c, e))
<1>1. e.bytes = <<op_end>> /\ e.note = <<>>
  BY InstrParts
<1>2. NamedWell(ns, e)
  BY <1>1, NamedUnlike
<1>3. QED BY <1>1, <1>2, CodeOKAppend

LEMMA FlatEndsKeeps ==
  ASSUME NEW ok, Good(ok), NEW how, FlatEnds(how)
  PROVE  Goes(ok)
<1>1. /\ Doing("seq") /\ Top.role \in {"flat", "flatIf"} /\ Emit(<<op_end>>, <<>>)
      /\ labels' = Front(labels) /\ UNCHANGED <<names, outcome>>
      /\ work' = <<[Head(Rest) EXCEPT !.i = Beyond(how)]>> \o Tail(Rest)
  BY DEF FlatEnds, SeqReturns, AtWord
<1>2. PICK j : j = Beyond(how)
  OBVIOUS
<1>3. j \in Nat /\ j >= 1
  BY <1>1, <1>2, BeyondIs
<1>4. /\ work # <<>> /\ work[1].do = "seq" /\ Top = work[1] /\ Len(work) > 0 /\ IsSeq(work)
      /\ AllOK(Rest, ok)
  BY <1>1, AtSeq, TopIs
<1>5. Closes(work[1])
  BY <1>1, <1>4 DEF Closes, FlatRoles
<1>6. PICK e : e = Instr(<<op_end>>, <<>>)
  OBVIOUS
<1>7. e.bytes[1] = op_end /\ CodeOK(names, Append(code, e))
  BY <1>6, EndsInstr DEF Good, Emitted
<1>8. /\ Body(Tail(work), Front(labels), Append(code, e), ok)
      /\ Len(work) > 1 /\ work[2].do = "seq"
  BY <1>4, <1>5, <1>7, BodyEnd DEF Good, Emitted
<1>9. PICK w : w = Tail(work)
  OBVIOUS
<1>10. /\ IsSeq(w) /\ Len(w) = Len(work) - 1 /\ w[1] = work[2] /\ Len(work) \in Nat
  <2>1. /\ IsSeq(Tail(work)) /\ Len(Tail(work)) = Len(work) - 1
        /\ \A k \in 1..Len(work) - 1 : Tail(work)[k] = work[k + 1]
    BY <1>4, TailFacts
  <2>2. Len(work) \in Nat
    BY <1>4, Shape
  <2>3. 1 \in 1..Len(work) - 1 /\ 1 + 1 = 2
    BY <1>8, <2>2
  <2>4. QED BY <1>9, <2>1, <2>2, <2>3
<1>11. w # <<>> /\ w[1].do = "seq"
  BY <1>8, <1>10
<1>12. Emitted(names, w, Front(labels), Append(code, e), ok)
  BY <1>4, <1>7, <1>8, <1>9 DEF Emitted, Rest
<1>13. Emitted(names, <<[w[1] EXCEPT !.i = j]>> \o Tail(w), Front(labels), Append(code, e), ok)
  BY <1>3, <1>11, <1>12, Advanced
<1>14. Head(Rest) = w[1] /\ Rest = w
  <2>1. Len(w) > 0
    BY <1>8, <1>10
  <2>2. Head(w) = w[1]
    BY <1>10, <2>1, TailFacts
  <2>3. QED BY <1>9, <2>2 DEF Rest
<1>15. work' = <<[w[1] EXCEPT !.i = j]>> \o Tail(w)
  BY <1>1, <1>2, <1>14
<1>16. code' = Append(code, e)
  BY <1>1, <1>6 DEF Emit
<1>17. QED BY <1>1, <1>13, <1>15, <1>16, GoesOn

LEMMA StrayEndKeeps ==
  ASSUME NEW ok, NEW how, StrayEnd(how)
  PROVE  Kept(ok)
BY DEF StrayEnd, Fail, Kept, Refuses

LEMMA FlatListKeeps ==
  ASSUME NEW ok, Good(ok), FlatList
  PROVE  Goes(ok)
<1>1. /\ Doing("seq") /\ Top.i <= Top.n /\ GoOn(<<Expr(Elem), From(Top.i + 1)>>)
      /\ UNCHANGED <<labels, code>>
  BY DEF FlatList
<1>2. /\ work # <<>> /\ work[1].do = "seq" /\ Top = work[1] /\ IsSeq(Rest)
      /\ Elem \in Forms /\ Top.i \in Nat
  BY <1>1, AtSeq, TopIs
<1>3. PICK j : j = Top.i + 1
  OBVIOUS
<1>4. j \in Nat /\ j >= 1
  BY <1>2, <1>3
<1>5. PICK w : w = <<[work[1] EXCEPT !.i = j]>> \o Tail(work)
  OBVIOUS
<1>6. Emitted(names, w, labels, code, ok)
  BY <1>2, <1>4, <1>5, Advanced DEF Good
<1>7. PICK x : x = Expr(Elem)
  OBVIOUS
<1>8. ItemOK(x, ok) /\ Neutral(x)
  BY <1>2, <1>7, Items, NeutralItems
<1>9. Emitted(names, <<x>> \o w, labels, code, ok)
  BY <1>6, <1>8, PushedOne
<1>10. <<x, [work[1] EXCEPT !.i = j]>> \o Rest = <<x>> \o (<<[work[1] EXCEPT !.i = j]>> \o Rest)
  BY <1>2, TwoThen
<1>11. work' = <<x>> \o w
  BY <1>1, <1>2, <1>3, <1>5, <1>7, <1>10 DEF GoOn, From, Rest
<1>12. QED BY <1>1, <1>9, <1>11, GoesOn DEF GoOn

-----------------------------------------------------------------------------
(* The elements an instruction takes.                                      *)
LEMMA RunIs ==
  ASSUME NEW elems \in Seq(Forms), NEW i \in Nat, NEW n \in Nat, i >= 1, i <= n + 1,
         n <= Len(elems), NEW stops, stops \subseteq i..n,
         NEW m, m = IF stops = {} THEN n ELSE Min(stops) - 1
  PROVE  SubSeq(elems, i, m) \in Seq(Forms) /\ Len(SubSeq(elems, i, m)) \in 0..n + 1 - i
<1>3. m \in i - 1..n
  <2>1. CASE stops = {}
    BY <2>1
  <2>2. CASE stops # {}
    <3>1. stops \subseteq 1..n
      OBVIOUS
    <3>2. Min(stops) \in stops
      BY <2>2, <3>1, LeastFrom, Zenon
    <3>3. Min(stops) \in i..n
      BY <3>2
    <3>4. m = Min(stops) - 1
      BY <2>2
    <3>5. QED BY <3>3, <3>4
  <2>3. QED BY <2>1, <2>2
<1>4. SubSeq(elems, i, m) \in Seq(Forms)
  BY <1>3
<1>5. Len(SubSeq(elems, i, m)) \in 0..n + 1 - i
  <2>1. IsSeq(elems) /\ Len(elems) \in Nat
    BY DEF IsSeq
  <2>2. i \in 1..Len(elems) + 1 /\ m \in i - 1..Len(elems)
    BY <1>3, <2>1
  <2>3. Len(SubSeq(elems, i, m)) = m - i + 1
    BY <2>1, <2>2, SubSeqFacts
  <2>4. QED BY <1>3, <2>3
<1>6. QED BY <1>4, <1>5

LEMMA MemArgRunIs ==
  ASSUME NEW elems \in Seq(Forms), NEW i \in Nat, NEW n \in Nat, i >= 1, i <= n + 1,
         n <= Len(elems)
  PROVE  MemArgRun(elems, i, n) \in Seq(Forms) /\ Len(MemArgRun(elems, i, n)) \in 0..n + 1 - i
<1>1. PICK stops : stops = {j \in i..n : ~(IsAtom(elems[j]) /\ elems[j].atom \in DOMAIN MemArgs)}
  OBVIOUS
<1>2. PICK m : m = IF stops = {} THEN n ELSE Min(stops) - 1
  OBVIOUS
<1>3. MemArgRun(elems, i, n) = SubSeq(elems, i, m)
  BY <1>1, <1>2 DEF MemArgRun, Run
<1>4. stops \subseteq i..n
  BY <1>1
<1>5. QED BY <1>2, <1>3, <1>4, RunIs

LEMMA LabelRunIs ==
  ASSUME NEW elems \in Seq(Forms), NEW i \in Nat, NEW n \in Nat, i >= 1, i <= n + 1,
         n <= Len(elems)
  PROVE  LabelRun(elems, i, n) \in Seq(Forms) /\ Len(LabelRun(elems, i, n)) \in 0..n + 1 - i
<1>1. PICK stops : stops = {j \in i..n : ~(IsAtom(elems[j]) /\ elems[j].atom \in Ids)}
  OBVIOUS
<1>2. PICK m : m = IF stops = {} THEN n ELSE Min(stops) - 1
  OBVIOUS
<1>3. LabelRun(elems, i, n) = SubSeq(elems, i, m)
  BY <1>1, <1>2 DEF LabelRun, Run
<1>4. stops \subseteq i..n
  BY <1>1
<1>5. QED BY <1>2, <1>3, <1>4, RunIs

LEMMA TextsIs ==
  ASSUME NEW s \in Seq(Forms)
  PROVE  IsSeq(Texts(s)) /\ Len(Texts(s)) = Len(s)
<1>1. Texts(s) = [i \in 1..Len(s) |-> s[i].atom]
  BY DEF Texts
<1>2. Texts(s) \in Seq({s[i].atom : i \in 1..Len(s)})
  BY <1>1
<1>3. IsSeq(Texts(s))
  BY <1>2 DEF IsSeq
<1>4. DOMAIN Texts(s) = 1..Len(s) /\ DOMAIN Texts(s) = 1..Len(Texts(s)) /\ Len(Texts(s)) \in Nat
  BY <1>1, <1>3, Shape
<1>5. QED BY <1>3, <1>4

LEMMA NothingAwaited ==
  ASSUME WellWritten, Branching, IsSeq(work)
  PROVE  Unawaited
<1>1. DOMAIN work = 1..Len(work)
  BY Shape
<1>2. ~InCondition
  BY DEF WellWritten
<1>3. QED BY <1>1, <1>2 DEF InCondition, Unawaited, Awaited

-----------------------------------------------------------------------------
(* The instructions of emit_seq.                                           *)
LEMMA FlatOpenKeeps ==
  ASSUME NEW ok, Good(ok), FlatOpen
  PROVE  Goes(ok)
<1>1. PICK l : l = LabelAt(Top.elems, Top.i + 1, Top.n)
  OBVIOUS
<1>2. PICK inside : inside = AfterLabel(Top.elems, Top.i + 1, Top.n)
  OBVIOUS
<1>3. PICK role : role = IF Elem.atom = "if" THEN "flatIf" ELSE "flat"
  OBVIOUS
<1>4. /\ Doing("seq") /\ Elem.atom \in Blocks \cup {"if"} /\ Top.i <= Top.n
      /\ labels' = Append(labels, l) /\ Emit(<<Opcode[Elem.atom], VoidType>>, <<l>>)
      /\ GoOn(<<Elements(Top.elems, inside, Top.n, role), Top>>)
  BY <1>1, <1>2, <1>3 DEF FlatOpen, AtWord
<1>5. /\ work # <<>> /\ work[1].do = "seq" /\ Top = work[1] /\ IsSeq(Rest) /\ IsSeq(work)
      /\ Len(work) > 0 /\ work = <<Top>> \o Rest
      /\ Top.elems \in Seq(Forms) /\ Top.i \in Nat /\ Top.n \in Nat /\ Top.n <= Len(Top.elems)
  BY <1>4, AtSeq, TopIs
<1>6. inside = Top.i + 1 \/ inside = Top.i + 1 + 1
  <2>1. AfterLabel(Top.elems, Top.i + 1, Top.n) = Top.i + 1
        \/ AfterLabel(Top.elems, Top.i + 1, Top.n) = Top.i + 1 + 1
    BY DEF AfterLabel
  <2>2. QED BY <1>2, <2>1
<1>7. inside \in Nat /\ inside >= 1
  BY <1>5, <1>6
<1>8. PICK x : x = Elements(Top.elems, inside, Top.n, role)
  OBVIOUS
<1>9. ItemOK(x, ok)
  BY <1>5, <1>7, <1>8, Items
<1>10. x.do = "seq" /\ x.role \in {"flat", "flatIf"}
  BY <1>3, <1>8 DEF Elements
<1>11. Closes(x) /\ ~Awaited(x) /\ x.role # "function"
  BY <1>10 DEF Closes, Awaited, FlatRoles
<1>12. PICK e : e = Instr(<<Opcode[Elem.atom], VoidType>>, <<l>>)
  OBVIOUS
<1>13. e.bytes[1] = Opcode[Elem.atom] /\ e.note = <<l>>
  BY <1>12, InstrParts
<1>14. e.bytes[1] \in Openers
  <2>1. Elem.atom \in DOMAIN Opcode
    BY <1>4, Words
  <2>2. QED BY <1>4, <1>13, <2>1, OpcodesApart
<1>15. Body(<<x>> \o work, Append(labels, l), Append(code, e), ok)
  BY <1>5, <1>10, <1>11, <1>13, <1>14, BodyOpen DEF Good, Emitted
<1>16. CodeOK(names, Append(code, e))
  <2>1. NamedWell(names, e)
    BY <1>14, NamedUnlike
  <2>2. QED BY <2>1, CodeOKAppend DEF Good, Emitted
<1>17. AllOK(<<x>> \o work, ok)
  <2>1. AllOK(<<x>>, ok) /\ AllOK(work, ok)
    BY <1>9, FewItems DEF Good, Emitted
  <2>2. QED BY <2>1, ConcatOK
<1>18. Emitted(names, <<x>> \o work, Append(labels, l), Append(code, e), ok)
  BY <1>15, <1>16, <1>17 DEF Emitted
<1>19. work' = <<x>> \o work
  <2>1. <<x, Top>> \o Rest = <<x>> \o (<<Top>> \o Rest)
    BY <1>5, TwoThen
  <2>2. QED BY <1>4, <1>5, <1>8, <2>1 DEF GoOn
<1>20. code' = Append(code, e)
  BY <1>4, <1>12 DEF Emit
<1>21. QED BY <1>4, <1>18, <1>19, <1>20, GoesOn DEF GoOn

LEMMA FlatConstKeeps ==
  ASSUME NEW ok, Good(ok), FlatConst
  PROVE  Kept(ok)
<1>1. CASE Fail
  BY <1>1 DEF Fail, Kept, Refuses
<1>2. CASE ~Fail
  <2>1. PICK b : b = ConstBytes(Elem.atom, Literal(Top.elems[Top.i + 1]))
    OBVIOUS
  <2>2. /\ Doing("seq") /\ Elem.atom \in Constants /\ Emit(b, <<>>)
        /\ GoOn(<<From(Top.i + 2)>>) /\ UNCHANGED labels
    BY <1>2, <2>1 DEF FlatConst, AtWord
  <2>3. Plain(b)
    BY <2>1, <2>2, Numbers, ConstPlain
  <2>4. PICK j : j = Top.i + 2
    OBVIOUS
  <2>5. j \in Nat /\ j >= 1
    BY <2>2, <2>4, AtSeq
  <2>6. GoOn(<<From(j)>>)
    BY <2>2, <2>4
  <2>7. Goes(ok)
    BY <2>2, <2>3, <2>5, <2>6, PlainStep
  <2>8. QED BY <2>7 DEF Kept
<1>3. QED BY <1>1, <1>2

LEMMA FlatIndexedKeeps ==
  ASSUME NEW ok, ok => WellWritten, Good(ok), FlatIndexed
  PROVE  Kept(ok)
<1>1. CASE Fail
  BY <1>1 DEF Fail, Kept, Refuses
<1>2. CASE ~Fail
  <2>1. PICK ref : ref = Top.elems[Top.i + 1].atom
    OBVIOUS
  <2>2. PICK word : word = Elem.atom
    OBVIOUS
  <2>3. /\ AtWord(IndexWords) /\ Doing("seq") /\ word \in IndexWords /\ resolve(word, ref) >= 0
        /\ Emit(<<Opcode[word], resolve(word, ref)>>, <<ref>>)
        /\ GoOn(<<From(Top.i + 2)>>) /\ UNCHANGED labels
    BY <1>2, <2>1, <2>2 DEF FlatIndexed, AtWord
  <2>4. /\ work # <<>> /\ work[1].do = "seq" /\ Top = work[1] /\ IsSeq(work) /\ Top.i \in Nat
    BY <2>3, AtSeq, TopIs
  <2>5. ok /\ word \in BranchWords => Unawaited
    <3>1. word \in BranchWords => Branching
      BY <2>2, <2>3 DEF AtWord, Branching
    <3>2. QED BY <2>4, <3>1, NothingAwaited
  <2>6. PICK e : e = Instr(<<Opcode[word], resolve(word, ref)>>, <<ref>>)
    OBVIOUS
  <2>7. Body(work, labels, Append(code, e), ok) /\ CodeOK(names, Append(code, e))
    BY <2>3, <2>5, <2>6, EmitRefer DEF Good, Emitted
  <2>8. Emitted(names, work, labels, Append(code, e), ok)
    BY <2>7 DEF Good, Emitted
  <2>9. PICK j : j = Top.i + 2
    OBVIOUS
  <2>10. j \in Nat /\ j >= 1
    BY <2>4, <2>9
  <2>11. Emitted(names, <<[work[1] EXCEPT !.i = j]>> \o Tail(work), labels, Append(code, e), ok)
    BY <2>4, <2>8, <2>10, Advanced
  <2>12. /\ work' = <<[work[1] EXCEPT !.i = j]>> \o Tail(work) /\ code' = Append(code, e)
         /\ UNCHANGED <<names, outcome, labels>>
    BY <2>3, <2>4, <2>6, <2>9 DEF GoOn, From, Rest, Emit
  <2>13. Goes(ok)
    BY <2>11, <2>12, GoesOn
  <2>14. QED BY <2>13 DEF Kept
<1>3. QED BY <1>1, <1>2

LEMMA FlatCallIndirectKeeps ==
  ASSUME NEW ok, Good(ok), FlatCallIndirect
  PROVE  Kept(ok)
<1>1. CASE Fail
  BY <1>1 DEF Fail, Kept, Refuses
<1>2. CASE ~Fail
  <2>1. PICK typed : typed = (Top.i < Top.n /\ IsForm(Top.elems[Top.i + 1], "type"))
    OBVIOUS
  <2>2. PICK type : type = IF typed
                           THEN resolve_name(names.types, Top.elems[Top.i + 1].kids[2].atom)
                           ELSE 0
    OBVIOUS
  <2>3. PICK b : b = <<op_call_indirect, type, 0>>
    OBVIOUS
  <2>4. PICK j : j = IF typed THEN Top.i + 2 ELSE Top.i + 1
    OBVIOUS
  <2>5. /\ Doing("seq") /\ Emit(b, <<>>) /\ GoOn(<<From(j)>>) /\ UNCHANGED labels
    BY <1>2, <2>1, <2>2, <2>3, <2>4 DEF FlatCallIndirect, AtWord
  <2>6. Plain(b)
    BY <2>3 DEF Plain, Openers, op_call_indirect, op_end, op_br, op_br_if, op_br_table,
                op_block, op_loop, op_if
  <2>7. j \in Nat /\ j >= 1
    BY <2>4, <2>5, AtSeq
  <2>8. Goes(ok)
    BY <2>5, <2>6, <2>7, PlainStep
  <2>9. QED BY <2>8 DEF Kept
<1>3. QED BY <1>1, <1>2

LEMMA FlatTableKeeps ==
  ASSUME NEW ok, ok => WellWritten, Good(ok), FlatTable
  PROVE  Kept(ok)
<1>1. CASE Fail
  BY <1>1 DEF Fail, Kept, Refuses
<1>2. CASE ~Fail
  <2>1. PICK refs : refs = Texts(LabelRun(Top.elems, Top.i + 1, Top.n))
    OBVIOUS
  <2>2. /\ AtWord({"br_table"}) /\ Doing("seq") /\ Top.i <= Top.n
        /\ Resolved(refs) /\ Emit(TableBytes(refs), refs)
        /\ GoOn(<<From(Top.i + 1 + Len(refs))>>) /\ UNCHANGED labels
    BY <1>2, <2>1 DEF FlatTable, AtWord
  <2>3. /\ work # <<>> /\ work[1].do = "seq" /\ Top = work[1] /\ IsSeq(work) /\ Top.i \in Nat
        /\ Top.elems \in Seq(Forms) /\ Top.n \in Nat /\ Top.n <= Len(Top.elems)
    BY <2>2, AtSeq, TopIs
  <2>4. IsSeq(refs) /\ Len(refs) \in Nat
    <3>1. PICK i : i = Top.i + 1
      OBVIOUS
    <3>2. i \in Nat /\ i >= 1 /\ i <= Top.n + 1
      BY <2>2, <2>3, <3>1
    <3>3. LabelRun(Top.elems, i, Top.n) \in Seq(Forms)
      BY <2>3, <3>2, LabelRunIs
    <3>4. QED BY <2>1, <3>1, <3>3, TextsIs, Shape
  <2>5. ok => Unawaited
    <3>1. Branching
      BY <2>2 DEF AtWord, Branching
    <3>2. QED BY <2>3, <3>1, NothingAwaited
  <2>6. PICK e : e = Instr(TableBytes(refs), refs)
    OBVIOUS
  <2>7. Body(work, labels, Append(code, e), ok) /\ CodeOK(names, Append(code, e))
    BY <2>2, <2>4, <2>5, <2>6, EmitTable DEF Good, Emitted
  <2>8. Emitted(names, work, labels, Append(code, e), ok)
    BY <2>7 DEF Good, Emitted
  <2>9. PICK j : j = Top.i + 1 + Len(refs)
    OBVIOUS
  <2>10. j \in Nat /\ j >= 1
    BY <2>3, <2>4, <2>9
  <2>11. Emitted(names, <<[work[1] EXCEPT !.i = j]>> \o Tail(work), labels, Append(code, e), ok)
    BY <2>3, <2>8, <2>10, Advanced
  <2>12. /\ work' = <<[work[1] EXCEPT !.i = j]>> \o Tail(work) /\ code' = Append(code, e)
         /\ UNCHANGED <<names, outcome, labels>>
    BY <2>2, <2>3, <2>6, <2>9 DEF GoOn, From, Rest, Emit
  <2>13. Goes(ok)
    BY <2>11, <2>12, GoesOn
  <2>14. QED BY <2>13 DEF Kept
<1>3. QED BY <1>1, <1>2

LEMMA FlatAccessKeeps ==
  ASSUME NEW ok, Good(ok), FlatAccess
  PROVE  Goes(ok)
<1>1. PICK args : args = MemArgRun(Top.elems, Top.i + 1, Top.n)
  OBVIOUS
<1>2. PICK b : b = <<Opcode[Elem.atom], 0, Offset(args)>>
  OBVIOUS
<1>3. PICK j : j = Top.i + 1 + Len(args)
  OBVIOUS
<1>4. /\ Doing("seq") /\ Top.i <= Top.n /\ Elem.atom \in Loads \cup Stores /\ Emit(b, <<>>)
      /\ GoOn(<<From(j)>>) /\ UNCHANGED labels
  BY <1>1, <1>2, <1>3 DEF FlatAccess, AtWord
<1>5. Plain(b)
  BY <1>2, <1>4, Words, ShortPlain
<1>6. j \in Nat /\ j >= 1
  <2>1. /\ Top.elems \in Seq(Forms) /\ Top.i \in Nat /\ Top.n \in Nat /\ Top.n <= Len(Top.elems)
    BY <1>4, AtSeq
  <2>2. PICK i : i = Top.i + 1
    OBVIOUS
  <2>3. i \in Nat /\ i >= 1 /\ i <= Top.n + 1
    BY <1>4, <2>1, <2>2
  <2>4. Len(MemArgRun(Top.elems, i, Top.n)) \in 0..Top.n + 1 - i
    BY <2>1, <2>3, MemArgRunIs
  <2>5. QED BY <1>1, <1>3, <2>1, <2>2, <2>4
<1>7. QED BY <1>4, <1>5, <1>6, PlainStep

LEMMA FlatPlainKeeps ==
  ASSUME NEW ok, Good(ok), FlatPlain
  PROVE  Goes(ok)
<1>1. PICK b : b = PlainBytes(Elem.atom)
  OBVIOUS
<1>2. PICK j : j = Top.i + 1
  OBVIOUS
<1>3. /\ Doing("seq") /\ Elem.atom \in DOMAIN Opcode \ Special /\ Emit(b, <<>>)
      /\ GoOn(<<From(j)>>) /\ UNCHANGED labels
  BY <1>1, <1>2 DEF FlatPlain, AtWord
<1>4. Elem.atom \notin Structural
  BY <1>3 DEF Special, Structural, IndexWords
<1>5. Plain(b)
  BY <1>1, <1>3, <1>4, WordPlain
<1>6. j \in Nat /\ j >= 1
  BY <1>2, <1>3, AtSeq
<1>7. QED BY <1>3, <1>5, <1>6, PlainStep

-----------------------------------------------------------------------------
(* The items of emit_folded.                                               *)
ItemsOK(s, ok) == AllOK(s, ok) /\ \A k \in 1..Len(s) : Neutral(s[k])

LEMMA SomeItems ==
  ASSUME NEW ok
  PROVE
  /\ \A x : ItemOK(x, ok) /\ Neutral(x) => ItemsOK(<<x>>, ok)
  /\ \A x, y : ItemOK(x, ok) /\ Neutral(x) /\ ItemOK(y, ok) /\ Neutral(y) => ItemsOK(<<x, y>>, ok)
<1>1. ASSUME NEW x, ItemOK(x, ok), Neutral(x) PROVE ItemsOK(<<x>>, ok)
  <2>1. AllOK(<<x>>, ok)
    BY <1>1, FewItems
  <2>2. \A k \in 1..Len(<<x>>) : Neutral(<<x>>[k])
    BY <1>1
  <2>3. QED BY <2>1, <2>2 DEF ItemsOK
<1>2. ASSUME NEW x, NEW y, ItemOK(x, ok), Neutral(x), ItemOK(y, ok), Neutral(y)
      PROVE  ItemsOK(<<x, y>>, ok)
  <2>1. AllOK(<<x, y>>, ok)
    BY <1>2, FewItems
  <2>2. \A k \in 1..Len(<<x, y>>) : Neutral(<<x, y>>[k])
    BY <1>2
  <2>3. QED BY <2>1, <2>2 DEF ItemsOK
<1>3. QED BY <1>1, <1>2

LEMMA ItemsConcat ==
  ASSUME NEW ok, NEW s, NEW t, ItemsOK(s, ok), ItemsOK(t, ok)
  PROVE  ItemsOK(s \o t, ok)
<1>1. IsSeq(s) /\ IsSeq(t)
  BY DEF ItemsOK, AllOK
<1>2. AllOK(s \o t, ok)
  BY ConcatOK DEF ItemsOK
<1>3. /\ Len(s \o t) = Len(s) + Len(t)
      /\ \A k \in 1..Len(s) : (s \o t)[k] = s[k]
      /\ \A k \in 1..Len(t) : (s \o t)[Len(s) + k] = t[k]
  BY <1>1, ConcatFacts
<1>4. Len(s) \in Nat /\ Len(t) \in Nat
  BY <1>1, Shape
<1>5. ASSUME NEW k \in 1..Len(s \o t) PROVE Neutral((s \o t)[k])
  <2>1. CASE k <= Len(s)
    <3>1. k \in 1..Len(s)
      BY <1>3, <1>4, <2>1
    <3>2. QED BY <1>3, <3>1 DEF ItemsOK
  <2>2. CASE k > Len(s)
    <3>1. PICK j : j = k - Len(s)
      OBVIOUS
    <3>2. j \in 1..Len(t) /\ k = Len(s) + j
      BY <1>3, <1>4, <2>2, <3>1
    <3>3. QED BY <1>3, <3>2 DEF ItemsOK
  <2>3. QED BY <1>3, <1>4, <2>1, <2>2
<1>6. QED BY <1>2, <1>5 DEF ItemsOK

LEMMA ExprItems ==
  ASSUME NEW ok
  PROVE  /\ \A s \in Seq(Forms) : ItemsOK(Exprs(s), ok)
         /\ \A sx \in Forms : ItemOK(Expr(sx), ok) /\ Neutral(Expr(sx))
         /\ \A b : (ok => Plain(b)) => ItemOK(Put(b), ok) /\ Neutral(Put(b))
         /\ \A word \in IndexWords : \A ref : ItemOK(Refer(word, ref), ok) /\ Neutral(Refer(word, ref))
         /\ \A refs : IsSeq(refs) => ItemOK(Table(refs), ok) /\ Neutral(Table(refs))
<1>1. ASSUME NEW s \in Seq(Forms) PROVE ItemsOK(Exprs(s), ok)
  <2>1. AllOK(Exprs(s), ok) /\ \A k \in 1..Len(Exprs(s)) : Exprs(s)[k].do = "expr"
    BY ExprsOK
  <2>2. \A k \in 1..Len(Exprs(s)) : Neutral(Exprs(s)[k])
    BY <2>1 DEF Neutral, Closes, Awaited
  <2>3. QED BY <2>1, <2>2 DEF ItemsOK
<1>2. \A sx \in Forms : ItemOK(Expr(sx), ok) /\ Neutral(Expr(sx))
  BY Items, NeutralItems
<1>3. \A b : (ok => Plain(b)) => ItemOK(Put(b), ok) /\ Neutral(Put(b))
  BY Items, NeutralItems
<1>4. \A word \in IndexWords : \A ref : ItemOK(Refer(word, ref), ok) /\ Neutral(Refer(word, ref))
  BY Items, NeutralItems
<1>5. \A refs : IsSeq(refs) => ItemOK(Table(refs), ok) /\ Neutral(Table(refs))
  BY Items, NeutralItems
<1>6. QED BY <1>1, <1>2, <1>3, <1>4, <1>5

LEMMA ArgsIs == \A op \in Seq(Forms) : Args(op) \in 0..Len(op)
<1> SUFFICES ASSUME NEW op \in Seq(Forms) PROVE Args(op) \in 0..Len(op)
  OBVIOUS
<1>1. PICK n : n = Len(op)
  OBVIOUS
<1>2. n \in Nat /\ n <= Len(op) /\ 1 <= n + 1
  BY <1>1
<1>3. Len(MemArgRun(op, 1, n)) \in 0..n + 1 - 1
  BY <1>2, MemArgRunIs
<1>4. QED BY <1>1, <1>2, <1>3 DEF Args

LEMMA FoldedItems ==
  ASSUME NEW ok, NEW word, word \notin Blocks \cup {"if"}, ok => word # "end",
         NEW op \in Seq(Forms), Complete(word, op)
  PROVE  ItemsOK(Folded(word, op), ok)
<1>0. Len(op) \in Nat /\ (op # <<>> => Len(op) >= 1)
  OBVIOUS
<1>1. CASE word \in Constants
  <2>1. PICK b : b = ConstBytes(word, Literal(op[1]))
    OBVIOUS
  <2>2. Folded(word, op) = <<Put(b)>>
    BY <1>1, <2>1 DEF Folded, Constants, Loads, Stores
  <2>3. Plain(b)
    BY <1>1, <2>1, ConstPlain, Numbers
  <2>4. QED BY <2>2, <2>3, ExprItems, SomeItems
<1>2. CASE word \in {"local.get", "global.get", "br"}
  <2>1. Folded(word, op) = <<Refer(word, op[1].atom)>>
    BY <1>2 DEF Folded, Constants, Loads, Stores
  <2>2. word \in IndexWords
    BY <1>2 DEF IndexWords, LocalWords, GlobalWords, BranchWords
  <2>3. QED BY <2>1, <2>2, ExprItems, SomeItems
<1>3. CASE word \in {"local.set", "local.tee", "global.set", "br_if"}
  <2>1. Folded(word, op) = <<Expr(op[2]), Refer(word, op[1].atom)>>
    BY <1>3 DEF Folded, Constants, Loads, Stores
  <2>2. word \in IndexWords
    BY <1>3 DEF IndexWords, LocalWords, GlobalWords, BranchWords
  <2>3. Len(op) >= 2
    BY <1>3 DEF Complete, Constants, Loads, Stores
  <2>4. op[2] \in Forms
    BY <1>0, <2>3
  <2>5. QED BY <2>1, <2>2, <2>4, ExprItems, SomeItems
<1>4. CASE word = "call"
  <2>1. Folded(word, op) = Exprs(Tail(op)) \o <<Refer(word, op[1].atom)>>
    BY <1>4 DEF Folded, Constants, Loads, Stores
  <2>2. word \in IndexWords
    BY <1>4 DEF IndexWords
  <2>3. op # <<>>
    BY <1>4 DEF Complete, Constants, Loads, Stores, FirstIsAtom
  <2>4. Tail(op) \in Seq(Forms)
    BY <2>3
  <2>5. ItemsOK(Exprs(Tail(op)), ok) /\ ItemsOK(<<Refer(word, op[1].atom)>>, ok)
    BY <2>2, <2>4, ExprItems, SomeItems
  <2>6. QED BY <2>1, <2>5, ItemsConcat
<1>5. CASE word = "call_indirect"
  <2>1. PICK s : s = IF TypeUse(op) THEN Tail(op) ELSE op
    OBVIOUS
  <2>2. PICK b : b = <<op_call_indirect, TypeOf(op), 0>>
    OBVIOUS
  <2>3. Folded(word, op) = Exprs(s) \o <<Put(b)>>
    BY <1>5, <2>1, <2>2 DEF Folded, Constants, Loads, Stores
  <2>4. s \in Seq(Forms)
    <3>1. TypeUse(op) => op # <<>>
      BY DEF TypeUse
    <3>2. QED BY <2>1, <3>1
  <2>5. Plain(b)
    BY <2>2 DEF Plain, Openers, op_call_indirect, op_end, op_br, op_br_if, op_br_table,
                op_block, op_loop, op_if
  <2>6. ItemsOK(Exprs(s), ok) /\ ItemsOK(<<Put(b)>>, ok)
    BY <2>4, <2>5, ExprItems, SomeItems
  <2>7. QED BY <2>3, <2>6, ItemsConcat
<1>6. CASE word = "memory.size"
  <2>1. Folded(word, op) = <<Put(PlainBytes(word))>>
    BY <1>6 DEF Folded, Constants, Loads, Stores
  <2>2. word \in DOMAIN Opcode \ Structural
    <3>1. <<"memory.size", 63>> \in Mnemonics
      BY DEF Mnemonics
    <3>2. <<"memory.size", 63>>[1] = "memory.size"
      OBVIOUS
    <3>3. word \in DOMAIN Opcode
      BY <1>6, <3>1, <3>2, OpcodeRows
    <3>4. QED BY <1>6, <3>3 DEF Structural, Blocks, BranchWords
  <2>3. QED BY <2>1, <2>2, WordPlain, ExprItems, SomeItems
<1>7. CASE word \in {"memory.grow", "drop"}
  <2>1. Folded(word, op) = <<Expr(op[1]), Put(PlainBytes(word))>>
    BY <1>7 DEF Folded, Constants, Loads, Stores
  <2>2. word \in DOMAIN Opcode \ Structural
    <3>1. <<"memory.grow", 64>> \in Mnemonics /\ <<"drop", 26>> \in Mnemonics
      BY DEF Mnemonics
    <3>2. <<"memory.grow", 64>>[1] = "memory.grow" /\ <<"drop", 26>>[1] = "drop"
      OBVIOUS
    <3>3. word \in DOMAIN Opcode
      BY <1>7, <3>1, <3>2, OpcodeRows
    <3>4. QED BY <1>7, <3>3 DEF Structural, Blocks, BranchWords
  <2>3. op # <<>>
    BY <1>7 DEF Complete, Constants, Loads, Stores
  <2>4. op[1] \in Forms
    BY <1>0, <2>3
  <2>5. QED BY <2>1, <2>2, <2>4, WordPlain, ExprItems, SomeItems
<1>8. CASE word = "br_table"
  <2>1. PICK n : n = Len(op)
    OBVIOUS
  <2>2. PICK refs : refs = Texts(SubSeq(op, 1, n - 1))
    OBVIOUS
  <2>3. Folded(word, op) = <<Expr(op[n]), Table(refs)>>
    BY <1>8, <2>1, <2>2 DEF Folded, Constants, Loads, Stores
  <2>4. n >= 2
    BY <1>8, <2>1 DEF Complete, Constants, Loads, Stores
  <2>5. op[n] \in Forms /\ SubSeq(op, 1, n - 1) \in Seq(Forms)
    BY <1>0, <2>1, <2>4
  <2>6. IsSeq(refs)
    BY <2>2, <2>5, TextsIs
  <2>7. QED BY <2>3, <2>5, <2>6, ExprItems, SomeItems
<1>9. CASE word = "select"
  <2>1. PICK m : m = Min({Len(op), 3})
    OBVIOUS
  <2>2. Folded(word, op) = Exprs(SubSeq(op, 1, m)) \o <<Put(PlainBytes(word))>>
    BY <1>9, <2>1 DEF Folded, Constants, Loads, Stores
  <2>3. m \in 0..Len(op)
    <3>1. \E x \in {Len(op), 3} : \A y \in {Len(op), 3} : x <= y
      BY <1>0
    <3>2. m \in {Len(op), 3} /\ \A y \in {Len(op), 3} : m <= y
      BY <2>1, <3>1 DEF Min
    <3>3. QED BY <1>0, <3>2
  <2>4. SubSeq(op, 1, m) \in Seq(Forms)
    BY <1>0, <2>3
  <2>5. word \in DOMAIN Opcode \ Structural
    <3>1. <<"select", 27>> \in Mnemonics
      BY DEF Mnemonics
    <3>2. <<"select", 27>>[1] = "select"
      OBVIOUS
    <3>3. word \in DOMAIN Opcode
      BY <1>9, <3>1, <3>2, OpcodeRows
    <3>4. QED BY <1>9, <3>3 DEF Structural, Blocks, BranchWords
  <2>6. ItemsOK(Exprs(SubSeq(op, 1, m)), ok) /\ ItemsOK(<<Put(PlainBytes(word))>>, ok)
    BY <2>4, <2>5, WordPlain, ExprItems, SomeItems
  <2>7. QED BY <2>2, <2>6, ItemsConcat
<1>10. CASE word \in Loads \cup Stores
  <2>1. PICK a : a = Args(op)
    OBVIOUS
  <2>2. a \in 0..Len(op)
    BY <2>1, ArgsIs
  <2>3. PICK b : b = <<Opcode[word], 0, Offset(SubSeq(op, 1, Args(op)))>>
    OBVIOUS
  <2>4. Plain(b)
    BY <1>10, <2>3, Words, ShortPlain
  <2>5. ItemOK(Put(b), ok) /\ Neutral(Put(b))
    BY <2>4, ExprItems
  <2>6. CASE word \in Loads
    <3>1. Folded(word, op) = <<Expr(op[a + 1]), Put(b)>>
      BY <2>1, <2>3, <2>6 DEF Folded, Constants, Loads, Stores
    <3>2. Len(op) > a
      BY <2>1, <2>6 DEF Complete, Constants, Loads, Stores
    <3>3. op[a + 1] \in Forms
      BY <1>0, <2>2, <3>2
    <3>4. QED BY <2>5, <3>1, <3>3, ExprItems, SomeItems
  <2>7. CASE word \in Stores
    <3>1. Folded(word, op) = <<Expr(op[a + 1]), Expr(op[a + 2]), Put(b)>>
      BY <2>1, <2>3, <2>7 DEF Folded, Constants, Loads, Stores
    <3>2. Len(op) > a + 1
      BY <2>1, <2>7 DEF Complete, Constants, Loads, Stores
    <3>3. op[a + 1] \in Forms /\ op[a + 2] \in Forms
      BY <1>0, <2>2, <3>2
    <3>4. PICK x : x = Expr(op[a + 1])
      OBVIOUS
    <3>5. PICK y : y = Expr(op[a + 2])
      OBVIOUS
    <3>6. PICK z : z = Put(b)
      OBVIOUS
    <3>7. /\ ItemOK(x, ok) /\ ItemOK(y, ok) /\ ItemOK(z, ok)
          /\ Neutral(x) /\ Neutral(y) /\ Neutral(z)
      BY <2>5, <3>3, <3>4, <3>5, <3>6, ExprItems
    <3>8. AllOK(<<x, y, z>>, ok)
      BY <3>7, FewItems
    <3>9. \A k \in 1..Len(<<x, y, z>>) : Neutral(<<x, y, z>>[k])
      BY <3>7
    <3>10. QED BY <3>1, <3>4, <3>5, <3>6, <3>8, <3>9 DEF ItemsOK
  <2>8. QED BY <1>10, <2>6, <2>7
<1> DEFINE named == Constants \cup Loads \cup Stores \cup IndexWords
                      \cup {"call_indirect", "memory.size", "memory.grow", "drop", "br_table", "select"}
<1>11. CASE word \notin named
  <2>1. Folded(word, op) = Exprs(op) \o <<Put(PlainBytes(word))>>
    BY <1>11 DEF Folded, IndexWords, LocalWords, GlobalWords, BranchWords
  <2>2. IsMnemonic(word)
    BY <1>11 DEF Complete, IndexWords, LocalWords, GlobalWords, BranchWords
  <2>3. ok => word \in DOMAIN Opcode \ Structural
    BY <1>11, <2>2 DEF IsMnemonic, Structural, IndexWords
  <2>4. ok => Plain(PlainBytes(word))
    BY <2>3, WordPlain
  <2>5. ItemsOK(Exprs(op), ok) /\ ItemsOK(<<Put(PlainBytes(word))>>, ok)
    BY <2>4, ExprItems, SomeItems
  <2>6. QED BY <2>1, <2>5, ItemsConcat
<1>12. word \in IndexWords => \/ word \in {"local.get", "global.get", "br"} \/ word = "call"
                              \/ word \in {"local.set", "local.tee", "global.set", "br_if"}
  BY DEF IndexWords, LocalWords, GlobalWords, BranchWords
<1>13. QED BY <1>1, <1>2, <1>3, <1>4, <1>5, <1>6, <1>7, <1>8, <1>9, <1>10, <1>11, <1>12

-----------------------------------------------------------------------------
(* The steps of emit_expr and emit_folded.                                 *)
LEMMA AtTop ==
  ASSUME NEW ok, Good(ok), NEW what, Doing(what), what # "close", what # "seq"
  PROVE  /\ work # <<>> /\ Top = work[1] /\ ItemOK(Top, ok) /\ Top.do = what
         /\ Len(work) > 0 /\ IsSeq(work) /\ IsSeq(Rest) /\ ~Closes(work[1])
         /\ Emitted(names, work, labels, code, ok)
         /\ ~Awaited(work[1]) => Emitted(names, Rest, labels, code, ok)
<1>1. work # <<>> /\ Top.do = what
  BY DEF Doing, Top
<1>2. /\ Top = work[1] /\ ItemOK(Top, ok) /\ Len(work) > 0 /\ IsSeq(work) /\ IsSeq(Rest)
  BY <1>1, TopIs
<1>3. ~Closes(work[1])
  BY <1>1, <1>2 DEF Closes
<1>4. Emitted(names, work, labels, code, ok)
  BY DEF Good
<1>5. ~Awaited(work[1]) => Emitted(names, Tail(work), labels, code, ok)
  BY <1>1, <1>3, <1>4, Popped
<1>6. QED BY <1>1, <1>2, <1>3, <1>4, <1>5 DEF Rest

LEMMA AtExpr ==
  ASSUME NEW ok, Good(ok), Doing("expr")
  PROVE  /\ work # <<>> /\ IsSeq(Rest) /\ IsSeq(work) /\ Len(work) > 0
         /\ Emitted(names, work, labels, code, ok) /\ Emitted(names, Rest, labels, code, ok)
         /\ Top.sx \in Forms /\ (~IsAtom(Top.sx) => Operands \in Seq(Forms))
<1>1. /\ work # <<>> /\ Top = work[1] /\ ItemOK(Top, ok) /\ Top.do = "expr"
      /\ Len(work) > 0 /\ IsSeq(work) /\ IsSeq(Rest) /\ ~Closes(work[1])
      /\ Emitted(names, work, labels, code, ok)
      /\ ~Awaited(work[1]) => Emitted(names, Rest, labels, code, ok)
  BY AtTop
<1>2. ~Awaited(work[1])
  BY <1>1 DEF Awaited
<1>3. Top.sx \in Forms
  BY <1>1, ItemIs
<1>4. ~IsAtom(Top.sx) => Operands \in Seq(Forms)
  <2>1. ~IsAtom(Top.sx) => Top.sx.kids \in Seq(Forms) /\ Top.sx.kids # <<>>
    BY <1>3, WrittenInForms
  <2>2. QED BY <2>1 DEF Operands
<1>5. QED BY <1>1, <1>2, <1>3, <1>4

LEMMA ExprAtomKeeps ==
  ASSUME NEW ok, ok => WellWritten, Good(ok), ExprAtom
  PROVE  Goes(ok)
<1>1. /\ Doing("expr") /\ IsAtom(Top.sx) /\ IsMnemonic(Top.sx.atom) /\ GoOn(<<>>)
      /\ UNCHANGED labels /\ Emit(<<Opcode[Top.sx.atom]>>, <<>>)
  BY DEF ExprAtom
<1>2. IsSeq(Rest) /\ Emitted(names, Rest, labels, code, ok)
  BY <1>1, AtExpr
<1>3. PICK b : b = <<Opcode[Top.sx.atom]>>
  OBVIOUS
<1>4. ok => Plain(b)
  <2>1. ok => Top.sx.atom \notin Structural
    BY <1>1 DEF WellWritten
  <2>2. QED BY <1>1, <1>3, <2>1, ShortPlain DEF IsMnemonic
<1>5. PICK c : c = Append(code, Instr(b, <<>>))
  OBVIOUS
<1>6. Body(Rest, labels, c, ok) /\ CodeOK(names, c)
  BY <1>2, <1>4, <1>5, EmitPlain DEF Emitted
<1>7. Emitted(names, Rest, labels, c, ok)
  BY <1>2, <1>6 DEF Emitted
<1>8. work' = Rest /\ code' = c
  BY <1>1, <1>2, <1>3, <1>5, NoneThen DEF GoOn, Emit
<1>9. QED BY <1>1, <1>7, <1>8, GoesOn DEF GoOn

LEMMA FoldedInstructionKeeps ==
  ASSUME NEW ok, ok => WellWritten, Good(ok), FoldedInstruction
  PROVE  Goes(ok)
<1>1. PICK word : word = Word(Top.sx)
  OBVIOUS
<1>2. PICK s : s = Folded(word, Operands)
  OBVIOUS
<1>3. /\ Doing("expr") /\ ~IsAtom(Top.sx) /\ word \notin Blocks \cup {"if"}
      /\ Complete(word, Operands) /\ GoOn(s) /\ UNCHANGED <<labels, code>>
  BY <1>1, <1>2 DEF FoldedInstruction
<1>4. Emitted(names, Rest, labels, code, ok) /\ Operands \in Seq(Forms)
  BY <1>3, AtExpr
<1>5. ok => word # "end"
  BY <1>1, <1>3 DEF WellWritten
<1>6. ItemsOK(s, ok)
  BY <1>2, <1>3, <1>4, <1>5, FoldedItems
<1>7. Emitted(names, s \o Rest, labels, code, ok)
  BY <1>4, <1>6, Pushed DEF ItemsOK
<1>8. QED BY <1>3, <1>7, GoesOn DEF GoOn

LEMMA HeaderIs ==
  ASSUME NEW op \in Seq(Forms)
  PROVE  Header(op).body \in Nat /\ Header(op).body >= 1
<1>1. AfterLabel(op, 1, Len(op)) = 1 \/ AfterLabel(op, 1, Len(op)) = 1 + 1
  BY DEF AfterLabel
<1>2. \/ Header(op).body = AfterLabel(op, 1, Len(op))
      \/ Header(op).body = AfterLabel(op, 1, Len(op)) + 1
  BY DEF Header
<1>3. QED BY <1>1, <1>2

LEMMA FormIs ==
  ASSUME NEW sx \in Forms, NEW word, IsForm(sx, word)
  PROVE  sx.kids \in Seq(Forms)
BY WrittenInForms DEF IsForm

LEMMA BranchParts ==
  ASSUME NEW ok, NEW op \in Seq(Forms), NEW i \in Nat, i >= 1, i <= Len(op) + 1
  PROVE  /\ ItemsOK(<<ThenPart(op, i).do>>, ok)
         /\ ThenPart(op, i).next \in Nat /\ ThenPart(op, i).next >= 1
<1>1. Len(op) \in Nat
  OBVIOUS
<1>2. CASE i <= Len(op) /\ IsForm(op[i], "then")
  <2>1. /\ ThenPart(op, i).do = Elements(op[i].kids, 2, Len(op[i].kids), "folded")
        /\ ThenPart(op, i).next = i + 1
    BY <1>2 DEF ThenPart
  <2>2. op[i] \in Forms
    BY <1>1, <1>2
  <2>3. op[i].kids \in Seq(Forms)
    BY <1>2, <2>2, FormIs
  <2>4. ItemOK(Elements(op[i].kids, 2, Len(op[i].kids), "folded"), ok)
    <3>1. PICK k : k = op[i].kids
      OBVIOUS
    <3>2. k \in Seq(Forms) /\ Len(k) \in Nat /\ Len(k) <= Len(k) /\ 2 >= 1
      BY <2>3, <3>1
    <3>3. ItemOK(Elements(k, 2, Len(k), "folded"), ok)
      BY <3>2, Items
    <3>4. QED BY <3>1, <3>3
  <2>5. ItemsOK(<<ThenPart(op, i).do>>, ok)
    BY <2>1, <2>4, NeutralItems, SomeItems
  <2>6. QED BY <2>1, <2>5
<1>3. CASE ~(i <= Len(op) /\ IsForm(op[i], "then"))
  <2>1. PICK elses : elses = {j \in i..Len(op) : IsForm(op[j], "else")}
    OBVIOUS
  <2>2. PICK stop : stop = IF elses = {} THEN Len(op) + 1 ELSE Min(elses)
    OBVIOUS
  <2>3. ThenPart(op, i) = [do |-> Elements(op, i, stop - 1, "folded"), next |-> stop]
    BY <1>3, <2>1, <2>2 DEF ThenPart
  <2>4. stop \in i..Len(op) + 1
    <3>1. CASE elses = {}
      BY <1>1, <2>2, <3>1
    <3>2. CASE elses # {}
      <4>1. elses \subseteq 1..Len(op)
        BY <1>1, <2>1
      <4>2. Min(elses) \in elses
        BY <1>1, <3>2, <4>1, LeastFrom
      <4>3. Min(elses) \in i..Len(op)
        BY <2>1, <4>2
      <4>4. stop = Min(elses)
        BY <2>2, <3>2
      <4>5. QED BY <1>1, <4>3, <4>4
    <3>3. QED BY <3>1, <3>2
  <2>5. PICK n : n = stop - 1
    OBVIOUS
  <2>6. n \in Nat /\ n <= Len(op)
    BY <1>1, <2>4, <2>5
  <2>7. ItemOK(Elements(op, i, n, "folded"), ok)
    BY <2>6, Items
  <2>8. ThenPart(op, i).do = Elements(op, i, n, "folded") /\ ThenPart(op, i).next = stop
    BY <2>3, <2>5
  <2>9. ItemsOK(<<ThenPart(op, i).do>>, ok)
    BY <2>7, <2>8, NeutralItems, SomeItems
  <2>10. QED BY <1>1, <2>4, <2>8, <2>9
<1>4. QED BY <1>2, <1>3

LEMMA ElseItems ==
  ASSUME NEW ok, NEW op \in Seq(Forms), NEW i \in Nat, i >= 1
  PROVE  ItemsOK(ElsePart(op, i), ok)
<1>1. CASE i <= Len(op) /\ IsForm(op[i], "else")
  <2>1. PICK k : k = op[i].kids
    OBVIOUS
  <2>2. ElsePart(op, i) = <<Put(<<op_else>>), Elements(k, 2, Len(k), "folded")>>
    BY <1>1, <2>1 DEF ElsePart
  <2>3. op[i] \in Forms
    BY <1>1
  <2>4. k \in Seq(Forms)
    BY <1>1, <2>1, <2>3, FormIs
  <2>5. Len(k) \in Nat /\ Len(k) <= Len(k) /\ 2 >= 1
    BY <2>4
  <2>6. ItemOK(Elements(k, 2, Len(k), "folded"), ok)
    BY <2>4, <2>5, Items
  <2>7. Plain(<<op_else>>)
    BY DEF Plain, Openers, op_else, op_end, op_br, op_br_if, op_br_table, op_block, op_loop, op_if
  <2>8. ItemOK(Put(<<op_else>>), ok) /\ Neutral(Put(<<op_else>>))
    BY <2>7, ExprItems
  <2>9. QED BY <2>2, <2>6, <2>8, NeutralItems, SomeItems
<1>2. CASE ~(i <= Len(op) /\ IsForm(op[i], "else"))
  <2>1. ElsePart(op, i) = <<>>
    BY <1>2 DEF ElsePart
  <2>2. AllOK(<<>>, ok) /\ Len(<<>>) = 0
    BY FewItems
  <2>3. QED BY <2>1, <2>2 DEF ItemsOK
<1>3. QED BY <1>1, <1>2

LEMMA CloseIs == Close.do = "close" /\ Closes(Close) /\ ~Awaited(Close)
<1>1. Close.do = "close"
  BY DEF Close
<1>2. QED BY <1>1 DEF Closes, Awaited

LEMMA FoldedBlockKeeps ==
  ASSUME NEW ok, Good(ok), FoldedBlock
  PROVE  Kept(ok)
<1>1. CASE Fail
  BY <1>1 DEF Fail, Kept, Refuses
<1>2. CASE ~Fail
  <2>1. PICK head : head = Header(Operands)
    OBVIOUS
  <2>2. PICK word : word = Word(Top.sx)
    OBVIOUS
  <2>3. PICK x : x = Elements(Operands, head.body, Len(Operands), "folded")
    OBVIOUS
  <2>4. /\ Doing("expr") /\ ~IsAtom(Top.sx) /\ word \in Blocks
        /\ labels' = Append(labels, head.label)
        /\ Emit(<<Opcode[word], head.type>>, <<head.label>>) /\ GoOn(<<x, Close>>)
    BY <1>2, <2>1, <2>2, <2>3 DEF FoldedBlock, AtForm
  <2>5. IsSeq(Rest) /\ Emitted(names, Rest, labels, code, ok) /\ Operands \in Seq(Forms)
    BY <2>4, AtExpr
  <2>6. ItemOK(x, ok) /\ Neutral(x)
    <3>1. head.body \in Nat /\ head.body >= 1
      BY <2>1, <2>5, HeaderIs
    <3>2. Len(Operands) \in Nat /\ Len(Operands) <= Len(Operands)
      BY <2>5
    <3>3. QED BY <2>3, <2>5, <3>1, <3>2, Items, NeutralItems
  <2>7. PICK e : e = Instr(<<Opcode[word], head.type>>, <<head.label>>)
    OBVIOUS
  <2>8. PICK l : l = head.label
    OBVIOUS
  <2>9. e.bytes[1] = Opcode[word] /\ e.note = <<l>>
    BY <2>7, <2>8, InstrParts
  <2>10. e.bytes[1] \in Openers
    <3>1. word \in DOMAIN Opcode
      BY <2>4, Words
    <3>2. QED BY <2>4, <2>9, <3>1, OpcodesApart
  <2>11. Body(<<Close>> \o Rest, Append(labels, l), Append(code, e), ok)
    <3>1. Body(Rest, labels, code, ok)
      BY <2>5 DEF Emitted
    <3>2. Close.do # "seq"
      BY CloseIs
    <3>3. QED BY <2>9, <2>10, <3>1, <3>2, CloseIs, BodyOpen
  <2>12. CodeOK(names, Append(code, e))
    <3>1. NamedWell(names, e)
      BY <2>10, NamedUnlike
    <3>2. QED BY <2>5, <3>1, CodeOKAppend DEF Emitted
  <2>13. AllOK(<<Close>> \o Rest, ok)
    <3>1. AllOK(<<Close>>, ok) /\ AllOK(Rest, ok)
      BY <2>5, Items, FewItems DEF Emitted
    <3>2. QED BY <3>1, ConcatOK
  <2>14. Emitted(names, <<Close>> \o Rest, Append(labels, l), Append(code, e), ok)
    BY <2>11, <2>12, <2>13 DEF Emitted
  <2>15. Emitted(names, <<x>> \o (<<Close>> \o Rest), Append(labels, l), Append(code, e), ok)
    BY <2>6, <2>14, PushedOne
  <2>16. work' = <<x>> \o (<<Close>> \o Rest)
    BY <2>4, <2>5, TwoThen, SMTT(30) DEF GoOn
  <2>17. code' = Append(code, e) /\ labels' = Append(labels, l)
    BY <2>4, <2>7, <2>8 DEF Emit
  <2>18. Goes(ok)
    BY <2>4, <2>15, <2>16, <2>17, GoesOn DEF GoOn
  <2>19. QED BY <2>18 DEF Kept
<1>3. QED BY <1>1, <1>2

Seqs(x, y, z) == IsSeq(x) /\ IsSeq(y) /\ IsSeq(z)

LEMMA AssocOf == \A x, y, z : Seqs(x, y, z) => (x \o y) \o z = x \o (y \o z)
BY Assoc DEF Seqs

SixSeqs(a, b, c, d, ep, w) == Seqs(a, b, c) /\ Seqs(d, ep, w)

LEMMA SixThen ==
  ASSUME NEW a, NEW b, NEW c, NEW d, NEW ep, NEW w, SixSeqs(a, b, c, d, ep, w)
  PROVE  (((a \o (b \o c)) \o ep) \o d) \o w = a \o (b \o ((c \o ep) \o (d \o w)))
<1>0. IsSeq(a) /\ IsSeq(b) /\ IsSeq(c) /\ IsSeq(d) /\ IsSeq(ep) /\ IsSeq(w)
  BY DEF Seqs, SixSeqs
<1>1. PICK dw : dw = d \o w
  OBVIOUS
<1>2. PICK ce : ce = c \o ep
  OBVIOUS
<1>3. PICK bc : bc = b \o c
  OBVIOUS
<1>4. IsSeq(dw)
  BY <1>0, <1>1, ConcatFacts
<1>5. IsSeq(ce)
  BY <1>0, <1>2, ConcatFacts
<1>6. IsSeq(bc)
  BY <1>0, <1>3, ConcatFacts
<1>7. PICK s : s = a \o bc
  OBVIOUS
<1>8. IsSeq(s)
  BY <1>0, <1>6, <1>7, ConcatFacts
<1>9. PICK se : se = s \o ep
  OBVIOUS
<1>10. IsSeq(se)
  BY <1>0, <1>8, <1>9, ConcatFacts
<1>11. PICK be : be = b \o ce
  OBVIOUS
<1>12. IsSeq(be)
  BY <1>0, <1>5, <1>11, ConcatFacts
<1>13. Seqs(se, d, w) /\ Seqs(a, bc, ep) /\ Seqs(b, c, ep) /\ Seqs(a, be, dw) /\ Seqs(b, ce, dw)
  BY <1>0, <1>4, <1>5, <1>6, <1>10, <1>12 DEF Seqs
<1>14. (se \o d) \o w = se \o (d \o w)
  BY AssocOf, <1>13
<1>15. (a \o bc) \o ep = a \o (bc \o ep)
  BY AssocOf, <1>13
<1>16. (b \o c) \o ep = b \o (c \o ep)
  BY AssocOf, <1>13
<1>17. (a \o be) \o dw = a \o (be \o dw)
  BY AssocOf, <1>13
<1>18. (b \o ce) \o dw = b \o (ce \o dw)
  BY AssocOf, <1>13
<1>19. se = a \o be
  BY <1>2, <1>3, <1>7, <1>9, <1>11, <1>15, <1>16
<1>20. (se \o d) \o w = a \o (b \o (ce \o dw))
  BY <1>1, <1>11, <1>14, <1>17, <1>18, <1>19
<1>21. QED BY <1>1, <1>2, <1>3, <1>7, <1>9, <1>20

LEMMA ThreeThen ==
  ASSUME NEW x, NEW y, NEW t, IsSeq(<<t>>), NEW ep, IsSeq(ep), NEW z, NEW w, IsSeq(w)
  PROVE  (<<x, y, t>> \o ep \o <<z>>) \o w
           = <<x>> \o (<<y>> \o ((<<t>> \o ep) \o (<<z>> \o w)))
<1>1. IsSeq(<<x>>) /\ IsSeq(<<y>>) /\ IsSeq(<<z>>)
  BY OneOf
<1>2. PICK a : a = <<x>>
  OBVIOUS
<1>3. PICK b : b = <<y>>
  OBVIOUS
<1>4. PICK c : c = <<t>>
  OBVIOUS
<1>5. PICK d : d = <<z>>
  OBVIOUS
<1>6. IsSeq(a) /\ IsSeq(b) /\ IsSeq(c) /\ IsSeq(d)
  BY <1>1, <1>2, <1>3, <1>4, <1>5
<1>7. <<x, y, t>> = a \o (b \o c)
  <2>1. IsSeq(b \o c) /\ Len(b) = 1 /\ Len(c) = 1 /\ b[1] = y /\ c[1] = t /\ Len(a) = 1 /\ a[1] = x
    BY <1>2, <1>3, <1>4, <1>6, OneOf, ConcatFacts
  <2>2. PICK bc : bc = b \o c
    OBVIOUS
  <2>3. IsSeq(bc) /\ Len(bc) = 2 /\ bc[1] = y /\ bc[2] = t
    <3>1. /\ Len(b \o c) = Len(b) + Len(c)
          /\ \A k \in 1..Len(b) : (b \o c)[k] = b[k]
          /\ \A k \in 1..Len(c) : (b \o c)[Len(b) + k] = c[k]
      BY <1>6, ConcatFacts
    <3>2. QED BY <2>1, <2>2, <3>1
  <2>4. IsSeq(a \o bc) /\ Len(a \o bc) = 3 /\ (a \o bc)[1] = x /\ (a \o bc)[2] = y /\ (a \o bc)[3] = t
    <3>1. IsSeq(a) /\ IsSeq(bc)
      BY <1>6, <2>3
    <3>2. /\ IsSeq(a \o bc) /\ Len(a \o bc) = Len(a) + Len(bc)
          /\ \A k \in 1..Len(a) : (a \o bc)[k] = a[k]
          /\ \A k \in 1..Len(bc) : (a \o bc)[Len(a) + k] = bc[k]
      BY <3>1, ConcatFacts
    <3>3. QED BY <2>1, <2>3, <3>2
  <2>5. PICK s : s = <<x, y, t>>
    OBVIOUS
  <2>6. IsSeq(s) /\ Len(s) = 3 /\ s[1] = x /\ s[2] = y /\ s[3] = t
    <3>1. <<x, y, t>> \in Seq({x, y, t})
      OBVIOUS
    <3>2. IsSeq(s)
      BY <2>5, <3>1 DEF IsSeq
    <3>3. QED BY <2>5, <3>2
  <2>7. PICK r : r = a \o bc
    OBVIOUS
  <2>8. IsSeq(r) /\ Len(r) = 3 /\ \A k \in 1..Len(r) : r[k] = s[k]
    <3>1. \A k \in 1..3 : k = 1 \/ k = 2 \/ k = 3
      OBVIOUS
    <3>2. QED BY <2>4, <2>6, <2>7, <3>1
  <2>9. IsSeq(r) /\ IsSeq(s) /\ Len(r) = Len(s)
    BY <2>6, <2>8
  <2>10. r = s
    BY <2>8, <2>9, Extensional
  <2>11. QED BY <2>2, <2>5, <2>7, <2>10
<1>8. (((a \o (b \o c)) \o ep) \o d) \o w = a \o (b \o ((c \o ep) \o (d \o w)))
  <2>1. SixSeqs(a, b, c, d, ep, w)
    BY <1>6 DEF Seqs, SixSeqs
  <2>2. QED BY <2>1, SixThen, SMTT(60)
<1>9. QED BY <1>2, <1>3, <1>4, <1>5, <1>7, <1>8

LEMMA FoldedIfKeeps ==
  ASSUME NEW ok, Good(ok), FoldedIf
  PROVE  Kept(ok)
<1>1. CASE Fail
  BY <1>1 DEF Fail, Kept, Refuses
<1>2. CASE ~Fail
  <2>1. PICK head : head = Header(Operands)
    OBVIOUS
  <2>2. PICK i : i = head.body + 1
    OBVIOUS
  <2>3. PICK then : then = ThenPart(Operands, i)
    OBVIOUS
  <2>4. PICK x : x = Expr(Operands[head.body])
    OBVIOUS
  <2>5. PICK l : l = head.label
    OBVIOUS
  <2>6. PICK o : o = Open(<<op_if, head.type>>, l)
    OBVIOUS
  <2>7. PICK t : t = then.do
    OBVIOUS
  <2>8. PICK ep : ep = ElsePart(Operands, then.next)
    OBVIOUS
  <2>9. /\ Doing("expr") /\ ~IsAtom(Top.sx) /\ ~(head.body > Len(Operands))
        /\ labels' = Append(labels, l) /\ GoOn(<<x, o, t>> \o ep \o <<Close>>) /\ UNCHANGED code
    BY <1>2, <2>1, <2>2, <2>3, <2>4, <2>5, <2>6, <2>7, <2>8 DEF FoldedIf, AtForm
  <2>10. IsSeq(Rest) /\ Emitted(names, Rest, labels, code, ok) /\ Operands \in Seq(Forms)
    BY <2>9, AtExpr
  <2>11. /\ head.body \in Nat /\ head.body >= 1 /\ head.body <= Len(Operands)
         /\ i \in Nat /\ i >= 1 /\ i <= Len(Operands) + 1
    <3>1. head.body \in Nat /\ head.body >= 1
      BY <2>1, <2>10, HeaderIs
    <3>2. Len(Operands) \in Nat
      BY <2>10
    <3>3. QED BY <2>2, <2>9, <3>1, <3>2
  <2>12. ItemOK(x, ok) /\ Neutral(x)
    <3>1. Operands[head.body] \in Forms
      BY <2>10, <2>11
    <3>2. QED BY <2>4, <3>1, ExprItems
  <2>13. ItemsOK(<<t>>, ok) /\ then.next \in Nat /\ then.next >= 1
    BY <2>3, <2>7, <2>10, <2>11, BranchParts
  <2>14. ItemsOK(ep, ok)
    BY <2>8, <2>10, <2>13, ElseItems
  <2>15. PICK s : s = <<t>> \o ep
    OBVIOUS
  <2>16. ItemsOK(s, ok)
    BY <2>13, <2>14, <2>15, ItemsConcat
  <2>17. ItemOK(o, ok) /\ o.do = "put" /\ o.note = <<l>>
    <3>1. <<op_if, head.type>>[1] \in Openers
      BY DEF Openers
    <3>2. ItemOK(o, ok)
      BY <2>6, <3>1, Items
    <3>3. QED BY <2>6, <3>2 DEF Open
  <2>18. Awaited(o)
    BY <2>17 DEF Awaited
  <2>19. Body(<<o>> \o (s \o (<<Close>> \o Rest)), Append(labels, l), code, ok)
    <3>1. Body(Rest, labels, code, ok)
      BY <2>10 DEF Emitted
    <3>2. IsSeq(s) /\ \A k \in 1..Len(s) : Neutral(s[k])
      BY <2>16 DEF ItemsOK, AllOK
    <3>3. Close.do = "close"
      BY CloseIs
    <3>4. QED BY <2>17, <2>18, <3>1, <3>2, <3>3, BodyIf
  <2>20. AllOK(<<o>> \o (s \o (<<Close>> \o Rest)), ok)
    <3>1. AllOK(<<Close>>, ok) /\ AllOK(Rest, ok) /\ AllOK(<<o>>, ok) /\ AllOK(s, ok)
      BY <2>10, <2>16, <2>17, Items, FewItems DEF Emitted, ItemsOK
    <3>2. AllOK(<<Close>> \o Rest, ok)
      BY <3>1, ConcatOK
    <3>3. AllOK(s \o (<<Close>> \o Rest), ok)
      BY <3>1, <3>2, ConcatOK
    <3>4. QED BY <3>1, <3>3, ConcatOK
  <2>21. Emitted(names, <<o>> \o (s \o (<<Close>> \o Rest)), Append(labels, l), code, ok)
    BY <2>10, <2>19, <2>20 DEF Emitted
  <2>22. Emitted(names, <<x>> \o (<<o>> \o (s \o (<<Close>> \o Rest))), Append(labels, l), code, ok)
    BY <2>12, <2>21, PushedOne
  <2>23. work' = <<x>> \o (<<o>> \o (s \o (<<Close>> \o Rest)))
    <3>1. IsSeq(<<t>>) /\ IsSeq(ep)
      BY <2>13, <2>14 DEF ItemsOK, AllOK
    <3>2. (<<x, o, t>> \o ep \o <<Close>>) \o Rest
            = <<x>> \o (<<o>> \o ((<<t>> \o ep) \o (<<Close>> \o Rest)))
      BY <2>10, <3>1, ThreeThen
    <3>3. QED BY <2>9, <2>15, <3>2 DEF GoOn
  <2>24. Goes(ok)
    BY <2>9, <2>22, <2>23, GoesOn DEF GoOn
  <2>25. QED BY <2>24 DEF Kept
<1>3. QED BY <1>1, <1>2

-----------------------------------------------------------------------------
(* What was left for after the operands.                                   *)
LEMMA PutBytesKeeps ==
  ASSUME NEW ok, Good(ok), PutBytes
  PROVE  Goes(ok)
<1>1. Doing("put") /\ Emit(Top.bytes, Top.note) /\ GoOn(<<>>) /\ UNCHANGED labels
  BY DEF PutBytes
<1>2. /\ work # <<>> /\ Top = work[1] /\ ItemOK(Top, ok) /\ Top.do = "put"
      /\ Len(work) > 0 /\ IsSeq(work) /\ IsSeq(Rest)
      /\ Emitted(names, work, labels, code, ok)
      /\ ~Awaited(work[1]) => Emitted(names, Rest, labels, code, ok)
  BY <1>1, AtTop
<1>3. \/ Top.note = <<>> /\ (ok => Plain(Top.bytes))
      \/ Top.bytes[1] \in Openers /\ \E l : Top.note = <<l>>
  BY <1>2, ItemIs
<1>4. PICK e : e = Instr(Top.bytes, Top.note)
  OBVIOUS
<1>5. e.bytes = Top.bytes /\ e.note = Top.note
  BY <1>4, InstrParts
<1>6. Emitted(names, Rest, labels, Append(code, e), ok)
  <2>1. CASE Top.note = <<>> /\ (ok => Plain(Top.bytes))
    <3>1. ~Awaited(work[1])
      BY <1>2, <2>1 DEF Awaited
    <3>2. Emitted(names, Rest, labels, code, ok)
      BY <1>2, <3>1
    <3>3. PICK b : b = Top.bytes
      OBVIOUS
    <3>4. e = Instr(b, <<>>)
      BY <1>4, <2>1, <3>3
    <3>5. Body(Rest, labels, Append(code, Instr(b, <<>>)), ok) /\ CodeOK(names, Append(code, Instr(b, <<>>)))
      BY <2>1, <3>2, <3>3, EmitPlain DEF Emitted
    <3>6. QED BY <3>2, <3>4, <3>5 DEF Emitted
  <2>2. CASE Top.bytes[1] \in Openers /\ \E l : Top.note = <<l>>
    <3>1. Top.note # <<>>
      BY <2>2
    <3>2. Awaited(work[1])
      BY <1>2, <3>1 DEF Awaited
    <3>3. e.bytes[1] \in Openers /\ e.note = work[1].note
      BY <1>2, <1>5, <2>2
    <3>4. Body(Tail(work), labels, Append(code, e), ok)
      BY <1>2, <3>2, <3>3, BodyOpenAwaited DEF Emitted
    <3>5. NamedWell(names, e)
      BY <3>3, NamedUnlike
    <3>6. CodeOK(names, Append(code, e))
      BY <1>2, <3>5, CodeOKAppend DEF Emitted
    <3>7. AllOK(Rest, ok)
      BY <1>2, TopIs
    <3>8. QED BY <3>4, <3>6, <3>7 DEF Emitted, Rest
  <2>3. QED BY <1>3, <2>1, <2>2
<1>7. work' = Rest /\ code' = Append(code, e)
  BY <1>1, <1>2, <1>4, NoneThen DEF GoOn, Emit
<1>8. QED BY <1>1, <1>6, <1>7, GoesOn DEF GoOn

LEMMA PutReferenceKeeps ==
  ASSUME NEW ok, ok => WellWritten, Good(ok), PutReference
  PROVE  Kept(ok)
<1>1. CASE Fail
  BY <1>1 DEF Fail, Kept, Refuses
<1>2. CASE ~Fail
  <2>1. PICK word : word = Top.word
    OBVIOUS
  <2>2. PICK ref : ref = Top.ref
    OBVIOUS
  <2>3. PICK e : e = Instr(<<Opcode[word], resolve(word, ref)>>, <<ref>>)
    OBVIOUS
  <2>4. /\ Doing("refer") /\ resolve(word, ref) >= 0 /\ code' = Append(code, e)
        /\ GoOn(<<>>) /\ UNCHANGED labels
    BY <1>2, <2>1, <2>2, <2>3 DEF PutReference, Emit
  <2>5. /\ work # <<>> /\ Top = work[1] /\ ItemOK(Top, ok) /\ Top.do = "refer"
        /\ IsSeq(work) /\ IsSeq(Rest) /\ Emitted(names, work, labels, code, ok)
        /\ ~Awaited(work[1]) => Emitted(names, Rest, labels, code, ok)
    BY <2>4, AtTop
  <2>6. word \in IndexWords
    BY <2>1, <2>5, ItemIs
  <2>7. ok /\ word \in BranchWords => Unawaited
    <3>1. word \in BranchWords => Branching
      BY <2>1, <2>4 DEF Branching
    <3>2. QED BY <2>5, <3>1, NothingAwaited
  <2>8. Body(work, labels, Append(code, e), ok) /\ CodeOK(names, Append(code, e))
    BY <2>3, <2>4, <2>5, <2>6, <2>7, EmitRefer DEF Emitted
  <2>9. Emitted(names, work, labels, Append(code, e), ok)
    BY <2>5, <2>8 DEF Emitted
  <2>10. ~Awaited(work[1]) /\ ~Closes(work[1])
    BY <2>5 DEF Awaited, Closes
  <2>11. Emitted(names, Tail(work), labels, Append(code, e), ok)
    BY <2>5, <2>9, <2>10, Popped
  <2>12. work' = Tail(work)
    BY <2>4, <2>5, NoneThen DEF GoOn, Rest
  <2>13. Goes(ok)
    BY <2>4, <2>11, <2>12, GoesOn DEF GoOn
  <2>14. QED BY <2>13 DEF Kept
<1>3. QED BY <1>1, <1>2

LEMMA PutTableKeeps ==
  ASSUME NEW ok, ok => WellWritten, Good(ok), PutTable
  PROVE  Kept(ok)
<1>1. CASE Fail
  BY <1>1 DEF Fail, Kept, Refuses
<1>2. CASE ~Fail
  <2>1. PICK refs : refs = Top.refs
    OBVIOUS
  <2>2. PICK e : e = Instr(TableBytes(refs), refs)
    OBVIOUS
  <2>3. /\ Doing("table") /\ Resolved(refs) /\ code' = Append(code, e)
        /\ GoOn(<<>>) /\ UNCHANGED labels
    BY <1>2, <2>1, <2>2 DEF PutTable, Emit
  <2>4. /\ work # <<>> /\ Top = work[1] /\ ItemOK(Top, ok) /\ Top.do = "table"
        /\ IsSeq(work) /\ IsSeq(Rest) /\ Emitted(names, work, labels, code, ok)
    BY <2>3, AtTop
  <2>5. IsSeq(refs)
    BY <2>1, <2>4, ItemIs
  <2>6. ok => Unawaited
    <3>1. Branching
      BY <2>3 DEF Branching
    <3>2. QED BY <2>4, <3>1, NothingAwaited
  <2>7. Body(work, labels, Append(code, e), ok) /\ CodeOK(names, Append(code, e))
    BY <2>2, <2>3, <2>4, <2>5, <2>6, EmitTable DEF Emitted
  <2>8. Emitted(names, work, labels, Append(code, e), ok)
    BY <2>4, <2>7 DEF Emitted
  <2>9. ~Awaited(work[1]) /\ ~Closes(work[1])
    BY <2>4 DEF Awaited, Closes
  <2>10. Emitted(names, Tail(work), labels, Append(code, e), ok)
    BY <2>4, <2>8, <2>9, Popped
  <2>11. work' = Tail(work)
    BY <2>3, <2>4, NoneThen DEF GoOn, Rest
  <2>12. Goes(ok)
    BY <2>3, <2>10, <2>11, GoesOn DEF GoOn
  <2>13. QED BY <2>12 DEF Kept
<1>3. QED BY <1>1, <1>2

LEMMA CloseConstructKeeps ==
  ASSUME NEW ok, Good(ok), CloseConstruct
  PROVE  Goes(ok)
<1>1. PICK e : e = Instr(<<op_end>>, <<>>)
  OBVIOUS
<1>2. /\ Doing("close") /\ code' = Append(code, e) /\ labels' = Front(labels) /\ GoOn(<<>>)
  BY <1>1 DEF CloseConstruct, Emit
<1>3. work # <<>> /\ Top.do = "close"
  BY <1>2 DEF Doing, Top
<1>4. Top = work[1] /\ Len(work) > 0 /\ IsSeq(Rest) /\ AllOK(Rest, ok)
  BY <1>3, TopIs
<1>5. Closes(work[1])
  BY <1>3, <1>4 DEF Closes
<1>6. e.bytes[1] = op_end /\ CodeOK(names, Append(code, e))
  BY <1>1, EndsInstr DEF Good, Emitted
<1>7. Body(Tail(work), Front(labels), Append(code, e), ok)
  BY <1>4, <1>5, <1>6, BodyEnd DEF Good, Emitted
<1>8. Emitted(names, Rest, Front(labels), Append(code, e), ok)
  BY <1>4, <1>6, <1>7 DEF Emitted, Rest
<1>9. work' = Rest
  BY <1>2, <1>4, NoneThen DEF GoOn
<1>10. QED BY <1>2, <1>8, <1>9, GoesOn DEF GoOn

LEMMA EmitBodyKeeps ==
  ASSUME NEW ok, ok => WellWritten, Good(ok), EmitBody
  PROVE  Kept(ok)
<1>1. CASE FunctionEnds
  BY <1>1, FunctionEndsKeeps
<1>2. CASE FoldedEnds \/ FlatElse \/ FlatOpen
  <2>1. Goes(ok)
    BY <1>2, FoldedEndsKeeps, FlatElseKeeps, FlatOpenKeeps
  <2>2. QED BY <2>1 DEF Kept
<1>3. CASE \E how \in {"ok", "end", "else"} : FlatEnds(how) \/ StrayEnd(how)
  <2>1. PICK how \in {"ok", "end", "else"} : FlatEnds(how) \/ StrayEnd(how)
    BY <1>3
  <2>2. FlatEnds(how) => Goes(ok)
    BY FlatEndsKeeps
  <2>3. StrayEnd(how) => Kept(ok)
    BY StrayEndKeeps
  <2>4. QED BY <2>1, <2>2, <2>3 DEF Kept
<1>4. CASE FlatConst \/ FlatIndexed \/ FlatCallIndirect \/ FlatTable
  BY <1>4, FlatConstKeeps, FlatIndexedKeeps, FlatCallIndirectKeeps, FlatTableKeeps
<1>5. CASE FlatAccess \/ FlatPlain \/ FlatList
  <2>1. Goes(ok)
    BY <1>5, FlatAccessKeeps, FlatPlainKeeps, FlatListKeeps
  <2>2. QED BY <2>1 DEF Kept
<1>6. CASE FlatUnknown \/ BadExpr
  BY <1>6 DEF FlatUnknown, BadExpr, Fail, Kept, Refuses
<1>7. CASE ExprAtom \/ FoldedInstruction \/ PutBytes \/ CloseConstruct
  <2>1. Goes(ok)
    BY <1>7, ExprAtomKeeps, FoldedInstructionKeeps, PutBytesKeeps, CloseConstructKeeps
  <2>2. QED BY <2>1 DEF Kept
<1>8. CASE FoldedBlock \/ FoldedIf \/ PutReference \/ PutTable
  BY <1>8, FoldedBlockKeeps, FoldedIfKeeps, PutReferenceKeeps, PutTableKeeps
<1>9. QED BY <1>1, <1>2, <1>3, <1>4, <1>5, <1>6, <1>7, <1>8 DEF EmitBody

-----------------------------------------------------------------------------
(***************************************************************************)
(* The assembly of a program: the tables of names are those of its forms,  *)
(* and a body under way, or done, has the names of its own function.       *)
(***************************************************************************)
Numbered ==
  \E typeNames, localNames :
    names = [types |-> typeNames, funcs |-> Labels(FuncImports \o program.funcs),
             globals |-> Labels(GlobalImports \o program.globals), locals |-> localNames]
InBody ==
  /\ section = 10 /\ Len(bodies) < Len(program.funcs)
  /\ names.locals = NamesOf(Variables(NextFunc))
AsmInv(ok) ==
  /\ program \in Programs /\ IsSeq(bodies)
  /\ section = 0 => outcome = "idle"
  /\ section # 0 => Numbered
  /\ outcome \in {"emitting", "ok"} => InBody
  /\ outcome = "emitting" => Good(ok)
  /\ outcome = "ok" => CodeOK(names, code) /\ (ok => labels = <<None>>)
  /\ ok => AllResolving(code)

LEMMA EmptyIsSeq == IsSeq(<<>>) /\ Len(<<>>) = 0
<1>1. <<>> \in Seq({})
  OBVIOUS
<1>2. QED BY <1>1 DEF IsSeq

LEMMA AsmInvBegins ==
  ASSUME NEW ok, AsmInit
  PROVE  AsmInv(ok)
<1>1. AllResolving(<<>>)
  BY EmptyIsSeq DEF AllResolving
<1>2. QED BY <1>1, EmptyIsSeq DEF AsmInv, AsmInit

(* Nothing of an assembly changes.                                         *)
LEMMA AsmInvRests ==
  ASSUME NEW ok, AsmInv(ok), UNCHANGED asmVars
  PROVE  AsmInv(ok)'
<1>1. UNCHANGED <<program, section, bodies, names, labels, work, code, outcome>>
  BY DEF asmVars, bodyVars
<1>2. (Numbered <=> Numbered') /\ (InBody <=> InBody')
  BY <1>1 DEF Numbered, InBody, FuncImports, GlobalImports, NextFunc
<1>3. Good(ok) <=> Good(ok)'
  BY <1>1 DEF Good
<1>4. QED BY <1>1, <1>2, <1>3 DEF AsmInv

(* The next function's body is a sequence of forms.                        *)
LEMMA NextBody ==
  ASSUME program \in Programs, IsSeq(bodies), Len(bodies) < Len(program.funcs)
  PROVE  NextFunc.body \in Seq(Forms)
<1>1. ProgramOK(program)
  BY WrittenInForms
<1>2. program.funcs \in Seq(ToSet(program.funcs))
  BY <1>1 DEF ProgramOK, Sequence
<1>3. Len(bodies) \in Nat /\ Len(program.funcs) \in Nat
  BY <1>2, Shape
<1>4. NextFunc \in ToSet(program.funcs)
  BY <1>2, <1>3 DEF NextFunc
<1>5. QED BY <1>1, <1>4 DEF ProgramOK

LEMMA BeginsWell ==
  ASSUME NEW ok, NEW body \in Seq(Forms), NEW ns
  PROVE  Emitted(ns, <<Elements(body, 1, Len(body), "function")>>, <<None>>, <<>>, ok)
<1>1. PICK x : x = Elements(body, 1, Len(body), "function")
  OBVIOUS
<1>2. x.do = "seq" /\ x.role = "function"
  BY <1>1 DEF Elements
<1>3. Body(<<x>>, <<None>>, <<>>, ok)
  BY <1>2, BodyBegins
<1>4. ItemOK(x, ok)
  <2>1. 1 \in Nat /\ Len(body) \in Nat /\ 1 >= 1 /\ Len(body) <= Len(body)
    OBVIOUS
  <2>2. \A elems \in Seq(Forms) : \A i, n \in Nat : \A role :
          i >= 1 /\ n <= Len(elems) => ItemOK(Elements(elems, i, n, role), ok)
    BY Items
  <2>3. ItemOK(Elements(body, 1, Len(body), "function"), ok)
    BY <2>1, <2>2, Zenon
  <2>4. QED BY <1>1, <2>3
<1>5. AllOK(<<x>>, ok)
  BY <1>4, OneOf DEF AllOK
<1>6. CodeOK(ns, <<>>)
  BY EmptyIsSeq DEF CodeOK
<1>7. QED BY <1>1, <1>3, <1>5, <1>6 DEF Emitted

(* The body goes on only while it is emitted.                              *)
LEMMA EmitsOnly == EmitBody => outcome = "emitting"
<1>1. \A how : SeqReturns(how) => outcome = "emitting"
  BY DEF SeqReturns, AtWord, Doing
<1>2. \A words : AtWord(words) \/ AtForm(words) => outcome = "emitting"
  BY DEF AtWord, AtForm, Doing
<1>3. \A how : FlatEnds(how) \/ StrayEnd(how) => outcome = "emitting"
  BY <1>1, Zenon DEF FlatEnds, StrayEnd
<1>4. FunctionEnds \/ FoldedEnds \/ FlatElse \/ FlatOpen => outcome = "emitting"
  BY <1>1, <1>2, Zenon DEF FunctionEnds, FoldedEnds, FlatElse, FlatOpen
<1>5. FlatConst \/ FlatIndexed \/ FlatCallIndirect \/ FlatTable \/ FlatAccess
        \/ FlatPlain => outcome = "emitting"
  BY <1>2, Zenon DEF FlatConst, FlatIndexed, FlatCallIndirect, FlatTable, FlatAccess, FlatPlain
<1>6. FlatUnknown \/ FlatList \/ ExprAtom \/ FoldedInstruction \/ BadExpr \/ PutBytes
        \/ PutReference \/ PutTable \/ CloseConstruct => outcome = "emitting"
  BY Zenon DEF FlatUnknown, FlatList, ExprAtom, FoldedInstruction, BadExpr, PutBytes,
               PutReference, PutTable, CloseConstruct, Doing
<1>7. FoldedBlock \/ FoldedIf => outcome = "emitting"
  BY <1>2, Zenon DEF FoldedBlock, FoldedIf
<1>8. QED BY <1>3, <1>4, <1>5, <1>6, <1>7 DEF EmitBody

LEMMA AsmInvKept ==
  ASSUME NEW ok, AsmInv(ok), Assemble, ok => WellWritten
  PROVE  AsmInv(ok)'
<1>1. CASE Collect
  <2>1. /\ section' = 1 /\ section = 0
        /\ UNCHANGED <<program, bodies, labels, work, code, outcome>>
    BY <1>1 DEF Collect
  <2>2. Numbered'
    BY <1>1 DEF Collect, Numbered, FuncImports, GlobalImports
  <2>3. outcome' = "idle"
    BY <2>1 DEF AsmInv
  <2>4. QED BY <2>1, <2>2, <2>3 DEF AsmInv
<1>2. CASE WriteSection
  <2>1. /\ section \in 1..11 \ {10} /\ section' \in {section + 1, Failed}
        /\ UNCHANGED <<program, bodies, names, labels, work, code, outcome>>
    BY <1>2 DEF WriteSection, bodyVars
  <2>2. section # 0 /\ section # 10 /\ section' # 0
    BY <2>1 DEF Failed
  <2>3. Numbered'
    BY <2>1, <2>2 DEF AsmInv, Numbered, FuncImports, GlobalImports
  <2>4. outcome' \notin {"emitting", "ok"}
    BY <2>1, <2>2 DEF AsmInv, InBody
  <2>5. QED BY <2>1, <2>2, <2>3, <2>4 DEF AsmInv
<1>3. CASE WriteCode
  <2>1. /\ section = 10 /\ section' = 11 /\ outcome = "idle"
        /\ UNCHANGED <<program, bodies, names, labels, work, code, outcome>>
    BY <1>3 DEF WriteCode, BetweenBodies, bodyVars
  <2>2. Numbered'
    BY <2>1 DEF AsmInv, Numbered, FuncImports, GlobalImports
  <2>3. QED BY <2>1, <2>2 DEF AsmInv
<1>4. CASE FinishBody
  <2>1. /\ section = 10 /\ section' = 10 /\ outcome' = "idle"
        /\ bodies' = Append(bodies, [code |-> BodyCode, entry |-> BodyEntry(NextFunc)])
        /\ UNCHANGED <<program, names, labels, work, code>>
    BY <1>4 DEF FinishBody
  <2>2. Numbered'
    BY <2>1 DEF AsmInv, Numbered, FuncImports, GlobalImports
  <2>3. IsSeq(bodies')
    BY <2>1, AppendFacts DEF AsmInv
  <2>4. QED BY <2>1, <2>2, <2>3 DEF AsmInv
<1>5. CASE BeginBody
  <2>1. /\ section = 10 /\ section' = 10 /\ Len(bodies) < Len(program.funcs)
        /\ names' = [names EXCEPT !.locals = NamesOf(Variables(NextFunc))]
        /\ labels' = <<None>> /\ code' = <<>> /\ outcome' = "emitting"
        /\ work' = <<Elements(NextFunc.body, 1, Len(NextFunc.body), "function")>>
        /\ UNCHANGED <<program, bodies>>
    BY <1>5 DEF BeginBody, BetweenBodies, Variables
  <2>2. Numbered
    BY <2>1 DEF AsmInv
  <2>3. Numbered' /\ names'.locals = NamesOf(Variables(NextFunc))
    <3>1. PICK t, l : names = [types |-> t, funcs |-> Labels(FuncImports \o program.funcs),
                               globals |-> Labels(GlobalImports \o program.globals),
                               locals |-> l]
      BY <2>2 DEF Numbered
    <3>2. names' = [types |-> t, funcs |-> Labels(FuncImports \o program.funcs),
                    globals |-> Labels(GlobalImports \o program.globals),
                    locals |-> NamesOf(Variables(NextFunc))]
      BY <2>1, <3>1
    <3>3. FuncImports' = FuncImports /\ GlobalImports' = GlobalImports
      BY <2>1 DEF FuncImports, GlobalImports
    <3>4. Numbered'
      BY <2>1, <3>2, <3>3 DEF Numbered
    <3>5. QED BY <3>2, <3>4
  <2>4. InBody'
    BY <2>1, <2>3 DEF InBody, NextFunc
  <2>5. Good(ok)'
    <3>1. NextFunc.body \in Seq(Forms)
      BY <2>1, NextBody DEF AsmInv
    <3>2. QED BY <2>1, <3>1, BeginsWell DEF Good
  <2>6. AllResolving(code')
    BY <2>1, EmptyIsSeq DEF AllResolving
  <2>7. QED BY <2>1, <2>3, <2>4, <2>5, <2>6 DEF AsmInv
<1>6. CASE EmitStep
  <2>1. /\ section = 10 /\ EmitBody
        /\ section' = IF outcome' = "error" THEN Failed ELSE section
        /\ UNCHANGED <<program, bodies>>
    BY <1>6 DEF EmitStep
  <2>2. outcome = "emitting"
    BY <2>1, EmitsOnly
  <2>3. Good(ok) /\ InBody /\ Numbered
    BY <2>1, <2>2 DEF AsmInv
  <2>4. Kept(ok)
    BY <2>1, <2>3, EmitBodyKeeps
  <2>5. names' = names
    BY <2>4 DEF Kept, Goes, Refuses, BodyEnds
  <2>6. Numbered' /\ section' # 0
    <3>1. section' # 0
      BY <2>1 DEF Failed
    <3>2. Numbered'
      BY <2>1, <2>3, <2>5 DEF Numbered, FuncImports, GlobalImports
    <3>3. QED BY <3>1, <3>2
  <2>7. section' = section => InBody'
    BY <2>1, <2>3, <2>5 DEF InBody, NextFunc
  <2>8. CASE Goes(ok)
    <3>1. Good(ok)' /\ outcome' = "emitting" /\ Emitted(names', work', labels', code', ok)
      BY <2>8 DEF Goes, Good
    <3>2. ok => AllResolving(code')
      <4>1. Body(work', labels', code', ok)
        BY <3>1 DEF Emitted
      <4>2. QED BY <4>1, BodyShape
    <3>3. QED BY <2>1, <2>6, <2>7, <3>1, <3>2 DEF AsmInv
  <2>9. CASE Refuses
    <3>1. outcome' = "error" /\ code' = code
      BY <2>9 DEF Refuses
    <3>2. QED BY <2>1, <2>6, <3>1 DEF AsmInv
  <2>10. CASE BodyEnds(ok)
    <3>1. outcome' = "ok" /\ code' = code /\ (ok => labels' = <<None>>)
      BY <2>10 DEF BodyEnds
    <3>2. CodeOK(names', code')
      BY <2>3, <2>5, <3>1 DEF Good, Emitted
    <3>3. QED BY <2>1, <2>6, <2>7, <3>1, <3>2 DEF AsmInv
  <2>11. QED BY <2>4, <2>8, <2>9, <2>10 DEF Kept
<1>7. QED BY <1>1, <1>2, <1>3, <1>4, <1>5, <1>6 DEF Assemble

LEMMA DriverAssembles ==
  ASSUME NEW ok, AsmInv(ok), [Next]_vars, ok => WellWritten
  PROVE  AsmInv(ok)'
<1>1. Assemble \/ UNCHANGED asmVars
  BY DEF Next, vars, Finished, ReadTextStep, TextAccepted, TextRefused, TextOverrun, TextFails,
         AssembleStep, WriteFile, AssemblyFails, ReadFile, LoadStep, LoadFails,
         BuildEnvironment, RunMain, Release, LeakCheck
<1>2. QED BY <1>1, AsmInvKept, AsmInvRests

(***************************************************************************)
(* The labels follow the nesting of the constructs: for every program that *)
(* is well written, a branch to a $-name has the depth of the innermost    *)
(* construct of that name, and a body that is done leaves only the         *)
(* function's own label.                                                   *)
(***************************************************************************)
THEOREM LabelsInStepAlways == Spec /\ []WellWritten => []LabelsInStep
<1>1. Init => AsmInv(TRUE)
  BY AsmInvBegins DEF Init
<1>2. AsmInv(TRUE) /\ WellWritten /\ [Next]_vars => AsmInv(TRUE)'
  BY DriverAssembles
<1>3. AsmInv(TRUE) => LabelsInStep
  BY ResolvingIsLabels DEF AsmInv, LabelsInStep
<1>4. QED BY <1>1, <1>2, <1>3, PTL DEF Spec

-----------------------------------------------------------------------------
(* The number of a name is the first position it stands at.                *)
LEMMA FirstOfName ==
  ASSUME NEW entries, IsSeq(entries), NEW ref \in Ids, resolve_name(entries, ref) >= 0
  PROVE  LET index == resolve_name(entries, ref)
         IN  /\ index < Len(entries)
             /\ entries[index + 1] = ref
             /\ \A i \in 1..index : entries[i] # ref
<1> DEFINE T == {i \in 1..Len(entries) : entries[i] = ref}
           index == resolve_name(entries, ref)
<1>1. Len(entries) \in Nat
  BY Shape
<1>2. index = (IF T # {} THEN Min(T) ELSE 0) - 1
  BY Zenon DEF resolve_name, SelectInSeq
<1>3. T # {}
  BY <1>2
<1>4. Min(T) \in T /\ \A j \in T : Min(T) <= j
  BY <1>1, <1>3, LeastFrom
<1>5. Min(T) = index + 1 /\ index \in Nat
  BY <1>1, <1>2, <1>3, <1>4
<1>6. index < Len(entries) /\ entries[index + 1] = ref
  BY <1>1, <1>4, <1>5
<1>7. \A i \in 1..index : entries[i] # ref
  BY <1>1, <1>4, <1>5, <1>6
<1>8. QED BY <1>6, <1>7

(* The names of a sequence of forms are a sequence.                        *)
LEMMA NamesAreSeqs ==
  ASSUME NEW s, IsSeq(s)
  PROVE  IsSeq(Labels(s)) /\ IsSeq(NamesOf(s))
<1>1. Len(s) \in Nat /\ DOMAIN s = 1..Len(s)
  BY Shape
<1>2. PICK S : S = {s[i].label : i \in 1..Len(s)}
  OBVIOUS
<1>3. [i \in 1..Len(s) |-> s[i].label] \in Seq(S)
  BY <1>1, <1>2
<1>4. QED BY <1>1, <1>3 DEF IsSeq, Labels, NamesOf

LEMMA DeclaredIs ==
  ASSUME program \in Programs, Numbered, InBody, IsSeq(bodies), NEW word \in VariableWords
  PROVE  Declared(word) = Scope(names, word) /\ IsSeq(Declared(word))
<1>1. ProgramOK(program)
  BY WrittenInForms
<1>2. IsSeq(program.funcs) /\ IsSeq(program.globals)
  BY <1>1 DEF ProgramOK, Sequence, IsSeq
<1>3. IsSeq(FuncImports) /\ IsSeq(GlobalImports)
  BY <1>1 DEF ProgramOK, Sequence, IsSeq, FuncImports, GlobalImports
<1>4. IsSeq(FuncImports \o program.funcs) /\ IsSeq(GlobalImports \o program.globals)
  BY <1>2, <1>3, ConcatFacts
<1>5. IsSeq(Variables(NextFunc))
  <2>1. Len(bodies) \in Nat /\ Len(program.funcs) \in Nat /\ Len(bodies) < Len(program.funcs)
    BY <1>2, Shape DEF InBody
  <2>2. program.funcs \in Seq(ToSet(program.funcs))
    BY <1>1 DEF ProgramOK, Sequence
  <2>3. NextFunc \in ToSet(program.funcs)
    BY <2>1, <2>2 DEF NextFunc
  <2>4. IsSeq(NextFunc.params) /\ IsSeq(NextFunc.locals)
    BY <1>1, <2>3 DEF ProgramOK, Sequence, IsSeq
  <2>5. QED BY <2>4, ConcatFacts DEF Variables
<1>6. /\ names.funcs = Labels(FuncImports \o program.funcs)
      /\ names.globals = Labels(GlobalImports \o program.globals)
      /\ names.locals = NamesOf(Variables(NextFunc))
  BY DEF Numbered, InBody
<1>7. LocalWords \cap GlobalWords = {} /\ "call" \notin LocalWords \cup GlobalWords
  BY DEF LocalWords, GlobalWords
<1>8. /\ word \in LocalWords => Declared(word) = NamesOf(Variables(NextFunc))
      /\ word \in GlobalWords => Declared(word) = Labels(GlobalImports \o program.globals)
      /\ word = "call" => Declared(word) = Labels(FuncImports \o program.funcs)
  BY <1>7 DEF Declared
<1>9. Declared(word) = Scope(names, word)
  BY <1>6, <1>7, <1>8 DEF Scope, VariableWords
<1>10. IsSeq(Declared(word))
  BY <1>4, <1>5, <1>8, NamesAreSeqs DEF VariableWords
<1>11. QED BY <1>9, <1>10

(***************************************************************************)
(* A $-name of a variable or a function becomes the number of the first    *)
(* one declared under it, whatever the program.                            *)
(***************************************************************************)
THEOREM NamesResolveAlways == Spec => []NamesResolve
<1>1. Init => AsmInv(FALSE)
  BY AsmInvBegins DEF Init
<1>2. AsmInv(FALSE) /\ [Next]_vars => AsmInv(FALSE)'
  BY DriverAssembles
<1>3. AsmInv(FALSE) => NamesResolve
  <2> SUFFICES ASSUME AsmInv(FALSE), section = 10, outcome = "ok",
                      NEW instr \in ToSet(code), NEW word \in VariableWords,
                      Named(instr), instr.bytes[1] = Opcode[word]
               PROVE  LET index == instr.bytes[2]
                      IN  /\ index < Len(Declared(word))
                          /\ Declared(word)[index + 1] = instr.note[1]
                          /\ \A i \in 1..index : Declared(word)[i] # instr.note[1]
    BY DEF NamesResolve, VariableWords
  <2>1. /\ program \in Programs /\ IsSeq(bodies) /\ Numbered /\ InBody
        /\ CodeOK(names, code)
    BY DEF AsmInv
  <2>2. PICK k \in 1..Len(code) : instr = code[k]
    <3>1. DOMAIN code = 1..Len(code)
      BY <2>1, Shape DEF CodeOK
    <3>2. QED BY <3>1 DEF ToSet
  <2>3. instr.note # <<>> /\ instr.note[1] \in Ids
    BY DEF Named
  <2>4. /\ instr.bytes[2] = resolve_name(Scope(names, word), instr.note[1])
        /\ instr.bytes[2] >= 0
    BY <2>1, <2>2, <2>3 DEF CodeOK, NamedWell
  <2>5. Declared(word) = Scope(names, word) /\ IsSeq(Declared(word))
    BY <2>1, DeclaredIs
  <2>6. PICK entries : entries = Declared(word)
    OBVIOUS
  <2>7. IsSeq(entries) /\ resolve_name(entries, instr.note[1]) >= 0
    BY <2>4, <2>5, <2>6
  <2>8. LET index == resolve_name(entries, instr.note[1])
        IN  /\ index < Len(entries)
            /\ entries[index + 1] = instr.note[1]
            /\ \A i \in 1..index : entries[i] # instr.note[1]
    BY <2>3, <2>7, FirstOfName
  <2>9. QED BY <2>4, <2>5, <2>6, <2>8
<1>4. QED BY <1>1, <1>2, <1>3, PTL DEF Spec
=============================================================================
