-------------------------- MODULE ValidCodeProofs ---------------------------
(***************************************************************************)
(* What the interpreter does with valid code: its state keeps its types,   *)
(* a pending jump stays inside the function that made it, and the whole    *)
(* implements ControlFlow.  Validity is the static half of it, that        *)
(* indices and labels exist; how high the operand stack is at an           *)
(* instruction is no part of it.                                           *)
(***************************************************************************)
EXTENDS InterpProofs, FiniteSetTheorems

(***************************************************************************)
(* The places of a module are where the interpreter may be: in function i  *)
(* at address p, below d labels besides the function's, in a construct     *)
(* that ends at e.  Any set will do that is closed under what the          *)
(* instructions do next (see Closed).                                      *)
(***************************************************************************)
CONSTANT Places(_)

FunctionsOf(m) == {i - 1 : i \in DOMAIN m.funcs}

LocalOK(f, n) ==
  /\ n + 2 \in DOMAIN f.offsets
  /\ f.offsets[n + 2] - f.offsets[n + 1] \in {1, 2}
LabelsOK(m, p, d) ==
  /\ ReadLeb(m.code, p + 1).value < 255
  /\ \A w \in Words : LET q == LabelAddress(m.code, p, w)
                      IN  q \in DOMAIN m.code /\ m.code[q] <= d

(* An opcode's immediate: a number that ends, an index or label there is.  *)
ImmediateOK(m, i, p, d) ==
  LET op == m.code[p]
      imm == ReadLeb(m.code, p + 1)
  IN  /\ op \in {i32_const, i64_const} => imm.next # p + 1
      /\ op \in LocalAccess => LocalOK(m.funcs[i + 1], imm.value)
      /\ op \in {op_global_get, op_global_set} =>
           imm.value + 1 \in DOMAIN m.globals \cap DOMAIN m.globalWords
      /\ op \in {op_br, op_br_if} => imm.value <= d
      /\ op = op_br_table => LabelsOK(m, p, d)
      /\ op = op_call => imm.value \in FunctionsOf(m)

(* The places an instruction leads to; read_block decides where the        *)
(* constructs end.                                                         *)
BlockClosed(m, P, i, p, d, e) ==
  LET end == ReadBlock(m.code, p + 2)
  IN  end # 0 => {<<i, p + 2, d + 1, end>>, <<i, end, d, e>>} \subseteq P
IfClosed(m, P, i, p, d, e) ==
  LET middle == ReadBlock(m.code, p + 2)
      end == ReadBlock(m.code, middle)
  IN  middle # 0 /\ end # 0 =>
        {<<i, p + 2, d + 1, middle>>, <<i, middle, d + 1, end>>, <<i, end, d, e>>}
          \subseteq P
PlaceOK(m, P, i, p, d, e) ==
  LET op == m.code[p]
  IN  /\ p \in DOMAIN m.code
      /\ ImmediateOK(m, i, p, d)
      /\ op \in {op_block, op_loop} => BlockClosed(m, P, i, p, d, e)
      /\ op = op_if => IfClosed(m, P, i, p, d, e)
      /\ op \notin Openers => <<i, InstructionEnd(m.code, p), d, e>> \in P

Closed(m, P) ==
  /\ \A q \in P : q \in FunctionsOf(m) \X Nat \X Nat \X Nat
  /\ \A i \in FunctionsOf(m) : LET f == m.funcs[i + 1]
                               IN  ~f.imported => <<i, f.begin, 0, f.end>> \in P
  /\ \A q \in P : q[2] < q[4] => PlaceOK(m, P, q[1], q[2], q[3], q[4])

Valid(m) ==
  /\ ModuleOK(m)
  /\ \A i \in FunctionsOf(m) : LET f == m.funcs[i + 1] IN f.params + 1 \in DOMAIN f.offsets
  /\ {m.main} \cup m.start \subseteq {i \in FunctionsOf(m) : ~m.funcs[i + 1].imported}
  /\ \A n \in DOMAIN m.table : m.table[n] \subseteq FunctionsOf(m)
  /\ Closed(m, Places(m))

ASSUME ValidCode == \A m \in Modules : Valid(m)

-----------------------------------------------------------------------------
(***************************************************************************)
(* The invariant.  An activation is at a place of its function and depth,  *)
(* begins again at one, and gives way to one below it.                     *)
(***************************************************************************)
Spot(k, p) == <<control[k].func, p, k - control[k].locals, control[k].end>>
BackAt(k) == IF acts[k].kind = "then" THEN acts[k].resume ELSE control[k].end
InPlace(k) ==
  /\ acts[k].end = control[k].end
  /\ Spot(k, acts[k].ip) \in Places(module)
  /\ Spot(k, control[k].begin) \in Places(module)
  /\ acts[k].kind \in BlockKinds => Spot(k - 1, BackAt(k)) \in Places(module)
  /\ k < Len(acts) => acts[k].over = "no"
  /\ acts[k].over = "no" => acts[k].sp <= StackWords

JumpBounded(over, n) ==
  /\ over \in {"natural", "overflow"} => jump = 0
  /\ jump >= 0 => (IF over = "jump" THEN jump + 1 ELSE jump) <= n - envLocals + 1

Typed ==
  /\ module \in Modules /\ stack \in [0..StackWords + 1 -> Words]
  /\ globals \in Seq(Words \X Words) /\ Len(globals) = Len(module.globals)
  /\ acts \in Seq(Activations) /\ control \in Seq(Frames)
  /\ envSp \in 0..StackWords /\ jump \in Int
Placed ==
  /\ JumpBounded(Top.over, Len(acts))
  /\ \A k \in 1..Len(acts) : InPlace(k)
Counted ==
  /\ objects \in 0..MaxObjects /\ curFrame \in Nat /\ envLocals \in Nat
  /\ status \in {"run", "done", "exit", "crash", "ctlOverflow"}
VInv ==
  /\ Typed /\ Counted /\ FInv /\ ObjectsAccounted
  /\ status = "run" => Placed
VRun == Typed /\ RunInv /\ Placed
Kept == Typed' /\ (status' = "run" => Placed')

-----------------------------------------------------------------------------
(* A number is read from at most five bytes.                               *)
SevenBits(code, p, n) == [k \in 1..n |-> (code[p + k - 1] % 128) * Weight[k]]

LEMMA LebIsSum ==
  ASSUME NEW code, NEW p, NEW n \in Nat
  PROVE  \E f : IsSum(f, SevenBits(code, p, n), n) /\ LebValue(code, p, n) = f[n]
<1> DEFINE byte(k) == (code[p + k - 1] % 128) * Weight[k]
           Good(f) == f = [k \in 0..n |-> IF k = 0 THEN 0 ELSE f[k - 1] + byte(k)]
           sum == CHOOSE f : Good(f)
<1>1. LebValue(code, p, n) = sum[n]
  BY DEF LebValue
<1>2. \A k \in 1..n : SevenBits(code, p, n)[k] = byte(k)
  BY DEF SevenBits
<1> HIDE DEF byte
<1>3. \A f : Good(f) <=> IsSum(f, SevenBits(code, p, n), n)
  <2> SUFFICES ASSUME NEW f PROVE Good(f) <=> IsSum(f, SevenBits(code, p, n), n)
    OBVIOUS
  <2>1. [k \in 0..n |-> IF k = 0 THEN 0 ELSE f[k - 1] + byte(k)]
          = [k \in 0..n |-> IF k = 0 THEN 0 ELSE f[k - 1] + SevenBits(code, p, n)[k]]
    BY <1>2
  <2>2. QED BY <2>1, Zenon DEF IsSum
<1>4. \E f : Good(f)
  BY <1>3, SumExists
<1>5. Good(sum)
  BY <1>4, Zenon
<1> HIDE DEF Good, sum
<1>6. QED BY <1>1, <1>3, <1>5

LEMMA ReadLebFacts ==
  ASSUME NEW code \in Seq(Bytes), NEW p \in Nat \ {0}
  PROVE  /\ ReadLeb(code, p).value \in Nat
         /\ ReadLeb(code, p).next \in Nat /\ ReadLeb(code, p).next - p \in 0..5
         /\ ReadLeb(code, p).next - 1 \in 1..Len(code) \/ ReadLeb(code, p).next = p
<1> DEFINE last == {n \in 1..5 : p + n - 1 <= Len(code) /\ code[p + n - 1] < 128}
           n == Min(last)
<1>1. ReadLeb(code, p) = IF last = {} THEN [value |-> 0, next |-> p]
                         ELSE [value |-> LebValue(code, p, n), next |-> p + n]
  BY DEF ReadLeb
<1>2. CASE last = {}
  BY <1>1, <1>2
<1>3. CASE last # {}
  <2>1. n \in last
    <3>1. last \subseteq Nat
      OBVIOUS
    <3>2. \E m \in last : \A k \in last : m <= k
      BY <1>3, <3>1, LeastNatural
    <3> HIDE DEF last
    <3>3. QED BY <3>2, Zenon DEF Min
  <2>2. PICK m : m = n
    OBVIOUS
  <2>3. /\ m \in Nat /\ m \in 1..5 /\ p + m - 1 \in 1..Len(code) /\ p + m \in Nat /\ p + m - p = m
    <3>1. m \in 1..5 /\ p + m - 1 <= Len(code)
      BY <2>1, <2>2
    <3>2. QED BY <3>1
  <2>4. PICK f : IsSum(f, SevenBits(code, p, m), m) /\ LebValue(code, p, m) = f[m]
    BY <2>3, LebIsSum
  <2>5. \A k \in 1..m : SevenBits(code, p, m)[k] \in Nat
    <3> TAKE k \in 1..m
    <3>1. p + k - 1 \in 1..Len(code)
      BY <2>3
    <3>2. code[p + k - 1] \in Bytes
      BY <3>1, ElementOfSeq
    <3>3. code[p + k - 1] % 128 \in Nat
      <4>1. \A x \in Bytes : x % 128 \in Nat
        BY DEF Bytes
      <4>2. QED BY <3>2, <4>1, Zenon
    <3>4. Weight[k] \in Nat
      BY <2>3 DEF Weight
    <3>5. (code[p + k - 1] % 128) * Weight[k] \in Nat
      BY <3>3, <3>4
    <3>6. QED BY <3>5 DEF SevenBits
  <2>6. f[m] \in Nat
    BY <2>3, <2>4, <2>5, SumsAreNatural
  <2> HIDE DEF last, n
  <2>7. ReadLeb(code, p) = [value |-> f[m], next |-> p + m]
    BY <1>1, <1>3, <2>2, <2>4
  <2>8. QED BY <2>3, <2>6, <2>7
<1>4. QED BY <1>2, <1>3

(* The instructions that are an opcode alone, and those with a number.     *)
Alone1 == {op_unreachable, op_nop, op_else, op_end, op_drop, op_select} \cup Numeric
Number1 ==
  {op_br, op_br_if, op_call, op_global_get, op_global_set, memory_size, memory_grow,
   i32_const, i64_const} \cup LocalAccess

LEMMA InstructionEnds ==
  ASSUME NEW code, NEW p
  PROVE  /\ code[p] \in Alone1 \cup {op_return} => InstructionEnd(code, p) = p + 1
         /\ code[p] \in Number1 => InstructionEnd(code, p) = ReadLeb(code, p + 1).next
         /\ code[p] \in MemoryAccess =>
              InstructionEnd(code, p) = AfterLeb(code, ReadLeb(code, p + 1).next)
         /\ code[p] = op_call_indirect => InstructionEnd(code, p) = ReadLeb(code, p + 1).next + 1
         /\ code[p] = op_br_table =>
              InstructionEnd(code, p)
                = ReadLeb(code, p + 1).next + ReadLeb(code, p + 1).value + 1
         /\ code[p] = f32_const => InstructionEnd(code, p) = p + 5
         /\ code[p] = f64_const => InstructionEnd(code, p) = p + 9
<1> USE DEF op_unreachable, op_nop, op_else, op_end, op_return, op_drop, op_select, op_br,
            op_br_if, op_call, op_global_get, op_global_set, memory_size, memory_grow,
            i32_const, i64_const, f32_const, f64_const, op_call_indirect, op_br_table,
            op_local_get, op_local_set, op_local_tee, op_block, op_loop, op_if
<1>1. code[p] \in Alone1 \cup {op_return} =>
        code[p] \notin {f32_const, f64_const, op_br_table, op_call_indirect}
                         \cup Openers \cup OneLeb \cup MemoryAccess
  BY DEF Alone1, Numeric, OneLeb, MemoryAccess, Openers
<1>2. code[p] \in Number1 =>
        /\ code[p] \in OneLeb
        /\ code[p] \notin {f32_const, f64_const, op_br_table, op_call_indirect}
                            \cup Openers \cup MemoryAccess
  BY DEF Number1, LocalAccess, OneLeb, MemoryAccess, Openers
<1>3. code[p] \in MemoryAccess =>
        code[p] \notin {f32_const, f64_const, op_br_table, op_call_indirect}
                         \cup Openers \cup OneLeb
  BY DEF OneLeb, MemoryAccess, Openers
<1>4. code[p] \in {op_call_indirect, op_br_table, f32_const, f64_const} =>
        code[p] \notin Openers
  BY DEF Openers
<1>5. code[p] \notin {f32_const, f64_const} => InstructionEnd(code, p) = ScanNext(code, p)
  BY DEF InstructionEnd
<1>6. /\ code[p] = f32_const => InstructionEnd(code, p) = p + 5
      /\ code[p] = f64_const => InstructionEnd(code, p) = p + 9
  BY DEF InstructionEnd
<1>7. /\ code[p] = op_call_indirect => ScanNext(code, p) = AfterLeb(code, p + 1) + 1
      /\ code[p] = op_br_table => ScanNext(code, p) = TableEnd(code, p + 1)
  BY <1>4 DEF ScanNext, OneLeb, MemoryAccess
<1>8. code[p] \in Alone1 \cup {op_return} => ScanNext(code, p) = p + 1
  BY <1>1 DEF ScanNext
<1>9. code[p] \in Number1 => ScanNext(code, p) = AfterLeb(code, p + 1)
  BY <1>2 DEF ScanNext
<1>10. code[p] \in MemoryAccess => ScanNext(code, p) = AfterLeb(code, AfterLeb(code, p + 1))
  BY <1>3 DEF ScanNext
<1>11. QED
  BY <1>1, <1>2, <1>3, <1>5, <1>6, <1>7, <1>8, <1>9, <1>10 DEF AfterLeb, TableEnd

(***************************************************************************)
(* The instructions that compute: as they are grouped, none takes more     *)
(* than four words or gives more than two.                                 *)
(***************************************************************************)
FamilyOK(f) ==
  /\ f.ops \subseteq Alone1 \cup MemoryAccess
  /\ f.takes \in 0..4 /\ f.gives \in 0..2 /\ f.values \subseteq Words
LEMMA FamiliesOK == \A f \in Families : FamilyOK(f)
<1>2. Booleans \subseteq Words /\ {} \subseteq Words /\ Words \subseteq Words
  BY Parameters DEF Booleans, Words
<1> USE DEF FamilyOK, Family, Alone1, Numeric, MemoryAccess
<1>3. FamilyOK(word_loads) /\ FamilyOK(long_loads)
  BY <1>2 DEF word_loads, long_loads
<1>4. FamilyOK(word_stores) /\ FamilyOK(long_stores)
  BY <1>2 DEF word_stores, long_stores
<1>5. FamilyOK(i32_compare) /\ FamilyOK(i64_compare) /\ FamilyOK(eqz_32) /\ FamilyOK(eqz_64)
  BY <1>2 DEF i32_compare, i64_compare, eqz_32, eqz_64
<1>6. FamilyOK(f32_compare) /\ FamilyOK(f64_compare)
  BY <1>2 DEF f32_compare, f64_compare
<1>7. FamilyOK(i32_binary) /\ FamilyOK(i64_binary)
  BY <1>2 DEF i32_binary, i64_binary
<1>8. FamilyOK(f32_binary) /\ FamilyOK(f64_binary)
  BY <1>2 DEF f32_binary, f64_binary
<1>9. FamilyOK(i32_count) /\ FamilyOK(i64_count)
  BY <1>2 DEF i32_count, i64_count
<1>10. FamilyOK(f32_unary) /\ FamilyOK(f64_unary)
  BY <1>2 DEF f32_unary, f64_unary
<1>11. FamilyOK(to_word_from_word) /\ FamilyOK(to_word_from_long)
  BY <1>2 DEF to_word_from_word, to_word_from_long
<1>12. FamilyOK(to_long_from_word) /\ FamilyOK(to_long_from_long)
  BY <1>2 DEF to_long_from_word, to_long_from_long
<1>13. FamilyOK(reinterpret)
  BY <1>2 DEF reinterpret
<1>14. FamilyOK(skip)
  BY DEF skip
<1> HIDE DEF FamilyOK
<1>15. QED
  BY <1>3, <1>4, <1>5, <1>6, <1>7, <1>8, <1>9, <1>10, <1>11, <1>12, <1>13, <1>14, Zenon
  DEF Families

-----------------------------------------------------------------------------
(***************************************************************************)
(* The stacks.                                                             *)
(***************************************************************************)
NewTop(bs, a) ==
  /\ bs \in Seq(Activations) /\ Len(bs) = Len(acts) /\ bs[Len(acts)] = a
  /\ \A k \in 1..Len(acts) - 1 : bs[k] = acts[k]

LEMMA Height ==
  ASSUME VRun
  PROVE  /\ Len(acts) \in Nat \ {0} /\ Len(control) = Len(acts) /\ curFrame = Len(acts)
         /\ Top = acts[Len(acts)] /\ Top \in Activations
         /\ FrameOf = control[Len(acts)] /\ FrameOf \in Frames
         /\ envLocals \in 1..Len(acts) /\ envLocals = FrameOf.locals
         /\ control[envLocals] \in Frames /\ InPlace(Len(acts))
<1>1. /\ Len(acts) \in Nat \ {0} /\ Len(control) = Len(acts) /\ curFrame = Len(acts)
      /\ envLocals \in 1..Len(acts) /\ Len(acts) \in 1..Len(acts)
      /\ envLocals = control[Len(acts)].locals
  BY Sizes DEF VRun, RunInv
<1>2. acts \in Seq(Activations) /\ control \in Seq(Frames)
  BY DEF VRun, Typed
<1>3. /\ acts[Len(acts)] \in Activations /\ control[Len(acts)] \in Frames
      /\ control[envLocals] \in Frames
  BY <1>1, <1>2, ElementOfSeq
<1>4. InPlace(Len(acts))
  BY <1>1 DEF VRun, Placed
<1>5. QED BY <1>1, <1>3, <1>4 DEF Top, Last, FrameOf

LEMMA TopReplaced ==
  ASSUME VRun, NEW a \in Activations
  PROVE  /\ NewTop([acts EXCEPT ![Len(acts)] = a], a)
         /\ NewTop(Append(Front(acts), a), a)
<1> DEFINE n == Len(acts)
           S == Activations
<1>1. acts \in Seq(S) /\ n \in Nat \ {0}
  BY Height DEF VRun, Typed
<1>2. a \in S
  OBVIOUS
<1> HIDE DEF S, n
<1>3. /\ [acts EXCEPT ![n] = a] \in Seq(S) /\ Len([acts EXCEPT ![n] = a]) = Len(acts)
      /\ [acts EXCEPT ![n] = a][n] = a
      /\ \A k \in 1..n - 1 : [acts EXCEPT ![n] = a][k] = acts[k]
  <2>1. n \in 1..Len(acts)
    BY <1>1 DEF n
  <2>2. QED BY <1>1, <1>2, <2>1, ExceptSeq
<1>4. /\ Front(acts) \in Seq(S) /\ Len(Front(acts)) = n - 1
      /\ \A k \in 1..n - 1 : Front(acts)[k] = acts[k]
  <2>1. IsSeq(acts) /\ Len(acts) > 0 /\ n = Len(acts)
    BY <1>1 DEF IsSeq, n
  <2>2. /\ Len(Front(acts)) = n - 1 /\ \A k \in 1..n - 1 : Front(acts)[k] = acts[k]
    BY <2>1, FrontFacts
  <2>3. \A k \in 1..n - 1 : acts[k] \in S
    BY <1>1, <2>1, ElementOfSeq
  <2>4. SubSeq(acts, 1, n - 1) \in Seq(S)
    BY <1>1, <2>3, SubSeqProperties
  <2>5. QED BY <2>1, <2>2, <2>4 DEF Front
<1>5. /\ Append(Front(acts), a) \in Seq(S) /\ Len(Append(Front(acts), a)) = n
      /\ Append(Front(acts), a)[n] = a
      /\ \A k \in 1..n - 1 : Append(Front(acts), a)[k] = acts[k]
  <2>1. n - 1 + 1 = n
    BY <1>1
  <2>2. QED BY <1>1, <1>2, <1>4, <2>1, AppendProperties
<1>6. QED BY <1>3, <1>5 DEF NewTop, S, n

LEMMA Retyped ==
  ASSUME NEW a \in Activations
  PROVE  /\ \A p \in Nat : WithIp(a, p) \in Activations
         /\ \A w \in 0..StackWords + 2 : WithSp(a, w) \in Activations
         /\ \A o \in {"no", "natural", "jump", "overflow"} : WithOver(a, o) \in Activations
BY DEF Activations, WithIp, WithSp, WithOver

(* The frames but for the local variables, which keep their type.          *)
SameFrames ==
  /\ control' \in Seq(Frames) /\ Len(control') = Len(control)
  /\ \A k \in 1..Len(control) : /\ control'[k].func = control[k].func
                                 /\ control'[k].begin = control[k].begin
                                 /\ control'[k].end = control[k].end
                                 /\ control'[k].locals = control[k].locals

(* The innermost activation goes on as a.                                  *)
GoesOnAs(a) ==
  /\ NewTop(acts', a) /\ a.end = Top.end /\ a.kind = Top.kind /\ a.resume = Top.resume
  /\ Spot(Len(acts), a.ip) \in Places(module)
  /\ a.over = "no" => a.sp <= StackWords
  /\ SameFrames /\ UNCHANGED <<module, envLocals, status>>

(* It has gone on at ip, or at the next instruction.                       *)
PassesTo(ip) == \E a : GoesOnAs(a) /\ a.ip = ip /\ a.over \in {"no", "overflow"}
Following == InstructionEnd(module.code, Top.ip)
Advances == PassesTo(Following)

LEMMA GoesOnKeeps ==
  ASSUME VRun, NEW a, GoesOnAs(a)
  PROVE  /\ Top' = a /\ Len(acts') = Len(acts) /\ \A k \in 1..Len(acts') : InPlace(k)'
         /\ acts' \in Seq(Activations) /\ control' \in Seq(Frames)
<1>1. /\ Len(acts) \in Nat \ {0} /\ Len(control) = Len(acts) /\ Top = acts[Len(acts)]
      /\ \A k \in 1..Len(acts) : InPlace(k)
  BY Height DEF VRun, Placed
<1>2. /\ Len(acts') = Len(acts) /\ Top' = a
      /\ \A k \in 1..Len(acts) : /\ acts'[k].end = acts[k].end /\ acts'[k].kind = acts[k].kind
                                  /\ acts'[k].resume = acts[k].resume
      /\ \A k \in 1..Len(acts) - 1 : acts'[k] = acts[k]
  BY <1>1 DEF GoesOnAs, NewTop, Top, Last
<1>3. \A k \in 1..Len(acts) : \A p : Spot(k, p)' = Spot(k, p)
  BY <1>1 DEF GoesOnAs, SameFrames, Spot
<1>4. ASSUME NEW k \in 1..Len(acts) PROVE InPlace(k)'
  <2>1. InPlace(k)
    BY <1>1
  <2>2. acts'[k].end = control'[k].end
    BY <1>1, <1>2, <2>1 DEF InPlace, GoesOnAs, SameFrames
  <2>3. Spot(k, acts[k].ip)' \in Places(module)'
    <3>1. CASE k = Len(acts)
      BY <1>1, <1>2, <1>3, <3>1 DEF GoesOnAs, NewTop
    <3>2. CASE k # Len(acts)
      BY <1>1, <1>2, <1>3, <2>1, <3>2 DEF InPlace, GoesOnAs
    <3>3. QED BY <3>1, <3>2
  <2>4. Spot(k, control[k].begin)' \in Places(module)'
    BY <1>1, <1>3, <2>1 DEF InPlace, GoesOnAs, SameFrames
  <2>5. acts'[k].kind \in BlockKinds => Spot(k - 1, BackAt(k))' \in Places(module)'
    <3> SUFFICES ASSUME acts'[k].kind \in BlockKinds
                 PROVE  Spot(k - 1, BackAt(k))' \in Places(module)'
      OBVIOUS
    <3>1. acts[k].kind \in BlockKinds /\ k # 1
      BY <1>2 DEF VRun, RunInv, BlockKinds
    <3>2. k - 1 \in 1..Len(acts)
      BY <1>1, <3>1
    <3>3. BackAt(k)' = BackAt(k)
      BY <1>1, <1>2 DEF BackAt, GoesOnAs, SameFrames
    <3>4. QED BY <1>3, <2>1, <3>1, <3>2, <3>3 DEF InPlace, GoesOnAs
  <2>6. k < Len(acts') => acts'[k].over = "no"
    BY <1>1, <1>2, <2>1 DEF InPlace
  <2>7. acts'[k].over = "no" => acts'[k].sp <= StackWords
    <3>1. CASE k = Len(acts)
      BY <1>1, <1>2, <3>1 DEF GoesOnAs, NewTop
    <3>2. CASE k # Len(acts)
      BY <1>1, <1>2, <2>1, <3>2 DEF InPlace
    <3>3. QED BY <3>1, <3>2
  <2>8. QED BY <2>2, <2>3, <2>4, <2>5, <2>6, <2>7 DEF InPlace
<1>5. QED BY <1>2, <1>4 DEF GoesOnAs, NewTop, SameFrames

DataTyped ==
  /\ stack \in [0..StackWords + 1 -> Words]
  /\ globals \in Seq(Words \X Words) /\ Len(globals) = Len(module.globals)

LEMMA KeptGoingOn ==
  ASSUME VRun, NEW a, GoesOnAs(a), DataTyped', envSp' \in 0..StackWords, jump' \in Int,
         JumpBounded(a.over, Len(acts))'
  PROVE  Kept
<1>1. /\ Top' = a /\ \A k \in 1..Len(acts') : InPlace(k)'
      /\ acts' \in Seq(Activations) /\ control' \in Seq(Frames)
  BY GoesOnKeeps
<1>2. module' \in Modules
  BY DEF VRun, Typed, GoesOnAs
<1>3. Typed'
  BY <1>1, <1>2 DEF Typed, DataTyped
<1>4. JumpBounded(Top.over, Len(acts))'
  BY <1>1 DEF JumpBounded
<1>5. Placed'
  BY <1>1, <1>4 DEF Placed
<1>6. QED BY <1>3, <1>5 DEF Kept

LEMMA ContinueGoesOn ==
  ASSUME VRun, NEW sp \in 0..StackWords + 2, NEW ip, Spot(Len(acts), ip) \in Places(module),
         acts' = Continue(acts, sp, ip), SameFrames, UNCHANGED <<module, envLocals, status>>
  PROVE  \E a : /\ GoesOnAs(a) /\ a.ip = ip /\ a.over \in {"no", "overflow"}
                /\ sp <= StackWords => a.over = "no"
<1> DEFINE over == IF sp > StackWords THEN "overflow" ELSE "no"
           a == WithOver(WithSp(WithIp(Top, ip), sp), over)
<1>1. Top \in Activations
  BY Height
<1>2. ip \in Nat
  <2>1. Valid(module)
    BY ValidCode DEF VRun, Typed
  <2>2. Spot(Len(acts), ip) \in FunctionsOf(module) \X Nat \X Nat \X Nat
    BY <2>1 DEF Valid, Closed
  <2>3. QED BY <2>2 DEF Spot
<1>3. a \in Activations
  BY <1>1, <1>2, Retyped
<1>4. a.ip = ip /\ a.sp = sp /\ a.over = over /\ a.end = Top.end /\ a.kind = Top.kind
      /\ a.resume = Top.resume
  BY <1>1 DEF WithIp, WithSp, WithOver, Activations
<1>5. acts' = Append(Front(acts), a)
  BY DEF Continue, Top, WithIp, WithSp, WithOver
<1> HIDE DEF a
<1>6. NewTop(acts', a)
  BY <1>3, <1>5, TopReplaced
<1>7. StackWords \in Nat
  BY Parameters
<1>8. GoesOnAs(a)
  BY <1>4, <1>6, <1>7 DEF GoesOnAs
<1>9. QED BY <1>4, <1>7, <1>8

(* The place of the instruction that is executed.                          *)
LEMMA AtPlace ==
  ASSUME VRun, NEW ops, At(ops)
  PROVE  /\ Valid(module) /\ module.code \in Seq(Bytes)
         /\ FrameOf.func \in FunctionsOf(module) /\ Len(acts) - envLocals \in Nat
         /\ PlaceOK(module, Places(module), FrameOf.func, Top.ip, Len(acts) - envLocals,
                    Top.end)
         /\ Op \in Bytes \cap ops /\ Top.ip \in Nat \ {0}
         /\ Imm.value \in Nat /\ Imm.next \in Nat /\ Imm.next - (Top.ip + 1) \in 0..5
         /\ Imm.next - 1 \in 1..Len(module.code) \/ Imm.next = Top.ip + 1
         /\ Top.over = "no" /\ Top.sp \in 0..StackWords /\ jump = 0 /\ status = "run"
<1>1. Valid(module) /\ module.code \in Seq(Bytes)
  BY ValidCode DEF VRun, Typed, Valid, ModuleOK
<1>2. /\ Len(acts) - envLocals \in Nat /\ envLocals = control[Len(acts)].locals
      /\ Top = acts[Len(acts)] /\ FrameOf = control[Len(acts)] /\ InPlace(Len(acts))
      /\ Top \in Activations
  BY Height
<1>3. Spot(Len(acts), Top.ip) = <<FrameOf.func, Top.ip, Len(acts) - envLocals, Top.end>>
  BY <1>2 DEF Spot, InPlace
<1>4. Spot(Len(acts), Top.ip) \in Places(module)
  BY <1>2 DEF InPlace
<1>5. FrameOf.func \in FunctionsOf(module)
  BY <1>1, <1>3, <1>4 DEF Valid, Closed
<1>6. PlaceOK(module, Places(module), FrameOf.func, Top.ip, Len(acts) - envLocals, Top.end)
  <2>1. \A q \in Places(module) :
          q[2] < q[4] => PlaceOK(module, Places(module), q[1], q[2], q[3], q[4])
    BY <1>1 DEF Valid, Closed
  <2>2. Top.ip < Top.end
    BY DEF At
  <2>3. QED BY <1>3, <1>4, <2>1, <2>2
<1>7. Top.ip \in 1..Len(module.code) /\ Op \in Bytes
  <2>1. Top.ip \in DOMAIN module.code
    BY <1>6 DEF PlaceOK
  <2>2. QED BY <1>1, <2>1, ElementOfSeq DEF Op
<1>8. /\ Imm.value \in Nat /\ Imm.next \in Nat /\ Imm.next - (Top.ip + 1) \in 0..5
      /\ Imm.next - 1 \in 1..Len(module.code) \/ Imm.next = Top.ip + 1
  <2>1. Top.ip + 1 \in Nat \ {0}
    BY <1>7
  <2>2. QED BY <1>1, <2>1, ReadLebFacts DEF Imm
<1>9. Top.over = "no" /\ Top.sp \in 0..StackWords /\ jump = 0 /\ status = "run" /\ Op \in ops
  <2>1. Top.over = "no" /\ jump = 0 /\ status = "run" /\ Op \in ops
    BY DEF At, Active
  <2>2. Top.sp \in 0..StackWords + 2
    BY <1>2 DEF Activations
  <2>3. QED BY <1>2, <2>1, <2>2, Parameters DEF InPlace
<1>10. QED BY <1>1, <1>2, <1>5, <1>6, <1>7, <1>8, <1>9

-----------------------------------------------------------------------------
(***************************************************************************)
(* Instructions that only move operands.                                   *)
(***************************************************************************)
LEMMA PushedTyped ==
  ASSUME Typed, NEW words \in Seq(Words), NEW base \in Int
  PROVE  Pushed(words, base) \in [0..StackWords + 1 -> Words]
<1>1. stack \in [0..StackWords + 1 -> Words] /\ Len(words) \in Nat
  BY DEF Typed
<1>2. \A i \in 0..StackWords + 1 :
        i \in base..base + Len(words) - 1 => words[i - base + 1] \in Words
  <2> SUFFICES ASSUME NEW i \in 0..StackWords + 1, i \in base..base + Len(words) - 1
               PROVE  words[i - base + 1] \in Words
    OBVIOUS
  <2>1. i - base + 1 \in 1..Len(words)
    BY <1>1
  <2>2. QED BY <2>1, ElementOfSeq
<1>3. \A i \in 0..StackWords + 1 : stack[i] \in Words
  BY <1>1
<1>4. DOMAIN stack = 0..StackWords + 1
  BY <1>1
<1> HIDE DEF Words
<1>5. QED BY <1>2, <1>3, <1>4, Zenon DEF Pushed

LEMMA OperandTyped ==
  ASSUME VRun, NEW n \in 1..Top.sp, Top.sp \in 0..StackWords
  PROVE  Operand(n) \in Words
BY Parameters DEF Operand, VRun, Typed

LEMMA PoppedTyped ==
  ASSUME VRun, NEW n \in 0..Top.sp, Top.sp \in 0..StackWords
  PROVE  Popped(n) \in Seq(Words) /\ Len(Popped(n)) = n
<1>1. \A i \in 1..n : stack[Top.sp - n - 1 + i] \in Words
  BY Parameters DEF VRun, Typed
<1>2. n \in Nat
  OBVIOUS
<1>3. QED BY <1>1, <1>2 DEF Popped

(* The next instruction is at a place, too.                                *)
Onward(ip) == Spot(Len(acts), ip) \in Places(module)
Follows(ip) == Onward(ip) /\ ip = Following

LEMMA ReplaceKeeps ==
  ASSUME VRun, NEW ops, At(ops), NEW pops \in Nat, NEW words \in Seq(Words), Len(words) <= 2,
         NEW ip, Follows(ip), Replace(pops, words, ip), SameFrames,
         globals' \in Seq(Words \X Words), Len(globals') = Len(globals)
  PROVE  Kept /\ Advances
<1>1. Top.sp \in 0..StackWords /\ jump = 0
  BY AtPlace
<1>2. /\ Top.sp >= pops /\ stack' = Pushed(words, Top.sp - pops)
      /\ acts' = Continue(acts, Top.sp - pops + Len(words), ip)
      /\ UNCHANGED <<module, envSp, jump, envLocals, status>>
  BY DEF Replace
<1>3. Len(words) \in Nat /\ StackWords \in Nat
  BY Parameters
<1>4. Top.sp - pops + Len(words) \in 0..StackWords + 2
  BY <1>1, <1>2, <1>3
<1>5. PICK a : GoesOnAs(a) /\ a.ip = ip /\ a.over \in {"no", "overflow"}
  BY <1>2, <1>4, ContinueGoesOn DEF Follows, Onward
<1>6. DataTyped'
  <2>1. stack' \in [0..StackWords + 1 -> Words]
    BY <1>1, <1>2, PushedTyped DEF VRun
  <2>2. Len(globals') = Len(module'.globals)
    BY <1>2 DEF VRun, Typed
  <2>3. QED BY <2>1, <2>2 DEF DataTyped
<1>7. envSp' \in 0..StackWords /\ jump' = 0 /\ jump' \in Int
  BY <1>1, <1>2 DEF VRun, Typed
<1>8. JumpBounded(a.over, Len(acts))'
  <2>1. Len(acts') = Len(acts) /\ Len(acts) \in Nat /\ envLocals \in 1..Len(acts)
    BY <1>5, Height DEF GoesOnAs, NewTop
  <2>2. QED BY <1>2, <1>5, <1>7, <2>1 DEF JumpBounded
<1>9. Advances
  BY <1>5 DEF Advances, PassesTo, Follows
<1>10. QED BY <1>5, <1>6, <1>7, <1>8, <1>9, KeptGoingOn

LEMMA SameControl == ASSUME VRun, UNCHANGED control PROVE SameFrames
BY DEF SameFrames, VRun, Typed

(* An instruction that is no block leads to the place after it.            *)
LEMMA FollowsFrom ==
  ASSUME VRun, NEW ops, At(ops)
  PROVE  /\ Op \in Alone1 \cup {op_return} => Follows(Top.ip + 1)
         /\ Op \in Number1 => Follows(Imm.next)
         /\ Op \in MemoryAccess => Follows(AfterLeb(module.code, Imm.next))
         /\ Op = op_call_indirect => Follows(Imm.next + 1)
         /\ Op = op_br_table => Follows(Imm.next + Imm.value + 1)
         /\ Op = f32_const => Follows(Top.ip + 5)
         /\ Op = f64_const => Follows(Top.ip + 9)
<1>1. /\ PlaceOK(module, Places(module), FrameOf.func, Top.ip, Len(acts) - envLocals, Top.end)
      /\ Op = module.code[Top.ip] /\ Imm = ReadLeb(module.code, Top.ip + 1)
  BY AtPlace DEF Op, Imm
<1>2. \A p : Spot(Len(acts), p) = <<FrameOf.func, p, Len(acts) - envLocals, Top.end>>
  BY Height DEF Spot, InPlace
<1>3. Op \notin Openers => Follows(InstructionEnd(module.code, Top.ip))
  BY <1>1, <1>2 DEF PlaceOK, Follows, Following, Onward
<1>4. Op \in Alone1 \cup {op_return} \cup Number1 \cup MemoryAccess
              \cup {op_call_indirect, op_br_table, f32_const, f64_const}
        => Op \notin Openers
  BY DEF Alone1, Number1, Numeric, MemoryAccess, LocalAccess, Openers, op_unreachable, op_nop,
         op_else, op_end, op_return, op_drop, op_select, op_br, op_br_if, op_call,
         op_global_get, op_global_set, memory_size, memory_grow, i32_const, i64_const,
         f32_const, f64_const, op_call_indirect, op_br_table, op_local_get, op_local_set,
         op_local_tee, op_block, op_loop, op_if
<1>5. QED BY <1>1, <1>3, <1>4, InstructionEnds DEF Follows, Following

LEMMA ComputeKeeps == ASSUME VRun, Compute PROVE Kept /\ Advances
<1>1. PICK f \in Families :
        /\ At(f.ops) /\ Elsewhere
        /\ \E words \in [1..f.gives -> f.values] : Replace(f.takes, words, AfterOperator)
  BY Zenon DEF Compute
<1>2. PICK words \in [1..f.gives -> f.values] : Replace(f.takes, words, AfterOperator)
  BY <1>1
<1>3. FamilyOK(f)
  BY FamiliesOK
<1>4. f.takes \in Nat /\ words \in Seq(Words) /\ Len(words) <= 2
  BY <1>2, <1>3 DEF FamilyOK
<1>5. Op \in Alone1 \cup MemoryAccess
  <2>1. Op \in f.ops
    BY <1>1, AtPlace
  <2>2. QED BY <1>3, <2>1 DEF FamilyOK
<1>6. Follows(AfterOperator)
  BY <1>1, <1>5, FollowsFrom DEF AfterOperator
<1>7. SameFrames /\ globals' = globals
  BY <1>1, SameControl DEF Elsewhere
<1>8. QED BY <1>1, <1>2, <1>4, <1>6, <1>7, ReplaceKeeps DEF VRun, Typed

LEMMA SignedInteger ==
  ASSUME VRun, NEW ops \in SUBSET {i32_const, i64_const}, At(ops)
  PROVE  SignedImmediate \in Int
<1>1. /\ Imm.value \in Nat /\ Imm.next \in Nat /\ Imm.next - (Top.ip + 1) \in 0..5
      /\ Top.ip \in Nat /\ Op \in ops
  BY AtPlace
<1>2. Imm.next # Top.ip + 1
  BY <1>1, AtPlace DEF PlaceOK, ImmediateOK, Op, Imm
<1>3. Imm.next - Top.ip - 1 \in 1..5
  BY <1>1, <1>2
<1>4. \A n \in 1..5 : Weight[n] \in Nat
  BY DEF Weight
<1>5. 128 * Weight[Imm.next - Top.ip - 1] \in Int
  BY <1>3, <1>4
<1>6. QED BY <1>1, <1>5 DEF SignedImmediate

LEMMA RemainderIsWord == ASSUME NEW n \in Int PROVE n % W \in Words /\ (n \div W) \in Int
BY Parameters DEF Words

LEMMA ConstKeeps == ASSUME VRun, Const PROVE Kept /\ Advances
<1>1. SameFrames /\ globals' \in Seq(Words \X Words) /\ Len(globals') = Len(globals)
  BY SameControl DEF Const, Elsewhere, VRun, Typed
<1>2. {i32_const, i64_const} \subseteq Number1
  BY DEF Number1
<1>3. CASE At({i32_const}) /\ Replace(0, <<SignedImmediate % W>>, Imm.next)
  <2>1. Op \in {i32_const} /\ SignedImmediate \in Int
    BY <1>3, AtPlace, SignedInteger
  <2>2. Follows(Imm.next)
    BY <1>2, <1>3, <2>1, FollowsFrom
  <2>3. /\ <<SignedImmediate % W>> \in Seq(Words) /\ Len(<<SignedImmediate % W>>) <= 2
    BY <2>1, RemainderIsWord
  <2>4. \E words \in Seq(Words) : Len(words) <= 2 /\ Replace(0, words, Imm.next)
    BY <1>3, <2>3, Zenon
  <2>5. QED BY <1>1, <1>3, <2>2, <2>4, ReplaceKeeps
<1>4. CASE /\ At({i64_const})
           /\ Replace(0, <<SignedImmediate % W, (SignedImmediate \div W) % W>>, Imm.next)
  <2>1. Op \in {i64_const} /\ SignedImmediate \in Int
    BY <1>4, AtPlace, SignedInteger
  <2>2. Follows(Imm.next)
    BY <1>2, <1>4, <2>1, FollowsFrom
  <2>3. SignedImmediate % W \in Words /\ (SignedImmediate \div W) % W \in Words
    BY <2>1, RemainderIsWord
  <2>4. ASSUME NEW v \in Words, NEW w \in Words
        PROVE <<v, w>> \in Seq(Words) /\ Len(<<v, w>>) <= 2
    OBVIOUS
  <2>5. \E words \in Seq(Words) : Len(words) <= 2 /\ Replace(0, words, Imm.next)
    BY <1>4, <2>3, <2>4, Zenon
  <2>6. QED BY <1>1, <1>4, <2>2, <2>5, ReplaceKeeps
<1>5. CASE At({f32_const}) /\ \E w \in Words : Replace(0, <<w>>, Top.ip + 5)
  <2>1. PICK w \in Words : Replace(0, <<w>>, Top.ip + 5)
    BY <1>5
  <2>2. Follows(Top.ip + 5)
    BY <1>5, AtPlace, FollowsFrom
  <2>3. <<w>> \in Seq(Words) /\ Len(<<w>>) <= 2
    OBVIOUS
  <2>4. \E words \in Seq(Words) : Len(words) <= 2 /\ Replace(0, words, Top.ip + 5)
    BY <2>1, <2>3, Zenon
  <2>5. QED BY <1>1, <1>5, <2>2, <2>4, ReplaceKeeps
<1>6. CASE At({f64_const}) /\ \E w, v \in Words : Replace(0, <<w, v>>, Top.ip + 9)
  <2>1. PICK w \in Words, v \in Words : Replace(0, <<w, v>>, Top.ip + 9)
    BY <1>6
  <2>2. Follows(Top.ip + 9)
    BY <1>6, AtPlace, FollowsFrom
  <2>3. <<w, v>> \in Seq(Words) /\ Len(<<w, v>>) <= 2
    OBVIOUS
  <2>4. \E words \in Seq(Words) : Len(words) <= 2 /\ Replace(0, words, Top.ip + 9)
    BY <2>1, <2>3, Zenon
  <2>5. QED BY <1>1, <1>6, <2>2, <2>4, ReplaceKeeps
<1>7. QED BY <1>3, <1>4, <1>5, <1>6, Zenon DEF Const

LEMMA MovesKeep == ASSUME VRun, Drop \/ Select \/ Memory PROVE Kept /\ Advances
<1>1. SameFrames /\ globals' \in Seq(Words \X Words) /\ Len(globals') = Len(globals)
  BY SameControl DEF Drop, Select, Memory, Elsewhere, VRun, Typed
<1>2. {op_drop, op_select} \subseteq Alone1 /\ {memory_size, memory_grow} \subseteq Number1
  BY DEF Alone1, Number1
<1>3. \A w \in Words : <<w>> \in Seq(Words) /\ Len(<<w>>) <= 2
  OBVIOUS
<1>4. CASE Drop
  <2>1. At({op_drop}) /\ Replace(1, <<>>, Top.ip + 1)
    BY <1>4 DEF Drop
  <2>2. Follows(Top.ip + 1)
    BY <1>2, <2>1, AtPlace, FollowsFrom
  <2>3. <<>> \in Seq(Words) /\ Len(<<>>) <= 2
    OBVIOUS
  <2>4. \E words \in Seq(Words) : Len(words) <= 2 /\ Replace(1, words, Top.ip + 1)
    BY <2>1, <2>3, Zenon
  <2>5. QED BY <1>1, <2>1, <2>2, <2>4, ReplaceKeeps
<1>5. CASE Select
  <2> DEFINE w == IF Operand(1) # 0 THEN Operand(3) ELSE Operand(2)
  <2>1. At({op_select}) /\ Replace(3, <<w>>, Top.ip + 1)
    BY <1>5 DEF Select
  <2>2. Top.sp \in 0..StackWords /\ Top.sp >= 3
    BY <2>1, AtPlace DEF Replace
  <2>3. w \in Words
    BY <2>2, OperandTyped
  <2> HIDE DEF w
  <2>4. Follows(Top.ip + 1)
    BY <1>2, <2>1, AtPlace, FollowsFrom
  <2>5. \E words \in Seq(Words) : Len(words) <= 2 /\ Replace(3, words, Top.ip + 1)
    BY <1>3, <2>1, <2>3, Zenon
  <2>6. QED BY <1>1, <2>1, <2>4, <2>5, ReplaceKeeps
<1>6. CASE Memory
  <2>1. PICK n \in {0, 1}, w \in Words, ops \in {{memory_size}, {memory_grow}} :
          At(ops) /\ Replace(n, <<w>>, Imm.next)
    <3>1. module.pages \in Words
      BY ValidCode DEF VRun, Typed, Valid, ModuleOK
    <3>2. W - 1 \in Words
      BY Parameters DEF Words
    <3>3. QED BY <1>6, <3>1, <3>2, Zenon DEF Memory
  <2>2. Follows(Imm.next)
    BY <1>2, <2>1, AtPlace, FollowsFrom
  <2>3. \E words \in Seq(Words) : Len(words) <= 2 /\ Replace(n, words, Imm.next)
    BY <1>3, <2>1, Zenon
  <2>4. QED BY <1>1, <2>1, <2>2, <2>3, ReplaceKeeps
<1>7. QED BY <1>4, <1>5, <1>6

(* The local variable an instruction names is one of the function's.       *)
LEMMA LocalPlace ==
  ASSUME VRun, At(LocalAccess), Allocated(Imm.value)
  PROVE  /\ Offset(Imm.value) \in Nat /\ Offset(Imm.value + 1) \in Nat
         /\ Width(Imm.value) \in {1, 2}
         /\ Offset(Imm.value + 1) = Offset(Imm.value) + Width(Imm.value)
         /\ Offset(Imm.value + 1) <= Len(LocalVars) /\ LocalVars \in Seq(Words)
<1> DEFINE f == module.funcs[FrameOf.func + 1]
           v == Imm.value
<1>1. LocalOK(f, v) /\ v \in Nat
  BY AtPlace DEF PlaceOK, ImmediateOK, Op, Imm
<1>2. f.offsets \in Seq(Nat)
  <2>1. module.funcs \in Seq(FuncType(Len(module.code)))
    BY AtPlace DEF Valid, ModuleOK
  <2>2. FrameOf.func \in FunctionsOf(module)
    BY AtPlace
  <2>3. FrameOf.func + 1 \in 1..Len(module.funcs)
    BY <2>1, <2>2 DEF FunctionsOf
  <2>4. f \in FuncType(Len(module.code))
    BY <2>1, <2>3, ElementOfSeq
  <2>5. QED BY <2>4 DEF FuncType
<1>3. Offset(v) = f.offsets[v + 1] /\ Offset(v + 1) = f.offsets[v + 2]
  <2>1. v + 1 + 1 = v + 2
    BY <1>1
  <2>2. QED BY <2>1 DEF Offset, Func
<1> HIDE DEF f
<1>4. v + 1 \in 1..Len(f.offsets) /\ v + 2 \in 1..Len(f.offsets)
  <2>1. v + 2 \in DOMAIN f.offsets /\ v \in Nat
    BY <1>1 DEF LocalOK
  <2>2. DOMAIN f.offsets = 1..Len(f.offsets) /\ Len(f.offsets) \in Nat
    BY <1>2, LenProperties
  <2> HIDE DEF v
  <2>3. QED BY <2>1, <2>2
<1>5. f.offsets[v + 1] \in Nat /\ f.offsets[v + 2] \in Nat
  BY <1>2, <1>4, ElementOfSeq
<1>6. Width(v) = f.offsets[v + 2] - f.offsets[v + 1]
  BY <1>3 DEF Width
<1>7. Width(v) \in {1, 2}
  BY <1>1, <1>6 DEF LocalOK
<1>8. LocalVars \in Seq(Words)
  BY Height DEF LocalVars, Frames
<1>9. QED BY <1>3, <1>5, <1>6, <1>7, <1>8 DEF Allocated

LEMMA StoreKeepsFrames ==
  ASSUME VRun, At(LocalAccess), Allocated(Imm.value), Top.sp >= Width(Imm.value),
         StoreLocal(Imm.value)
  PROVE  SameFrames
<1> DEFINE lo == Offset(Imm.value)
           hi == Offset(Imm.value + 1)
           w == Width(Imm.value)
           old == LocalVars
           v == [k \in DOMAIN old |-> IF k \in lo + 1..hi THEN Popped(w)[k - lo] ELSE old[k]]
           g == WithVars(control[envLocals], v)
<1>1. /\ lo \in Nat /\ hi \in Nat /\ w \in {1, 2} /\ hi = lo + w /\ hi <= Len(old)
      /\ old \in Seq(Words) /\ Top.sp \in 0..StackWords
  BY LocalPlace, AtPlace
<1>2. control' = [control EXCEPT ![envLocals] = g]
  BY DEF StoreLocal, LocalVars, WithVars
<1>3. v \in Seq(Words)
  <2>1. w \in 0..Top.sp
    BY <1>1
  <2>2. Popped(w) \in Seq(Words) /\ Len(Popped(w)) = w
    BY <1>1, <2>1, PoppedTyped
  <2> HIDE DEF lo, hi, w, old
  <2>3. \A k \in DOMAIN old : k \in lo + 1..hi => Popped(w)[k - lo] \in Words
    <3> SUFFICES ASSUME NEW k \in lo + 1..hi PROVE Popped(w)[k - lo] \in Words
      OBVIOUS
    <3>1. k - lo \in 1..Len(Popped(w))
      BY <1>1, <2>2
    <3>2. QED BY <2>2, <3>1, ElementOfSeq
  <2>4. DOMAIN old = 1..Len(old) /\ \A k \in 1..Len(old) : old[k] \in Words
    BY <1>1, ElementOfSeq
  <2>5. v \in [1..Len(old) -> Words]
    <3> HIDE DEF Words
    <3>1. QED BY <2>3, <2>4, Zenon
  <2>6. Len(old) \in Nat
    BY <1>1
  <2>7. QED BY <2>5, <2>6
<1>4. g \in Frames /\ g.func = control[envLocals].func /\ g.begin = control[envLocals].begin
      /\ g.end = control[envLocals].end /\ g.locals = control[envLocals].locals
  <2>1. control[envLocals] \in Frames
    BY Height
  <2> HIDE DEF v
  <2>2. QED BY <1>3, <2>1 DEF Frames, WithVars
<1> HIDE DEF g, v
<1>5. control \in Seq(Frames) /\ envLocals \in 1..Len(control)
  BY Height DEF VRun, Typed
<1>6. /\ control' \in Seq(Frames) /\ Len(control') = Len(control)
      /\ \A k \in 1..Len(control) : control'[k] = IF k = envLocals THEN g ELSE control[k]
  <2> DEFINE F == Frames
  <2>1. control \in Seq(F) /\ g \in F
    BY <1>4, <1>5
  <2> HIDE DEF F
  <2>2. /\ [control EXCEPT ![envLocals] = g] \in Seq(F)
        /\ Len([control EXCEPT ![envLocals] = g]) = Len(control)
        /\ \A k \in 1..Len(control) :
             [control EXCEPT ![envLocals] = g][k] = IF k = envLocals THEN g ELSE control[k]
    BY <1>5, <2>1, ExceptSeq
  <2>3. QED BY <1>2, <2>2 DEF F
<1>7. QED BY <1>4, <1>6 DEF SameFrames

LEMMA LocalKeeps == ASSUME VRun, Local PROVE Kept /\ Advances
<1>1. /\ At(LocalAccess) /\ Allocated(Imm.value) /\ UNCHANGED globals
      /\ Offset(Imm.value) \in Nat /\ Offset(Imm.value + 1) \in Nat
      /\ Width(Imm.value) \in {1, 2}
      /\ Offset(Imm.value + 1) = Offset(Imm.value) + Width(Imm.value)
      /\ Offset(Imm.value + 1) <= Len(LocalVars) /\ LocalVars \in Seq(Words)
  BY LocalPlace DEF Local
<1>2. Follows(Imm.next)
  <2>1. Op \in Number1
    BY <1>1, AtPlace DEF Number1
  <2>2. QED BY <1>1, <2>1, FollowsFrom
<1>3. <<>> \in Seq(Words) /\ Len(<<>>) <= 2
  OBVIOUS
<1>4. \E pops \in Nat, words \in Seq(Words) :
        Len(words) <= 2 /\ Replace(pops, words, Imm.next) /\ SameFrames
  <2>1. CASE /\ Replace(0, SubSeq(LocalVars, Offset(Imm.value) + 1, Offset(Imm.value + 1)),
                         Imm.next)
             /\ UNCHANGED control
    <3> DEFINE words == SubSeq(LocalVars, Offset(Imm.value) + 1, Offset(Imm.value + 1))
    <3>1. words \in Seq(Words) /\ Len(words) <= 2
      <4> DEFINE a == Offset(Imm.value) + 1
                 b == Offset(Imm.value + 1)
                 s == LocalVars
                 S == Words
      <4>1. a \in Int /\ b \in Int /\ s \in Seq(S) /\ a >= 1 /\ b <= Len(s) /\ b - a + 1 <= 2
        BY <1>1
      <4> HIDE DEF a, b, s, S
      <4>2. \A k \in a..b : s[k] \in S
        BY <4>1, ElementOfSeq
      <4>3. /\ SubSeq(s, a, b) \in Seq(S)
            /\ Len(SubSeq(s, a, b)) = IF a <= b THEN b - a + 1 ELSE 0
        BY <4>1, <4>2, SubSeqProperties
      <4>4. SubSeq(s, a, b) \in Seq(S) /\ Len(SubSeq(s, a, b)) <= 2
        BY <4>1, <4>3
      <4>5. QED BY <4>4 DEF a, b, s, S
    <3>2. SameFrames
      BY <2>1, SameControl
    <3> HIDE DEF words
    <3>3. Replace(0, words, Imm.next)
      BY <2>1 DEF words
    <3>4. 0 \in Nat
      OBVIOUS
    <3>5. QED BY <3>1, <3>2, <3>3, <3>4, Zenon
  <2>2. CASE Replace(Width(Imm.value), <<>>, Imm.next) /\ StoreLocal(Imm.value)
    <3>1. Top.sp >= Width(Imm.value)
      BY <2>2 DEF Replace
    <3>2. SameFrames /\ Width(Imm.value) \in Nat
      BY <1>1, <2>2, <3>1, StoreKeepsFrames
    <3>3. QED BY <1>3, <2>2, <3>2, Zenon
  <2>3. CASE /\ Top.sp >= Width(Imm.value)
             /\ Replace(0, <<>>, Imm.next) /\ StoreLocal(Imm.value)
    <3>1. SameFrames /\ 0 \in Nat
      BY <1>1, <2>3, StoreKeepsFrames
    <3>2. QED BY <1>3, <2>3, <3>1, Zenon
  <2>4. QED BY <2>1, <2>2, <2>3, Zenon DEF Local
<1>5. globals' \in Seq(Words \X Words) /\ Len(globals') = Len(globals)
  BY <1>1 DEF VRun, Typed
<1>6. QED BY <1>1, <1>2, <1>4, <1>5, ReplaceKeeps

(* The global variable an instruction names is one of the module's.        *)
LEMMA GlobalPlace ==
  ASSUME VRun, At({op_global_get, op_global_set})
  PROVE  /\ Imm.value + 1 \in 1..Len(globals) /\ globals \in Seq(Words \X Words)
         /\ module.globalWords[Imm.value + 1] \in {1, 2}
<1> DEFINE i == Imm.value + 1
<1>1. i \in DOMAIN module.globals /\ i \in DOMAIN module.globalWords
  BY AtPlace DEF PlaceOK, ImmediateOK, Op, Imm
<1>2. module.globals \in Seq(Words \X Words) /\ module.globalWords \in Seq({1, 2})
  BY AtPlace DEF Valid, ModuleOK
<1> HIDE DEF i
<1>3. i \in 1..Len(module.globals) /\ i \in 1..Len(module.globalWords)
  BY <1>1, <1>2, LenProperties
<1>4. module.globalWords[i] \in {1, 2}
  BY <1>2, <1>3, ElementOfSeq
<1>5. QED BY <1>3, <1>4 DEF i, VRun, Typed

LEMMA PairWords ==
  ASSUME NEW q \in Words \X Words, NEW n \in {1, 2}
  PROVE  SubSeq(q, 1, n) \in Seq(Words) /\ Len(SubSeq(q, 1, n)) <= 2
<1>1. q \in Seq(Words) /\ Len(q) = 2
  <2>1. PICK v \in Words, w \in Words : q = <<v, w>>
    OBVIOUS
  <2>2. QED BY <2>1
<1>2. \A k \in 1..n : q[k] \in Words
  BY <1>1, ElementOfSeq
<1>3. n \in Int /\ 1 \in Int
  OBVIOUS
<1>4. QED BY <1>1, <1>2, <1>3, SubSeqProperties

LEMMA GlobalKeeps == ASSUME VRun, Global PROVE Kept /\ Advances
<1> DEFINE i == Imm.value + 1
           n == module.globalWords[i]
<1>1. At({op_global_get}) \/ At({op_global_set})
  BY DEF Global
<1>2. At({op_global_get, op_global_set})
  BY <1>1 DEF At
<1>3. SameFrames
  BY SameControl DEF Global
<1>4. /\ i \in 1..Len(globals) /\ globals \in Seq(Words \X Words) /\ n \in {1, 2}
      /\ Top.sp \in 0..StackWords
  BY <1>2, GlobalPlace, AtPlace
<1>5. Follows(Imm.next)
  <2>1. Op \in Number1
    BY <1>2, AtPlace DEF Number1
  <2>2. QED BY <1>2, <2>1, FollowsFrom
<1>6. CASE Replace(0, SubSeq(globals[i], 1, n), Imm.next) /\ UNCHANGED globals
  <2>1. globals[i] \in Words \X Words
    BY <1>4, ElementOfSeq
  <2>2. SubSeq(globals[i], 1, n) \in Seq(Words) /\ Len(SubSeq(globals[i], 1, n)) <= 2
    BY <1>4, <2>1, PairWords
  <2> HIDE DEF i, n
  <2>3. \E words \in Seq(Words) : Len(words) <= 2 /\ Replace(0, words, Imm.next)
    BY <1>6, <2>2, Zenon
  <2>4. QED BY <1>2, <1>3, <1>4, <1>5, <1>6, <2>3, ReplaceKeeps
<1>7. CASE /\ Replace(n, <<>>, Imm.next)
           /\ globals' = [globals EXCEPT ![i] =
                             IF n = 2 THEN Popped(2) ELSE <<Operand(1), 0>>]
  <2> DEFINE q == IF n = 2 THEN Popped(2) ELSE <<Operand(1), 0>>
  <2>1. q \in Words \X Words
    <3>1. Top.sp >= n
      BY <1>7 DEF Replace
    <3>2. CASE n = 2
      <4>1. Operand(1) \in Words /\ Operand(2) \in Words
        BY <1>4, <3>1, <3>2, OperandTyped
      <4>2. Popped(2) \in Seq(Words) /\ Len(Popped(2)) = 2
        <5>1. 2 \in 0..Top.sp
          BY <1>4, <3>1, <3>2
        <5>2. QED BY <1>4, <5>1, PoppedTyped
      <4>3. ASSUME NEW s \in Seq(Words), Len(s) = 2 PROVE s \in Words \X Words
        <5>1. s = <<s[1], s[2]>> /\ s[1] \in Words /\ s[2] \in Words
          BY <4>3, ElementOfSeq
        <5>2. QED BY <5>1
      <4>4. QED BY <3>2, <4>2, <4>3
    <3>3. CASE n # 2
      <4>1. Operand(1) \in Words /\ 0 \in Words
        BY <1>4, <3>1, <3>3, OperandTyped, Parameters DEF Words
      <4>2. QED BY <3>3, <4>1
    <3>4. QED BY <3>2, <3>3
  <2>2. globals' = [globals EXCEPT ![i] = q]
    BY <1>7
  <2> HIDE DEF q, i
  <2>3. globals' \in Seq(Words \X Words) /\ Len(globals') = Len(globals)
    <3> DEFINE S == Words \X Words
    <3>1. globals \in Seq(S) /\ q \in S
      BY <1>4, <2>1
    <3> HIDE DEF S
    <3>2. globals' \in Seq(S) /\ Len(globals') = Len(globals)
      BY <1>4, <2>2, <3>1, ExceptSeq
    <3>3. QED BY <3>2 DEF S
  <2> HIDE DEF n
  <2>4. n \in Nat /\ <<>> \in Seq(Words) /\ Len(<<>>) <= 2
    BY <1>4
  <2>5. QED BY <1>2, <1>3, <1>5, <1>7, <2>3, <2>4, ReplaceKeeps
<1>8. QED BY <1>6, <1>7, Zenon DEF Global

-----------------------------------------------------------------------------
(***************************************************************************)
(* Branches: as many labels as there are, at most.                         *)
(***************************************************************************)
Halts == \E how \in {"exit", "crash", "ctlOverflow"} : Halt(how)
LEMMA HaltsKeep == ASSUME Typed, Halts PROVE Kept
BY DEF Halts, Halt, Kept, Typed

LEMMA BranchKeeps ==
  ASSUME VRun, NEW ops, At(ops), NEW depth \in Int, depth <= Len(acts) - envLocals + 1,
         NEW pops \in Nat, NEW ip, Follows(ip), Branch(depth, pops, ip)
  PROVE  Kept /\ Advances
<1>1. Top.sp \in 0..StackWords /\ StackWords \in Nat
  BY AtPlace, Parameters
<1>2. /\ Top.sp >= pops /\ jump' = depth /\ acts' = Continue(acts, Top.sp - pops, ip)
      /\ UNCHANGED <<module, stack, envSp, control, envLocals, globals, status>>
  BY DEF Branch
<1>3. Top.sp - pops \in 0..StackWords + 2 /\ Top.sp - pops <= StackWords
  BY <1>1, <1>2
<1>4. SameFrames
  BY <1>2, SameControl
<1>5. PICK a : GoesOnAs(a) /\ a.ip = ip /\ a.over = "no"
  BY <1>2, <1>3, <1>4, ContinueGoesOn DEF Follows, Onward
<1>6. Len(acts') = Len(acts)
  BY <1>5 DEF GoesOnAs, NewTop
<1>7. JumpBounded(a.over, Len(acts))'
  BY <1>2, <1>5, <1>6 DEF JumpBounded
<1>8. DataTyped' /\ envSp' \in 0..StackWords /\ jump' \in Int
  BY <1>2 DEF DataTyped, VRun, Typed
<1>9. Advances
  BY <1>5 DEF Advances, PassesTo, Follows
<1>10. QED BY <1>5, <1>7, <1>8, <1>9, KeptGoingOn

LEMMA TablePlace ==
  ASSUME VRun, At({op_br_table}), Top.sp >= 1
  PROVE  LET label == module.code[LabelAddress(module.code, Top.ip, Operand(1))]
         IN  /\ label \in Nat /\ label <= Len(acts) - envLocals
             /\ TableLabels(module.code, Top.ip) = Imm.value + 1
<1> DEFINE q == LabelAddress(module.code, Top.ip, Operand(1))
<1>1. Top.sp \in 0..StackWords /\ Imm.value \in Nat /\ module.code \in Seq(Bytes)
  BY AtPlace
<1>2. Operand(1) \in Words
  BY <1>1, OperandTyped
<1>3. LabelsOK(module, Top.ip, Len(acts) - envLocals)
  BY AtPlace DEF PlaceOK, ImmediateOK, Op
<1>4. q \in DOMAIN module.code /\ module.code[q] <= Len(acts) - envLocals
  BY <1>2, <1>3 DEF LabelsOK
<1> HIDE DEF q
<1>5. module.code[q] \in Nat
  <2>1. q \in 1..Len(module.code)
    BY <1>1, <1>4
  <2>2. module.code[q] \in Bytes
    BY <1>1, <2>1, ElementOfSeq
  <2>3. QED BY <2>2 DEF Bytes
<1>6. Imm.value < 255
  BY <1>3 DEF LabelsOK, Imm
<1>7. TableLabels(module.code, Top.ip) = Imm.value + 1
  <2>1. \A v \in Nat : v < 255 => (v + 1) % 256 = v + 1
    OBVIOUS
  <2>2. (Imm.value + 1) % 256 = Imm.value + 1
    BY <1>1, <1>6, <2>1
  <2>3. QED BY <2>2, Zenon DEF TableLabels, Imm
<1>8. QED BY <1>4, <1>5, <1>7, Zenon DEF q

LEMMA BranchesKeep == ASSUME VRun, Br \/ BrIf \/ BrTable \/ Return PROVE Kept /\ Advances
<1>1. Len(acts) - envLocals \in Nat /\ {op_br, op_br_if} \subseteq Number1
  BY Height DEF Number1
<1>2. CASE Br
  <2>1. At({op_br}) /\ Branch(Imm.value + 1, 0, Imm.next)
    BY <1>2 DEF Br
  <2>2. Imm.value \in Nat /\ Imm.value <= Len(acts) - envLocals /\ Op = op_br
    BY <2>1, AtPlace DEF PlaceOK, ImmediateOK, Op, Imm
  <2>3. Follows(Imm.next)
    BY <1>1, <2>1, <2>2, FollowsFrom
  <2>4. Imm.value + 1 \in Int /\ Imm.value + 1 <= Len(acts) - envLocals + 1
    BY <1>1, <2>2
  <2>5. QED BY <2>1, <2>3, <2>4, BranchKeeps
<1>3. CASE BrIf
  <2> DEFINE depth == IF Operand(1) # 0 THEN Imm.value + 1 ELSE 0
  <2>1. At({op_br_if}) /\ Branch(depth, 1, Imm.next)
    BY <1>3 DEF BrIf
  <2>2. Imm.value \in Nat /\ Imm.value <= Len(acts) - envLocals /\ Op = op_br_if
    BY <2>1, AtPlace DEF PlaceOK, ImmediateOK, Op, Imm
  <2>3. Follows(Imm.next)
    BY <1>1, <2>1, <2>2, FollowsFrom
  <2>4. depth \in Int /\ depth <= Len(acts) - envLocals + 1
    BY <1>1, <2>2
  <2> HIDE DEF depth
  <2>5. QED BY <2>1, <2>3, <2>4, BranchKeeps
<1>4. CASE BrTable
  <2> DEFINE label == module.code[LabelAddress(module.code, Top.ip, Operand(1))]
  <2>1. At({op_br_table}) /\ Top.sp >= 1
        /\ Branch(label + 1, 1, Imm.next + TableLabels(module.code, Top.ip))
    BY <1>4 DEF BrTable, Branch
  <2>2. label \in Nat /\ label <= Len(acts) - envLocals
        /\ TableLabels(module.code, Top.ip) = Imm.value + 1
    BY <2>1, TablePlace
  <2> HIDE DEF label
  <2>3. Op = op_br_table /\ Imm.value \in Nat /\ Imm.next \in Nat
    BY <2>1, AtPlace
  <2>4. Follows(Imm.next + Imm.value + 1) /\ Imm.next + (Imm.value + 1) = Imm.next + Imm.value + 1
    BY <2>1, <2>3, FollowsFrom
  <2>5. label + 1 \in Int /\ label + 1 <= Len(acts) - envLocals + 1
    BY <1>1, <2>2
  <2>6. Branch(label + 1, 1, Imm.next + Imm.value + 1)
    BY <2>1, <2>2, <2>4
  <2>7. QED BY <2>1, <2>4, <2>5, <2>6, BranchKeeps
<1>5. CASE Return
  <2>1. At({op_return}) /\ Branch(-1, 0, Top.ip + 1)
    BY <1>5 DEF Return
  <2>2. Follows(Top.ip + 1)
    BY <1>1, <2>1, AtPlace, FollowsFrom
  <2>3. -1 \in Int /\ -1 <= Len(acts) - envLocals + 1
    BY <1>1
  <2>4. QED BY <2>1, <2>2, <2>3, BranchKeeps
<1>6. QED BY <1>2, <1>3, <1>4, <1>5

LEMMA StopsKeep ==
  ASSUME VRun, Arithmetic \/ NoLocals \/ Exit \/ \E found : HeapFails(found)
  PROVE  Kept /\ Halts
<1>1. Halt("exit") \/ Halt("crash")
  BY Zenon DEF Arithmetic, NoLocals, Exit, HeapFails
<1>2. Halts
  BY <1>1 DEF Halts
<1>3. QED BY <1>2, HaltsKeep DEF VRun

-----------------------------------------------------------------------------
(***************************************************************************)
(* An activation that returns, and a loop that runs again.                 *)
(***************************************************************************)
WayOut(how) ==
  /\ \E a : GoesOnAs(a) /\ a.ip = Top.ip /\ a.over = how
  /\ Top.over = "no"
  /\ IF how = "jump" THEN jump # 0 /\ jump' = jump - 1
     ELSE jump = 0 /\ jump' = jump /\ Top.ip >= Top.end

LEMMA ReturnKeeps ==
  ASSUME VRun, Unwind \/ FallOff
  PROVE  Kept /\ \E how \in {"natural", "jump"} : WayOut(how)
<1>1. PICK how \in {"natural", "jump"} :
        /\ ReturnFrom(how) /\ Top.over = "no"
        /\ IF how = "jump" THEN jump # 0 /\ jump' = jump - 1
           ELSE jump = 0 /\ jump' = jump /\ Top.ip >= Top.end
  BY DEF Unwind, FallOff, Active
<1>2. /\ Len(acts) \in Nat \ {0} /\ Top = acts[Len(acts)] /\ Top \in Activations
      /\ envLocals \in 1..Len(acts) /\ InPlace(Len(acts)) /\ StackWords \in Nat
  BY Height, Parameters
<1> PICK a : a = WithOver(Top, how)
  OBVIOUS
<1>3. a \in Activations
  BY <1>2, Retyped
<1>4. a.ip = Top.ip /\ a.over = how /\ a.end = Top.end /\ a.kind = Top.kind
      /\ a.resume = Top.resume
  BY <1>2 DEF WithOver, Activations
<1>5. acts' = [acts EXCEPT ![Len(acts)] = a] /\ envSp' = Top.sp
      /\ UNCHANGED <<module, stack, control, envLocals, globals, status>>
  BY <1>1, <1>2 DEF ReturnFrom, WithOver
<1>6. NewTop(acts', a)
  BY <1>3, <1>5, TopReplaced
<1>7. GoesOnAs(a)
  BY <1>1, <1>2, <1>4, <1>5, <1>6, SameControl DEF GoesOnAs, InPlace
<1>8. DataTyped' /\ envSp' \in 0..StackWords
  <2>1. Top.sp \in 0..StackWords + 2 /\ Top.sp <= StackWords
    BY <1>1, <1>2 DEF InPlace, Activations
  <2>2. QED BY <1>2, <1>5, <2>1 DEF DataTyped, VRun, Typed
<1>9. jump' \in Int /\ JumpBounded(a.over, Len(acts))'
  <2>1. jump \in Int /\ JumpBounded(Top.over, Len(acts))
    BY DEF VRun, Typed, Placed
  <2>2. Len(acts') = Len(acts) /\ envLocals' = envLocals
    BY <1>5, <1>6 DEF NewTop
  <2>3. CASE how = "jump"
    BY <1>1, <1>2, <1>4, <2>1, <2>2, <2>3 DEF JumpBounded
  <2>4. CASE how = "natural"
    BY <1>1, <1>2, <1>4, <2>1, <2>2, <2>4 DEF JumpBounded
  <2>5. QED BY <2>3, <2>4
<1>10. WayOut(how)
  BY <1>1, <1>4, <1>7 DEF WayOut
<1>11. QED BY <1>7, <1>8, <1>9, <1>10, KeptGoingOn

LEMMA RepeatKeeps == ASSUME VRun, Repeat PROVE Kept /\ PassesTo(FrameOf.begin)
<1> PICK a : a = Activation(FrameOf, Top.kind, Top.resume)
  OBVIOUS
<1>1. /\ Len(acts) \in Nat \ {0} /\ Top = acts[Len(acts)] /\ Top \in Activations
      /\ FrameOf = control[Len(acts)] /\ FrameOf \in Frames
      /\ envLocals \in 1..Len(acts) /\ InPlace(Len(acts)) /\ StackWords \in Nat
  BY Height, Parameters
<1>2. acts' = Append(Front(acts), a) /\ jump = 0
      /\ UNCHANGED <<module, stack, envSp, jump, control, envLocals, globals, status>>
  BY DEF Repeat, Repeats
<1>3. a.ip = FrameOf.begin /\ a.end = FrameOf.end /\ a.sp = FrameOf.sp
      /\ a.kind = Top.kind /\ a.resume = Top.resume /\ a.over = "no" /\ a \in Activations
  <2>1. FrameOf.sp \in 0..StackWords /\ FrameOf.begin \in Nat /\ FrameOf.end \in Nat
    BY <1>1 DEF Frames
  <2>2. FrameOf.sp \in 0..StackWords + 2
    BY <1>1, <2>1
  <2>3. QED BY <1>1, <2>1, <2>2 DEF Activation, Activations
<1>4. NewTop(acts', a)
  BY <1>2, <1>3, TopReplaced
<1>5. a.sp <= StackWords
  BY <1>1, <1>3 DEF Frames
<1>6. GoesOnAs(a)
  BY <1>1, <1>2, <1>3, <1>4, <1>5, SameControl DEF GoesOnAs, InPlace
<1>7. DataTyped' /\ envSp' \in 0..StackWords /\ jump' \in Int
  BY <1>2 DEF DataTyped, VRun, Typed
<1>8. JumpBounded(a.over, Len(acts))'
  <2>1. Len(acts') = Len(acts)
    BY <1>4 DEF NewTop
  <2>2. QED BY <1>1, <1>2, <1>3, <2>1 DEF JumpBounded
<1>9. PassesTo(FrameOf.begin)
  BY <1>3, <1>6 DEF PassesTo
<1>10. QED BY <1>6, <1>7, <1>8, <1>9, KeptGoingOn

-----------------------------------------------------------------------------
(***************************************************************************)
(* An instruction that opens a construct or calls a function: the running  *)
(* activation waits, as b, for a new one, a, with a frame f.               *)
(***************************************************************************)
WaitsAs(b) ==
  /\ b.end = Top.end /\ b.kind = Top.kind /\ b.resume = Top.resume
  /\ b.over = "no" /\ b.sp <= StackWords /\ Onward(b.ip)
EntersAs(a, f) ==
  /\ a \in Activations /\ f \in Frames /\ f.locals \in 1..Len(acts) + 1
  /\ a.ip = f.begin /\ a.end = f.end /\ a.over = "no" /\ a.sp <= StackWords
  /\ <<f.func, f.begin, (Len(acts) + 1) - f.locals, f.end>> \in Places(module)
  /\ a.kind \in BlockKinds => Onward(IF a.kind = "then" THEN a.resume ELSE f.end)

Opened(b, a, f) ==
  /\ \E bs : NewTop(bs, b) /\ acts' = Append(bs, a)
  /\ control' = Append(control, f)
  /\ WaitsAs(b) /\ EntersAs(a, f)
  /\ envLocals' = f.locals /\ UNCHANGED <<module, jump, status>>
Enters(kind, begin, end, resume, ip) ==
  \E b, a, f : /\ Opened(b, a, f) /\ b.ip = ip
               /\ a.kind = kind /\ a.resume = resume /\ f.begin = begin /\ f.end = end

LEMMA OpenedStacks ==
  ASSUME VRun, NEW b, NEW a, NEW f, Opened(b, a, f), NEW n \in Nat \ {0}, n = Len(acts)
  PROVE  /\ acts' \in Seq(Activations) /\ Len(acts') = n + 1 /\ acts'[n + 1] = a
         /\ acts'[n] = b /\ \A k \in 1..n - 1 : acts'[k] = acts[k]
         /\ control' \in Seq(Frames) /\ Len(control') = n + 1 /\ control'[n + 1] = f
         /\ \A k \in 1..n : control'[k] = control[k]
<1>1. Len(control) = n
  BY Height
<1>2. PICK bs : NewTop(bs, b) /\ acts' = Append(bs, a)
  BY DEF Opened
<1>3. /\ acts' \in Seq(Activations) /\ Len(acts') = n + 1 /\ acts'[n + 1] = a /\ acts'[n] = b
      /\ \A k \in 1..n - 1 : acts'[k] = acts[k]
  <2> DEFINE S == Activations
  <2>1. bs \in Seq(S) /\ Len(bs) = n /\ a \in S /\ bs[n] = b
        /\ \A k \in 1..n - 1 : bs[k] = acts[k]
    BY <1>2 DEF NewTop, EntersAs, Opened
  <2> HIDE DEF S
  <2>2. /\ acts' \in Seq(S) /\ Len(acts') = n + 1 /\ acts'[n + 1] = a
        /\ \A k \in 1..n : acts'[k] = bs[k]
    BY <1>2, <2>1, AppendProperties
  <2>3. QED BY <2>1, <2>2 DEF S
<1>4. /\ control' \in Seq(Frames) /\ Len(control') = n + 1 /\ control'[n + 1] = f
      /\ \A k \in 1..n : control'[k] = control[k]
  <2> DEFINE S == Frames
  <2>1. control \in Seq(S) /\ Len(control) = n /\ f \in S /\ control' = Append(control, f)
    BY <1>1 DEF VRun, Typed, EntersAs, Opened
  <2> HIDE DEF S
  <2>2. QED BY <2>1, AppendProperties DEF S
<1>5. QED BY <1>3, <1>4

LEMMA OpenedKeeps ==
  ASSUME VRun, jump = 0, NEW b, NEW a, NEW f, Opened(b, a, f), envSp' \in 0..StackWords,
         UNCHANGED <<stack, globals>>
  PROVE  Kept
<1>1. PICK n \in Nat \ {0} :
        /\ n = Len(acts) /\ Len(control) = n /\ Top = acts[n]
        /\ \A k \in 1..n : InPlace(k)
  BY Height DEF VRun, Placed
<1>2. /\ acts' \in Seq(Activations) /\ Len(acts') = n + 1 /\ acts'[n + 1] = a /\ acts'[n] = b
      /\ \A k \in 1..n - 1 : acts'[k] = acts[k]
  BY <1>1, OpenedStacks
<1>3. /\ control' \in Seq(Frames) /\ Len(control') = n + 1 /\ control'[n + 1] = f
      /\ \A k \in 1..n : control'[k] = control[k]
  BY <1>1, OpenedStacks
<1> USE DEF Opened
<1>4. \A k \in 1..n : \A p : Spot(k, p)' = Spot(k, p)
  BY <1>3 DEF Spot
<1>5. ASSUME NEW k \in 1..n PROVE InPlace(k)'
  <2>1. InPlace(k) /\ Places(module') = Places(module)
    BY <1>1
  <2>2. /\ acts'[k].end = acts[k].end /\ acts'[k].kind = acts[k].kind
        /\ acts'[k].resume = acts[k].resume
    <3>1. CASE k = n
      BY <1>1, <1>2, <3>1 DEF WaitsAs
    <3>2. CASE k # n
      <4>1. k \in 1..n - 1
        BY <1>1, <3>2
      <4>2. QED BY <1>2, <4>1
    <3>3. QED BY <3>1, <3>2
  <2>3. acts'[k].over = "no" /\ acts'[k].sp <= StackWords
        /\ Spot(k, acts'[k].ip) \in Places(module)
    <3>1. CASE k = n
      BY <1>1, <1>2, <3>1 DEF WaitsAs, Onward
    <3>2. CASE k # n
      <4>1. k \in 1..n - 1
        BY <1>1, <3>2
      <4>2. acts'[k] = acts[k]
        BY <1>2, <4>1
      <4>3. k < Len(acts)
        BY <1>1, <4>1
      <4>4. acts[k].over = "no" /\ acts[k].sp <= StackWords
            /\ Spot(k, acts[k].ip) \in Places(module)
        BY <2>1, <4>3 DEF InPlace
      <4>5. QED BY <4>2, <4>4
    <3>3. QED BY <3>1, <3>2
  <2>4. Spot(k, acts[k].ip)' \in Places(module)' /\ Spot(k, control[k].begin)' \in Places(module)'
    BY <1>3, <1>4, <2>1, <2>3 DEF InPlace
  <2>5. acts'[k].kind \in BlockKinds => Spot(k - 1, BackAt(k))' \in Places(module)'
    <3> SUFFICES ASSUME acts'[k].kind \in BlockKinds
                 PROVE  Spot(k - 1, BackAt(k))' \in Places(module)'
      OBVIOUS
    <3>1. acts[k].kind \in BlockKinds /\ k # 1
      BY <2>2 DEF VRun, RunInv, BlockKinds
    <3>2. k - 1 \in 1..n
      BY <1>1, <3>1
    <3>3. BackAt(k)' = BackAt(k)
      BY <1>3, <2>2 DEF BackAt
    <3>4. QED BY <1>4, <2>1, <3>1, <3>2, <3>3 DEF InPlace
  <2>6. QED BY <1>3, <2>1, <2>2, <2>3, <2>4, <2>5 DEF InPlace
<1>6. InPlace(n + 1)'
  <2>1. \A p : Spot(n + 1, p)' = <<f.func, p, (n + 1) - f.locals, f.end>>
    BY <1>3 DEF Spot
  <2>2. Spot(n + 1, acts[n + 1].ip)' \in Places(module)'
        /\ Spot(n + 1, control[n + 1].begin)' \in Places(module)'
    BY <1>1, <1>2, <1>3, <2>1 DEF EntersAs
  <2>3. acts'[n + 1].kind \in BlockKinds => Spot(n, BackAt(n + 1))' \in Places(module)'
    <3>1. BackAt(n + 1)' = IF a.kind = "then" THEN a.resume ELSE f.end
      BY <1>2, <1>3 DEF BackAt
    <3>2. QED BY <1>1, <1>2, <1>4, <3>1 DEF EntersAs, Onward
  <2>4. n + 1 - 1 = n
    BY <1>1
  <2>5. QED BY <1>2, <1>3, <2>2, <2>3, <2>4 DEF InPlace, EntersAs
<1>7. Typed'
  BY <1>2, <1>3 DEF VRun, Typed
<1>8. JumpBounded(Top.over, Len(acts))'
  <2>1. Top'.over = "no"
    BY <1>2 DEF Top, Last, EntersAs
  <2>2. QED BY <1>1, <1>2, <2>1 DEF JumpBounded, EntersAs
<1>9. \A k \in 1..n + 1 : InPlace(k)'
  BY <1>5, <1>6
<1>10. QED BY <1>2, <1>7, <1>8, <1>9 DEF Kept, Placed

LEMMA EnterFrameKeeps ==
  ASSUME VRun, NEW ops, At(ops), NEW type \in {"FUNCTION", "BLOCK", "LOOP"},
         NEW kind \in BlockKinds, NEW begin, NEW end, NEW sp \in 0..StackWords, NEW resume \in Nat,
         <<FrameOf.func, begin, Len(acts) - envLocals + 1, end>> \in Places(module),
         Onward(IF kind = "then" THEN resume ELSE end),
         EnterFrame(type, kind, begin, end, sp, resume)
  PROVE  Kept /\ (Halts \/ Enters(kind, begin, end, resume, Top.ip))
<1>1. CASE ControlFull
  <2>1. Halt("ctlOverflow")
    BY <1>1 DEF EnterFrame
  <2>2. Halts
    BY <2>1 DEF Halts
  <2>3. QED BY <2>2, HaltsKeep DEF VRun
<1>2. CASE ~ControlFull
  <2> PICK f : f = Frame(type, FrameOf.func, begin, end, Top.sp, FrameOf.prev, envLocals,
                         <<>>, BlockObjects)
    OBVIOUS
  <2> PICK a : a = Activation(f, kind, resume)
    OBVIOUS
  <2> PICK b : b = WithSp(Top, sp)
    OBVIOUS
  <2>1. /\ Len(acts) \in Nat \ {0} /\ Top = acts[Len(acts)] /\ Top \in Activations
        /\ FrameOf \in Frames /\ envLocals \in 1..Len(acts) /\ InPlace(Len(acts))
        /\ StackWords \in Nat /\ Top.over = "no" /\ Top.sp \in 0..StackWords /\ jump = 0
        /\ Valid(module)
    BY Height, AtPlace, Parameters
  <2>2. begin \in Nat /\ end \in Nat
    BY <2>1 DEF Valid, Closed
  <2>3. /\ control' = Append(control, f) /\ acts' = Append([acts EXCEPT ![Len(acts)].sp = sp], a)
        /\ envSp' = Top.sp /\ UNCHANGED <<module, stack, jump, envLocals, globals, status>>
    BY <1>2, Zenon DEF EnterFrame
  <2>4. f \in Frames /\ f.func = FrameOf.func /\ f.begin = begin /\ f.end = end /\ f.sp = Top.sp
        /\ f.locals = envLocals
    <3>1. BlockObjects \in 1..4
      BY DEF BlockObjects
    <3>2. <<>> \in Seq(Words) /\ FrameOf.func \in Nat /\ FrameOf.prev \in Nat /\ envLocals \in Nat
      BY <2>1 DEF Frames
    <3>3. QED BY <2>1, <2>2, <3>1, <3>2 DEF Frame, Frames
  <2>5. a.ip = begin /\ a.end = end /\ a.sp = Top.sp /\ a.kind = kind /\ a.resume = resume
        /\ a.over = "no" /\ a \in Activations
    <3>1. Top.sp \in 0..StackWords + 2
      BY <2>1
    <3>2. QED BY <2>2, <2>4, <3>1 DEF Activation, Activations, BlockKinds
  <2>6. b \in Activations /\ b.ip = Top.ip /\ b.sp = sp /\ b.end = Top.end /\ b.kind = Top.kind
        /\ b.resume = Top.resume /\ b.over = Top.over
    <3>1. sp \in 0..StackWords + 2
      BY <2>1
    <3>2. QED BY <2>1, <3>1, Retyped DEF WithSp, Activations
  <2>7. [acts EXCEPT ![Len(acts)].sp = sp] = [acts EXCEPT ![Len(acts)] = b]
    BY <2>1 DEF WithSp
  <2>8. NewTop([acts EXCEPT ![Len(acts)].sp = sp], b)
    BY <2>6, <2>7, TopReplaced
  <2>9. WaitsAs(b)
    BY <2>1, <2>6 DEF WaitsAs, Onward, InPlace
  <2>10. (Len(acts) + 1) - f.locals = Len(acts) - envLocals + 1 /\ f.locals \in 1..Len(acts) + 1
    BY <2>1, <2>4
  <2>11. EntersAs(a, f)
    <3>1. <<f.func, f.begin, (Len(acts) + 1) - f.locals, f.end>> \in Places(module)
      BY <2>4, <2>10
    <3>2. Onward(IF a.kind = "then" THEN a.resume ELSE f.end)
      BY <2>4, <2>5
    <3>3. QED BY <2>1, <2>4, <2>5, <2>10, <3>1, <3>2 DEF EntersAs
  <2>12. Opened(b, a, f)
    BY <2>3, <2>4, <2>8, <2>9, <2>11 DEF Opened
  <2>13. Enters(kind, begin, end, resume, Top.ip)
    BY <2>4, <2>5, <2>6, <2>12 DEF Enters
  <2>14. QED BY <2>1, <2>3, <2>12, <2>13, OpenedKeeps
<1>3. QED BY <1>1, <1>2

LEMMA BlockKeeps ==
  ASSUME VRun, Block
  PROVE  /\ Kept
         /\ \/ Halts
            \/ LET end == ReadBlock(module.code, Top.ip + 2)
               IN  /\ end # 0
                   /\ Enters(IF Op = op_block THEN "block" ELSE "loop", Top.ip + 2, end, 0, Top.ip)
<1> DEFINE end == ReadBlock(module.code, Top.ip + 2)
           kind == IF Op = op_block THEN "block" ELSE "loop"
<1>1. CASE \E found : HeapFails(found)
  BY <1>1, StopsKeep
<1>2. CASE \E type \in {"FUNCTION", "BLOCK", "LOOP"} :
             EnterFrame(type, kind, Top.ip + 2, end, Top.sp, 0) /\ end # 0
  <2>1. PICK type \in {"FUNCTION", "BLOCK", "LOOP"} :
          EnterFrame(type, kind, Top.ip + 2, end, Top.sp, 0) /\ end # 0
    BY <1>2
  <2>2. At({op_block, op_loop})
    BY DEF Block
  <2>3. Top.sp \in 0..StackWords /\ kind \in BlockKinds /\ kind # "then" /\ 0 \in Nat
    BY <2>2, AtPlace DEF BlockKinds
  <2>4. /\ <<FrameOf.func, Top.ip + 2, Len(acts) - envLocals + 1, end>> \in Places(module)
        /\ <<FrameOf.func, end, Len(acts) - envLocals, Top.end>> \in Places(module)
    <3>1. BlockClosed(module, Places(module), FrameOf.func, Top.ip, Len(acts) - envLocals, Top.end)
      BY <2>2, AtPlace DEF PlaceOK, Op
    <3> HIDE DEF end
    <3>2. QED BY <2>1, <3>1 DEF BlockClosed, end
  <2>5. Onward(end)
    BY <2>4, Height DEF Onward, Spot, InPlace
  <2> HIDE DEF end, kind
  <2>6. Onward(IF kind = "then" THEN 0 ELSE end)
    BY <2>3, <2>5
  <2>7. Kept /\ (Halts \/ Enters(kind, Top.ip + 2, end, 0, Top.ip)) /\ end # 0
    BY <2>1, <2>2, <2>3, <2>4, <2>6, EnterFrameKeeps
  <2>8. QED BY <2>7 DEF end, kind
<1>3. IF Room < BlockObjects \/ end = 0 THEN HeapFails(end # 0)
      ELSE IF Op = op_block
      THEN EnterFrame("BLOCK", "block", Top.ip + 2, end, Top.sp, 0)
      ELSE EnterFrame("LOOP", "loop", Top.ip + 2, end, Top.sp, 0)
  BY DEF Block
<1> HIDE DEF end
<1>4. QED BY <1>1, <1>2, <1>3, Zenon

LEMMA IfKeeps ==
  ASSUME VRun, If
  PROVE  /\ Kept
         /\ \/ Halts
            \/ LET middle == ReadBlock(module.code, Top.ip + 2)
                   end == ReadBlock(module.code, middle)
               IN  /\ middle # 0 /\ end # 0
                   /\ \/ Enters("then", Top.ip + 2, middle, end, Top.ip)
                      \/ Enters("else", middle, end, 0, Top.ip)
<1> DEFINE middle == ReadBlock(module.code, Top.ip + 2)
           end == IF middle = 0 THEN 0 ELSE ReadBlock(module.code, middle)
<1>1. CASE \E found : HeapFails(found)
  BY <1>1, StopsKeep
<1>2. CASE /\ end # 0
           /\ \/ EnterFrame("FUNCTION", "then", Top.ip + 2, middle, Top.sp - 1, end)
              \/ EnterFrame("FUNCTION", "else", middle, end, Top.sp - 1, 0)
  <2>1. At({op_if}) /\ Top.sp >= 1
    BY DEF If
  <2>2. Top.sp - 1 \in 0..StackWords /\ "then" \in BlockKinds /\ "else" \in BlockKinds /\ 0 \in Nat
        /\ "FUNCTION" \in {"FUNCTION", "BLOCK", "LOOP"}
    BY <2>1, AtPlace, Parameters DEF BlockKinds
  <2>3. middle # 0 /\ end # 0 /\ end = ReadBlock(module.code, middle)
    BY <1>2
  <2>4. /\ <<FrameOf.func, Top.ip + 2, Len(acts) - envLocals + 1, middle>> \in Places(module)
        /\ <<FrameOf.func, middle, Len(acts) - envLocals + 1, end>> \in Places(module)
        /\ <<FrameOf.func, end, Len(acts) - envLocals, Top.end>> \in Places(module)
    <3>1. IfClosed(module, Places(module), FrameOf.func, Top.ip, Len(acts) - envLocals, Top.end)
      BY <2>1, AtPlace DEF PlaceOK, Op
    <3> HIDE DEF end
    <3>2. QED BY <2>3, <3>1 DEF IfClosed
  <2>5. Onward(end) /\ end \in Nat
    <3>1. Valid(module)
      BY <2>1, AtPlace
    <3> HIDE DEF middle, end
    <3>2. end \in Nat
      BY <2>4, <3>1 DEF Valid, Closed
    <3>3. QED BY <2>4, <3>2, Height DEF Onward, Spot, InPlace
  <2> HIDE DEF middle, end
  <2>6. CASE EnterFrame("FUNCTION", "then", Top.ip + 2, middle, Top.sp - 1, end)
    <3>1. Onward(IF "then" = "then" THEN end ELSE middle)
      BY <2>5
    <3>2. Kept /\ (Halts \/ Enters("then", Top.ip + 2, middle, end, Top.ip))
      BY <2>1, <2>2, <2>4, <2>5, <2>6, <3>1, EnterFrameKeeps
    <3>3. QED BY <2>3, <3>2 DEF middle
  <2>7. CASE EnterFrame("FUNCTION", "else", middle, end, Top.sp - 1, 0)
    <3>1. Onward(IF "else" = "then" THEN 0 ELSE end)
      BY <2>5
    <3>2. Kept /\ (Halts \/ Enters("else", middle, end, 0, Top.ip))
      BY <2>1, <2>2, <2>4, <2>5, <2>7, <3>1, EnterFrameKeeps
    <3>3. QED BY <2>3, <3>2 DEF middle
  <2>8. QED BY <1>2, <2>6, <2>7
<1>3. IF Room < BlockObjects \/ end = 0 THEN HeapFails(end # 0)
      ELSE IF Operand(1) # 0
      THEN EnterFrame("FUNCTION", "then", Top.ip + 2, middle, Top.sp - 1, end)
      ELSE EnterFrame("FUNCTION", "else", middle, end, Top.sp - 1, 0)
  BY DEF If
<1> HIDE DEF middle, end
<1>4. QED BY <1>1, <1>2, <1>3, Zenon

-----------------------------------------------------------------------------
(***************************************************************************)
(* Calls.                                                                  *)
(***************************************************************************)
LEMMA FunctionFacts ==
  ASSUME NEW m, Valid(m), NEW i \in FunctionsOf(m)
  PROVE  LET f == m.funcs[i + 1]
         IN  /\ i \in Nat /\ ParamWords(f) \in Nat /\ LocalWords(f) \in Nat
             /\ f.begin \in Nat /\ f.end \in Nat
             /\ ~f.imported => <<i, f.begin, 0, f.end>> \in Places(m)
<1> DEFINE f == m.funcs[i + 1]
<1>1. m.funcs \in Seq(FuncType(Len(m.code))) /\ f.params + 1 \in DOMAIN f.offsets
      /\ (~f.imported => <<i, f.begin, 0, f.end>> \in Places(m)) /\ Len(m.code) \in Nat
  BY DEF Valid, ModuleOK, Closed
<1>2. i + 1 \in 1..Len(m.funcs) /\ i \in Nat
  BY <1>1 DEF FunctionsOf
<1>3. f \in FuncType(Len(m.code))
  BY <1>1, <1>2, ElementOfSeq
<1> HIDE DEF f
<1>4. f.offsets \in Seq(Nat) /\ f.begin \in Nat /\ f.end \in Nat
  BY <1>1, <1>3 DEF FuncType
<1>5. f.params + 1 \in 1..Len(f.offsets) /\ Len(f.offsets) \in 1..Len(f.offsets)
  <2>1. f.params + 1 \in 1..Len(f.offsets) /\ Len(f.offsets) \in Nat
    BY <1>1, <1>4, LenProperties
  <2>2. QED BY <2>1
<1>6. f.offsets[f.params + 1] \in Nat /\ f.offsets[Len(f.offsets)] \in Nat
  BY <1>4, <1>5, ElementOfSeq
<1>7. QED BY <1>1, <1>2, <1>4, <1>6 DEF ParamWords, LocalWords, Last, f

(* Room is left on the operand stack for what a built-in gives.            *)
LEMMA NativeFacts ==
  ASSUME NEW name \in NativeNames
  PROVE  Native(name).takes \in {1, 2} /\ Native(name).gives \subseteq Words
<1>1. 0 \in Words /\ W - 1 \in Words /\ Booleans \subseteq Words
  BY Parameters DEF Words, Booleans
<1>2. CASE name = "puts"
  BY <1>1, <1>2 DEF Native
<1>3. CASE name \in {"puti", "putf"}
  BY <1>1, <1>3 DEF Native
<1>4. CASE name \in {"putl", "putd"}
  BY <1>1, <1>4 DEF Native
<1>5. CASE name \in {"isinff", "isnanf"}
  BY <1>1, <1>5 DEF Native
<1>6. CASE name \in {"isinfd", "isnand"}
  BY <1>1, <1>6 DEF Native
<1>7. QED BY <1>2, <1>3, <1>4, <1>5, <1>6 DEF NativeNames

(* A call that is over at once: the caller goes on at ip.                  *)
LEMMA PassedKeeps ==
  ASSUME VRun, jump = 0, NEW sp \in 0..StackWords, NEW ip, Follows(ip),
         acts' = Continue(acts, sp, ip), envSp' = sp,
         stack' \in [0..StackWords + 1 -> Words],
         UNCHANGED <<module, jump, control, envLocals, globals, status>>
  PROVE  Kept /\ Advances
<1>1. SameFrames /\ sp \in 0..StackWords + 2 /\ sp <= StackWords
  BY SameControl, Parameters
<1>2. PICK a : GoesOnAs(a) /\ a.ip = ip /\ a.over = "no"
  BY <1>1, ContinueGoesOn DEF Follows, Onward
<1>3. JumpBounded(a.over, Len(acts))'
  <2>1. Len(acts') = Len(acts) /\ Len(acts) \in Nat /\ envLocals \in 1..Len(acts)
    BY <1>2, Height DEF GoesOnAs, NewTop
  <2>2. QED BY <1>2, <2>1 DEF JumpBounded
<1>4. DataTyped' /\ jump' \in Int
  BY DEF DataTyped, VRun, Typed
<1>5. Advances
  BY <1>2 DEF Advances, PassesTo, Follows
<1>6. QED BY <1>2, <1>3, <1>4, <1>5, KeptGoingOn

LEMMA CallNativeKeeps ==
  ASSUME VRun, NEW ops, At(ops), NEW i, NEW sp \in 0..StackWords, NEW ip, Follows(ip),
         CallNative(i, sp, ip)
  PROVE  /\ Kept
         /\ \/ Halts
            \/ Advances /\ UNCHANGED jump
<1>1. /\ envLocals' = Last(control).locals
      /\ UNCHANGED <<module, jump, control, curFrame, globals, objects>>
  BY DEF CallNative
<1>2. UNCHANGED envLocals
  BY <1>1, Height DEF Last
<1>3. CASE Candidates(i) = {}
  <2>1. Halt("exit")
    BY <1>3 DEF CallNative
  <2>2. Halts
    BY <2>1 DEF Halts
  <2>3. QED BY <2>2, HaltsKeep DEF VRun
<1>4. CASE Candidates(i) # {}
  <2> DEFINE name == module.imports[Min(Candidates(i))].name
  <2>1. CASE name \notin NativeNames
    <3>1. acts' = Continue(acts, sp, ip) /\ envSp' = sp /\ UNCHANGED <<stack, status>>
      BY <1>4, <2>1 DEF CallNative
    <3>2. stack' \in [0..StackWords + 1 -> Words] /\ jump = 0
      BY <3>1, AtPlace DEF VRun, Typed
    <3>3. QED BY <1>1, <1>2, <3>1, <3>2, PassedKeeps
  <2>2. CASE name \in NativeNames
    <3>1. PICK w \in Native(name).gives :
            LET base == sp - Native(name).takes
            IN  /\ base >= 0 /\ envSp' = base + 1 /\ stack' = Pushed(<<w>>, base)
                /\ acts' = Continue(acts, base + 1, ip) /\ UNCHANGED status
      BY <1>4, <2>2, Zenon DEF CallNative
    <3>2. Native(name).takes \in {1, 2} /\ w \in Words
      BY <2>2, <3>1, NativeFacts
    <3> DEFINE base == sp - Native(name).takes
    <3>3. base >= 0 /\ envSp' = base + 1 /\ stack' = Pushed(<<w>>, base)
          /\ acts' = Continue(acts, base + 1, ip) /\ UNCHANGED status
      BY <3>1
    <3>4. base + 1 \in 0..StackWords /\ base \in Int
      BY <3>2, <3>3, Parameters
    <3> HIDE DEF base, name
    <3>5. stack' \in [0..StackWords + 1 -> Words]
      <4>1. <<w>> \in Seq(Words)
        BY <3>2
      <4>2. Pushed(<<w>>, base) \in [0..StackWords + 1 -> Words]
        BY <3>4, <4>1, PushedTyped DEF VRun
      <4>3. QED BY <3>3, <4>2
    <3>6. jump = 0
      BY AtPlace
    <3>7. QED BY <1>1, <1>2, <3>3, <3>4, <3>5, <3>6, PassedKeeps
  <2>3. QED BY <2>1, <2>2
<1>5. QED BY <1>3, <1>4

LEMMA CallFunctionKeeps ==
  ASSUME VRun, NEW ops, At(ops), NEW i \in FunctionsOf(module), NEW sp \in 0..StackWords,
         NEW ip, Follows(ip), CallFunction(i, sp, ip)
  PROVE  /\ Kept
         /\ \/ Halts
            \/ (Room = 0 \/ Func(i).imported) /\ Advances /\ UNCHANGED jump
            \/ ~Func(i).imported /\ Enters("call", Func(i).begin, Func(i).end, 0, ip)
<1> DEFINE args == [k \in 1..ParamWords(Func(i)) |-> stack[sp - ParamWords(Func(i)) - 1 + k]]
           values == [k \in 1..LocalWords(Func(i)) |-> IF k <= Len(args) THEN args[k] ELSE 0]
           vs == IF Room = 1 THEN <<>> ELSE values
           held == IF Room = 1 THEN 1 ELSE FunctionObjects(Func(i))
<1>1. CASE Room = 0
  <2>1. /\ acts' = Continue(acts, sp, ip) /\ envSp' = sp
        /\ UNCHANGED <<module, stack, jump, control, envLocals, globals, status>>
    BY <1>1, Zenon DEF CallFunction
  <2>2. stack' \in [0..StackWords + 1 -> Words] /\ jump = 0
    BY <2>1, AtPlace DEF VRun, Typed
  <2>3. QED BY <1>1, <2>1, <2>2, PassedKeeps
<1>2. CASE Halt("crash") \/ Halt("ctlOverflow")
  <2>1. Halts
    BY <1>2 DEF Halts
  <2>2. QED BY <2>1, HaltsKeep DEF VRun
<1>3. CASE Func(i).imported /\ CallNative(i, sp, ip)
  BY <1>3, CallNativeKeeps
<1>4. CASE Room # 0 /\ ~(Room = 1 /\ args # <<>>) /\ ~ControlFull /\ ~Func(i).imported
  <2> PICK f : f = FunctionFrame(i, sp, curFrame, Len(control) + 1, vs, held)
    OBVIOUS
  <2> PICK a : a = Activation(f, "call", 0)
    OBVIOUS
  <2> PICK b : b = WithIp(WithSp(Top, sp), ip)
    OBVIOUS
  <2> DEFINE bs == [acts EXCEPT ![Len(acts)].sp = sp, ![Len(acts)].ip = ip]
  <2>1. /\ Len(acts) \in Nat \ {0} /\ Top = acts[Len(acts)] /\ Top \in Activations
        /\ Len(control) = Len(acts) /\ curFrame = Len(acts) /\ Valid(module)
        /\ StackWords \in Nat /\ Top.over = "no" /\ jump = 0
    BY Height, AtPlace, Parameters
  <2>2. /\ sp >= ParamWords(Func(i))
        /\ control' = Append(control, f) /\ acts' = Append(bs, a) /\ envSp' = sp
        /\ envLocals' = Len(control) + 1 /\ UNCHANGED <<module, stack, jump, globals, status>>
    BY <1>4, Zenon DEF CallFunction
  <2>3. /\ i \in Nat /\ ParamWords(Func(i)) \in Nat /\ LocalWords(Func(i)) \in Nat
        /\ Func(i).begin \in Nat /\ Func(i).end \in Nat
        /\ <<i, Func(i).begin, 0, Func(i).end>> \in Places(module)
    BY <1>4, <2>1, FunctionFacts DEF Func
  <2>4. vs \in Seq(Words)
    <3> DEFINE p == ParamWords(Func(i))
               l == LocalWords(Func(i))
    <3>1. p \in Nat /\ l \in Nat /\ p <= sp
      BY <2>2, <2>3
    <3>2. \A k \in 1..p : stack[sp - p - 1 + k] \in Words
      <4> HIDE DEF p
      <4>1. \A k \in 1..p : sp - p - 1 + k \in 0..StackWords + 1
        BY <2>1, <3>1
      <4>2. stack \in [0..StackWords + 1 -> Words]
        BY DEF VRun, Typed
      <4>3. QED BY <4>1, <4>2
    <3>3. args \in Seq(Words) /\ Len(args) = p
      <4> HIDE DEF p, l
      <4>1. [k \in 1..p |-> stack[sp - p - 1 + k]] \in Seq(Words)
            /\ Len([k \in 1..p |-> stack[sp - p - 1 + k]]) = p
        BY <3>1, <3>2
      <4>2. QED BY <4>1 DEF p
    <3> HIDE DEF args, p, l
    <3>4. \A k \in 1..l : k <= Len(args) => args[k] \in Words
      BY <3>1, <3>3, ElementOfSeq
    <3>5. 0 \in Words
      BY Parameters DEF Words
    <3>6. values \in [1..l -> Words]
      <4> HIDE DEF Words
      <4>1. [k \in 1..l |-> IF k <= Len(args) THEN args[k] ELSE 0] \in [1..l -> Words]
        BY <3>4, <3>5, Zenon
      <4>2. QED BY <4>1 DEF l
    <3> HIDE DEF values
    <3>7. values \in Seq(Words)
      BY <3>1, <3>6
    <3>8. QED BY <3>7
  <2>5. held \in 1..4
    BY DEF FunctionObjects
  <2> HIDE DEF values, vs, held, args
  <2>6. f \in Frames /\ f.func = i /\ f.begin = Func(i).begin /\ f.end = Func(i).end /\ f.sp = sp
        /\ f.locals = Len(acts) + 1
    BY <2>1, <2>3, <2>4, <2>5 DEF FunctionFrame, Frame, Frames
  <2>7. a.ip = f.begin /\ a.end = f.end /\ a.sp = sp /\ a.kind = "call" /\ a.over = "no"
        /\ a.resume = 0 /\ a \in Activations
    <3>1. sp \in 0..StackWords + 2 /\ f.begin \in Nat /\ f.end \in Nat
      BY <2>1, <2>3, <2>6
    <3>2. QED BY <2>6, <3>1 DEF Activation, Activations
  <2>8. b \in Activations /\ b.ip = ip /\ b.sp = sp /\ b.end = Top.end /\ b.kind = Top.kind
        /\ b.resume = Top.resume /\ b.over = Top.over
    <3>1. sp \in 0..StackWords + 2 /\ ip \in Nat
      <4>1. Spot(Len(acts), ip) \in FunctionsOf(module) \X Nat \X Nat \X Nat
        BY <2>1 DEF Valid, Closed, Follows, Onward
      <4>2. QED BY <2>1, <4>1 DEF Spot
    <3>2. WithSp(Top, sp) \in Activations
      BY <2>1, <3>1, Retyped
    <3>3. b \in Activations
      BY <3>1, <3>2, Retyped
    <3>4. QED BY <2>1, <3>3 DEF WithIp, WithSp, Activations
  <2>9. bs = [acts EXCEPT ![Len(acts)] = b]
    <3>1. Len(acts) \in DOMAIN acts
      BY Sizes DEF VRun
    <3>2. QED BY <2>1, <3>1 DEF WithIp, WithSp
  <2> HIDE DEF bs
  <2>10. NewTop(bs, b)
    BY <2>8, <2>9, TopReplaced
  <2>11. WaitsAs(b)
    BY <2>1, <2>8 DEF WaitsAs, Follows
  <2>12. EntersAs(a, f)
    <3>1. (Len(acts) + 1) - f.locals = 0 /\ f.locals \in 1..Len(acts) + 1
      BY <2>1, <2>6
    <3>2. <<f.func, f.begin, (Len(acts) + 1) - f.locals, f.end>> \in Places(module)
      BY <2>3, <2>6, <3>1
    <3>3. a.kind \notin BlockKinds
      BY <2>7 DEF BlockKinds
    <3>4. QED BY <2>1, <2>6, <2>7, <3>1, <3>2, <3>3 DEF EntersAs
  <2>13. envLocals' = f.locals
    BY <2>1, <2>2, <2>6
  <2>14. Opened(b, a, f)
    BY <2>2, <2>10, <2>11, <2>12, <2>13 DEF Opened
  <2>15. Enters("call", Func(i).begin, Func(i).end, 0, ip)
    BY <2>6, <2>7, <2>8, <2>14 DEF Enters
  <2>16. QED BY <1>4, <2>1, <2>2, <2>14, <2>15, OpenedKeeps
<1>5. \/ Room = 0 \/ Halt("crash") \/ Halt("ctlOverflow")
      \/ Func(i).imported /\ CallNative(i, sp, ip)
      \/ Room # 0 /\ ~(Room = 1 /\ args # <<>>) /\ ~ControlFull /\ ~Func(i).imported
  BY Zenon DEF CallFunction
<1>6. QED BY <1>1, <1>2, <1>3, <1>4, <1>5

(* What becomes of a call of function i.                                   *)
Invokes(i) ==
  \/ Halts
  \/ (Room = 0 \/ Func(i).imported) /\ Advances /\ UNCHANGED jump
  \/ ~Func(i).imported /\ Enters("call", Func(i).begin, Func(i).end, 0, Following)

LEMMA CallsKeep ==
  ASSUME VRun, Call \/ CallIndirect
  PROVE  /\ Kept
         /\ \/ Halts
            \/ At({op_call}) /\ Invokes(Imm.value)
            \/ /\ At({op_call_indirect})
               /\ \E n \in DOMAIN module.table : \E i \in module.table[n] : Invokes(i)
<1>1. CASE Call
  <2>1. At({op_call}) /\ CallFunction(Imm.value, Top.sp, Imm.next)
    BY <1>1 DEF Call
  <2>2. Op = op_call /\ Top.sp \in 0..StackWords
    BY <2>1, AtPlace
  <2>3. Imm.value \in FunctionsOf(module)
    BY <2>1, <2>2, AtPlace DEF PlaceOK, ImmediateOK, Op, Imm
  <2>4. Follows(Imm.next)
    BY <2>1, <2>2, FollowsFrom DEF Number1
  <2>5. Kept /\ Invokes(Imm.value)
    BY <2>1, <2>2, <2>3, <2>4, CallFunctionKeeps DEF Invokes, Follows
  <2>6. QED BY <2>1, <2>5
<1>2. CASE CallIndirect
  <2> DEFINE n == Operand(1) + 1
  <2>1. At({op_call_indirect}) /\ Top.sp >= 1
        /\ \/ Halt("exit")
           \/ /\ n \in DOMAIN module.table
              /\ \E i \in module.table[n] : CallFunction(i, Top.sp - 1, Imm.next + 1)
    BY <1>2, Zenon DEF CallIndirect
  <2>2. CASE Halt("exit")
    <3>1. Halts
      BY <2>2 DEF Halts
    <3>2. QED BY <3>1, HaltsKeep DEF VRun
  <2>3. ASSUME n \in DOMAIN module.table, NEW i \in module.table[n],
               CallFunction(i, Top.sp - 1, Imm.next + 1)
        PROVE  Kept /\ Invokes(i)
    <3>1. Op = op_call_indirect /\ Top.sp - 1 \in 0..StackWords
      BY <2>1, AtPlace, Parameters
    <3>2. i \in FunctionsOf(module)
      BY <2>1, <2>3, AtPlace DEF Valid
    <3>3. Follows(Imm.next + 1)
      BY <2>1, <3>1, FollowsFrom
    <3>4. QED BY <2>1, <2>3, <3>1, <3>2, <3>3, CallFunctionKeeps DEF Invokes, Follows
  <2> HIDE DEF n
  <2>4. QED BY <2>1, <2>2, <2>3
<1>3. QED BY <1>1, <1>2

-----------------------------------------------------------------------------
(***************************************************************************)
(* The way out of a construct or a function: the activation below goes on, *)
(* as c.                                                                   *)
(***************************************************************************)
ResumesAs(c) ==
  LET n == Len(acts) - 1
  IN  /\ acts' \in Seq(Activations) /\ Len(acts') = n /\ acts'[n] = c
      /\ \A k \in 1..n - 1 : acts'[k] = acts[k]
      /\ c.end = acts[n].end /\ c.kind = acts[n].kind /\ c.resume = acts[n].resume
      /\ c.over = "no" /\ c.sp <= StackWords /\ Spot(n, c.ip) \in Places(module)

LEMMA FrameLess ==
  ASSUME VRun, control' = Front(control)
  PROVE  /\ control' \in Seq(Frames) /\ Len(control') = Len(acts) - 1
         /\ \A k \in 1..Len(acts) - 1 : control'[k] = control[k]
<1>1. Len(acts) \in Nat \ {0} /\ Len(control) = Len(acts)
  BY Height
<1>2. control \in Seq(Frames) /\ IsSeq(control)
  BY DEF VRun, Typed, IsSeq
<1>3. Len(control') = Len(acts) - 1 /\ \A k \in 1..Len(acts) - 1 : control'[k] = control[k]
  BY <1>1, <1>2, FrontFacts
<1>4. \A k \in 1..Len(acts) - 1 : control[k] \in Frames
  BY <1>1, <1>2, ElementOfSeq
<1>5. SubSeq(control, 1, Len(control) - 1) \in Seq(Frames)
  <2> DEFINE S == Frames
  <2>1. control \in Seq(S) /\ \A k \in 1..Len(control) - 1 : control[k] \in S
    BY <1>1, <1>2, <1>4
  <2> HIDE DEF S
  <2>2. SubSeq(control, 1, Len(control) - 1) \in Seq(S)
    BY <1>1, <2>1, SubSeqProperties
  <2>3. QED BY <2>2 DEF S
<1>6. QED BY <1>3, <1>5 DEF Front

LEMMA ActivationLess ==
  ASSUME VRun, Len(acts) > 1
  PROVE  /\ Front(acts) \in Seq(Activations) /\ Len(Front(acts)) = Len(acts) - 1
         /\ \A k \in 1..Len(acts) - 1 : Front(acts)[k] = acts[k] /\ acts[k] \in Activations
<1>1. Len(acts) \in Nat \ {0} /\ acts \in Seq(Activations) /\ IsSeq(acts)
  BY Height DEF VRun, Typed, IsSeq
<1>2. Len(Front(acts)) = Len(acts) - 1 /\ \A k \in 1..Len(acts) - 1 : Front(acts)[k] = acts[k]
  BY <1>1, FrontFacts
<1>3. \A k \in 1..Len(acts) - 1 : acts[k] \in Activations
  BY <1>1, ElementOfSeq
<1>4. SubSeq(acts, 1, Len(acts) - 1) \in Seq(Activations)
  <2> DEFINE S == Activations
  <2>1. acts \in Seq(S) /\ \A k \in 1..Len(acts) - 1 : acts[k] \in S
    BY <1>1, <1>3
  <2> HIDE DEF S
  <2>2. SubSeq(acts, 1, Len(acts) - 1) \in Seq(S)
    BY <1>1, <2>1, SubSeqProperties
  <2>3. QED BY <2>2 DEF S
<1>5. QED BY <1>2, <1>3, <1>4 DEF Front

(* The frame goes, and the activation below goes on at ip.                 *)
Resumes(ip) ==
  /\ Len(acts) > 1 /\ control' = Front(control) /\ UNCHANGED <<module, status>>
  /\ \E c : ResumesAs(c) /\ c.ip = ip

(* As it waited, or past the construct that has been left.                 *)
LEMMA ResumesWaiting ==
  ASSUME VRun, Len(acts) > 1, acts' = Front(acts)
  PROVE  \E c : ResumesAs(c) /\ c.ip = acts[Len(acts) - 1].ip
<1>1. PICK n \in Nat \ {0} : n = Len(acts) - 1 /\ InPlace(n) /\ Len(acts) = n + 1
  <2>1. Len(acts) - 1 \in Nat \ {0} /\ Len(acts) - 1 \in 1..Len(acts)
        /\ Len(acts) = (Len(acts) - 1) + 1
    BY Height
  <2>2. QED BY <2>1 DEF VRun, Placed
<1>2. acts[n].over = "no" /\ acts[n].sp <= StackWords /\ Spot(n, acts[n].ip) \in Places(module)
  BY <1>1 DEF InPlace
<1>3. ResumesAs(acts[n])
  BY <1>1, <1>2, ActivationLess DEF ResumesAs
<1>4. QED BY <1>1, <1>3

LEMMA ResumesAt ==
  ASSUME VRun, Len(acts) > 1, NEW sp \in 0..StackWords, NEW ip,
         Spot(Len(acts) - 1, ip) \in Places(module), acts' = Continue(Front(acts), sp, ip)
  PROVE  \E c : ResumesAs(c) /\ c.ip = ip
<1> PICK n \in Nat \ {0} : n = Len(acts) - 1
  BY Height
<1> PICK t : t = acts[n]
  OBVIOUS
<1> PICK c : c = WithOver(WithSp(WithIp(t, ip), sp), "no")
  OBVIOUS
<1>1. /\ Front(acts) \in Seq(Activations) /\ Len(Front(acts)) = n
      /\ \A k \in 1..n : Front(acts)[k] = acts[k] /\ acts[k] \in Activations
  BY ActivationLess
<1>2. ip \in Nat /\ sp \in 0..StackWords + 2 /\ sp <= StackWords /\ StackWords \in Nat
  <2>1. Valid(module)
    BY ValidCode DEF VRun, Typed
  <2>2. Spot(n, ip) \in FunctionsOf(module) \X Nat \X Nat \X Nat
    BY <2>1 DEF Valid, Closed
  <2>3. QED BY <2>2, Parameters DEF Spot
<1>3. c \in Activations
  <2>1. t \in Activations
    BY <1>1
  <2>2. WithIp(t, ip) \in Activations
    BY <1>2, <2>1, Retyped
  <2>3. WithSp(WithIp(t, ip), sp) \in Activations
    BY <1>2, <2>2, Retyped
  <2>4. QED BY <2>3, Retyped
<1>4. c.ip = ip /\ c.sp = sp /\ c.over = "no" /\ c.end = t.end /\ c.kind = t.kind
      /\ c.resume = t.resume
  BY <1>1 DEF WithIp, WithSp, WithOver, Activations
<1>5. acts' = Append(Front(Front(acts)), c)
  <2>1. Last(Front(acts)) = t
    BY <1>1 DEF Last
  <2>2. [t EXCEPT !.ip = ip, !.sp = sp, !.over = "no"] = c
    BY DEF WithIp, WithSp, WithOver
  <2>3. (IF sp > StackWords THEN "overflow" ELSE "no") = "no"
    BY <1>2
  <2>4. QED BY <2>1, <2>2, <2>3 DEF Continue
<1>6. /\ acts' \in Seq(Activations) /\ Len(acts') = n /\ acts'[n] = c
      /\ \A k \in 1..n - 1 : acts'[k] = acts[k]
  <2> PICK s : s = Front(acts)
    OBVIOUS
  <2> DEFINE S == Activations
  <2>1. s \in Seq(S) /\ Len(s) = n /\ c \in S /\ \A k \in 1..n : s[k] = acts[k] /\ s[k] \in S
    BY <1>1, <1>3
  <2> HIDE DEF S
  <2>2. IsSeq(s) /\ Len(s) > 0
    BY <2>1 DEF IsSeq
  <2>3. Len(Front(s)) = n - 1 /\ \A k \in 1..n - 1 : Front(s)[k] = s[k]
    BY <2>1, <2>2, FrontFacts
  <2>4. Front(s) \in Seq(S)
    <3>1. \A k \in 1..n - 1 : s[k] \in S
      BY <2>1
    <3>2. SubSeq(s, 1, n - 1) \in Seq(S)
      BY <2>1, <3>1, SubSeqProperties
    <3>3. QED BY <2>1, <3>2 DEF Front
  <2>5. /\ Append(Front(s), c) \in Seq(S) /\ Len(Append(Front(s), c)) = n - 1 + 1
        /\ Append(Front(s), c)[n - 1 + 1] = c
        /\ \A k \in 1..n - 1 : Append(Front(s), c)[k] = Front(s)[k]
    BY <2>1, <2>3, <2>4, AppendProperties
  <2>6. n - 1 + 1 = n /\ acts' = Append(Front(s), c)
    BY <1>5
  <2>7. QED BY <2>1, <2>3, <2>5, <2>6 DEF S
<1>7. ResumesAs(c)
  BY <1>2, <1>4, <1>6 DEF ResumesAs
<1>8. QED BY <1>4, <1>7

LEMMA ClosedKeeps ==
  ASSUME VRun, RunInv', Len(acts) > 1, NEW c, ResumesAs(c), control' = Front(control),
         UNCHANGED <<module, stack, envSp, globals>>,
         jump' \in Int, jump' <= Len(acts) - envLocals'
  PROVE  Kept
<1>1. PICK n \in Nat \ {0} : n = Len(acts) - 1 /\ Len(acts) = n + 1 /\ Len(control) = n + 1
  <2>1. Len(acts) - 1 \in Nat \ {0} /\ Len(control) = Len(acts) /\ Len(acts) = (Len(acts) - 1) + 1
    BY Height
  <2>2. QED BY <2>1
<1>2. /\ acts' \in Seq(Activations) /\ Len(acts') = n /\ acts'[n] = c
      /\ \A k \in 1..n - 1 : acts'[k] = acts[k]
      /\ c.end = acts[n].end /\ c.kind = acts[n].kind /\ c.resume = acts[n].resume
      /\ c.over = "no" /\ c.sp <= StackWords /\ Spot(n, c.ip) \in Places(module)
  BY <1>1 DEF ResumesAs
<1>3. /\ control' \in Seq(Frames) /\ Len(control') = n
      /\ \A k \in 1..n : control'[k] = control[k]
  BY <1>1, FrameLess
<1>4. \A k \in 1..n : \A p : Spot(k, p)' = Spot(k, p)
  BY <1>3 DEF Spot
<1>5. ASSUME NEW k \in 1..n PROVE InPlace(k)'
  <2>1. InPlace(k) /\ k \in 1..Len(acts) /\ Places(module') = Places(module)
    BY <1>1 DEF VRun, Placed
  <2>2. acts'[k].end = acts[k].end /\ acts'[k].kind = acts[k].kind /\ acts'[k].resume = acts[k].resume
        /\ acts'[k].over = "no" /\ acts'[k].sp <= StackWords /\ Spot(k, acts'[k].ip) \in Places(module)
    <3>1. CASE k = n
      BY <1>2, <3>1
    <3>2. CASE k # n
      <4>1. k \in 1..n - 1 /\ k < Len(acts)
        BY <1>1, <3>2
      <4>2. QED BY <1>2, <2>1, <4>1 DEF InPlace
    <3>3. QED BY <3>1, <3>2
  <2>3. Spot(k, acts[k].ip)' \in Places(module)' /\ Spot(k, control[k].begin)' \in Places(module)'
    BY <1>3, <1>4, <2>1, <2>2 DEF InPlace
  <2>4. acts'[k].kind \in BlockKinds => Spot(k - 1, BackAt(k))' \in Places(module)'
    <3> SUFFICES ASSUME acts'[k].kind \in BlockKinds
                 PROVE  Spot(k - 1, BackAt(k))' \in Places(module)'
      OBVIOUS
    <3>1. acts[k].kind \in BlockKinds /\ k # 1
      BY <2>2 DEF VRun, RunInv, BlockKinds
    <3>2. k - 1 \in 1..n
      BY <1>1, <3>1
    <3>3. BackAt(k)' = BackAt(k)
      BY <1>3, <2>2 DEF BackAt
    <3>4. QED BY <1>4, <2>1, <3>1, <3>2, <3>3 DEF InPlace
  <2>5. QED BY <1>3, <2>1, <2>2, <2>3, <2>4 DEF InPlace
<1>6. Typed'
  BY <1>2, <1>3 DEF VRun, Typed
<1>7. JumpBounded(Top.over, Len(acts))'
  <2>1. Top'.over = "no"
    BY <1>2 DEF Top, Last
  <2>2. envLocals' \in Nat
    <3>1. (envLocals \in 1..Len(control))'
      BY Sizes, PTL
    <3>2. QED BY <1>3, <3>1
  <2>3. QED BY <1>1, <1>2, <2>1, <2>2 DEF JumpBounded
<1>8. QED BY <1>2, <1>5, <1>6, <1>7 DEF Kept, Placed

LEMMA LeaveBlockKeeps ==
  ASSUME VRun, LeaveBlock
  PROVE  /\ Kept /\ Resumes(BackAt(Len(acts))) /\ UNCHANGED <<jump, envLocals>>
         /\ envLocals \in 1..Len(acts) - 1
<1>1. Closes /\ RunInv'
  BY LeaveBlockKind, ClosesKeeps DEF VRun
<1>2. /\ Len(acts) > 1 /\ Len(acts) \in Nat /\ Len(control) = Len(acts)
      /\ Top = acts[Len(acts)] /\ InPlace(Len(acts)) /\ Last(control) = control[Len(acts)]
  BY <1>1, Height DEF Closes, Last
<1>3. /\ Top.kind \in BlockKinds /\ Top.over # "no" /\ control' = Front(control)
      /\ acts' = Continue(Front(acts), envSp,
                          IF Top.kind = "then" THEN Top.resume ELSE Last(control).end)
      /\ UNCHANGED <<module, stack, envSp, jump, envLocals, globals, status>>
  BY DEF LeaveBlock, Returned, PopFrame
<1>4. PICK c : ResumesAs(c) /\ c.ip = BackAt(Len(acts))
  <2>1. Spot(Len(acts) - 1, BackAt(Len(acts))) \in Places(module)
    BY <1>2, <1>3 DEF InPlace
  <2>2. acts' = Continue(Front(acts), envSp, BackAt(Len(acts)))
    BY <1>2, <1>3 DEF BackAt
  <2>3. envSp \in 0..StackWords
    BY DEF VRun, Typed
  <2>4. QED BY <1>2, <2>1, <2>2, <2>3, ResumesAt
<1>5. jump \in Int /\ jump <= Len(acts) - envLocals /\ envLocals \in 1..Len(acts) - 1
  <2>1. (envLocals \in 1..Len(control))' /\ Len(control') = Len(acts) - 1
    BY <1>1, <1>3, Sizes, FrameLess, PTL
  <2>2. envLocals \in 1..Len(acts) - 1
    BY <1>3, <2>1
  <2>3. JumpBounded(Top.over, Len(acts)) /\ jump \in Int
        /\ Top.over \in {"natural", "jump", "overflow"}
    BY <1>3, Height DEF VRun, Typed, Placed, Activations
  <2>4. CASE Top.over = "jump"
    BY <1>2, <2>2, <2>3, <2>4 DEF JumpBounded
  <2>5. CASE Top.over # "jump"
    BY <1>2, <2>2, <2>3, <2>5 DEF JumpBounded
  <2>6. QED BY <2>2, <2>4, <2>5
<1>6. Kept
  BY <1>1, <1>2, <1>3, <1>4, <1>5, ClosedKeeps
<1>7. QED BY <1>2, <1>3, <1>4, <1>5, <1>6 DEF Resumes

(* A return's jump, or a branch to the function's own label, ends here.    *)
LEMMA LeaveFunctionKeeps ==
  ASSUME VRun, LeaveFunction
  PROVE  /\ Kept /\ Resumes(acts[Len(acts) - 1].ip) /\ jump' = 0
         /\ envLocals = Len(acts) /\ (Top.over = "jump" => jump <= 0)
<1>1. Closes /\ RunInv'
  BY LeaveFunctionKind, ClosesKeeps DEF VRun
<1>2. /\ Len(acts) > 1 /\ Len(acts) \in Nat /\ Len(control) = Len(acts)
      /\ Top = acts[Len(acts)] /\ \A k \in 1..Len(acts) : InPlace(k)
  BY <1>1, Height DEF Closes, VRun, Placed
<1>3. /\ Top.kind \in {"call", "start"} /\ Top.over # "no" /\ control' = Front(control)
      /\ jump' = (IF jump < 0 THEN 0 ELSE jump)
      /\ acts' = (IF Top.kind = "start" THEN Front(acts)
                  ELSE Continue(Front(acts), envSp, Last(Front(acts)).ip))
      /\ UNCHANGED <<module, stack, envSp, globals, status>>
  BY DEF LeaveFunction, Returned, PopFrame
<1>4. PICK c : ResumesAs(c) /\ c.ip = acts[Len(acts) - 1].ip
  <2>1. CASE Top.kind = "start"
    BY <1>2, <1>3, <2>1, ResumesWaiting
  <2>2. CASE Top.kind # "start"
    <3>1. Last(Front(acts)) = acts[Len(acts) - 1]
      BY <1>2, ActivationLess DEF Last
    <3>2. Len(acts) - 1 \in 1..Len(acts)
      BY <1>2
    <3>3. Spot(Len(acts) - 1, Last(Front(acts)).ip) \in Places(module)
      BY <1>2, <3>1, <3>2 DEF InPlace
    <3>4. envSp \in 0..StackWords
      BY DEF VRun, Typed
    <3>5. QED BY <1>2, <1>3, <2>2, <3>1, <3>3, <3>4, ResumesAt
  <2>3. QED BY <2>1, <2>2
<1>5. jump' = 0 /\ envLocals = Len(acts) /\ (Top.over = "jump" => jump <= 0)
  <2>1. envLocals = Len(acts)
    <3>1. Owner(envLocals, Len(acts)) /\ Len(acts) \in 1..Len(acts)
      BY Sizes DEF VRun, RunInv
    <3>2. acts[Len(acts)].kind \in FunctionKinds
      BY <1>2, <1>3 DEF FunctionKinds
    <3>3. QED BY <1>2, <3>1, <3>2 DEF Owner
  <2>2. JumpBounded(Top.over, Len(acts)) /\ jump \in Int
        /\ Top.over \in {"natural", "jump", "overflow"}
    BY <1>3, Height DEF VRun, Typed, Placed, Activations
  <2>3. CASE Top.over = "jump"
    BY <1>2, <1>3, <2>1, <2>2, <2>3 DEF JumpBounded
  <2>4. CASE Top.over # "jump"
    BY <1>3, <2>1, <2>2, <2>4 DEF JumpBounded
  <2>5. QED BY <2>1, <2>3, <2>4
<1>6. 0 <= Len(acts) - envLocals'
  <2>1. (envLocals \in 1..Len(control))' /\ Len(control') = Len(acts) - 1
    BY <1>1, <1>3, Sizes, FrameLess, PTL
  <2>2. QED BY <1>2, <2>1
<1>7. Kept
  BY <1>1, <1>2, <1>3, <1>4, <1>5, <1>6, ClosedKeeps
<1>8. QED BY <1>2, <1>3, <1>4, <1>5, <1>7 DEF Resumes

LEMMA LeaveMainKeeps == ASSUME VRun, LeaveMain PROVE Kept
<1>1. /\ control' = Front(control) /\ acts' = Front(acts) /\ status' = "done"
      /\ UNCHANGED <<module, stack, envSp, jump, globals>>
  BY DEF LeaveMain, PopFrame
<1>2. control' \in Seq(Frames)
  BY <1>1, FrameLess
<1>3. acts' \in Seq(Activations)
  <2>1. Len(control) = 1 /\ Len(control) = Len(acts)
    BY LeaveMainKind, Height DEF Ends, VRun
  <2>2. Len(acts) - 1 = 0
    BY <2>1
  <2>3. Front(acts) = SubSeq(acts, 1, 0)
    BY <2>2, Zenon DEF Front
  <2>4. QED BY <1>1, <2>3
<1>4. QED BY <1>1, <1>2, <1>3 DEF Kept, VRun, Typed

-----------------------------------------------------------------------------
(***************************************************************************)
(* The invariant holds at the start and every step keeps it.               *)
(***************************************************************************)
LEMMA StepKeeps == ASSUME VRun, status = "run", Next PROVE Kept
<1>1. CASE Instruction
  BY <1>1, ComputeKeeps, ConstKeeps, MovesKeep, LocalKeeps, GlobalKeeps, StopsKeep, BranchesKeep,
     BlockKeeps, IfKeeps, CallsKeep, Zenon DEF Instruction
<1>2. CASE Unwind \/ FallOff \/ Repeat
  BY <1>2, ReturnKeeps, RepeatKeeps
<1>3. CASE LeaveBlock \/ LeaveFunction \/ LeaveMain
  BY <1>3, LeaveBlockKeeps, LeaveFunctionKeeps, LeaveMainKeeps
<1>4. QED BY <1>1, <1>2, <1>3 DEF Next, Terminated

EntryOK(f, a, slot) ==
  /\ f \in Frames /\ f.locals = slot
  /\ a \in Activations /\ a.kind \notin BlockKinds
  /\ a.ip = f.begin /\ a.end = f.end /\ a.sp = 0 /\ a.over = "no"
  /\ <<f.func, f.begin, 0, f.end>> \in Places(module)

LEMMA EntryFrame ==
  ASSUME module \in Modules, NEW i \in {module.main} \cup module.start, NEW slot \in Nat,
         NEW kind \in {"main", "start"}
  PROVE  LET f == FirstFrame(i, slot - 1, slot)
         IN  slot > 0 => EntryOK(f, Activation(f, kind, 0), slot)
<1> SUFFICES ASSUME slot > 0
    PROVE LET f == FirstFrame(i, slot - 1, slot)
          IN  EntryOK(f, Activation(f, kind, 0), slot)
  OBVIOUS
<1> PICK f : f = FirstFrame(i, slot - 1, slot)
  OBVIOUS
<1>1. Valid(module) /\ StackWords \in Nat
  BY ValidCode, Parameters
<1>2. i \in FunctionsOf(module) /\ ~module.funcs[i + 1].imported
  BY <1>1 DEF Valid
<1>3. /\ i \in Nat /\ LocalWords(Func(i)) \in Nat /\ Func(i).begin \in Nat /\ Func(i).end \in Nat
      /\ <<i, Func(i).begin, 0, Func(i).end>> \in Places(module)
  BY <1>1, <1>2, FunctionFacts DEF Func
<1>4. ZeroedLocals(Func(i)) \in Seq(Words)
  <2> PICK n \in Nat : n = LocalWords(Func(i))
    BY <1>3
  <2>1. 0 \in Words
    BY Parameters DEF Words
  <2>2. [k \in 1..n |-> 0] \in Seq(Words)
    BY <2>1
  <2>3. QED BY <2>2 DEF ZeroedLocals
<1>5. f \in Frames /\ f.func = i /\ f.begin = Func(i).begin /\ f.end = Func(i).end /\ f.sp = 0
      /\ f.locals = slot
  BY <1>1, <1>3, <1>4 DEF FirstFrame, FunctionFrame, FunctionObjects, Frame, Frames
<1>6. 0 \in 0..StackWords + 2 /\ f.begin \in Nat /\ f.end \in Nat
  BY <1>1, <1>3, <1>5
<1>7. EntryOK(f, Activation(f, kind, 0), slot)
  BY <1>3, <1>5, <1>6 DEF EntryOK, Activation, Activations, BlockKinds
<1>8. QED BY <1>7

LEMMA EntryInPlace ==
  ASSUME NEW k \in Nat \ {0}, EntryOK(control[k], acts[k], k), StackWords \in Nat
  PROVE  InPlace(k)
<1>1. \A p : Spot(k, p) = <<control[k].func, p, 0, control[k].end>>
  <2>1. k - control[k].locals = 0
    BY DEF EntryOK
  <2>2. QED BY <2>1, Zenon DEF Spot
<1>2. QED BY <1>1 DEF EntryOK, InPlace

LEMMA InitValid == Init => VInv
<1> SUFFICES ASSUME Init PROVE VInv
  OBVIOUS
<1>1. RunInv /\ FInv /\ ObjectsAccounted /\ StackWords \in Nat /\ MaxObjects \in Nat \ 0..3
  BY InitRuns, InitAccounts, Parameters DEF FInv
<1>2. /\ module \in Modules /\ stack = [i \in 0..StackWords + 1 |-> 0] /\ envSp = 0 /\ jump = 0
      /\ globals = module.globals /\ status = "run" /\ curFrame = Len(control)
      /\ envLocals = Len(control)
  BY DEF Init
<1>3. \/ \E f, a : EntryOK(f, a, 1) /\ control = <<f>> /\ acts = <<a>>
      \/ \E f, a, g, b : /\ EntryOK(f, a, 1) /\ EntryOK(g, b, 2)
                         /\ control = <<f, g>> /\ acts = <<a, b>>
  <2> DEFINE f == FirstFrame(module.main, 0, 1)
             g(s) == FirstFrame(s, 1, 2)
             a == Activation(f, "main", 0)
             b(s) == Activation(g(s), "start", 0)
  <2>1. EntryOK(f, a, 1)
    <3>1. module.main \in {module.main} \cup module.start /\ 1 \in Nat /\ 1 > 0 /\ 1 - 1 = 0
          /\ "main" \in {"main", "start"}
      OBVIOUS
    <3>2. LET h == FirstFrame(module.main, 1 - 1, 1)
          IN  1 > 0 => EntryOK(h, Activation(h, "main", 0), 1)
      BY <1>2, <3>1, EntryFrame
    <3>3. QED BY <3>1, <3>2
  <2>2. \A s \in module.start : EntryOK(g(s), b(s), 2)
    <3> TAKE s \in module.start
    <3>1. s \in {module.main} \cup module.start /\ 2 \in Nat /\ 2 > 0 /\ 2 - 1 = 1
          /\ "start" \in {"main", "start"}
      OBVIOUS
    <3>2. LET h == FirstFrame(s, 2 - 1, 2)
          IN  2 > 0 => EntryOK(h, Activation(h, "start", 0), 2)
      BY <1>2, <3>1, EntryFrame
    <3>3. QED BY <3>1, <3>2
  <2>3. \/ control = <<f>> /\ acts = <<a>>
        \/ \E s \in module.start : control = <<f, g(s)>> /\ acts = <<a, b(s)>>
    BY DEF Init
  <2> HIDE DEF f, g, a, b
  <2>4. QED BY <2>1, <2>2, <2>3, Zenon
<1>4. /\ acts \in Seq(Activations) /\ control \in Seq(Frames) /\ Len(acts) \in {1, 2}
      /\ Len(control) = Len(acts) /\ \A k \in 1..Len(acts) : EntryOK(control[k], acts[k], k)
  <2>1. ASSUME NEW f, NEW a, EntryOK(f, a, 1), control = <<f>>, acts = <<a>> PROVE <1>4!:
    BY <2>1 DEF EntryOK
  <2>2. ASSUME NEW f, NEW a, NEW g, NEW b, EntryOK(f, a, 1), EntryOK(g, b, 2),
               control = <<f, g>>, acts = <<a, b>>
        PROVE  <1>4!:
    BY <2>2 DEF EntryOK
  <2>3. QED BY <1>3, <2>1, <2>2
<1>5. \A k \in 1..Len(acts) : InPlace(k)
  BY <1>1, <1>4, EntryInPlace
<1>6. Typed
  <2>1. module.globals \in Seq(Words \X Words)
    BY <1>2, ValidCode DEF Valid, ModuleOK
  <2>2. 0 \in Words
    BY Parameters DEF Words
  <2>3. QED BY <1>1, <1>2, <1>4, <2>1, <2>2 DEF Typed
<1>7. Placed
  <2>1. Top.over = "no"
    <3>1. Len(acts) \in 1..Len(acts)
      BY <1>4
    <3>2. EntryOK(control[Len(acts)], acts[Len(acts)], Len(acts))
      BY <1>4, <3>1
    <3>3. QED BY <3>2 DEF Top, Last, EntryOK
  <2>2. QED BY <1>2, <1>4, <1>5, <2>1 DEF Placed, JumpBounded
<1>8. Counted
  <2>1. \A i, prev, slot : FirstFrame(i, prev, slot).held \in {1, 2}
    BY DEF FirstFrame, FunctionFrame, Frame, FunctionObjects
  <2>2. \E m \in {1, 2}, s \in {0, 1, 2} : objects = m + s
    <3>1. \/ objects = FirstFrame(module.main, 0, 1).held
          \/ \E s : objects = FirstFrame(module.main, 0, 1).held + FirstFrame(s, 1, 2).held
      BY DEF Init
    <3>2. QED BY <2>1, <3>1
  <2>3. QED BY <1>1, <1>2, <1>4, <2>2 DEF Counted
<1>9. QED BY <1>1, <1>6, <1>7, <1>8 DEF VInv

(* What a step may take from the heap, and where a run stops.              *)
Taken ==
  /\ \/ objects' = objects
     \/ \E n \in {1, 2, 3, 4} : n <= Room /\ objects' = objects + n
     \/ objects' = objects - control[Len(control)].held
  /\ status' \in {"run", "done", "exit", "crash", "ctlOverflow"}
  /\ status' # "run" => UNCHANGED <<curFrame, envLocals>>
  /\ status' \notin {"run", "done"} => UNCHANGED objects

LEMMA HaltTakes ==
  ASSUME NEW how \in {"exit", "crash", "ctlOverflow"}, Halt(how) PROVE Taken
BY DEF Halt, Taken

LEMMA SameTakes == ASSUME status = "run", UNCHANGED <<objects, status>> PROVE Taken
BY DEF Taken

LEMMA EnterFrameTakes ==
  ASSUME status = "run", Counted, ~(Room < BlockObjects), NEW type, NEW kind, NEW begin, NEW end,
         NEW sp, NEW resume, EnterFrame(type, kind, begin, end, sp, resume)
  PROVE  Taken
<1>1. CASE ControlFull
  <2>1. Halt("ctlOverflow")
    BY <1>1 DEF EnterFrame
  <2>2. QED BY <2>1, HaltTakes
<1>2. CASE ~ControlFull
  <2>1. objects' = objects + BlockObjects /\ UNCHANGED status
    BY <1>2, Zenon DEF EnterFrame
  <2>2. BlockObjects \in {1, 2, 3, 4} /\ BlockObjects <= Room
    <3>1. BlockObjects \in {3, 4}
      BY DEF BlockObjects
    <3>2. QED BY <3>1, Parameters DEF Room, Counted
  <2>3. QED BY <2>1, <2>2 DEF Taken
<1>3. QED BY <1>1, <1>2

LEMMA CallFunctionTakes ==
  ASSUME VRun, status = "run", Counted, NEW i, NEW sp, NEW ip, CallFunction(i, sp, ip)
  PROVE  Taken
<1> DEFINE args == [k \in 1..ParamWords(Func(i)) |-> stack[sp - ParamWords(Func(i)) - 1 + k]]
           values == [k \in 1..LocalWords(Func(i)) |-> IF k <= Len(args) THEN args[k] ELSE 0]
           f == FunctionFrame(i, sp, curFrame, Len(control) + 1,
                              IF Room = 1 THEN <<>> ELSE values,
                              IF Room = 1 THEN 1 ELSE FunctionObjects(Func(i)))
<1>1. \/ UNCHANGED <<objects, status>> \/ Halt("crash") \/ Halt("ctlOverflow")
      \/ CallNative(i, sp, ip)
      \/ Room # 0 /\ objects' = objects + f.held /\ UNCHANGED status
  BY Zenon DEF CallFunction
<1>2. f.held = 1 \/ (f.held = 2 /\ Room # 1)
  BY DEF FunctionFrame, Frame, FunctionObjects
<1> HIDE DEF f
<1>3. CASE Room # 0 /\ objects' = objects + f.held /\ UNCHANGED status
  <2>1. f.held \in {1, 2, 3, 4} /\ f.held <= Room
    BY <1>2, <1>3, Parameters DEF Room, Counted
  <2>2. QED BY <1>3, <2>1 DEF Taken
<1>4. CASE CallNative(i, sp, ip)
  <2>1. Halt("exit") \/ UNCHANGED <<objects, status>>
    BY <1>4, Zenon DEF CallNative
  <2>2. QED BY <2>1, HaltTakes, SameTakes
<1>5. QED BY <1>1, <1>3, <1>4, HaltTakes, SameTakes

LEMMA StepTakes == ASSUME VRun, Counted, status = "run", Next PROVE Taken
<1>1. CASE Compute \/ Const \/ Drop \/ Select \/ Memory \/ Local \/ Global
  <2>1. \E n, words, ip : Replace(n, words, ip)
    BY <1>1, Zenon DEF Compute, Const, Drop, Select, Memory, Local, Global
  <2>2. QED BY <2>1, SameTakes DEF Replace
<1>2. CASE Arithmetic \/ NoLocals \/ Exit
  <2>1. Halt("exit") \/ Halt("crash")
    BY <1>2, Zenon DEF Arithmetic, NoLocals, Exit
  <2>2. QED BY <2>1, HaltTakes
<1>3. CASE Br \/ BrIf \/ BrTable \/ Return
  <2>1. \E depth, pops, ip : Branch(depth, pops, ip)
    BY <1>3, Zenon DEF Br, BrIf, BrTable, Return
  <2>2. QED BY <2>1, SameTakes DEF Branch
<1>4. CASE Block \/ If
  <2>1. \/ \E found : HeapFails(found)
        \/ /\ ~(Room < BlockObjects)
           /\ \E type, kind, begin, end, sp, resume :
                EnterFrame(type, kind, begin, end, sp, resume)
    BY <1>4, Zenon DEF Block, If
  <2>2. CASE \E found : HeapFails(found)
    <3>1. Halt("exit") \/ Halt("crash")
      BY <2>2, Zenon DEF HeapFails
    <3>2. QED BY <3>1, HaltTakes
  <2>3. QED BY <2>1, <2>2, EnterFrameTakes
<1>5. CASE Call \/ CallIndirect
  <2>1. Halt("exit") \/ \E i, sp, ip : CallFunction(i, sp, ip)
    BY <1>5, Zenon DEF Call, CallIndirect
  <2>2. QED BY <2>1, HaltTakes, CallFunctionTakes
<1>6. CASE Unwind \/ FallOff \/ Repeat
  BY <1>6, SameTakes DEF Unwind, FallOff, ReturnFrom, Repeat
<1>7. CASE LeaveBlock \/ LeaveFunction \/ LeaveMain
  BY <1>7 DEF LeaveBlock, LeaveFunction, LeaveMain, PopFrame, Last, Taken
<1>8. QED BY <1>1, <1>2, <1>3, <1>4, <1>5, <1>6, <1>7 DEF Next, Instruction, Terminated

LEMMA CountedKeeps ==
  ASSUME VRun, Counted, status = "run", Next, Kept, FInv', ObjectsAccounted'
  PROVE  Counted'
<1>1. Taken /\ MaxObjects \in Nat
  BY StepTakes, Parameters
<1>2. curFrame' \in Nat /\ envLocals' \in Nat
  <2>1. CASE status' = "run"
    <3>1. RunInv'
      BY <2>1 DEF FInv
    <3>2. (Len(control) \in Nat /\ envLocals \in 1..Len(control))'
      BY <3>1, Sizes, PTL
    <3>3. curFrame' = Len(control')
      BY <3>1 DEF RunInv
    <3>4. QED BY <3>2, <3>3
  <2>2. CASE status' # "run"
    BY <1>1, <2>2 DEF Taken, Counted
  <2>3. QED BY <2>1, <2>2
<1>3. objects' \in 0..MaxObjects
  <2>1. CASE status' \notin {"run", "done"}
    BY <1>1, <2>1 DEF Taken, Counted
  <2>2. CASE status' \in {"run", "done"}
    <3>1. objects' = HeldBy(control')
      BY <2>2 DEF ObjectsAccounted
    <3>2. control' \in Seq(Frames)
      BY DEF Kept, Typed
    <3>3. IsControl(control')
      <4>1. IsSeq(control')
        BY <3>2 DEF IsSeq
      <4>2. ASSUME NEW k \in 1..Len(control') PROVE IsFrame(control'[k])
        <5>1. control'[k] \in Frames
          BY <3>2, ElementOfSeq
        <5>2. QED BY <5>1 DEF Frames, IsFrame
      <4>3. QED BY <4>1, <4>2 DEF IsControl
    <3>4. objects' \in Nat
      BY <3>1, <3>3, HeldFacts
    <3>5. control[Len(control)].held \in Nat
      BY Sizes DEF VRun, RunInv, IsControl, IsFrame
    <3>6. QED BY <1>1, <3>4, <3>5 DEF Taken, Counted, Room
  <2>3. QED BY <2>1, <2>2
<1>4. QED BY <1>1, <1>2, <1>3 DEF Counted, Taken

LEMMA ValidInductive == VInv /\ [Next]_vars => VInv'
<1> SUFFICES ASSUME VInv, [Next]_vars PROVE VInv'
  OBVIOUS
<1>1. FInv' /\ ObjectsAccounted'
  BY FInvInductive, AccountedInductive DEF VInv, Accounted
<1>2. CASE UNCHANGED vars
  BY <1>2 DEF vars, VInv, Typed, Counted, FInv, RunInv, Owner, ObjectsAccounted, Placed,
     JumpBounded, InPlace, Spot, BackAt, Top
<1>3. CASE Next /\ status # "run"
  <2>1. UNCHANGED vars
    BY <1>3, RestsWhenStopped
  <2>2. QED BY <1>2, <2>1
<1>4. CASE Next /\ status = "run"
  <2>1. VRun /\ Counted
    BY <1>4 DEF VInv, VRun, FInv
  <2>2. Kept
    BY <1>4, <2>1, StepKeeps
  <2>3. Counted'
    BY <1>1, <1>4, <2>1, <2>2, CountedKeeps
  <2>4. QED BY <1>1, <2>2, <2>3 DEF VInv, Kept
<1>5. QED BY <1>2, <1>3, <1>4

(***************************************************************************)
(* For every set of valid modules the invariant holds in every run.        *)
(***************************************************************************)
THEOREM ValidInvariant == Spec => []VInv
BY InitValid, ValidInductive, PTL DEF Spec

(***************************************************************************)
(* The interpreter's state keeps its types, whatever valid code it runs:   *)
(* every operand, local and global variable is a word, the operand stack   *)
(* written to env is within its capacity, and no more is taken from the    *)
(* heap than it has.                                                       *)
(***************************************************************************)
THEOREM TypeCorrect == Spec => []TypeOK
<1>1. VInv => TypeOK
  <2> SUFFICES ASSUME VInv PROVE TypeOK
    OBVIOUS
  <2>1. ModuleOK(module)
    BY ValidCode DEF VInv, Typed, Valid
  <2>2. envSp \in 0..StackWords + 2
    BY Parameters DEF VInv, Typed
  <2>3. QED BY <2>1, <2>2 DEF VInv, Typed, Counted, TypeOK
<1>2. QED BY <1>1, ValidInvariant, PTL

(***************************************************************************)
(* A branch of valid code ends inside the function that made it: it never  *)
(* leaves more activations than the function has labels (jump_depth).      *)
(***************************************************************************)
THEOREM JumpStaysInFunctionAlways == Spec => []JumpStaysInFunction
<1>1. VInv => JumpStaysInFunction
  <2> SUFFICES ASSUME VInv, status = "run", jump >= 0
               PROVE  Pending <= Len(acts) - Innermost + 1
    BY DEF JumpStaysInFunction
  <2>1. RunInv /\ JumpBounded(Top.over, Len(acts))
    BY DEF VInv, FInv, Placed
  <2>2. envLocals = Innermost
    BY <2>1, OwnerIsInnermost
  <2>3. QED BY <2>1, <2>2 DEF JumpBounded, Pending
<1>2. QED BY <1>1, ValidInvariant, PTL

-----------------------------------------------------------------------------
(***************************************************************************)
(* The interpreter implements ControlFlow, for code that means to both     *)
(* what it says: the bounds read_block finds are those of the constructs,  *)
(* an if has an else and a then branch, a body does not end on the else of *)
(* another, and a table's labels are all named by it.  An if without an    *)
(* else and the byte behind a table are where code and document disagree   *)
(* (runs lone_if, table_default).                                          *)
(***************************************************************************)
AfterElse(m, p) == m.code[p - 1] = op_else

AsMeant(m, p, e) ==
  LET op == m.code[p]
      first == ReadBlock(m.code, p + 2)
      second == ReadBlock(m.code, first)
      count == ReadLeb(m.code, p + 1)
  IN  /\ op = op_else => e = p + 1
      /\ op \notin Openers \cup {op_else} /\ InstructionEnd(m.code, p) = e => ~AfterElse(m, e)
      /\ op \in {op_block, op_loop} /\ first # 0 =>
           first = ConstructEnd(m.code, p) /\ ~AfterElse(m, first)
      /\ op = op_if /\ first # 0 /\ second # 0 =>
           /\ first = ThenEnd(m.code, p) /\ HasElse(m.code, p) /\ first # p + 2
           /\ second = ConstructEnd(m.code, p) /\ ~AfterElse(m, second)
      /\ op = op_br_table =>
           \A w \in Words : \E n \in 0..count.value :
             m.code[LabelAddress(m.code, p, w)] = m.code[count.next + n]

Meant(m) ==
  /\ \A i \in FunctionsOf(m) : LET f == m.funcs[i + 1]
                               IN  ~f.imported => ~AfterElse(m, f.end)
  /\ \A q \in Places(m) : q[2] <= q[4] /\ (q[2] < q[4] => AsMeant(m, q[2], q[4]))

ASSUME MeantCode == \A m \in Modules : Meant(m)

(***************************************************************************)
(* A then branch is the only construct that ends on an else, and goes on   *)
(* past it; a function called by the last instruction of one would return  *)
(* to its end, which is the else, and there is no such call.               *)
(***************************************************************************)
NestedAt(k) ==
  /\ AfterElse(module, control[k].end) <=> acts[k].kind = "then"
  /\ acts[k].kind = "then" =>
       control[k].end <= acts[k].resume /\ ~AfterElse(module, acts[k].resume)
  /\ k < Len(acts) /\ acts[k + 1].kind = "call" =>
       ~(acts[k].kind = "then" /\ acts[k].ip = acts[k].end)
  /\ acts[k].kind = "start" => acts[1].ip = control[1].begin
NestedRun ==
  /\ \A k \in 1..Len(acts) : NestedAt(k)
  /\ Top.over = "natural" => Top.ip >= Top.end
NestedInv == status = "run" => NestedRun

(* What stays of the stacks when the innermost activation goes on.         *)
LEMMA GoneOn ==
  ASSUME VRun, NEW a, GoesOnAs(a), NEW n, n = Len(acts)
  PROVE  /\ n \in Nat \ {0} /\ Len(acts') = n /\ Top' = a /\ acts'[n] = a
         /\ \A k \in 1..n - 1 : acts'[k] = acts[k]
         /\ \A k \in 1..n : /\ acts'[k].kind = acts[k].kind /\ acts'[k].end = acts[k].end
                            /\ acts'[k].resume = acts[k].resume
                            /\ control'[k].begin = control[k].begin
                            /\ control'[k].end = control[k].end
         /\ UNCHANGED <<module, envLocals, status>>
<1>1. n \in Nat \ {0} /\ Len(control) = n /\ Top = acts[n]
  BY Height
<1>2. Top' = a /\ Len(acts') = n /\ NewTop(acts', a) /\ SameFrames
  BY GoesOnKeeps DEF GoesOnAs
<1>3. \A k \in 1..n : k = n \/ k \in 1..n - 1
  BY <1>1
<1>4. QED BY <1>1, <1>2, <1>3 DEF GoesOnAs, NewTop, SameFrames

LEMMA NestedGoesOn ==
  ASSUME VRun, NestedRun, NEW a, GoesOnAs(a), a.over = "natural" => a.ip >= a.end
  PROVE  NestedRun'
<1>1. PICK n : n = Len(acts)
  OBVIOUS
<1>2. /\ n \in Nat \ {0} /\ Len(acts') = n /\ Top' = a
      /\ \A k \in 1..n - 1 : acts'[k] = acts[k]
      /\ \A k \in 1..n : /\ acts'[k].kind = acts[k].kind /\ acts'[k].end = acts[k].end
                         /\ acts'[k].resume = acts[k].resume
                         /\ control'[k].begin = control[k].begin
                         /\ control'[k].end = control[k].end
      /\ module' = module
  BY <1>1, GoneOn
<1>3. ASSUME NEW k \in 1..n PROVE NestedAt(k)'
  <2>1. NestedAt(k)
    BY <1>1 DEF NestedRun
  <2>2. k < n => k \in 1..n - 1 /\ k + 1 \in 1..n
    BY <1>2
  <2>3. acts[k].kind = "start" => 1 \in 1..n - 1 /\ 1 \in 1..n
    BY <1>1, <1>2 DEF VRun, RunInv
  <2>4. QED BY <1>1, <1>2, <2>1, <2>2, <2>3 DEF NestedAt, AfterElse
<1>4. QED BY <1>2, <1>3 DEF NestedRun

LEMMA NestedEnters ==
  ASSUME VRun, NestedRun, NEW kind, NEW begin, NEW end, NEW resume, NEW ip,
         Enters(kind, begin, end, resume, ip),
         AfterElse(module, end) <=> kind = "then",
         kind = "then" => end <= resume /\ ~AfterElse(module, resume),
         kind # "start",
         kind = "call" => ~(Top.kind = "then" /\ ip = Top.end)
  PROVE  NestedRun'
<1>1. PICK n \in Nat \ {0} : n = Len(acts) /\ Top = acts[n]
  BY Height
<1>2. PICK b, a, f : /\ Opened(b, a, f) /\ b.ip = ip
                     /\ a.kind = kind /\ a.resume = resume /\ f.begin = begin /\ f.end = end
  BY DEF Enters
<1>3. /\ Len(acts') = n + 1 /\ acts'[n + 1] = a
      /\ acts'[n] = b /\ \A k \in 1..n - 1 : acts'[k] = acts[k]
      /\ control'[n + 1] = f /\ \A k \in 1..n : control'[k] = control[k]
  BY <1>1, <1>2, OpenedStacks
<1>4. /\ b.end = Top.end /\ b.kind = Top.kind /\ b.resume = Top.resume
      /\ a.over = "no" /\ module' = module
  BY <1>2 DEF Opened, WaitsAs, EntersAs
<1>5. ASSUME NEW k \in 1..n PROVE NestedAt(k)'
  <2>1. NestedAt(k)
    BY <1>1 DEF NestedRun
  <2>2. acts[k].kind = "start" => 1 \in 1..n - 1
    BY <1>1 DEF VRun, RunInv
  <2>3. CASE k = n
    BY <1>1, <1>2, <1>3, <1>4, <2>1, <2>2, <2>3 DEF NestedAt, AfterElse
  <2>4. CASE k # n
    <3>1. k \in 1..n - 1 /\ k < n /\ (k + 1 \in 1..n - 1 \/ k + 1 = n)
      BY <2>4
    <3>2. acts'[k] = acts[k] /\ acts'[k + 1].kind = acts[k + 1].kind
      BY <1>1, <1>3, <1>4, <3>1
    <3>3. QED BY <1>1, <1>3, <1>4, <2>1, <2>2, <3>1, <3>2 DEF NestedAt, AfterElse
  <2>5. QED BY <2>3, <2>4
<1>6. NestedAt(n + 1)'
  BY <1>2, <1>3, <1>4 DEF NestedAt, AfterElse
<1>7. \A k \in 1..n + 1 : k = n + 1 \/ k \in 1..n
  OBVIOUS
<1>8. Top'.over = "no"
  BY <1>1, <1>3, <1>4 DEF Top, Last
<1>9. QED BY <1>3, <1>5, <1>6, <1>7, <1>8 DEF NestedRun

LEMMA NestedResumes ==
  ASSUME VRun, NestedRun, NEW ip, Resumes(ip)
  PROVE  NestedRun'
<1>1. PICK c : ResumesAs(c)
  BY DEF Resumes
<1>2. PICK n \in Nat \ {0} : n = Len(acts) - 1 /\ Len(acts) = n + 1
  <2>1. Len(acts) - 1 \in Nat \ {0} /\ Len(acts) = (Len(acts) - 1) + 1
    BY Height DEF Resumes
  <2>2. QED BY <2>1
<1>3. /\ Len(acts') = n /\ acts'[n] = c /\ \A k \in 1..n - 1 : acts'[k] = acts[k]
      /\ c.end = acts[n].end /\ c.kind = acts[n].kind /\ c.resume = acts[n].resume
      /\ c.over = "no"
  BY <1>1, <1>2 DEF ResumesAs
<1>4. \A k \in 1..n : control'[k] = control[k]
  BY <1>2, FrameLess DEF Resumes
<1>5. module' = module /\ Top'.over = "no"
  BY <1>3 DEF Resumes, Top, Last
<1>6. ASSUME NEW k \in 1..n PROVE NestedAt(k)'
  <2>1. NestedAt(k)
    BY <1>2 DEF NestedRun
  <2>2. /\ acts'[k].kind = acts[k].kind /\ acts'[k].end = acts[k].end
        /\ acts'[k].resume = acts[k].resume
    BY <1>3
  <2>3. k < n => acts'[k] = acts[k] /\ acts'[k + 1].kind = acts[k + 1].kind /\ k < n + 1
    <3>1. k < n => k \in 1..n - 1 /\ (k + 1 \in 1..n - 1 \/ k + 1 = n) /\ k < n + 1
      OBVIOUS
    <3>2. QED BY <1>3, <3>1
  <2>4. acts[k].kind = "start" => acts'[1] = acts[1]
    <3>1. acts[k].kind = "start" => k = 2 \/ k = 1
      <4>1. \A j \in 2..Len(acts) : acts[j].kind = "start" => j = 2
        BY DEF VRun, RunInv
      <4>2. k = 1 \/ k \in 2..Len(acts)
        BY <1>2
      <4>3. QED BY <4>1, <4>2
    <3>2. acts[1].kind = "main"
      BY DEF VRun, RunInv
    <3>3. acts[k].kind = "start" => 1 \in 1..n - 1
      BY <3>1, <3>2
    <3>4. QED BY <1>3, <3>3
  <2>5. 1 \in 1..n
    OBVIOUS
  <2>6. QED BY <1>2, <1>3, <1>4, <1>5, <2>1, <2>2, <2>3, <2>4, <2>5 DEF NestedAt, AfterElse
<1>7. QED BY <1>3, <1>5, <1>6 DEF NestedRun

(* What the code means at the place of the running instruction.            *)
LEMMA MeantHere ==
  ASSUME VRun, NEW ops, At(ops)
  PROVE  AsMeant(module, Top.ip, Top.end)
<1>1. Top = acts[Len(acts)] /\ InPlace(Len(acts))
  BY Height
<1>2. Spot(Len(acts), Top.ip) \in Places(module) /\ Top.end = control[Len(acts)].end
  BY <1>1 DEF InPlace
<1>3. Top.ip < Top.end
  BY DEF At
<1>4. Meant(module)
  BY MeantCode DEF VRun, Typed
<1>5. QED BY <1>2, <1>3, <1>4 DEF Meant, Spot

LEMMA WithinConstruct ==
  ASSUME VRun, NEW k \in 1..Len(acts)
  PROVE  acts[k].ip <= acts[k].end
<1>1. InPlace(k) /\ Meant(module)
  BY MeantCode DEF VRun, Placed, Typed
<1>2. QED BY <1>1 DEF InPlace, Meant, Spot

LEMMA EntersFunction ==
  ASSUME VRun, NestedRun, NEW ops, At(ops), NEW i \in FunctionsOf(module),
         Op \notin Openers \cup {op_else}, Invokes(i), status' = "run"
  PROVE  NestedRun'
<1>1. CASE Halts
  BY <1>1 DEF Halts, Halt
<1>2. CASE Advances
  BY <1>2, NestedGoesOn DEF Advances, PassesTo
<1>3. CASE ~Func(i).imported /\ Enters("call", Func(i).begin, Func(i).end, 0, Following)
  <2>1. ~AfterElse(module, Func(i).end)
    BY <1>3, MeantCode DEF VRun, Typed, Meant, Func
  <2>2. Following = Top.end => ~AfterElse(module, Top.end)
    BY MeantHere DEF AsMeant, Following, Op
  <2>3. AfterElse(module, Top.end) <=> Top.kind = "then"
    <3>1. Top = acts[Len(acts)] /\ InPlace(Len(acts)) /\ Len(acts) \in 1..Len(acts)
      BY Height
    <3>2. QED BY <3>1 DEF NestedRun, NestedAt, InPlace
  <2>4. QED BY <1>3, <2>1, <2>2, <2>3, NestedEnters
<1>4. QED BY <1>1, <1>2, <1>3 DEF Invokes

LEMMA NestedStep == ASSUME VRun, NestedRun, status = "run", Next, status' = "run" PROVE NestedRun'
<1>1. ASSUME NEW ip, PassesTo(ip) PROVE NestedRun'
  BY <1>1, NestedGoesOn DEF PassesTo
<1>2. CASE Compute \/ Const \/ Drop \/ Select \/ Memory \/ Local \/ Global \/ Br \/ BrIf
           \/ BrTable \/ Return \/ Repeat
  BY <1>1, <1>2, ComputeKeeps, ConstKeeps, MovesKeep, LocalKeeps, GlobalKeeps, BranchesKeep,
     RepeatKeeps DEF Advances
<1>3. ~Halts
  BY DEF Halts, Halt
<1>4. CASE Arithmetic \/ NoLocals \/ Exit
  BY <1>3, <1>4, StopsKeep
<1>5. CASE Block
  <2> DEFINE end == ReadBlock(module.code, Top.ip + 2)
             kind == IF Op = op_block THEN "block" ELSE "loop"
  <2>1. At({op_block, op_loop})
    BY <1>5 DEF Block
  <2>2. Op \in {op_block, op_loop}
    BY <2>1 DEF At
  <2>3. end # 0 /\ Enters(kind, Top.ip + 2, end, 0, Top.ip)
    BY <1>3, <1>5, BlockKeeps
  <2>4. ~AfterElse(module, end)
    BY <2>1, <2>2, <2>3, MeantHere DEF AsMeant, Op
  <2>5. kind \notin {"then", "start", "call"}
    OBVIOUS
  <2> HIDE DEF end, kind
  <2>6. QED BY <2>3, <2>4, <2>5, NestedEnters
<1>6. CASE If
  <2> DEFINE middle == ReadBlock(module.code, Top.ip + 2)
             end == ReadBlock(module.code, middle)
  <2>1. At({op_if})
    BY <1>6 DEF If
  <2>2. Op = op_if
    BY <2>1 DEF At
  <2>3. /\ middle # 0 /\ end # 0
        /\ \/ Enters("then", Top.ip + 2, middle, end, Top.ip)
           \/ Enters("else", middle, end, 0, Top.ip)
    BY <1>3, <1>6, IfKeeps
  <2>4. middle = ThenEnd(module.code, Top.ip) /\ HasElse(module.code, Top.ip)
        /\ ~AfterElse(module, end)
    BY <2>1, <2>2, <2>3, MeantHere DEF AsMeant, Op
  <2>5. AfterElse(module, middle)
    BY <2>4 DEF HasElse, AfterElse
  <2>6. middle <= end
    <3>1. <<FrameOf.func, middle, Len(acts) - envLocals + 1, end>> \in Places(module)
      BY <2>1, <2>2, <2>3, AtPlace, Zenon DEF PlaceOK, IfClosed, Op
    <3>2. Meant(module)
      BY MeantCode DEF VRun, Typed
    <3>3. QED BY <3>1, <3>2 DEF Meant
  <2> HIDE DEF middle, end
  <2>7. CASE Enters("then", Top.ip + 2, middle, end, Top.ip)
    BY <2>4, <2>5, <2>6, <2>7, NestedEnters
  <2>8. CASE Enters("else", middle, end, 0, Top.ip)
    BY <2>4, <2>8, NestedEnters
  <2>9. QED BY <2>3, <2>7, <2>8
<1>7. CASE Call \/ CallIndirect
  <2>1. \/ At({op_call}) /\ Invokes(Imm.value)
        \/ /\ At({op_call_indirect})
           /\ \E n \in DOMAIN module.table : \E i \in module.table[n] : Invokes(i)
    BY <1>3, <1>7, CallsKeep
  <2>2. CASE At({op_call}) /\ Invokes(Imm.value)
    <3>1. Op = op_call
      BY <2>2 DEF At
    <3>2. Op \notin Openers \cup {op_else}
      BY <3>1 DEF Openers, op_call, op_block, op_loop, op_if, op_else
    <3>3. Imm.value \in FunctionsOf(module)
      BY <2>2, <3>1, AtPlace, Zenon DEF PlaceOK, ImmediateOK, Imm, Op
    <3>4. QED BY <2>2, <3>2, <3>3, EntersFunction
  <2>3. ASSUME At({op_call_indirect}), NEW n \in DOMAIN module.table, NEW i \in module.table[n],
               Invokes(i)
        PROVE  NestedRun'
    <3>1. Op = op_call_indirect
      BY <2>3 DEF At
    <3>2. Op \notin Openers \cup {op_else}
      BY <3>1 DEF Openers, op_call_indirect, op_block, op_loop, op_if, op_else
    <3>3. i \in FunctionsOf(module)
      BY <2>3, AtPlace DEF Valid
    <3>4. QED BY <2>3, <3>2, <3>3, EntersFunction
  <2>4. QED BY <2>1, <2>2, <2>3
<1>8. CASE Unwind \/ FallOff
  <2>1. PICK how \in {"natural", "jump"} : WayOut(how)
    BY <1>8, ReturnKeeps
  <2>2. PICK a : GoesOnAs(a) /\ a.ip = Top.ip /\ a.over = how
    BY <2>1 DEF WayOut
  <2>3. a.over = "natural" => a.ip >= a.end
    BY <2>1, <2>2 DEF WayOut, GoesOnAs
  <2>4. QED BY <2>2, <2>3, NestedGoesOn
<1>9. CASE LeaveBlock \/ LeaveFunction
  BY <1>9, LeaveBlockKeeps, LeaveFunctionKeeps, NestedResumes
<1>10. CASE LeaveMain
  BY <1>10 DEF LeaveMain
<1>11. QED
  BY <1>2, <1>4, <1>5, <1>6, <1>7, <1>8, <1>9, <1>10 DEF Next, Instruction, Terminated

LEMMA InitNested == Init => NestedInv
<1> SUFFICES ASSUME Init PROVE NestedRun
  BY DEF NestedInv
<1> DEFINE f == FirstFrame(module.main, 0, 1)
           g(s) == FirstFrame(s, 1, 2)
           a == Activation(f, "main", 0)
           b(s) == Activation(g(s), "start", 0)
<1>1. module \in Modules
  BY DEF Init
<1>2. \A i \in {module.main} \cup module.start : ~AfterElse(module, Func(i).end)
  BY <1>1, ValidCode, MeantCode DEF Valid, Meant, Func
<1>3. f.begin = a.ip /\ ~AfterElse(module, f.end) /\ a.kind = "main" /\ a.over = "no"
  BY <1>2 DEF FirstFrame, FunctionFrame, Frame, Activation
<1>4. \A s \in module.start :
        ~AfterElse(module, g(s).end) /\ b(s).kind = "start" /\ b(s).over = "no"
  BY <1>2 DEF FirstFrame, FunctionFrame, Frame, Activation
<1>5. \/ control = <<f>> /\ acts = <<a>>
      \/ \E s \in module.start : control = <<f, g(s)>> /\ acts = <<a, b(s)>>
  BY DEF Init
<1> HIDE DEF f, g, a, b
<1>6. CASE control = <<f>> /\ acts = <<a>>
  BY <1>3, <1>6 DEF NestedRun, NestedAt, Top, Last
<1>7. ASSUME NEW s \in module.start, control = <<f, g(s)>>, acts = <<a, b(s)>>
      PROVE  NestedRun
  <2>1. Len(acts) = 2 /\ acts[1] = a /\ acts[2] = b(s) /\ control[1] = f /\ control[2] = g(s)
    BY <1>7
  <2>2. Top.over = "no"
    BY <1>4, <2>1 DEF Top, Last
  <2>3. NestedAt(1) /\ NestedAt(2)
    BY <1>3, <1>4, <2>1 DEF NestedAt
  <2>4. \A k \in 1..Len(acts) : k = 1 \/ k = 2
    BY <2>1
  <2>5. QED BY <2>2, <2>3, <2>4 DEF NestedRun
<1>8. QED BY <1>5, <1>6, <1>7

LEMMA NestedInductive == VInv /\ NestedInv /\ [Next]_vars => NestedInv'
<1> SUFFICES ASSUME VInv, NestedInv, [Next]_vars PROVE NestedInv'
  OBVIOUS
<1>1. CASE UNCHANGED vars
  BY <1>1 DEF vars, NestedInv, NestedRun, NestedAt, AfterElse, Top
<1>2. CASE Next /\ status # "run"
  <2>1. UNCHANGED vars
    BY <1>2, RestsWhenStopped
  <2>2. QED BY <1>1, <2>1
<1>3. CASE Next /\ status = "run"
  <2>1. VRun /\ NestedRun
    BY <1>3 DEF VInv, VRun, FInv, NestedInv
  <2>2. QED BY <1>3, <2>1, NestedStep DEF NestedInv
<1>4. QED BY <1>1, <1>2, <1>3

LEMMA NestedAlways == Spec => [](VInv /\ NestedInv)
BY ValidInvariant, InitNested, NestedInductive, PTL DEF Spec

-----------------------------------------------------------------------------
(***************************************************************************)
(* What the abstract specification sees of a running program: labels as    *)
(* far as an activation, and either where the innermost one has arrived or *)
(* where a branch to one of them leads.                                    *)
(***************************************************************************)
LabelsTo(j) == [k \in 1..j |-> LabelOf(k)]
Arrived(k) ==
  IF acts[k].kind = "then" /\ acts[k].ip = acts[k].end THEN acts[k].resume ELSE acts[k].ip
OpenAfter(k) == IF acts[k].kind = "loop" THEN k ELSE k - 1
Leads(k) ==
  CASE LabelOf(k).kind = "loop" -> LabelOf(k).begin
    [] LabelOf(k).kind = "block" -> LabelOf(k).end
    [] OTHER -> LabelOf(k).ret
SeenAt(n) == Labels = LabelsTo(n) /\ Pc = Arrived(n)
SeenOnTheWayTo(k) == Labels = LabelsTo(OpenAfter(k)) /\ Pc = Leads(k)

LEMMA LabelKinds ==
  ASSUME NEW k
  PROVE  LabelOf(k).kind \in {"func", "loop", "block"}
         /\ (LabelOf(k).kind = "func" <=> IsFunction(k))
         /\ (LabelOf(k).kind = "loop" <=> acts[k].kind = "loop")
BY DEF LabelOf, IsFunction, FunctionKinds

LEMMA SeenCalm ==
  ASSUME VRun, jump = 0, Top.over # "jump"
  PROVE  SeenAt(Len(acts)) /\ acts # <<>>
<1>1. Len(acts) \in Nat \ {0} /\ Top = acts[Len(acts)]
  BY Height
<1>2. acts # <<>> /\ ~Jumping
  BY <1>1 DEF Jumping
<1>3. QED BY <1>1, <1>2 DEF SeenAt, Labels, Remaining, Pc, LabelsTo, Arrived

LEMMA SeenJumping ==
  ASSUME VRun, jump # 0 \/ Top.over = "jump"
  PROVE  Target \in envLocals..Len(acts) /\ SeenOnTheWayTo(Target)
<1>1. /\ Len(acts) \in Nat \ {0} /\ envLocals \in 1..Len(acts) /\ Top \in Activations
      /\ JumpBounded(Top.over, Len(acts)) /\ jump \in Int
  BY Height DEF VRun, Placed, Typed
<1>2. Jumping /\ acts # <<>>
  BY <1>1 DEF Jumping
<1>3. Target \in envLocals..Len(acts)
  <2>1. CASE jump < 0
    BY <1>1, <2>1, OwnerIsInnermost DEF Target, VRun
  <2>2. CASE jump >= 0 /\ Top.over = "jump"
    BY <1>1, <2>2 DEF Target, Pending, JumpBounded
  <2>3. CASE jump >= 0 /\ Top.over # "jump"
    BY <1>1, <2>3 DEF Target, Pending, JumpBounded
  <2>4. QED BY <1>1, <2>1, <2>2, <2>3
<1>4. PICK t \in Nat \ {0} : t = Target /\ t \in 1..Len(acts)
  BY <1>1, <1>3
<1>5. t \in DOMAIN acts
  BY <1>4, Sizes DEF VRun
<1>6. Remaining = OpenAfter(t)
  <2>1. Max({t - 1, 0}) = t - 1
    <3>1. t - 1 \in {t - 1, 0} /\ \A x \in {t - 1, 0} : t - 1 >= x
      BY <1>4
    <3>2. \A x \in {t - 1, 0} : (\A y \in {t - 1, 0} : x >= y) => x = t - 1
      BY <1>4
    <3>3. QED BY <3>1, <3>2, Zenon DEF Max
  <2>2. QED BY <1>2, <1>4, <1>5, <2>1 DEF Remaining, OpenAfter
<1>7. Labels = LabelsTo(OpenAfter(t))
  BY <1>6, Zenon DEF Labels, LabelsTo
<1>8. Pc = Leads(t)
  <2>1. Target >= 1 /\ ~(Target < 1)
    BY <1>4
  <2>2. QED BY <1>2, <1>4, <2>1 DEF Pc, Leads
<1>9. QED BY <1>3, <1>4, <1>7, <1>8 DEF SeenOnTheWayTo

(* The labels of activations that go on, or wait.                          *)
LabelsKept(j) == \A k \in 1..j : LabelOf(k)' = LabelOf(k)
LEMMA SameLabel ==
  ASSUME NEW k, acts'[k].kind = acts[k].kind, acts'[k].resume = acts[k].resume,
         control'[k].begin = control[k].begin, control'[k].end = control[k].end,
         acts[k].kind = "call" => acts'[k - 1].ip = acts[k - 1].ip,
         acts[k].kind = "start" => control'[1].begin = control[1].begin
  PROVE  LabelOf(k)' = LabelOf(k)
BY DEF LabelOf, IsFunction

LEMMA SameLabels ==
  ASSUME NEW j, LabelsKept(j), NEW i \in Nat, j \in Nat, i <= j
  PROVE  LabelsTo(i)' = LabelsTo(i)
<1>1. \A k \in 1..i : LabelOf(k)' = LabelOf(k)
  BY DEF LabelsKept
<1>2. QED BY <1>1, Zenon DEF LabelsTo

LEMMA LabelsGoOn == ASSUME VRun, NEW a, GoesOnAs(a) PROVE LabelsKept(Len(acts))
<1>1. PICK n : n = Len(acts)
  OBVIOUS
<1>2. /\ n \in Nat \ {0}
      /\ \A k \in 1..n - 1 : acts'[k] = acts[k]
      /\ \A k \in 1..n : /\ acts'[k].kind = acts[k].kind /\ acts'[k].resume = acts[k].resume
                         /\ control'[k].begin = control[k].begin
                         /\ control'[k].end = control[k].end
  BY <1>1, GoneOn
<1>3. ASSUME NEW k \in 1..n PROVE LabelOf(k)' = LabelOf(k)
  <2>1. acts[k].kind = "call" => k - 1 \in 1..n - 1
    BY <1>1 DEF VRun, RunInv
  <2>2. 1 \in 1..n
    BY <1>2
  <2>3. QED BY <1>2, <2>1, <2>2, SameLabel
<1>4. QED BY <1>1, <1>3 DEF LabelsKept

LEMMA LabelsEnter == ASSUME VRun, NEW b, NEW a, NEW f, Opened(b, a, f) PROVE LabelsKept(Len(acts))
<1>1. PICK n \in Nat \ {0} : n = Len(acts) /\ Top = acts[n]
  BY Height
<1>2. /\ acts'[n] = b /\ \A k \in 1..n - 1 : acts'[k] = acts[k]
      /\ \A k \in 1..n : control'[k] = control[k]
      /\ b.kind = Top.kind /\ b.resume = Top.resume
  BY <1>1, OpenedStacks DEF Opened, WaitsAs
<1>3. ASSUME NEW k \in 1..n PROVE LabelOf(k)' = LabelOf(k)
  <2>1. acts[k].kind = "call" => k - 1 \in 1..n - 1
    BY <1>1 DEF VRun, RunInv
  <2>2. 1 \in 1..n /\ (k = n \/ k \in 1..n - 1)
    OBVIOUS
  <2>3. acts'[k].kind = acts[k].kind /\ acts'[k].resume = acts[k].resume
    BY <1>1, <1>2, <2>2
  <2>4. QED BY <1>2, <2>1, <2>2, <2>3, SameLabel
<1>4. QED BY <1>1, <1>3 DEF LabelsKept

LEMMA LabelsResume == ASSUME VRun, NEW ip, Resumes(ip) PROVE LabelsKept(Len(acts) - 1)
<1>1. PICK c : ResumesAs(c)
  BY DEF Resumes
<1>2. PICK n \in Nat \ {0} : n = Len(acts) - 1 /\ Len(acts) = n + 1
  <2>1. Len(acts) - 1 \in Nat \ {0} /\ Len(acts) = (Len(acts) - 1) + 1
    BY Height DEF Resumes
  <2>2. QED BY <2>1
<1>3. /\ acts'[n] = c /\ \A k \in 1..n - 1 : acts'[k] = acts[k]
      /\ c.kind = acts[n].kind /\ c.resume = acts[n].resume
  BY <1>1, <1>2 DEF ResumesAs
<1>4. \A k \in 1..n : control'[k] = control[k]
  BY <1>2, FrameLess DEF Resumes
<1>5. ASSUME NEW k \in 1..n PROVE LabelOf(k)' = LabelOf(k)
  <2>1. acts[k].kind = "call" => k - 1 \in 1..n - 1
    BY <1>2 DEF VRun, RunInv
  <2>2. 1 \in 1..n /\ (k = n \/ k \in 1..n - 1)
    OBVIOUS
  <2>3. acts'[k].kind = acts[k].kind /\ acts'[k].resume = acts[k].resume
    BY <1>3, <2>2
  <2>4. QED BY <1>3, <1>4, <2>1, <2>2, <2>3, SameLabel
<1>6. QED BY <1>2, <1>5 DEF LabelsKept

(* What is seen after each kind of step.                                   *)
LEMMA GoesOnSeen ==
  ASSUME VRun, VRun', NEW a, GoesOnAs(a), jump' = 0, a.over # "jump"
  PROVE  /\ Labels' = LabelsTo(Len(acts))
         /\ Pc' = IF Top.kind = "then" /\ a.ip = Top.end THEN Top.resume ELSE a.ip
<1>1. PICK n : n = Len(acts)
  OBVIOUS
<1>2. n \in Nat \ {0} /\ Len(acts') = n /\ Top' = a /\ acts'[n] = a
  BY <1>1, GoneOn
<1>3. a.kind = Top.kind /\ a.end = Top.end /\ a.resume = Top.resume
  BY DEF GoesOnAs
<1>4. (VRun /\ jump = 0 /\ Top.over # "jump" => SeenAt(Len(acts)))'
  BY SeenCalm, PTL
<1>5. SeenAt(Len(acts))'
  BY <1>2, <1>4
<1>6. Labels' = LabelsTo(n)' /\ Pc' = Arrived(n)'
  BY <1>2, <1>5 DEF SeenAt, LabelsTo, Arrived
<1>7. LabelsTo(n)' = LabelsTo(n)
  BY <1>1, <1>2, LabelsGoOn, SameLabels
<1>8. QED BY <1>1, <1>2, <1>3, <1>6, <1>7 DEF Arrived

LEMMA Towards ==
  ASSUME VRun', jump' # 0 \/ Top'.over = "jump", NEW k \in Nat \ {0}, Target' = k,
         NEW j \in Nat, k <= j, LabelsKept(j)
  PROVE  Labels' = LabelsTo(OpenAfter(k)) /\ Pc' = Leads(k)
<1>1. (VRun /\ (jump # 0 \/ Top.over = "jump") => SeenOnTheWayTo(Target))'
  BY SeenJumping, PTL
<1>2. LabelOf(k)' = LabelOf(k)
  BY DEF LabelsKept
<1>3. Leads(k)' = Leads(k) /\ OpenAfter(k)' = OpenAfter(k)
  <2>1. acts'[k].kind = "loop" <=> acts[k].kind = "loop"
    <3>1. (LabelOf(k).kind = "loop" <=> acts[k].kind = "loop")'
      BY LabelKinds, PTL
    <3>2. QED BY <1>2, <3>1, LabelKinds
  <2>2. QED BY <1>2, <2>1, Zenon DEF Leads, OpenAfter
<1>4. Labels' = LabelsTo(OpenAfter(k))' /\ Pc' = Leads(k)'
  BY <1>1 DEF SeenOnTheWayTo, LabelsTo, Leads, OpenAfter
<1>5. PICK i \in Nat : i = OpenAfter(k) /\ i <= j
  BY DEF OpenAfter
<1>6. LabelsTo(OpenAfter(k))' = LabelsTo(OpenAfter(k))
  <2>1. LabelsTo(i)' = LabelsTo(i)
    BY <1>5, SameLabels
  <2>2. LabelsTo(OpenAfter(k))' = LabelsTo(i)'
    BY <1>3, <1>5 DEF LabelsTo
  <2>3. QED BY <1>5, <2>1, <2>2
<1>7. QED BY <1>3, <1>4, <1>6

LabelFor(kind, begin, end, resume, ip) ==
  [kind |-> CASE kind = "call" -> "func" [] kind = "loop" -> "loop" [] OTHER -> "block",
   begin |-> begin, end |-> IF kind = "then" THEN resume ELSE end,
   ret |-> IF kind = "call" THEN ip ELSE 0]

LEMMA EntersSeen ==
  ASSUME VRun, VRun', jump = 0, NEW kind \in {"call", "block", "loop", "then", "else"},
         NEW begin, NEW end, NEW resume, NEW ip, Enters(kind, begin, end, resume, ip)
  PROVE  /\ Labels' = Append(LabelsTo(Len(acts)), LabelFor(kind, begin, end, resume, ip))
         /\ Pc' = IF kind = "then" /\ begin = end THEN resume ELSE begin
<1>1. PICK n \in Nat \ {0} : n = Len(acts) /\ Top = acts[n]
  BY Height
<1>2. PICK b, a, f : /\ Opened(b, a, f) /\ b.ip = ip
                     /\ a.kind = kind /\ a.resume = resume /\ f.begin = begin /\ f.end = end
  BY DEF Enters
<1>3. /\ Len(acts') = n + 1 /\ acts'[n + 1] = a /\ acts'[n] = b /\ control'[n + 1] = f
  BY <1>1, <1>2, OpenedStacks
<1>4. a.ip = begin /\ a.end = end /\ a.over = "no" /\ jump' = 0
  BY <1>2 DEF Opened, EntersAs
<1>5. (VRun /\ jump = 0 /\ Top.over # "jump" => SeenAt(Len(acts)))'
  BY SeenCalm, PTL
<1>6. Top' = a
  BY <1>3 DEF Top, Last
<1>7. SeenAt(Len(acts))'
  BY <1>4, <1>5, <1>6
<1>8. Labels' = LabelsTo(n + 1)' /\ Pc' = Arrived(n + 1)'
  BY <1>3, <1>7 DEF SeenAt, LabelsTo, Arrived
<1>9. LabelsKept(n)
  BY <1>1, <1>2, LabelsEnter
<1>10. LabelOf(n + 1)' = LabelFor(kind, begin, end, resume, ip)
  <2>1. n + 1 - 1 = n
    OBVIOUS
  <2>2. /\ acts'[n + 1].kind = kind /\ acts'[n + 1].resume = resume /\ acts'[n].ip = ip
        /\ control'[n + 1].begin = begin /\ control'[n + 1].end = end
    BY <1>2, <1>3
  <2>3. IsFunction(n + 1)' <=> kind = "call"
    BY <2>2 DEF IsFunction, FunctionKinds
  <2>4. QED BY <2>1, <2>2, <2>3 DEF LabelOf, LabelFor
<1>11. LabelsTo(n + 1)' = Append(LabelsTo(n), LabelOf(n + 1)')
  <2> DEFINE s == LabelsTo(n)
             t == [k \in 1..n + 1 |-> LabelOf(k)']
             e == LabelOf(n + 1)'
  <2>1. IsSeq(s) /\ Len(s) = n /\ \A k \in 1..n : s[k] = LabelOf(k)
    <3>1. s = [k \in 1..n |-> LabelOf(k)]
      BY DEF LabelsTo
    <3>2. s \in Seq({LabelOf(k) : k \in 1..n}) /\ Len(s) = n
      BY <3>1
    <3>3. QED BY <3>1, <3>2 DEF IsSeq
  <2>2. IsSeq(t) /\ Len(t) = n + 1 /\ \A k \in 1..n + 1 : t[k] = LabelOf(k)'
    <3>1. t \in Seq({LabelOf(k)' : k \in 1..n + 1}) /\ Len(t) = n + 1
      OBVIOUS
    <3>2. QED BY <3>1 DEF IsSeq
  <2>3. LabelsTo(n + 1)' = t
    BY DEF LabelsTo
  <2> HIDE DEF s, t
  <2>4. IsSeq(Append(s, e)) /\ Len(Append(s, e)) = n + 1 /\ Append(s, e)[n + 1] = e
        /\ \A k \in 1..n : Append(s, e)[k] = s[k]
    BY <2>1, AppendFacts
  <2>5. \A k \in 1..n + 1 : t[k] = Append(s, e)[k]
    <3> TAKE k \in 1..n + 1
    <3>1. k = n + 1 \/ k \in 1..n
      OBVIOUS
    <3>2. QED BY <1>9, <2>1, <2>2, <2>4, <3>1 DEF LabelsKept
  <2>6. t = Append(s, e)
    BY <2>2, <2>4, <2>5, Extensional
  <2>7. QED BY <2>3, <2>6 DEF s
<1>12. Arrived(n + 1)' = IF kind = "then" /\ begin = end THEN resume ELSE begin
  BY <1>2, <1>3, <1>4 DEF Arrived
<1>13. QED BY <1>1, <1>8, <1>10, <1>11, <1>12

LEMMA ResumesSeen ==
  ASSUME VRun, VRun', NEW ip, Resumes(ip), jump' = 0, NEW n, n = Len(acts) - 1
  PROVE  /\ Labels' = LabelsTo(n)
         /\ Pc' = IF acts[n].kind = "then" /\ ip = acts[n].end THEN acts[n].resume ELSE ip
<1>1. PICK c : ResumesAs(c) /\ c.ip = ip
  BY DEF Resumes
<1>2. n \in Nat \ {0}
  BY Height DEF Resumes
<1>3. /\ Len(acts') = n /\ acts'[n] = c
      /\ c.kind = acts[n].kind /\ c.resume = acts[n].resume /\ c.end = acts[n].end
      /\ c.over = "no"
  BY <1>1 DEF ResumesAs
<1>4. (VRun /\ jump = 0 /\ Top.over # "jump" => SeenAt(Len(acts)))'
  BY SeenCalm, PTL
<1>5. SeenAt(Len(acts))'
  <2>1. Top' = c
    BY <1>3 DEF Top, Last
  <2>2. QED BY <1>3, <1>4, <2>1
<1>6. Labels' = LabelsTo(n)' /\ Pc' = Arrived(n)'
  BY <1>3, <1>5 DEF SeenAt, LabelsTo, Arrived
<1>7. LabelsTo(n)' = LabelsTo(n)
  BY <1>2, LabelsResume, SameLabels
<1>8. QED BY <1>1, <1>3, <1>6, <1>7 DEF Arrived

-----------------------------------------------------------------------------
(***************************************************************************)
(* ControlFlow reads the code with operators of its own, which are those   *)
(* of Bytecode.                                                            *)
(***************************************************************************)
LEMMA SameOpcodes ==
  /\ Structured!op_block = op_block /\ Structured!op_loop = op_loop /\ Structured!op_if = op_if
  /\ Structured!op_else = op_else /\ Structured!op_end = op_end /\ Structured!op_br = op_br
  /\ Structured!op_br_if = op_br_if /\ Structured!op_br_table = op_br_table
  /\ Structured!op_return = op_return /\ Structured!op_call = op_call
  /\ Structured!op_call_indirect = op_call_indirect
  /\ Structured!op_local_get = op_local_get /\ Structured!op_global_set = op_global_set
  /\ Structured!memory_size = memory_size /\ Structured!memory_grow = memory_grow
  /\ Structured!i32_const = i32_const /\ Structured!i64_const = i64_const
  /\ Structured!f32_const = f32_const /\ Structured!f64_const = f64_const
  /\ Structured!Bytes = Bytes
BY DEF Structured!op_block, op_block, Structured!op_loop, op_loop, Structured!op_if, op_if,
   Structured!op_else, op_else, Structured!op_end, op_end, Structured!op_br, op_br,
   Structured!op_br_if, op_br_if, Structured!op_br_table, op_br_table,
   Structured!op_return, op_return, Structured!op_call, op_call,
   Structured!op_call_indirect, op_call_indirect, Structured!op_local_get, op_local_get,
   Structured!op_global_set, op_global_set, Structured!memory_size, memory_size,
   Structured!memory_grow, memory_grow, Structured!i32_const, i32_const,
   Structured!i64_const, i64_const, Structured!f32_const, f32_const,
   Structured!f64_const, f64_const, Structured!Bytes, Bytes

LEMMA SameSets ==
  /\ Structured!Openers = Openers /\ Structured!OneLeb = OneLeb
  /\ Structured!MemoryAccess = MemoryAccess
BY SameOpcodes DEF Structured!Openers, Openers, Structured!OneLeb, OneLeb,
   Structured!MemoryAccess, MemoryAccess

LEMMA SameReadLeb == ASSUME NEW code, NEW ip PROVE Structured!ReadLeb(code, ip) = ReadLeb(code, ip)
<1>1. \A S : Structured!Min(S) = Min(S)
  BY Zenon DEF Structured!Min, Min
<1>2. \A n : Structured!LebValue(code, ip, n) = LebValue(code, ip, n)
  BY SMT DEF Structured!LebValue, LebValue, Structured!Weight, Weight
<1>3. QED BY <1>1, <1>2, SMT DEF Structured!ReadLeb, ReadLeb

LEMMA SameInstructionEnd ==
  ASSUME NEW code, NEW ip
  PROVE  Structured!InstructionEnd(code, ip) = InstructionEnd(code, ip)
<1>1. Structured!ScanNext(code, ip) = ScanNext(code, ip)
  BY SameOpcodes, SameSets, SameReadLeb, SMT
  DEF Structured!ScanNext, ScanNext, Structured!AfterLeb, AfterLeb, Structured!TableEnd, TableEnd
<1>2. QED BY <1>1, SameOpcodes, SMT DEF Structured!InstructionEnd, InstructionEnd

LEMMA SamePast == ASSUME NEW code PROVE Structured!Past(code) = Past(code)
<1>1. ASSUME NEW ends PROVE Structured!PastAll(code, ends) = PastAll(code, ends)
  BY SMT
  DEF Structured!PastAll, PastAll, Structured!Openers, Openers, Structured!op_block, op_block,
      Structured!op_loop, op_loop, Structured!op_if, op_if, Structured!op_else, op_else,
      Structured!op_end, op_end
<1>2. Structured!Past(code)
        = Structured!PastAll(code, [ip \in 1..Len(code) |-> Structured!InstructionEnd(code, ip)])
  BY DEF Structured!Past
<1>3. Past(code) = PastAll(code, [ip \in 1..Len(code) |-> InstructionEnd(code, ip)])
  BY DEF Past
<1>4. [ip \in 1..Len(code) |-> Structured!InstructionEnd(code, ip)]
        = [ip \in 1..Len(code) |-> InstructionEnd(code, ip)]
  BY SameInstructionEnd
<1>5. QED BY <1>1, <1>2, <1>3, <1>4

LEMMA SameBounds ==
  ASSUME NEW code, NEW ip
  PROVE  /\ Structured!ConstructEnd(code, ip) = ConstructEnd(code, ip)
         /\ Structured!ThenEnd(code, ip) = ThenEnd(code, ip)
         /\ Structured!HasElse(code, ip) <=> HasElse(code, ip)
BY SamePast, SameOpcodes DEF Structured!ConstructEnd, ConstructEnd, Structured!ThenEnd, ThenEnd,
   Structured!HasElse, HasElse

-----------------------------------------------------------------------------
(***************************************************************************)
(* A running instruction, as ControlFlow sees it.                          *)
(***************************************************************************)
LEMMA LabelsShape ==
  ASSUME NEW n \in Nat
  PROVE  /\ IsSeq(LabelsTo(n)) /\ Len(LabelsTo(n)) = n /\ DOMAIN LabelsTo(n) = 1..n
         /\ \A k \in 1..n : LabelsTo(n)[k] = LabelOf(k)
         /\ \A j \in 0..n : LabelsTo(j) = SubSeq(LabelsTo(n), 1, j)
<1>1. \A j \in Nat : /\ IsSeq(LabelsTo(j)) /\ Len(LabelsTo(j)) = j
                     /\ DOMAIN LabelsTo(j) = 1..j /\ \A k \in 1..j : LabelsTo(j)[k] = LabelOf(k)
  <2> TAKE j \in Nat
  <2>1. LabelsTo(j) = [k \in 1..j |-> LabelOf(k)]
    BY DEF LabelsTo
  <2>2. LabelsTo(j) \in Seq({LabelOf(k) : k \in 1..j}) /\ Len(LabelsTo(j)) = j
    BY <2>1
  <2>3. QED BY <2>1, <2>2 DEF IsSeq
<1>2. ASSUME NEW j \in 0..n PROVE LabelsTo(j) = SubSeq(LabelsTo(n), 1, j)
  <2> PICK s : s = SubSeq(LabelsTo(n), 1, j)
    OBVIOUS
  <2>1. 1 \in 1..n + 1 /\ j \in 1 - 1..n /\ j - 1 + 1 = j
    OBVIOUS
  <2>2. IsSeq(s) /\ Len(s) = j /\ \A k \in 1..j : s[k] = LabelsTo(n)[1 + k - 1]
    BY <1>1, <2>1, SubSeqFacts
  <2>3. \A k \in 1..j : s[k] = LabelOf(k)
    <3> TAKE k \in 1..j
    <3>1. 1 + k - 1 = k /\ k \in 1..n
      OBVIOUS
    <3>2. QED BY <1>1, <2>2, <3>1
  <2>4. j \in Nat
    OBVIOUS
  <2>5. IsSeq(LabelsTo(j)) /\ Len(LabelsTo(j)) = j /\ \A k \in 1..j : s[k] = LabelsTo(j)[k]
    BY <1>1, <2>3, <2>4
  <2>6. s = LabelsTo(j)
    BY <2>2, <2>5, Extensional
  <2>7. QED BY <2>6
<1>3. QED BY <1>1, <1>2

LEMMA InsideConstruct ==
  ASSUME VRun, NestedRun, NEW ops, At(ops), NEW n, n = Len(acts)
  PROVE  /\ n \in Nat \ {0} /\ Labels = LabelsTo(n) /\ Len(Labels) = n
         /\ \A k \in 1..n : Labels[k] = LabelOf(k)
         /\ Structured!Last(Labels) = LabelOf(n) /\ LabelOf(n).end = BackAt(n)
         /\ Pc = Top.ip /\ module.code[Pc] = Op /\ Op \in ops
         /\ Structured!Immediate = Imm.value /\ Structured!After = Following
         /\ Structured!Inside /\ status = "run" /\ jump = 0
<1>1. /\ n \in Nat \ {0} /\ Top = acts[n] /\ Top \in Activations /\ InPlace(n)
  BY Height
<1>2. Op \in ops /\ Top.ip < Top.end /\ jump = 0 /\ status = "run" /\ Top.over = "no"
  BY DEF At, Active
<1>3. Labels = LabelsTo(n) /\ Pc = Arrived(n)
  BY <1>2, SeenCalm DEF SeenAt
<1>4. Top.ip \in Nat /\ Top.end \in Nat
  BY <1>1 DEF Activations
<1>5. Pc = Top.ip
  BY <1>1, <1>2, <1>3, <1>4 DEF Arrived
<1>6. Len(Labels) = n /\ \A k \in 1..n : Labels[k] = LabelOf(k)
  BY <1>1, <1>3, LabelsShape
<1>7. Structured!Last(Labels) = LabelOf(n) /\ Labels # <<>>
  BY <1>1, <1>6 DEF Structured!Last
<1>8. LabelOf(n).end = BackAt(n)
  BY DEF LabelOf, BackAt
<1>9. Top.ip < BackAt(n)
  <2>1. NestedAt(n) /\ n \in 1..n /\ Top.end = control[n].end
    BY <1>1 DEF NestedRun, InPlace
  <2>2. CASE Top.kind = "then"
    <3>1. BackAt(n) = Top.resume /\ Top.end <= Top.resume /\ Top.resume \in Nat
      BY <1>1, <2>1, <2>2 DEF BackAt, NestedAt, Activations
    <3>2. QED BY <1>2, <1>4, <3>1
  <2>3. CASE Top.kind # "then"
    BY <1>1, <1>2, <2>1, <2>3 DEF BackAt
  <2>4. QED BY <2>2, <2>3
<1>10. Structured!Inside
  BY <1>2, <1>5, <1>7, <1>8, <1>9 DEF Structured!Inside, Structured!Running
<1>11. Structured!Immediate = Imm.value /\ Structured!After = Following
  BY <1>5, SameReadLeb, SameInstructionEnd
  DEF Structured!Immediate, Structured!After, Imm, Following
<1>12. QED BY <1>1, <1>2, <1>3, <1>5, <1>6, <1>7, <1>8, <1>10, <1>11 DEF Op

LEMMA InsideAt ==
  ASSUME VRun, NestedRun, NEW ops, At(ops), NEW all, Op \in all
  PROVE  Structured!At(all)
BY InsideConstruct DEF Structured!At

LEMMA HaltTraps == ASSUME VRun, Active, jump = 0, Halts PROVE Structured!Trap
<1>1. /\ UNCHANGED <<module, acts, jump, control>>
      /\ status' \in {"exit", "crash", "ctlOverflow"}
  BY DEF Halts, Halt
<1>2. UNCHANGED <<Labels, Pc>>
  BY <1>1 DEF Labels, Pc, Remaining, Target, Pending, Jumping, LabelOf, IsFunction, Innermost, Top
<1>3. Labels # <<>>
  <2>1. Labels = LabelsTo(Len(acts)) /\ Len(acts) \in Nat \ {0}
    BY SeenCalm, Height DEF SeenAt, Active
  <2>2. Len(Labels) # 0
    BY <2>1, LabelsShape
  <2>3. QED BY <2>2
<1>4. status = "run"
  BY DEF Active
<1>5. QED BY <1>1, <1>2, <1>3, <1>4 DEF Structured!Trap, Structured!Running

(***************************************************************************)
(* An instruction that goes on, the else at the end of a then branch, and  *)
(* a branch.                                                               *)
(***************************************************************************)
LEMMA GoesOnProceeds ==
  ASSUME VRun, VRun', NestedRun, NEW ops, At(ops), Advances, jump' = 0, Top'.over # "overflow",
         Op \notin Openers
  PROVE  /\ Op # op_else => Structured!Proceed(Structured!After)
         /\ Op = op_else => Structured!Proceed(Structured!Last(Labels).end)
<1>1. PICK a : GoesOnAs(a) /\ a.ip = Following /\ a.over \in {"no", "overflow"}
  BY DEF Advances, PassesTo
<1>2. PICK n : n = Len(acts)
  OBVIOUS
<1>3. /\ n \in Nat \ {0} /\ Top = acts[n] /\ InPlace(n) /\ NestedAt(n) /\ n \in 1..n
      /\ Labels = LabelsTo(n) /\ Structured!Last(Labels).end = BackAt(n)
      /\ Structured!After = Following
  BY <1>2, Height, InsideConstruct DEF NestedRun
<1>4. /\ Labels' = LabelsTo(n)
      /\ Pc' = IF Top.kind = "then" /\ Following = Top.end THEN Top.resume ELSE Following
  BY <1>1, <1>2, GoesOnSeen
<1>5. UNCHANGED <<module, status>>
  BY <1>1 DEF GoesOnAs
<1>6. AsMeant(module, Top.ip, Top.end)
  BY MeantHere
<1>7. AfterElse(module, Top.end) <=> Top.kind = "then"
  BY <1>3 DEF NestedAt, InPlace
<1>8. CASE Op # op_else
  <2>1. ~(Top.kind = "then" /\ Following = Top.end)
    BY <1>6, <1>7, <1>8 DEF AsMeant, Following, Op
  <2>2. Pc' = Following
    BY <1>4, <2>1
  <2>3. QED BY <1>3, <1>4, <1>5, <1>8, <2>2 DEF Structured!Proceed
<1>9. CASE Op = op_else
  <2>1. Top.end = Top.ip + 1
    BY <1>6, <1>9 DEF AsMeant, Op
  <2>2. Following = Top.ip + 1
    <3>1. Op \in Alone1 \cup {op_return}
      BY <1>9 DEF Alone1
    <3>2. QED BY <3>1, InstructionEnds DEF Following, Op
  <2>3. AfterElse(module, Top.end)
    <3>1. Top.ip \in Nat
      BY AtPlace
    <3>2. Top.end - 1 = Top.ip
      BY <2>1, <3>1
    <3>3. QED BY <1>9, <3>2, Zenon DEF AfterElse, Op
  <2>4. Pc' = BackAt(n)
    BY <1>3, <1>4, <1>7, <2>1, <2>2, <2>3 DEF BackAt
  <2>5. QED BY <1>3, <1>4, <1>5, <1>9, <2>4 DEF Structured!Proceed
<1>10. QED BY <1>8, <1>9

LEMMA GoesOnBranches ==
  ASSUME VRun, VRun', NestedRun, NEW ops, At(ops), Advances, jump' # 0, Top'.over # "overflow",
         NEW k \in 1..Len(acts),
         k = IF jump' < 0 THEN envLocals ELSE Len(acts) - jump' + 1
  PROVE  Structured!GoTo(k)
<1>1. PICK a : GoesOnAs(a) /\ a.ip = Following /\ a.over \in {"no", "overflow"}
  BY DEF Advances, PassesTo
<1>2. PICK n : n = Len(acts)
  OBVIOUS
<1>3. /\ n \in Nat \ {0} /\ Labels = LabelsTo(n) /\ \A j \in 1..n : Labels[j] = LabelOf(j)
  BY <1>2, InsideConstruct
<1>4. /\ Top' = a /\ Len(acts') = n /\ UNCHANGED <<module, envLocals, status>> /\ a.over = "no"
  BY <1>1, <1>2, GoneOn
<1>5. Target' = k
  <2>1. (RunInv => envLocals = Innermost)'
    BY OwnerIsInnermost, PTL
  <2>2. jump' \in Int
    BY DEF VRun, Typed
  <2>3. Innermost' = envLocals
    BY <1>4, <2>1 DEF VRun
  <2>4. Pending' = jump'
    BY <1>4 DEF Pending
  <2>5. QED BY <1>2, <1>4, <2>2, <2>3, <2>4 DEF Target
<1>6. LabelsKept(n)
  BY <1>1, <1>2, LabelsGoOn
<1>7. k \in Nat \ {0} /\ k <= n /\ k \in 1..n /\ n \in Nat
  BY <1>2, <1>3
<1>8. Labels' = LabelsTo(OpenAfter(k)) /\ Pc' = Leads(k)
  BY <1>5, <1>6, <1>7, Towards
<1>9. LabelsTo(OpenAfter(k)) = SubSeq(Labels, 1, OpenAfter(k))
  <2>1. OpenAfter(k) \in 0..n
    BY <1>7 DEF OpenAfter
  <2>2. QED BY <1>3, <2>1, LabelsShape
<1>10. OpenAfter(k) = IF Labels[k].kind = "loop" THEN k ELSE k - 1
  BY <1>3, <1>7, LabelKinds DEF OpenAfter
<1>11. Leads(k) = CASE Labels[k].kind = "loop" -> Labels[k].begin
                    [] Labels[k].kind = "block" -> Labels[k].end
                    [] OTHER -> Labels[k].ret
  BY <1>3, <1>7, Zenon DEF Leads
<1>12. QED BY <1>4, <1>8, <1>9, <1>10, <1>11 DEF Structured!GoTo

-----------------------------------------------------------------------------
(***************************************************************************)
(* Each step of the interpreter is one of ControlFlow's, or none.          *)
(***************************************************************************)
Plain ==
  Alone1 \cup MemoryAccess \cup LocalAccess
    \cup {op_global_get, op_global_set, memory_size, memory_grow,
          i32_const, i64_const, f32_const, f64_const}

LEMMA PlainOpcodes == Plain \ {op_else} \subseteq Structured!Bytes \ Structured!Control
<1> USE DEF op_unreachable, op_nop, op_else, op_end, op_return, op_drop, op_select, op_br,
            op_br_if, op_call, op_global_get, op_global_set, memory_size, memory_grow,
            i32_const, i64_const, f32_const, f64_const, op_call_indirect, op_br_table,
            op_local_get, op_local_set, op_local_tee, op_block, op_loop, op_if
<1>1. Structured!Control = Openers \cup {op_else, op_br, op_br_if, op_br_table, op_return,
                                          op_call, op_call_indirect}
  BY SameOpcodes, SameSets DEF Structured!Control
<1>2. Structured!Bytes = 0..255
  BY SameOpcodes DEF Bytes
<1>3. QED
  BY <1>1, <1>2 DEF Plain, Alone1, Numeric, MemoryAccess, LocalAccess, Openers

PlainStep == Compute \/ Const \/ Drop \/ Select \/ Memory \/ Local \/ Global
LEMMA PlainRefines ==
  ASSUME VRun, VRun', NestedRun, PlainStep, Top'.over # "overflow"
  PROVE  Structured!Straight \/ Structured!Else
<1>1. Advances
  BY ComputeKeeps, ConstKeeps, MovesKeep, LocalKeeps, GlobalKeeps DEF PlainStep
<1>2. jump' = jump
  <2>1. \E n, words, ip : Replace(n, words, ip)
    BY Zenon DEF PlainStep, Compute, Const, Drop, Select, Memory, Local, Global
  <2>2. QED BY <2>1 DEF Replace
<1>3. \E ops \in SUBSET Plain : At(ops)
  <2>1. CASE Compute
    BY <2>1, FamiliesOK DEF Compute, FamilyOK, Plain
  <2>2. CASE Const \/ Drop \/ Select \/ Memory \/ Local \/ Global
    <3>1. \/ \E o \in {i32_const, i64_const, f32_const, f64_const, op_drop, op_select,
                       memory_size, memory_grow, op_global_get, op_global_set} : At({o})
          \/ At(LocalAccess)
      BY <2>2, Zenon DEF Const, Drop, Select, Memory, Local, Global
    <3>2. QED BY <3>1 DEF Plain, Alone1
  <2>3. QED BY <2>1, <2>2 DEF PlainStep
<1>4. PICK ops \in SUBSET Plain : At(ops)
  BY <1>3
<1>5. Op \in Plain /\ jump = 0
  BY <1>4, InsideConstruct
<1>6. Op \notin Openers
  BY <1>5 DEF Plain, Alone1, Numeric, MemoryAccess, LocalAccess, Openers, op_unreachable, op_nop,
     op_else, op_end, op_drop, op_select, op_global_get, op_global_set, memory_size, memory_grow,
     i32_const, i64_const, f32_const, f64_const, op_local_get, op_local_set, op_local_tee,
     op_block, op_loop, op_if
<1>7. CASE Op # op_else
  <2>1. Structured!At(Structured!Bytes \ Structured!Control)
    BY <1>4, <1>5, <1>7, InsideAt, PlainOpcodes
  <2>2. Structured!Proceed(Structured!After)
    BY <1>1, <1>2, <1>4, <1>5, <1>6, <1>7, GoesOnProceeds
  <2>3. QED BY <2>1, <2>2 DEF Structured!Straight
<1>8. CASE Op = op_else
  <2>1. Structured!At({Structured!op_else})
    BY <1>4, <1>8, InsideAt, SameOpcodes
  <2>2. Structured!Proceed(Structured!Last(Labels).end)
    BY <1>1, <1>2, <1>4, <1>5, <1>6, <1>8, GoesOnProceeds
  <2>3. QED BY <2>1, <2>2 DEF Structured!Else
<1>9. QED BY <1>7, <1>8

LEMMA BranchesOut ==
  ASSUME VRun, VRun', NestedRun, NEW ops, At(ops), Advances, Top'.over # "overflow",
         NEW d \in Nat, d <= Len(acts) - envLocals, jump' = d + 1
  PROVE  Structured!BranchTo(d)
<1>1. PICK n \in Nat \ {0} : n = Len(acts) /\ envLocals \in 1..n
  BY Height
<1>2. PICK k \in 1..n : k = n - d /\ k >= envLocals
  <2>1. n - d \in 1..n /\ n - d >= envLocals
    BY <1>1
  <2>2. QED BY <2>1
<1>3. k = n - jump' + 1 /\ jump' # 0 /\ ~(jump' < 0)
  BY <1>2
<1>4. Structured!GoTo(k)
  BY <1>1, <1>3, GoesOnBranches
<1>5. Len(Labels) = n /\ \A j \in 1..n : Labels[j] = LabelOf(j)
  BY <1>1, InsideConstruct
<1>6. \A j \in k + 1..n : Labels[j].kind # "func"
  <2> TAKE j \in k + 1..n
  <2>1. j \in 1..n /\ j \in envLocals + 1..n
    BY <1>1, <1>2
  <2>2. Owner(envLocals, n)
    BY <1>1, Sizes DEF VRun, RunInv
  <2>3. ~IsFunction(j)
    BY <2>1, <2>2 DEF Owner, IsFunction
  <2>4. QED BY <1>5, <2>1, <2>3, LabelKinds
<1>7. Len(Labels) - d = k /\ k > 0
  BY <1>2, <1>5
<1>8. QED BY <1>4, <1>5, <1>6, <1>7 DEF Structured!BranchTo

LEMMA BranchRefines ==
  ASSUME VRun, VRun', NestedRun, Br \/ BrIf \/ BrTable \/ Return, Top'.over # "overflow"
  PROVE  Structured!Br \/ Structured!BrIf \/ Structured!BrTable \/ Structured!Return
<1>1. Advances /\ Len(acts) \in Nat \ {0} /\ envLocals \in 1..Len(acts)
  BY BranchesKeep, Height
<1>2. ASSUME NEW ops \in {{op_br}, {op_br_if}}, At(ops)
      PROVE  Imm.value \in Nat /\ Imm.value <= Len(acts) - envLocals
  <2>1. Op \in {op_br, op_br_if} /\ Imm.value \in Nat
    BY <1>2, AtPlace
  <2>2. QED BY <1>2, <2>1, AtPlace, Zenon DEF PlaceOK, ImmediateOK, Imm, Op
<1>3. CASE Br
  <2>1. At({op_br}) /\ jump' = Imm.value + 1
    BY <1>3 DEF Br, Branch
  <2>2. Structured!BranchTo(Imm.value)
    BY <1>1, <1>2, <2>1, BranchesOut
  <2>3. Structured!Immediate = Imm.value /\ Structured!At({Structured!op_br})
    BY <2>1, InsideConstruct, InsideAt, SameOpcodes
  <2>4. QED BY <2>2, <2>3 DEF Structured!Br
<1>4. CASE BrIf
  <2>1. At({op_br_if}) /\ jump' = IF Operand(1) # 0 THEN Imm.value + 1 ELSE 0
    BY <1>4 DEF BrIf, Branch
  <2>2. Structured!Immediate = Imm.value /\ Structured!At({Structured!op_br_if}) /\ Op = op_br_if
    <3>1. Structured!Immediate = Imm.value /\ Op = op_br_if
      BY <2>1, InsideConstruct DEF At
    <3>2. QED BY <2>1, <3>1, InsideAt, SameOpcodes
  <2>3. CASE jump' = Imm.value + 1
    <3>1. Structured!BranchTo(Imm.value)
      BY <1>1, <1>2, <2>1, <2>3, BranchesOut
    <3>2. QED BY <2>2, <3>1 DEF Structured!BrIf
  <2>4. CASE jump' = 0
    <3>1. Op \notin Openers /\ Op # op_else
      BY <2>2 DEF Openers, op_br_if, op_block, op_loop, op_if, op_else
    <3>2. Structured!Proceed(Structured!After)
      BY <1>1, <2>1, <2>4, <3>1, GoesOnProceeds
    <3>3. QED BY <2>2, <3>2 DEF Structured!BrIf
  <2>5. QED BY <2>1, <2>3, <2>4
<1>5. CASE BrTable
  <2> DEFINE label == module.code[LabelAddress(module.code, Top.ip, Operand(1))]
             count == ReadLeb(module.code, Top.ip + 1)
  <2>1. At({op_br_table}) /\ Top.sp >= 1 /\ jump' = label + 1
    BY <1>5 DEF BrTable, Branch
  <2>2. label \in Nat /\ label <= Len(acts) - envLocals
    BY <2>1, TablePlace
  <2>3. PICK d \in Nat : d = label
    BY <2>2
  <2>4. Structured!BranchTo(d)
    BY <1>1, <2>1, <2>2, <2>3, BranchesOut
  <2>5. \E n \in 0..count.value : label = module.code[count.next + n]
    <3>1. Op = op_br_table /\ Top.sp \in 0..StackWords
      BY <2>1, AtPlace
    <3>2. Operand(1) \in Words
      <4>1. 1 \in 1..Top.sp
        BY <2>1, <3>1, Parameters
      <4>2. QED BY <3>1, <4>1, OperandTyped
    <3>3. \A w \in Words : \E n \in 0..count.value :
            module.code[LabelAddress(module.code, Top.ip, w)] = module.code[count.next + n]
      BY <2>1, <3>1, MeantHere, Zenon DEF AsMeant, Op
    <3>4. QED BY <3>2, <3>3
  <2>6. Structured!At({Structured!op_br_table}) /\ Pc = Top.ip
    BY <2>1, InsideConstruct, InsideAt, SameOpcodes
  <2>7. Structured!ReadLeb(module.code, Pc + 1) = count
    BY <2>6, SameReadLeb
  <2> HIDE DEF label, count
  <2>8. \E n \in 0..Structured!ReadLeb(module.code, Pc + 1).value :
          Structured!BranchTo(module.code[Structured!ReadLeb(module.code, Pc + 1).next + n])
    BY <2>3, <2>4, <2>5, <2>7
  <2>9. QED BY <2>6, <2>8 DEF Structured!BrTable
<1>6. CASE Return
  <2>1. At({op_return}) /\ jump' = -1
    BY <1>6 DEF Return, Branch
  <2>2. Structured!GoTo(envLocals)
    <3>1. jump' # 0 /\ jump' < 0
      BY <2>1
    <3>2. QED BY <1>1, <2>1, <3>1, GoesOnBranches
  <2>3. Structured!At({Structured!op_return})
    BY <2>1, InsideConstruct, InsideAt, SameOpcodes
  <2>4. {j \in DOMAIN Labels : Labels[j].kind = "func"} = {k \in DOMAIN acts : IsFunction(k)}
    <3>1. Labels = LabelsTo(Len(acts)) /\ \A k \in 1..Len(acts) : Labels[k] = LabelOf(k)
      BY <2>1, InsideConstruct
    <3>2. DOMAIN Labels = 1..Len(acts) /\ DOMAIN acts = 1..Len(acts)
      BY <1>1, <3>1, LabelsShape, Sizes DEF VRun
    <3>3. \A k \in 1..Len(acts) : Labels[k].kind = "func" <=> IsFunction(k)
      BY <3>1, LabelKinds
    <3>4. QED BY <3>2, <3>3
  <2>5. Structured!Max({j \in DOMAIN Labels : Labels[j].kind = "func"}) = envLocals
    <3>1. \A S : Structured!Max(S) = Max(S)
      BY Zenon DEF Structured!Max, Max
    <3>2. QED BY <2>4, <3>1, OwnerIsInnermost DEF VRun, Innermost
  <2>6. QED BY <2>2, <2>3, <2>5 DEF Structured!Return
<1>7. QED BY <1>3, <1>4, <1>5, <1>6

(* A construct or a function is opened.                                    *)
LEMMA EntersOpens ==
  ASSUME VRun, VRun', NestedRun, NEW ops, At(ops),
         NEW kind \in {"call", "block", "loop", "then", "else"},
         NEW begin, NEW end, NEW resume, NEW ip, Enters(kind, begin, end, resume, ip),
         kind = "then" => begin # end
  PROVE  Structured!Open(LabelFor(kind, begin, end, resume, ip))
<1>1. /\ Labels' = Append(LabelsTo(Len(acts)), LabelFor(kind, begin, end, resume, ip))
      /\ Pc' = begin
  BY EntersSeen DEF At
<1>2. Labels = LabelsTo(Len(acts))
  BY InsideConstruct
<1>3. UNCHANGED <<module, status>>
  BY DEF Enters, Opened
<1>4. LabelFor(kind, begin, end, resume, ip).begin = begin
  BY DEF LabelFor
<1>5. QED BY <1>1, <1>2, <1>3, <1>4 DEF Structured!Open

LEMMA BlockRefines ==
  ASSUME VRun, VRun', NestedRun, Block, ~Halts
  PROVE  Structured!Block
<1> DEFINE end == ReadBlock(module.code, Top.ip + 2)
           kind == IF Op = op_block THEN "block" ELSE "loop"
<1>1. At({op_block, op_loop})
  BY DEF Block
<1>2. Op \in {op_block, op_loop}
  BY <1>1, InsideConstruct
<1>3. Pc = Top.ip /\ module.code[Pc] = Op
  BY <1>1, InsideConstruct
<1>4. Structured!At({Structured!op_block, Structured!op_loop})
  BY <1>1, <1>2, InsideAt, SameOpcodes
<1>5. end # 0 /\ Enters(kind, Top.ip + 2, end, 0, Top.ip)
  BY BlockKeeps
<1>6. end = ConstructEnd(module.code, Top.ip)
  BY <1>1, <1>2, <1>5, MeantHere DEF AsMeant, Op
<1>7. PICK k \in {"block", "loop"} : k = kind
  OBVIOUS
<1> PICK e : e = end
  OBVIOUS
<1>8. op_block # op_loop
  BY DEF op_block, op_loop
<1> HIDE DEF end, kind
<1>9. Structured!Open(LabelFor(k, Top.ip + 2, e, 0, Top.ip))
  BY <1>1, <1>5, <1>7, EntersOpens
<1>10. LabelFor(k, Top.ip + 2, e, 0, Top.ip) = Structured!BlockLabel(k, Top.ip + 2, e)
  BY <1>7 DEF LabelFor, Structured!BlockLabel
<1>11. k = IF module.code[Pc] = Structured!op_loop THEN "loop" ELSE "block"
  BY <1>2, <1>3, <1>7, <1>8, SameOpcodes DEF kind
<1>12. e = Structured!ConstructEnd(module.code, Pc)
  BY <1>3, <1>6, <1>7, SameBounds
<1>13. QED BY <1>3, <1>4, <1>9, <1>10, <1>11, <1>12 DEF Structured!Block

LEMMA IfRefines == ASSUME VRun, VRun', NestedRun, If, ~Halts PROVE Structured!If
<1> DEFINE middle == ReadBlock(module.code, Top.ip + 2)
           end == ReadBlock(module.code, middle)
<1>1. At({op_if})
  BY DEF If
<1>2. Op = op_if /\ Pc = Top.ip
  BY <1>1, InsideConstruct DEF At
<1>3. Structured!At({Structured!op_if})
  BY <1>1, <1>2, InsideAt, SameOpcodes
<1>4. /\ middle # 0 /\ end # 0
      /\ \/ Enters("then", Top.ip + 2, middle, end, Top.ip)
         \/ Enters("else", middle, end, 0, Top.ip)
  BY IfKeeps
<1>5. /\ middle = ThenEnd(module.code, Top.ip) /\ HasElse(module.code, Top.ip)
      /\ middle # Top.ip + 2 /\ end = ConstructEnd(module.code, Top.ip)
  BY <1>1, <1>2, <1>4, MeantHere DEF AsMeant, Op
<1>6. /\ middle = Structured!ThenEnd(module.code, Pc) /\ Structured!HasElse(module.code, Pc)
      /\ end = Structured!ConstructEnd(module.code, Pc)
  BY <1>2, <1>5, SameBounds
<1> HIDE DEF middle, end
<1>7. CASE Enters("then", Top.ip + 2, middle, end, Top.ip)
  <2>1. Structured!Open(LabelFor("then", Top.ip + 2, middle, end, Top.ip))
    BY <1>1, <1>5, <1>7, EntersOpens
  <2>2. LabelFor("then", Top.ip + 2, middle, end, Top.ip)
          = Structured!BlockLabel("block", Top.ip + 2, end)
    BY DEF LabelFor, Structured!BlockLabel
  <2>3. QED BY <1>2, <1>3, <1>6, <2>1, <2>2 DEF Structured!If
<1>8. CASE Enters("else", middle, end, 0, Top.ip)
  <2>1. Structured!Open(LabelFor("else", middle, end, 0, Top.ip))
    BY <1>1, <1>8, EntersOpens
  <2>2. LabelFor("else", middle, end, 0, Top.ip) = Structured!BlockLabel("block", middle, end)
    BY DEF LabelFor, Structured!BlockLabel
  <2>3. QED BY <1>2, <1>3, <1>6, <2>1, <2>2 DEF Structured!If
<1>9. QED BY <1>4, <1>7, <1>8

LEMMA InvokesRefines ==
  ASSUME VRun, VRun', NestedRun, NEW ops, At(ops), Op \notin Openers \cup {op_else}, Room > 0,
         NEW i, Invokes(i), ~Halts, Top'.over # "overflow"
  PROVE  Structured!Invoke(i)
<1>1. Structured!After = Following /\ jump = 0
  BY InsideConstruct
<1>2. Func(i) = module.funcs[i + 1]
  BY DEF Func
<1>3. CASE Func(i).imported /\ Advances /\ UNCHANGED jump
  <2>1. Structured!Proceed(Structured!After)
    BY <1>1, <1>3, GoesOnProceeds
  <2>2. QED BY <1>2, <1>3, <2>1 DEF Structured!Invoke
<1>4. CASE ~Func(i).imported /\ Enters("call", Func(i).begin, Func(i).end, 0, Following)
  <2>1. Structured!Open(LabelFor("call", Func(i).begin, Func(i).end, 0, Following))
    BY <1>4, EntersOpens
  <2>2. LabelFor("call", Func(i).begin, Func(i).end, 0, Following)
          = Structured!FuncLabel(i, Structured!After)
    BY <1>1, <1>2 DEF LabelFor, Structured!FuncLabel
  <2>3. QED BY <1>2, <1>4, <2>1, <2>2 DEF Structured!Invoke
<1>5. Room # 0
  OBVIOUS
<1>6. QED BY <1>3, <1>4, <1>5 DEF Invokes

LEMMA CallRefines ==
  ASSUME VRun, VRun', NestedRun, Call \/ CallIndirect, ~Halts, Top'.over # "overflow",
         At({op_call, op_call_indirect}) => Room > 0
  PROVE  Structured!Call \/ Structured!CallIndirect
<1>1. \/ At({op_call}) /\ Invokes(Imm.value)
      \/ /\ At({op_call_indirect})
         /\ \E n \in DOMAIN module.table : \E i \in module.table[n] : Invokes(i)
  BY CallsKeep
<1>2. Room > 0
  BY <1>1 DEF At
<1>3. CASE At({op_call}) /\ Invokes(Imm.value)
  <2>1. Op = op_call /\ Structured!Immediate = Imm.value
    BY <1>3, InsideConstruct DEF At
  <2>2. Op \notin Openers \cup {op_else}
    BY <2>1 DEF Openers, op_call, op_block, op_loop, op_if, op_else
  <2>3. Structured!At({Structured!op_call})
    BY <1>3, <2>1, InsideAt, SameOpcodes
  <2>4. Structured!Invoke(Imm.value)
    BY <1>2, <1>3, <2>2, InvokesRefines
  <2>5. QED BY <2>1, <2>3, <2>4 DEF Structured!Call
<1>4. CASE /\ At({op_call_indirect})
           /\ \E n \in DOMAIN module.table : \E i \in module.table[n] : Invokes(i)
  <2>1. Op = op_call_indirect
    BY <1>4 DEF At
  <2>2. Op \notin Openers \cup {op_else}
    BY <2>1 DEF Openers, op_call_indirect, op_block, op_loop, op_if, op_else
  <2>3. Structured!At({Structured!op_call_indirect})
    BY <1>4, <2>1, InsideAt, SameOpcodes
  <2>4. \A i : Invokes(i) => Structured!Invoke(i)
    BY <1>2, <1>4, <2>2, InvokesRefines
  <2>5. QED BY <1>4, <2>3, <2>4, Zenon DEF Structured!CallIndirect
<1>5. QED BY <1>1, <1>3, <1>4

(* The way out: nothing is seen of an activation's return, and only the    *)
(* end of a construct that has come to its end is a step.                  *)
LEMMA ReturnStutters ==
  ASSUME VRun, VRun', Unwind \/ FallOff
  PROVE  UNCHANGED Structured!vars
<1>1. PICK how \in {"natural", "jump"} : WayOut(how)
  BY ReturnKeeps
<1>2. PICK a : GoesOnAs(a) /\ a.ip = Top.ip /\ a.over = how
  BY <1>1 DEF WayOut
<1>3. PICK n : n = Len(acts)
  OBVIOUS
<1>4. /\ n \in Nat \ {0} /\ Len(acts') = n /\ Top' = a /\ Top = acts[n]
      /\ UNCHANGED <<module, envLocals, status>> /\ Top.over = "no"
  BY <1>1, <1>2, <1>3, GoneOn, Height DEF WayOut
<1>5. UNCHANGED <<Pc, Labels>>
  <2>1. CASE how = "natural"
    <3>1. jump = 0 /\ jump' = 0
      BY <1>1, <2>1 DEF WayOut
    <3>2. Labels = LabelsTo(n) /\ Pc = Arrived(n)
      BY <1>3, <1>4, <3>1, SeenCalm DEF SeenAt
    <3>3. /\ Labels' = LabelsTo(n)
          /\ Pc' = IF Top.kind = "then" /\ a.ip = Top.end THEN Top.resume ELSE a.ip
      BY <1>2, <1>3, <2>1, <3>1, GoesOnSeen
    <3>4. QED BY <1>2, <1>4, <3>2, <3>3 DEF Arrived
  <2>2. CASE how = "jump"
    <3>1. jump # 0 /\ jump' = jump - 1 /\ jump \in Int
      BY <1>1, <2>2 DEF WayOut, VRun, Typed
    <3>2. Target \in envLocals..n /\ SeenOnTheWayTo(Target)
      BY <1>3, <3>1, SeenJumping
    <3>3. envLocals = Innermost /\ envLocals \in 1..n
      BY <1>3, OwnerIsInnermost, Height DEF VRun
    <3>4. PICK k \in Nat \ {0} : k = Target /\ k <= n
      BY <1>4, <3>2, <3>3
    <3>5. Target' = k
      <4>1. (RunInv => envLocals = Innermost)'
        BY OwnerIsInnermost, PTL
      <4>2. Innermost' = Innermost
        BY <1>4, <3>3, <4>1 DEF VRun
      <4>3. Pending = jump /\ Pending' = jump' + 1
        BY <1>2, <1>4, <2>2 DEF Pending
      <4>4. QED BY <1>3, <1>4, <3>1, <3>4, <4>2, <4>3 DEF Target
    <3>6. LabelsKept(n) /\ Top'.over = "jump" /\ n \in Nat
      BY <1>2, <1>3, <1>4, <2>2, LabelsGoOn
    <3>7. Labels' = LabelsTo(OpenAfter(k)) /\ Pc' = Leads(k)
      BY <3>4, <3>5, <3>6, Towards
    <3>8. QED BY <3>2, <3>4, <3>7 DEF SeenOnTheWayTo
  <2>3. QED BY <1>1, <2>1, <2>2
<1>6. QED BY <1>4, <1>5 DEF Structured!vars

LEMMA RepeatStutters ==
  ASSUME VRun, VRun', Repeat, Top.over # "overflow"
  PROVE  UNCHANGED Structured!vars
<1>1. PICK a : GoesOnAs(a) /\ a.ip = FrameOf.begin /\ a.over \in {"no", "overflow"}
  BY RepeatKeeps DEF PassesTo
<1>2. PICK n : n = Len(acts)
  OBVIOUS
<1>3. /\ n \in Nat \ {0} /\ Top = acts[n] /\ FrameOf = control[n]
      /\ Top.over \in {"no", "natural", "jump", "overflow"}
  BY <1>2, Height DEF Activations
<1>4. Top.kind = "loop" /\ Top.over = "jump" /\ jump = 0 /\ jump' = 0
  BY <1>3 DEF Repeat, Repeats, Returned
<1>5. Target = n
  BY <1>2, <1>3, <1>4 DEF Target, Pending
<1>6. SeenOnTheWayTo(n)
  BY <1>4, <1>5, SeenJumping
<1>7. LabelOf(n).kind = "loop" /\ LabelOf(n).begin = FrameOf.begin
  BY <1>3, <1>4, LabelKinds DEF LabelOf
<1>8. Labels = LabelsTo(n) /\ Pc = FrameOf.begin
  BY <1>3, <1>4, <1>6, <1>7 DEF SeenOnTheWayTo, OpenAfter, Leads
<1>9. Labels' = LabelsTo(n) /\ Pc' = FrameOf.begin
  BY <1>1, <1>2, <1>4, GoesOnSeen
<1>10. UNCHANGED <<module, status>>
  BY <1>1 DEF GoesOnAs
<1>11. QED BY <1>8, <1>9, <1>10 DEF Structured!vars

LEMMA ComeToItsEnd ==
  ASSUME VRun, NestedRun, status = "run", Top.over = "natural", NEW n, n = Len(acts)
  PROVE  /\ n \in Nat \ {0} /\ jump = 0 /\ Labels = LabelsTo(n)
         /\ Structured!Running /\ Pc = Structured!Last(Labels).end
         /\ Structured!Last(Labels) = LabelOf(n) /\ Pc = BackAt(n)
         /\ Structured!Front(Labels) = LabelsTo(n - 1)
<1>1. /\ n \in Nat \ {0} /\ Top = acts[n] /\ Top \in Activations /\ InPlace(n) /\ n \in 1..n
  BY Height
<1>2. jump = 0
  BY DEF VRun, Placed, JumpBounded
<1>3. Labels = LabelsTo(n) /\ Pc = Arrived(n)
  BY <1>2, SeenCalm DEF SeenAt
<1>4. Top.ip = Top.end
  <2>1. Top.ip <= Top.end /\ Top.ip >= Top.end
    BY <1>1, WithinConstruct DEF NestedRun
  <2>2. Top.ip \in Nat /\ Top.end \in Nat
    BY <1>1 DEF Activations
  <2>3. QED BY <2>1, <2>2
<1>5. Pc = BackAt(n)
  BY <1>1, <1>3, <1>4 DEF Arrived, BackAt, InPlace
<1>6. LabelOf(n).end = BackAt(n)
  BY DEF LabelOf, BackAt
<1>7. Len(Labels) = n /\ Labels[n] = LabelOf(n) /\ LabelsTo(n - 1) = SubSeq(Labels, 1, n - 1)
  <2>1. n - 1 \in 0..n /\ n \in Nat
    BY <1>1
  <2>2. QED BY <1>1, <1>3, <2>1, LabelsShape
<1>8. Labels # <<>>
  BY <1>1, <1>7
<1>9. QED
  BY <1>1, <1>2, <1>3, <1>5, <1>6, <1>7, <1>8
  DEF Structured!Running, Structured!Last, Structured!Front

LEMMA LeaveBlockRefines ==
  ASSUME VRun, VRun', NestedRun, LeaveBlock, Top.over # "overflow"
  PROVE  Structured!Leave \/ UNCHANGED Structured!vars
<1>1. PICK n \in Nat \ {0} : /\ n = Len(acts) /\ Top = acts[n] /\ n \in 1..n /\ InPlace(n)
                              /\ Top.over \in {"no", "natural", "jump", "overflow"}
  BY Height DEF Activations
<1>2. /\ Resumes(BackAt(n)) /\ UNCHANGED <<jump, envLocals, module, status>>
      /\ envLocals \in 1..n - 1 /\ n > 1
  BY <1>1, LeaveBlockKeeps DEF Resumes
<1>3. Top.kind \in BlockKinds /\ Top.over # "no" /\ ~Repeats /\ status = "run"
  BY DEF LeaveBlock, Returned
<1>4. /\ LabelOf(n).kind # "func" /\ (LabelOf(n).kind = "loop" <=> Top.kind = "loop")
      /\ LabelOf(n).kind \in {"func", "loop", "block"} /\ LabelOf(n).end = BackAt(n)
  BY <1>1, <1>3, LabelKinds DEF IsFunction, FunctionKinds, BlockKinds, LabelOf, BackAt
<1>5. jump = 0 => Labels' = LabelsTo(n - 1) /\ Pc' = BackAt(n)
  <2> SUFFICES ASSUME jump = 0 PROVE Labels' = LabelsTo(n - 1) /\ Pc' = BackAt(n)
    OBVIOUS
  <2> PICK m : m = n - 1
    OBVIOUS
  <2>1. m \in 1..n /\ m \in 1..Len(acts) /\ n \in 1..Len(acts)
    BY <1>1, <1>2
  <2>2. /\ Labels' = LabelsTo(m)
        /\ Pc' = IF acts[m].kind = "then" /\ BackAt(n) = acts[m].end
                 THEN acts[m].resume ELSE BackAt(n)
    BY <1>1, <1>2, ResumesSeen
  <2>3. NestedAt(m) /\ NestedAt(n) /\ InPlace(m)
    BY <2>1 DEF NestedRun, VRun, Placed
  <2>4. ~AfterElse(module, BackAt(n))
    BY <2>3 DEF NestedAt, BackAt
  <2>5. ~(acts[m].kind = "then" /\ BackAt(n) = acts[m].end)
    BY <2>3, <2>4 DEF NestedAt, InPlace
  <2>6. QED BY <2>2, <2>5
<1>6. CASE Top.over = "natural"
  <2>1. /\ jump = 0 /\ Structured!Running /\ Pc = Structured!Last(Labels).end
        /\ Structured!Last(Labels) = LabelOf(n) /\ Pc = BackAt(n)
        /\ Structured!Front(Labels) = LabelsTo(n - 1)
    BY <1>1, <1>3, <1>6, ComeToItsEnd
  <2>2. QED BY <1>2, <1>4, <1>5, <2>1 DEF Structured!Leave
<1>7. CASE Top.over = "jump" /\ jump = 0
  <2>1. Target = n
    BY <1>1, <1>7 DEF Target, Pending
  <2>2. SeenOnTheWayTo(n)
    BY <1>7, <2>1, SeenJumping
  <2>3. Top.kind # "loop"
    BY <1>3, <1>7 DEF Repeats
  <2>4. Labels = LabelsTo(n - 1) /\ Pc = BackAt(n)
    BY <1>1, <1>4, <2>2, <2>3 DEF SeenOnTheWayTo, OpenAfter, Leads
  <2>5. QED BY <1>2, <1>5, <1>7, <2>4 DEF Structured!vars
<1>8. CASE Top.over = "jump" /\ jump # 0
  <2>1. jump \in Int
    BY DEF VRun, Typed
  <2>2. Target \in envLocals..n /\ SeenOnTheWayTo(Target)
    BY <1>1, <1>8, SeenJumping
  <2>3. envLocals = Innermost
    BY OwnerIsInnermost DEF VRun
  <2>4. PICK k \in Nat \ {0} : k = Target /\ k <= n - 1
    <3>1. Target <= n - 1
      BY <1>1, <1>2, <1>8, <2>1, <2>3 DEF Target, Pending
    <3>2. Target \in Nat \ {0}
      BY <1>2, <2>2
    <3>3. QED BY <3>1, <3>2
  <2>5. Len(acts') = n - 1 /\ Top'.over = "no"
    BY <1>1, <1>2 DEF Resumes, ResumesAs, Top, Last
  <2>6. Target' = k
    <3>1. (RunInv => envLocals = Innermost)'
      BY OwnerIsInnermost, PTL
    <3>2. Innermost' = Innermost
      BY <1>2, <2>3, <3>1 DEF VRun
    <3>3. Pending = jump + 1 /\ Pending' = jump
      BY <1>2, <1>8, <2>5 DEF Pending
    <3>4. QED BY <1>1, <1>2, <2>1, <2>4, <2>5, <3>2, <3>3 DEF Target
  <2>7. LabelsKept(n - 1) /\ n - 1 \in Nat /\ jump' # 0
    BY <1>1, <1>2, <1>8, LabelsResume
  <2>8. Labels' = LabelsTo(OpenAfter(k)) /\ Pc' = Leads(k)
    BY <2>4, <2>6, <2>7, Towards
  <2>9. QED BY <1>2, <2>2, <2>4, <2>8 DEF SeenOnTheWayTo, Structured!vars
<1>9. QED BY <1>1, <1>3, <1>6, <1>7, <1>8

LEMMA LeaveFunctionRefines ==
  ASSUME VRun, VRun', NestedRun, LeaveFunction, Top.over # "overflow"
  PROVE  Structured!Leave \/ UNCHANGED Structured!vars
<1>1. PICK n \in Nat \ {0} : /\ n = Len(acts) /\ Top = acts[n] /\ n \in 1..n
                              /\ Top.over \in {"no", "natural", "jump", "overflow"}
  BY Height DEF Activations
<1>2. PICK m : m = n - 1
  OBVIOUS
<1>3. /\ Resumes(acts[m].ip) /\ jump' = 0 /\ UNCHANGED <<module, status>>
      /\ envLocals = n /\ (Top.over = "jump" => jump <= 0) /\ n > 1
  BY <1>1, <1>2, LeaveFunctionKeeps DEF Resumes
<1>4. Top.kind \in {"call", "start"} /\ Top.over # "no" /\ status = "run"
  BY DEF LeaveFunction, Returned
<1>5. LabelOf(n).kind = "func" /\ Top.kind # "loop"
  BY <1>1, <1>4, LabelKinds DEF IsFunction, FunctionKinds
<1>6. Labels' = LabelsTo(m) /\ Pc' = LabelOf(n).ret
  <2>1. m \in 1..Len(acts) /\ n \in 1..Len(acts) /\ m < Len(acts) /\ m + 1 = n
    BY <1>1, <1>2, <1>3
  <2>2. /\ Labels' = LabelsTo(m)
        /\ Pc' = IF acts[m].kind = "then" /\ acts[m].ip = acts[m].end
                 THEN acts[m].resume ELSE acts[m].ip
    BY <1>1, <1>2, <1>3, ResumesSeen
  <2>3. NestedAt(m) /\ NestedAt(n)
    BY <2>1 DEF NestedRun
  <2>4. CASE Top.kind = "call"
    <3>1. ~(acts[m].kind = "then" /\ acts[m].ip = acts[m].end)
      BY <1>1, <2>1, <2>3, <2>4 DEF NestedAt
    <3>2. LabelOf(n).ret = acts[m].ip
      BY <1>1, <1>2, <2>4 DEF LabelOf
    <3>3. QED BY <2>2, <3>1, <3>2
  <2>5. CASE Top.kind = "start"
    <3>1. m = 1 /\ acts[1].kind = "main"
      BY <1>1, <1>2, <2>1, <2>5 DEF VRun, RunInv
    <3>2. LabelOf(n).ret = control[1].begin
      BY <1>1, <2>5 DEF LabelOf
    <3>3. acts[1].ip = control[1].begin
      BY <1>1, <2>3, <2>5 DEF NestedAt
    <3>4. QED BY <2>2, <3>1, <3>2, <3>3
  <2>6. QED BY <1>4, <2>4, <2>5
<1>7. CASE Top.over = "natural"
  <2>1. /\ Structured!Running /\ Pc = Structured!Last(Labels).end
        /\ Structured!Last(Labels) = LabelOf(n) /\ Structured!Front(Labels) = LabelsTo(m)
    BY <1>1, <1>2, <1>4, <1>7, ComeToItsEnd
  <2>2. QED BY <1>3, <1>5, <1>6, <2>1 DEF Structured!Leave
<1>8. CASE Top.over = "jump"
  <2>1. Target = n
    <3>1. envLocals = Innermost /\ jump \in Int
      BY OwnerIsInnermost DEF VRun, Typed
    <3>2. QED BY <1>1, <1>3, <1>8, <3>1 DEF Target, Pending
  <2>2. SeenOnTheWayTo(n)
    BY <1>8, <2>1, SeenJumping
  <2>3. Labels = LabelsTo(m) /\ Pc = LabelOf(n).ret
    BY <1>1, <1>2, <1>5, <2>2 DEF SeenOnTheWayTo, OpenAfter, Leads
  <2>4. QED BY <1>3, <1>6, <2>3 DEF Structured!vars
<1>9. QED BY <1>1, <1>4, <1>7, <1>8

LEMMA LeaveMainRefines ==
  ASSUME VRun, NestedRun, LeaveMain, Top.over # "overflow"
  PROVE  Structured!Leave \/ UNCHANGED Structured!vars
<1>1. /\ Len(acts) = 1 /\ Top = acts[1] /\ envLocals \in 1..1
      /\ Top.over \in {"no", "natural", "jump", "overflow"}
  BY LeaveMainKind, Height DEF Ends, VRun, Activations
<1>2. /\ Top.kind = "main" /\ Top.over # "no" /\ status = "run" /\ status' = "done"
      /\ acts' = Front(acts) /\ UNCHANGED module
  BY DEF LeaveMain, Returned
<1>3. acts' = <<>>
  BY <1>1, <1>2 DEF Front
<1>4. Labels' = LabelsTo(0) /\ Pc' = 0
  <2>1. ~Jumping' /\ Len(acts') = 0
    BY <1>3 DEF Jumping
  <2>2. Labels' = [k \in 1..0 |-> LabelOf(k)']
    BY <2>1 DEF Labels, Remaining
  <2>3. [k \in 1..0 |-> LabelOf(k)'] = LabelsTo(0)
    BY DEF LabelsTo
  <2>4. Pc' = 0
    BY <1>3, <2>1 DEF Pc
  <2>5. QED BY <2>2, <2>3, <2>4
<1>5. LabelOf(1).kind = "func" /\ LabelOf(1).ret = 0 /\ Top.kind # "loop"
  BY <1>1, <1>2 DEF LabelOf, IsFunction, FunctionKinds
<1>6. CASE Top.over = "natural"
  <2>1. /\ Structured!Running /\ Pc = Structured!Last(Labels).end
        /\ Structured!Last(Labels) = LabelOf(1) /\ Structured!Front(Labels) = LabelsTo(1 - 1)
    BY <1>1, <1>2, <1>6, ComeToItsEnd
  <2>2. Structured!Front(Labels) = LabelsTo(0)
    BY <2>1
  <2>3. QED BY <1>2, <1>4, <1>5, <2>1, <2>2 DEF Structured!Leave
<1>7. CASE Top.over = "jump"
  <2>1. Target \in envLocals..1 /\ SeenOnTheWayTo(Target)
    BY <1>1, <1>7, SeenJumping
  <2>2. Target = 1
    BY <1>1, <2>1
  <2>3. Labels = LabelsTo(0) /\ Pc = 0
    BY <1>1, <1>5, <2>1, <2>2 DEF SeenOnTheWayTo, OpenAfter, Leads
  <2>4. QED BY <1>2, <1>4, <2>3 DEF Structured!vars
<1>8. QED BY <1>1, <1>2, <1>6, <1>7

(* A program that does not stop in a step is still running after it.       *)
LEMMA GoesOnRunning ==
  ASSUME VRun, status = "run", Next, ~Halts, ~LeaveMain
  PROVE  status' = "run"
<1>1. ASSUME NEW ip, PassesTo(ip) PROVE status' = "run"
  BY <1>1 DEF PassesTo, GoesOnAs
<1>2. ASSUME NEW kind, NEW begin, NEW end, NEW resume, NEW ip,
             Enters(kind, begin, end, resume, ip)
      PROVE  status' = "run"
  BY <1>2 DEF Enters, Opened
<1>3. CASE Compute \/ Const \/ Drop \/ Select \/ Memory \/ Local \/ Global \/ Br \/ BrIf
           \/ BrTable \/ Return \/ Repeat
  BY <1>1, <1>3, ComputeKeeps, ConstKeeps, MovesKeep, LocalKeeps, GlobalKeeps, BranchesKeep,
     RepeatKeeps DEF Advances
<1>4. CASE Arithmetic \/ NoLocals \/ Exit
  BY <1>4, StopsKeep
<1>5. CASE Block \/ If
  BY <1>2, <1>5, BlockKeeps, IfKeeps
<1>6. CASE Call \/ CallIndirect
  <2>1. \E i : Invokes(i)
    BY <1>6, CallsKeep
  <2>2. QED BY <1>1, <1>2, <2>1 DEF Invokes, Advances
<1>7. CASE Unwind \/ FallOff
  <2>1. \E how : WayOut(how)
    BY <1>7, ReturnKeeps
  <2>2. QED BY <2>1 DEF WayOut, GoesOnAs
<1>8. CASE LeaveBlock \/ LeaveFunction
  BY <1>8, LeaveBlockKeeps, LeaveFunctionKeeps DEF Resumes
<1>9. QED BY <1>3, <1>4, <1>5, <1>6, <1>7, <1>8 DEF Next, Instruction, Terminated

(***************************************************************************)
(* What the abstract specification knows nothing of: the operand stack     *)
(* does not overflow, which makes enter_frame run a loop again and leaves  *)
(* a function early, and there is heap for a call, which is skipped        *)
(* without.                                                                *)
(***************************************************************************)
Ample ==
  status = "run" =>
    Top.over # "overflow" /\ (At({op_call, op_call_indirect}) => Room > 0)

LEMMA StepRefines ==
  ASSUME VRun, NestedRun, status = "run", Next, Ample, Ample', status' = "run" => VRun'
  PROVE  [Structured!Next]_(Structured!vars)
<1>1. Top.over # "overflow" /\ (At({op_call, op_call_indirect}) => Room > 0)
  BY DEF Ample
<1>2. CASE LeaveMain
  BY <1>1, <1>2, LeaveMainRefines DEF Structured!Next
<1>3. CASE Instruction /\ Halts
  <2>1. \E ops : At(ops)
    BY <1>3, Zenon
    DEF Instruction, Compute, Arithmetic, Const, Drop, Select, Memory, Local, NoLocals, Global,
        Exit, Br, BrIf, BrTable, Return, Block, If, Call, CallIndirect
  <2>2. Active /\ jump = 0
    BY <2>1 DEF At
  <2>3. QED BY <1>3, <2>2, HaltTraps DEF Structured!Next
<1>4. CASE ~LeaveMain /\ ~Halts
  <2>1. status' = "run" /\ VRun'
    BY <1>4, GoesOnRunning
  <2>2. Top'.over # "overflow"
    BY <2>1 DEF Ample
  <2>3. CASE PlainStep
    BY <2>1, <2>2, <2>3, PlainRefines DEF Structured!Next
  <2>4. CASE Br \/ BrIf \/ BrTable \/ Return
    BY <2>1, <2>2, <2>4, BranchRefines DEF Structured!Next
  <2>5. CASE Arithmetic \/ NoLocals \/ Exit
    BY <1>4, <2>5, StopsKeep
  <2>6. CASE Block
    BY <1>4, <2>1, <2>6, BlockRefines DEF Structured!Next
  <2>7. CASE If
    BY <1>4, <2>1, <2>7, IfRefines DEF Structured!Next
  <2>8. CASE Call \/ CallIndirect
    BY <1>1, <1>4, <2>1, <2>2, <2>8, CallRefines DEF Structured!Next
  <2>9. CASE Unwind \/ FallOff
    BY <2>1, <2>9, ReturnStutters
  <2>10. CASE Repeat
    BY <1>1, <2>1, <2>10, RepeatStutters
  <2>11. CASE LeaveBlock
    BY <1>1, <2>1, <2>11, LeaveBlockRefines DEF Structured!Next
  <2>12. CASE LeaveFunction
    BY <1>1, <2>1, <2>12, LeaveFunctionRefines DEF Structured!Next
  <2>13. QED
    BY <1>4, <2>3, <2>4, <2>5, <2>6, <2>7, <2>8, <2>9, <2>10, <2>11, <2>12
    DEF Next, Instruction, PlainStep, Terminated
<1>5. ~Instruction => ~Halts
  <2>1. CASE Unwind \/ FallOff \/ Repeat
    BY <2>1 DEF Unwind, FallOff, ReturnFrom, Repeat, Halts, Halt
  <2>2. CASE LeaveBlock \/ LeaveFunction \/ LeaveMain
    BY <2>2 DEF LeaveBlock, LeaveFunction, LeaveMain, Halts, Halt
  <2>3. QED BY <2>1, <2>2 DEF Next, Terminated
<1>6. QED BY <1>2, <1>3, <1>4, <1>5

LEMMA InitRefines == Init => Structured!Init
<1> SUFFICES ASSUME Init PROVE Structured!Init
  OBVIOUS
<1> DEFINE main == FirstFrame(module.main, 0, 1)
           start(s) == FirstFrame(s, 1, 2)
           a == Activation(main, "main", 0)
           b(s) == Activation(start(s), "start", 0)
<1>1. VRun /\ status = "run" /\ jump = 0
  <2>1. VInv /\ status = "run"
    BY InitValid DEF Init
  <2>2. QED BY <2>1 DEF VInv, VRun, FInv, Init
<1>2. /\ a.kind = "main" /\ a.over = "no" /\ a.ip = Func(module.main).begin
      /\ main.begin = Func(module.main).begin /\ main.end = Func(module.main).end
  BY DEF FirstFrame, FunctionFrame, Frame, Activation
<1>3. \A s : /\ b(s).kind = "start" /\ b(s).over = "no" /\ b(s).ip = Func(s).begin
             /\ start(s).begin = Func(s).begin /\ start(s).end = Func(s).end
  BY DEF FirstFrame, FunctionFrame, Frame, Activation
<1>4. \/ module.start = {} /\ control = <<main>> /\ acts = <<a>>
      \/ \E s \in module.start : control = <<main, start(s)>> /\ acts = <<a, b(s)>>
  BY DEF Init
<1>5. \A i : Func(i) = module.funcs[i + 1]
  BY DEF Func
<1> HIDE DEF main, start, a, b
<1>6. CASE module.start = {} /\ control = <<main>> /\ acts = <<a>>
  <2>1. Len(acts) = 1 /\ acts[1] = a /\ control[1] = main /\ Top = a
    BY <1>6 DEF Top, Last
  <2>2. Labels = LabelsTo(1) /\ Pc = a.ip
    BY <1>1, <1>2, <2>1, SeenCalm DEF SeenAt, Arrived
  <2>3. LabelOf(1) = Structured!FuncLabel(module.main, 0)
    BY <1>2, <1>5, <2>1 DEF LabelOf, IsFunction, FunctionKinds, Structured!FuncLabel
  <2>4. Labels = <<Structured!FuncLabel(module.main, 0)>>
    BY <2>2, <2>3 DEF LabelsTo
  <2>5. Structured!FuncLabel(module.main, 0).begin = Func(module.main).begin
    BY <1>5 DEF Structured!FuncLabel
  <2>6. QED BY <1>1, <1>2, <1>6, <2>2, <2>4, <2>5 DEF Structured!Init
<1>7. ASSUME NEW s \in module.start, control = <<main, start(s)>>, acts = <<a, b(s)>>
      PROVE  Structured!Init
  <2>1. /\ Len(acts) = 2 /\ acts[1] = a /\ control[1] = main
        /\ acts[2] = b(s) /\ control[2] = start(s) /\ Top = b(s)
    BY <1>7 DEF Top, Last
  <2>2. Labels = LabelsTo(2) /\ Pc = b(s).ip
    BY <1>1, <1>3, <2>1, SeenCalm DEF SeenAt, Arrived
  <2>3. LabelOf(1) = Structured!FuncLabel(module.main, 0)
    BY <1>2, <1>5, <2>1 DEF LabelOf, IsFunction, FunctionKinds, Structured!FuncLabel
  <2>4. LabelOf(2) = Structured!FuncLabel(s, Func(module.main).begin)
    BY <1>2, <1>3, <1>5, <2>1 DEF LabelOf, IsFunction, FunctionKinds, Structured!FuncLabel
  <2>5. Labels = <<Structured!FuncLabel(module.main, 0),
                   Structured!FuncLabel(s, Func(module.main).begin)>>
    BY <2>2, <2>3, <2>4 DEF LabelsTo
  <2>6. Structured!FuncLabel(module.main, 0).begin = Func(module.main).begin
    BY <1>5 DEF Structured!FuncLabel
  <2>7. module.start # {} /\ Pc = module.funcs[s + 1].begin
    BY <1>3, <1>5, <2>2
  <2>8. QED BY <1>1, <2>5, <2>6, <2>7 DEF Structured!Init
<1>8. QED BY <1>4, <1>6, <1>7

(***************************************************************************)
(* Unwinding by jump_depth does what structured control flow asks for,     *)
(* whatever valid code it runs that means what it says, as long as the     *)
(* operand stack and the heap are ample.                                   *)
(***************************************************************************)
THEOREM Refinement == Spec /\ []Ample => ImplementsControlFlow
<1>1. VInv /\ NestedInv /\ VInv' /\ Ample /\ Ample' /\ [Next]_vars
        => [Structured!Next]_(Structured!vars)
  <2> SUFFICES ASSUME VInv, NestedInv, VInv', Ample, Ample', [Next]_vars
               PROVE  [Structured!Next]_(Structured!vars)
    OBVIOUS
  <2>1. CASE UNCHANGED vars
    BY <2>1
    DEF vars, Structured!vars, Labels, Pc, Remaining, Target, Pending, Jumping, LabelOf,
        IsFunction, Innermost, Top
  <2>2. CASE Next /\ status # "run"
    <3>1. UNCHANGED vars
      BY <2>2, RestsWhenStopped
    <3>2. QED BY <2>1, <3>1
  <2>3. CASE Next /\ status = "run"
    <3>1. VRun /\ NestedRun
      BY <2>3 DEF VInv, VRun, FInv, NestedInv
    <3>2. status' = "run" => VRun'
      BY DEF VInv, VRun, FInv
    <3>3. QED BY <2>3, <3>1, <3>2, StepRefines
  <2>4. QED BY <2>1, <2>2, <2>3
<1>2. QED
  BY <1>1, InitRefines, NestedAlways, PTL DEF Spec, ImplementsControlFlow, Structured!Spec
=============================================================================
