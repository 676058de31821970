-------------------------- MODULE BlockScanProofs ---------------------------
(***************************************************************************)
(* read_block's table of immediates against the binary format: whatever    *)
(* instructions of the format a block is made of, the scan stays in step   *)
(* with them and stops after the block's last one.                         *)
(***************************************************************************)
EXTENDS BlockScan, FiniteSetTheorems, Foundations

(* A LEB number of at most five bytes that lies at p..q-1.                 *)
NumberAt(i, p, q) ==
  /\ q - p \in 1..5
  /\ q - 1 <= Len(i)
  /\ i[q - 1] < 128
  /\ \A k \in p..q - 2 : i[k] >= 128

(***************************************************************************)
(* The instructions of the format, immediates included: a block type of a  *)
(* byte, as many numbers as the opcode asks for, a table as long as its    *)
(* count says, its labels of a byte each.  Float constants, whose raw      *)
(* bytes read_block takes for a number, are not among them; opcodes it     *)
(* does not know may have any immediates.                                  *)
(***************************************************************************)
Format(i) ==
  /\ i \in Seq(Bytes) /\ Len(i) > 0
  /\ \/ i[1] \in NoImmediate \cup {op_else, op_end} /\ Len(i) = 1
     \/ i[1] \in Openers /\ Len(i) = 2
     \/ i[1] \in OneLeb \ {f32_const, f64_const} /\ NumberAt(i, 2, Len(i) + 1)
     \/ /\ i[1] \in MemoryAccess
        /\ \E q \in 3..Len(i) : NumberAt(i, 2, q) /\ NumberAt(i, q, Len(i) + 1)
     \/ i[1] = op_call_indirect /\ NumberAt(i, 2, Len(i))
     \/ /\ i[1] = op_br_table
        /\ \E q \in 3..Len(i) :
             NumberAt(i, 2, q) /\ Len(i) = q + LebValue(i, 2, q - 2)
     \/ i[1] \notin Known

ASSUME InFormat == \A i \in Instructions : Format(i)

(* net_bracket is a uint8_t: no construct lies deeper than it counts.      *)
ASSUME Shallow ==
  MaxLength \in Nat /\ \A b \in Bodies : \A n \in 0..Len(b) : Depth(b, n) < 256

-----------------------------------------------------------------------------
(* Bytes that stand at address a of the code.                              *)
Holds(code, a, i) ==
  a + Len(i) - 1 <= Len(code) /\ \A k \in 1..Len(i) : code[a + k - 1] = i[k]

SevenBits(code, p, n) == [k \in 1..n |-> (code[p + k - 1] % 128) * Weight[k]]

LEMMA LebIsSum ==
  ASSUME NEW code, NEW p, NEW n \in Nat
  PROVE  \E f : IsSum(f, SevenBits(code, p, n), n) /\ LebValue(code, p, n) = f[n]
<1> DEFINE Good(f) == f = [k \in 0..n |-> IF k = 0 THEN 0
                             ELSE f[k - 1] + (code[p + k - 1] % 128) * Weight[k]]
           sum == CHOOSE f : Good(f)
<1>1. \A f : Good(f) <=> IsSum(f, SevenBits(code, p, n), n)
  <2> SUFFICES ASSUME NEW f PROVE Good(f) <=> IsSum(f, SevenBits(code, p, n), n)
    OBVIOUS
  <2> DEFINE byte(k) == (code[p + k - 1] % 128) * Weight[k]
  <2>1. \A k \in 1..n : SevenBits(code, p, n)[k] = byte(k)
    BY DEF SevenBits
  <2> HIDE DEF byte
  <2>2. [k \in 0..n |-> IF k = 0 THEN 0 ELSE f[k - 1] + byte(k)]
          = [k \in 0..n |-> IF k = 0 THEN 0 ELSE f[k - 1] + SevenBits(code, p, n)[k]]
    BY <2>1
  <2>3. QED BY <2>2, Zenon DEF IsSum, byte
<1>2. \E f : Good(f)
  BY <1>1, SumExists
<1>3. Good(sum)
  BY <1>2, Zenon
<1>4. LebValue(code, p, n) = sum[n]
  BY DEF LebValue
<1> HIDE DEF Good, sum
<1>5. QED BY <1>1, <1>3, <1>4

(* A number is read the same wherever it stands.                           *)
LEMMA LebRead ==
  ASSUME NEW code, IsSeq(code), NEW a \in Nat \ {0},
         NEW i \in Seq(Bytes), Holds(code, a, i),
         NEW p \in Nat \ {0}, NEW q \in Nat, NumberAt(i, p, q)
  PROVE  /\ ReadLeb(code, a + p - 1).next = a + q - 1
         /\ ReadLeb(code, a + p - 1).value = LebValue(i, p, q - p)
         /\ LebValue(i, p, q - p) \in Nat
<1> DEFINE last == {n \in 1..5 : a + p - 1 + n - 1 <= Len(code) /\ code[a + p - 1 + n - 1] < 128}
           N == q - p
           at == a + p - 1
<1>0. /\ Len(code) \in Nat /\ Len(i) \in Nat /\ N \in 1..5 /\ at \in Nat \ {0}
      /\ q - 1 <= Len(i) /\ N - 1 = q - p - 1
  BY Shape DEF NumberAt
<1>1. \A k \in 1..N : /\ at + k - 1 <= Len(code) /\ code[at + k - 1] = i[p + k - 1]
                      /\ i[p + k - 1] \in Bytes
  <2> TAKE k \in 1..N
  <2>1. p + k - 1 \in 1..Len(i) /\ at + k - 1 = a + (p + k - 1) - 1
    BY <1>0
  <2>2. code[a + (p + k - 1) - 1] = i[p + k - 1]
    BY <2>1 DEF Holds
  <2>3. i[p + k - 1] \in Bytes
    BY <2>1, ElementOfSeq
  <2>4. at + k - 1 <= Len(code)
    BY <2>1, <1>0 DEF Holds
  <2>5. QED BY <2>1, <2>2, <2>3, <2>4
<1>2. N \in last /\ \A k \in last : N <= k
  <2>1. N \in last
    <3>1. p + N - 1 = q - 1
      BY <1>0
    <3>2. i[p + N - 1] < 128
      BY <3>1 DEF NumberAt
    <3>3. N \in 1..N
      BY <1>0
    <3>4. at + N - 1 <= Len(code) /\ code[at + N - 1] < 128
      BY <1>1, <3>2, <3>3
    <3>5. QED BY <1>0, <3>4
  <2>2. ASSUME NEW k \in last, k < N PROVE FALSE
    <3>1. k \in 1..N /\ p + k - 1 \in p..q - 2
      BY <1>0, <2>2
    <3>2. i[p + k - 1] >= 128 /\ i[p + k - 1] \in Bytes /\ code[at + k - 1] = i[p + k - 1]
      BY <1>1, <3>1 DEF NumberAt
    <3>3. code[at + k - 1] < 128
      OBVIOUS
    <3>4. \A x \in Bytes : ~(x >= 128 /\ x < 128)
      BY DEF Bytes
    <3>5. QED BY <3>2, <3>3, <3>4, Zenon
  <2>3. last \subseteq Int /\ N \in Int
    BY <1>0
  <2>4. QED BY <2>1, <2>2, <2>3
<1>3. Min(last) = N
  <2>1. \A m \in last : (\A k \in last : m <= k) => m = N
    <3>1. last \subseteq Int /\ N \in Int
      BY <1>0
    <3> HIDE DEF last, N
    <3>2. QED BY <1>2, <3>1
  <2>2. Min(last) \in last /\ \A k \in last : Min(last) <= k
    <3> HIDE DEF last
    <3>1. QED BY <1>2, Zenon DEF Min
  <2>3. QED BY <2>1, <2>2
<1>4. /\ ReadLeb(code, at).next = at + N
      /\ ReadLeb(code, at).value = LebValue(code, at, N)
  <2>1. last # {}
    BY <1>2
  <2>2. ReadLeb(code, at) = IF last = {} THEN [value |-> 0, next |-> at]
          ELSE [value |-> LebValue(code, at, Min(last)), next |-> at + Min(last)]
    BY DEF ReadLeb
  <2> HIDE DEF last, at, N
  <2>3. QED BY <1>3, <2>1, <2>2
<1>5. PICK f : IsSum(f, SevenBits(code, at, N), N) /\ LebValue(code, at, N) = f[N]
  BY <1>0, LebIsSum
<1>6. PICK g : IsSum(g, SevenBits(i, p, N), N) /\ LebValue(i, p, N) = g[N]
  BY <1>0, LebIsSum
<1>7. \A k \in 1..N : SevenBits(code, at, N)[k] = SevenBits(i, p, N)[k]
  BY <1>1 DEF SevenBits
<1>8. f[N] = g[N]
  <2>1. N \in Nat /\ N <= N
    BY <1>0
  <2> HIDE DEF N, at
  <2>2. QED BY <1>5, <1>6, <1>7, <2>1, SumsAgree
<1>9. g[N] \in Nat
  <2>1. ASSUME NEW k \in 1..N PROVE SevenBits(i, p, N)[k] \in Nat
    <3>1. i[p + k - 1] % 128 \in Nat
      <4>1. \A x \in Bytes : x % 128 \in Nat
        BY DEF Bytes
      <4>2. QED BY <1>1, <4>1
    <3>2. k \in {1, 2, 3, 4, 5}
      BY <1>0
    <3>3. Weight[k] \in Nat
      BY <3>2 DEF Weight
    <3>4. \A x \in Nat, y \in Nat : x * y \in Nat
      OBVIOUS
    <3>5. SevenBits(i, p, N)[k] = (i[p + k - 1] % 128) * Weight[k]
      BY DEF SevenBits
    <3>6. QED BY <3>1, <3>3, <3>4, <3>5
  <2>2. N \in Nat /\ N \in 0..N
    BY <1>0
  <2> HIDE DEF N
  <2>3. QED BY <1>6, <2>1, <2>2, SumsAreNatural
<1>10. at + N = a + q - 1
  BY <1>0
<1>11. QED BY <1>4, <1>5, <1>6, <1>8, <1>9, <1>10

(* The kinds of opcode are told apart.                                     *)
LEMMA Kinds ==
  ASSUME NEW op \in Known
  PROVE  /\ op \in NoImmediate \cup {op_else, op_end} =>
              op \notin Openers \cup OneLeb \cup MemoryAccess \cup {op_br_table, op_call_indirect}
         /\ op \in OneLeb => op \notin Openers \cup {op_br_table, op_call_indirect}
         /\ op \in MemoryAccess =>
              op \notin Openers \cup OneLeb \cup {op_br_table, op_call_indirect}
         /\ op = op_call_indirect => op \notin Openers \cup {op_br_table}
         /\ op = op_br_table => op \notin Openers
         /\ op \in Openers =>
              op \notin OneLeb \cup MemoryAccess \cup {op_br_table, op_call_indirect}
BY DEF Known, NoImmediate, OneLeb, MemoryAccess, Openers, Numeric, F64Arithmetic,
       op_unreachable, op_nop, op_block, op_loop, op_if, op_else, op_end, op_br, op_br_if,
       op_br_table, op_return, op_call, op_call_indirect, op_drop, op_select, op_local_get,
       op_global_set, memory_size, memory_grow, i32_const, i64_const, f32_const, f64_const

(* Wherever it stands, an instruction is stepped over exactly.             *)
LEMMA ScanNextExact ==
  ASSUME NEW code, IsSeq(code), NEW a \in Nat \ {0}, NEW i, Format(i), i[1] \in Known,
         Holds(code, a, i)
  PROVE  ScanNext(code, a) = a + Len(i)
<1>1. i \in Seq(Bytes) /\ Len(i) \in Nat \ {0} /\ a \in Nat
  BY DEF Format
<1>2. code[a] = i[1]
  <2>1. code[a + 1 - 1] = i[1]
    BY <1>1 DEF Holds
  <2>2. QED BY <2>1
<1>3. ASSUME NEW p \in Nat \ {0}, NEW q \in Nat, NumberAt(i, p, q)
      PROVE  /\ AfterLeb(code, a + p - 1) = a + q - 1
             /\ TableEnd(code, a + p - 1) = a + q + LebValue(i, p, q - p)
  <2>1. /\ ReadLeb(code, a + p - 1).next = a + q - 1
        /\ ReadLeb(code, a + p - 1).value = LebValue(i, p, q - p)
        /\ LebValue(i, p, q - p) \in Nat
    BY <1>1, <1>3, LebRead
  <2>2. TableEnd(code, a + p - 1)
          = ReadLeb(code, a + p - 1).next + ReadLeb(code, a + p - 1).value + 1
    BY DEF TableEnd
  <2>3. QED BY <2>1, <2>2 DEF AfterLeb
<1>4. CASE i[1] \in NoImmediate \cup {op_else, op_end} /\ Len(i) = 1
  <2>1. ScanNext(code, a) = a + 1
    BY <1>2, <1>4, Kinds DEF ScanNext
  <2>2. QED BY <1>4, <2>1
<1>5. CASE i[1] \in Openers /\ Len(i) = 2
  <2>1. ScanNext(code, a) = a + 2
    BY <1>2, <1>5, Kinds DEF ScanNext
  <2>2. QED BY <1>5, <2>1
<1>6. CASE i[1] \in OneLeb /\ NumberAt(i, 2, Len(i) + 1)
  <2>1. ScanNext(code, a) = AfterLeb(code, a + 1)
    BY <1>2, <1>6, Kinds DEF ScanNext
  <2>2. AfterLeb(code, a + 2 - 1) = a + (Len(i) + 1) - 1
    BY <1>1, <1>3, <1>6
  <2>3. QED BY <1>1, <2>1, <2>2
<1>7. CASE /\ i[1] \in MemoryAccess
           /\ \E q \in 3..Len(i) : NumberAt(i, 2, q) /\ NumberAt(i, q, Len(i) + 1)
  <2>1. PICK q \in 3..Len(i) : NumberAt(i, 2, q) /\ NumberAt(i, q, Len(i) + 1)
    BY <1>7
  <2>2. ScanNext(code, a) = AfterLeb(code, AfterLeb(code, a + 1))
    BY <1>2, <1>7, Kinds DEF ScanNext
  <2>3. AfterLeb(code, a + 2 - 1) = a + q - 1 /\ q \in Nat \ {0}
    BY <1>1, <1>3, <2>1
  <2>4. AfterLeb(code, a + q - 1) = a + (Len(i) + 1) - 1
    BY <1>1, <1>3, <2>1, <2>3
  <2>5. QED BY <1>1, <2>2, <2>3, <2>4
<1>8. CASE i[1] = op_call_indirect /\ NumberAt(i, 2, Len(i))
  <2>1. ScanNext(code, a) = AfterLeb(code, a + 1) + 1
    BY <1>2, <1>8, Kinds DEF ScanNext
  <2>2. AfterLeb(code, a + 2 - 1) = a + Len(i) - 1
    BY <1>1, <1>3, <1>8
  <2>3. QED BY <1>1, <2>1, <2>2
<1>9. CASE /\ i[1] = op_br_table
           /\ \E q \in 3..Len(i) :
                NumberAt(i, 2, q) /\ Len(i) = q + LebValue(i, 2, q - 2)
  <2>1. PICK q \in 3..Len(i) : NumberAt(i, 2, q) /\ Len(i) = q + LebValue(i, 2, q - 2)
    BY <1>9
  <2>2. ScanNext(code, a) = TableEnd(code, a + 1)
    BY <1>2, <1>9, Kinds DEF ScanNext
  <2>3. TableEnd(code, a + 2 - 1) = a + q + LebValue(i, 2, q - 2) /\ q \in Nat
    BY <1>1, <1>3, <2>1
  <2>4. LebValue(i, 2, q - 2) \in Nat
    BY <1>1, <2>1, <2>3, LebRead
  <2>5. QED BY <1>1, <2>1, <2>2, <2>3, <2>4
<1>10. QED BY <1>4, <1>5, <1>6, <1>7, <1>8, <1>9 DEF Format

-----------------------------------------------------------------------------
(* The bytes of a block, instruction after instruction: f[k] is the first  *)
(* k of them.                                                              *)
IsConcat(f, s, n) == f = [k \in 0..n |-> IF k = 0 THEN <<>> ELSE f[k - 1] \o s[k]]

LEMMA ConcatExists == ASSUME NEW s, NEW n \in Nat PROVE \E f : IsConcat(f, s, n)
<1> DEFINE S == {m \in Nat : \E f : IsConcat(f, s, m)}
<1>1. 0 \in S
  <2> DEFINE f == [k \in 0..0 |-> <<>>]
  <2>1. IsConcat(f, s, 0)
    BY DEF IsConcat
  <2>2. QED BY <2>1
<1>2. ASSUME NEW m \in Nat, m \in S PROVE m + 1 \in S
  <2>1. PICK f : IsConcat(f, s, m)
    BY <1>2
  <2> DEFINE g == [k \in 0..m + 1 |-> IF k = m + 1 THEN f[m] \o s[m + 1] ELSE f[k]]
  <2>2. g = [k \in 0..m + 1 |-> IF k = 0 THEN <<>> ELSE g[k - 1] \o s[k]]
    <3>1. ASSUME NEW k \in 0..m + 1 PROVE g[k] = IF k = 0 THEN <<>> ELSE g[k - 1] \o s[k]
      <4>1. CASE k = m + 1
        <5>1. g[k] = f[m] \o s[m + 1] /\ g[k - 1] = f[m] /\ k # 0
          BY <4>1
        <5> HIDE DEF g
        <5>2. QED BY <4>1, <5>1
      <4>2. CASE k # m + 1
        <5>1. k \in 0..m /\ g[k] = f[k]
          BY <4>2
        <5>2. f[k] = IF k = 0 THEN <<>> ELSE f[k - 1] \o s[k]
          BY <2>1, <5>1 DEF IsConcat
        <5>3. k # 0 => g[k - 1] = f[k - 1]
          BY <4>2
        <5> HIDE DEF g
        <5>4. QED BY <5>1, <5>2, <5>3
      <4>3. QED BY <4>1, <4>2
    <3>2. g = [k \in 0..m + 1 |-> g[k]]
      OBVIOUS
    <3> HIDE DEF g
    <3>3. QED BY <3>1, <3>2
  <2> HIDE DEF g
  <2>3. IsConcat(g, s, m + 1)
    BY <2>2 DEF IsConcat
  <2>4. QED BY <2>3
<1> HIDE DEF S
<1>3. Nat \subseteq S
  BY <1>1, <1>2, SetInduction
<1>4. QED BY <1>3 DEF S

LEMMA FlattenIsConcat ==
  ASSUME NEW s, IsSeq(s), \A k \in 1..Len(s) : IsSeq(s[k]), NEW f, IsConcat(f, s, Len(s))
  PROVE  FlattenSeq(s) = f[Len(s)]
<1> DEFINE n == Len(s)
<1>1. n \in Nat
  BY Shape
<1>2. \A k \in 0..n : f[k] = IF k = 0 THEN <<>> ELSE f[k - 1] \o s[k]
  BY DEF IsConcat
<1>3. CASE n = 0
  <2>1. s = <<>>
    BY <1>3, EmptySeq DEF IsSeq
  <2>2. FlattenSeq(s) = s
    BY <1>3 DEF FlattenSeq
  <2>3. QED BY <1>2, <1>3, <2>1, <2>2
<1>4. CASE n # 0
  <2> DEFINE Good(g) == g = [k \in 1..n |-> IF k = 1 THEN s[k] ELSE g[k - 1] \o s[k]]
             flatten == CHOOSE g : Good(g)
             h == [k \in 1..n |-> f[k]]
  <2>1. f[1] = s[1]
    <3>1. 1 \in 1..n /\ 1 \in 0..n /\ 1 # 0 /\ 1 - 1 = 0 /\ 0 \in 0..n
      BY <1>1, <1>4
    <3>2. IsSeq(<<>>) /\ IsSeq(s[1]) /\ Len(<<>>) = 0
      BY <3>1 DEF IsSeq
    <3>3. f[1] = <<>> \o s[1]
      BY <1>2, <3>1
    <3>4. /\ IsSeq(<<>> \o s[1]) /\ Len(<<>> \o s[1]) = 0 + Len(s[1])
          /\ \A k \in 1..Len(s[1]) : (<<>> \o s[1])[0 + k] = s[1][k]
      BY <3>2, ConcatFacts
    <3>5. Len(s[1]) \in Nat
      BY <3>2, Shape
    <3>6. Len(<<>> \o s[1]) = Len(s[1]) /\ \A k \in 1..Len(s[1]) : (<<>> \o s[1])[k] = s[1][k]
      BY <3>4, <3>5
    <3>7. <<>> \o s[1] = s[1]
      BY <3>2, <3>4, <3>6, Extensional
    <3>8. QED BY <3>3, <3>7
  <2>2. Good(h)
    <3>1. ASSUME NEW k \in 1..n PROVE h[k] = IF k = 1 THEN s[k] ELSE h[k - 1] \o s[k]
      <4>1. CASE k = 1
        BY <2>1, <4>1
      <4>2. CASE k # 1
        <5>1. k \in 0..n /\ k # 0 /\ k - 1 \in 1..n
          BY <1>1, <4>2
        <5>2. f[k] = f[k - 1] \o s[k] /\ h[k] = f[k] /\ h[k - 1] = f[k - 1]
          BY <1>2, <5>1
        <5> HIDE DEF h
        <5>3. QED BY <4>2, <5>2
      <4>3. QED BY <4>1, <4>2
    <3>2. h = [k \in 1..n |-> h[k]]
      OBVIOUS
    <3> HIDE DEF h, n
    <3>3. QED BY <3>1, <3>2
  <2>3. Good(flatten)
    BY <2>2, Zenon
  <2>4. FlattenSeq(s) = flatten[n]
    BY <1>4 DEF FlattenSeq
  <2> HIDE DEF flatten, h
  <2>5. \A k \in 1..n : flatten[k] = IF k = 1 THEN s[k] ELSE flatten[k - 1] \o s[k]
    BY <2>3
  <2> DEFINE T == {k \in Nat : k # 0 => flatten[k] = f[k]}
  <2>6. 0 \in T
    OBVIOUS
  <2>7. ASSUME NEW k \in 0..n - 1, k \in T PROVE k + 1 \in T
    <3>1. /\ k + 1 \in 1..n /\ k + 1 \in 0..n /\ k + 1 # 0 /\ k + 1 - 1 = k
          /\ k + 1 = 1 <=> k = 0
      BY <1>1
    <3>2. flatten[k + 1] = IF k + 1 = 1 THEN s[k + 1] ELSE flatten[k] \o s[k + 1]
      BY <2>5, <3>1
    <3>3. f[k + 1] = f[k] \o s[k + 1]
      <4>1. \A j \in 0..n : j = k + 1 => j # 0 /\ j - 1 = k
        BY <1>1
      <4> HIDE DEF n
      <4>2. \A j \in 0..n : j = k + 1 => f[j] = f[k] \o s[j]
        BY <1>2, <4>1
      <4>3. QED BY <3>1, <4>2, Zenon
    <3>4. k # 0 => flatten[k] = f[k]
      BY <2>7
    <3>5. flatten[k + 1] = f[k + 1]
      BY <2>1, <3>1, <3>2, <3>3, <3>4
    <3>6. QED BY <3>5
  <2> HIDE DEF T
  <2>8. 0..n \subseteq T
    BY <1>1, <2>6, <2>7, InductionUpTo
  <2>9. n \in T
    BY <1>1, <2>8
  <2>10. QED BY <1>4, <2>4, <2>9 DEF T
<1>5. QED BY <1>3, <1>4

(* Where the instructions of a block stand in its bytes.                   *)
LEMMA Layout ==
  ASSUME NEW b, IsSeq(b), \A k \in 1..Len(b) : IsSeq(b[k]) /\ Len(b[k]) > 0
  PROVE  /\ Address(b, 0) = 1
         /\ Address(b, Len(b)) = Len(FlattenSeq(b)) + 1
         /\ IsSeq(FlattenSeq(b))
         /\ \A n \in 0..Len(b) : Address(b, n) \in Nat \ {0}
         /\ \A n \in 0..Len(b) - 1 :
              /\ Address(b, n + 1) = Address(b, n) + Len(b[n + 1])
              /\ Holds(FlattenSeq(b), Address(b, n), b[n + 1])
<1> DEFINE N == Len(b)
<1>1. N \in Nat
  BY Shape
<1>2. PICK f : IsConcat(f, b, N)
  BY <1>1, ConcatExists
<1>3. /\ \A k \in 0..N : f[k] = IF k = 0 THEN <<>> ELSE f[k - 1] \o b[k]
  BY <1>2 DEF IsConcat
<1>4. f[0] = <<>> /\ \A k \in 0..N - 1 : f[k + 1] = f[k] \o b[k + 1]
  <2>1. f[0] = <<>>
    <3>1. 0 \in 0..N
      BY <1>1
    <3>2. QED BY <1>3, <3>1, Zenon
  <2>2. ASSUME NEW k \in 0..N - 1 PROVE f[k + 1] = f[k] \o b[k + 1]
    <3>1. k + 1 \in 0..N /\ \A j \in 0..N : j = k + 1 => j # 0 /\ j - 1 = k
      BY <1>1
    <3>2. \A j \in 0..N : j = k + 1 => f[j] = f[k] \o b[j]
      BY <1>3, <3>1
    <3>3. QED BY <3>1, <3>2, Zenon
  <2>3. QED BY <2>1, <2>2
<1> HIDE DEF N
<1>5. \A n \in 0..N : IsSeq(f[n])
  <2> DEFINE S == {n \in Nat : IsSeq(f[n])}
  <2>1. 0 \in S
    <3>1. IsSeq(<<>>)
      BY DEF IsSeq
    <3>2. QED BY <1>4, <3>1
  <2>2. ASSUME NEW n \in 0..N - 1, n \in S PROVE n + 1 \in S
    <3>1. IsSeq(f[n]) /\ IsSeq(b[n + 1]) /\ n + 1 \in Nat
      BY <1>1, <2>2 DEF N
    <3>2. IsSeq(f[n] \o b[n + 1])
      BY <3>1, ConcatFacts
    <3>3. QED BY <1>4, <3>1, <3>2
  <2> HIDE DEF S
  <2>3. 0..N \subseteq S
    BY <1>1, <2>1, <2>2, InductionUpTo
  <2>4. QED BY <2>3 DEF S
<1>6. ASSUME NEW n \in 0..N PROVE FlattenSeq(SubSeq(b, 1, n)) = f[n]
  <2> DEFINE s == SubSeq(b, 1, n)
             g == [k \in 0..n |-> f[k]]
  <2>1. IsSeq(s) /\ Len(s) = n /\ \A k \in 1..n : s[k] = b[k]
    <3>1. 1 \in 1..Len(b) + 1 /\ n \in 1 - 1..Len(b) /\ n - 1 + 1 = n
      BY <1>1 DEF N
    <3>2. /\ IsSeq(s) /\ Len(s) = n - 1 + 1
          /\ \A k \in 1..n - 1 + 1 : s[k] = b[1 + k - 1]
      BY <3>1, SubSeqFacts
    <3>3. \A k \in 1..n : 1 + k - 1 = k
      OBVIOUS
    <3> HIDE DEF s
    <3>4. QED BY <3>1, <3>2, <3>3
  <2> HIDE DEF s
  <2>2. \A k \in 1..n : IsSeq(s[k])
    BY <1>1, <2>1 DEF N
  <2>3. IsConcat(g, s, n)
    <3>1. ASSUME NEW k \in 0..n PROVE g[k] = IF k = 0 THEN <<>> ELSE g[k - 1] \o s[k]
      <4>1. CASE k = 0
        BY <1>4, <4>1
      <4>2. CASE k # 0
        <5>1. k - 1 \in 0..N - 1 /\ k - 1 + 1 = k /\ k - 1 \in 0..n /\ k \in 1..n
          BY <1>1, <4>2
        <5>2. f[k] = f[k - 1] \o b[k]
          BY <1>4, <5>1, Zenon
        <5>3. g[k] = f[k] /\ g[k - 1] = f[k - 1]
          BY <5>1
        <5> HIDE DEF g
        <5>4. QED BY <2>1, <4>2, <5>1, <5>2, <5>3
      <4>3. QED BY <4>1, <4>2
    <3>2. g = [k \in 0..n |-> g[k]]
      OBVIOUS
    <3> HIDE DEF g
    <3>3. QED BY <3>1, <3>2 DEF IsConcat
  <2>4. FlattenSeq(s) = g[n]
    <3>1. \A k \in 1..Len(s) : IsSeq(s[k])
      BY <2>1, <2>2
    <3>2. IsConcat(g, s, Len(s))
      BY <2>1, <2>3
    <3> HIDE DEF g
    <3>3. QED BY <2>1, <3>1, <3>2, FlattenIsConcat
  <2>5. g[n] = f[n]
    OBVIOUS
  <2>6. QED BY <2>4, <2>5 DEF s
<1>7. FlattenSeq(b) = f[N]
  BY <1>2, FlattenIsConcat DEF N
<1>8. \A n \in 0..N : Len(f[n]) \in Nat /\ Address(b, n) = 1 + Len(f[n])
  BY <1>5, <1>6, Shape DEF Address
<1>9. ASSUME NEW n \in 0..N - 1
      PROVE  /\ Len(b[n + 1]) \in Nat
             /\ Len(f[n + 1]) = Len(f[n]) + Len(b[n + 1])
             /\ \A k \in 1..Len(f[n]) : f[n + 1][k] = f[n][k]
             /\ \A k \in 1..Len(b[n + 1]) : f[n + 1][Len(f[n]) + k] = b[n + 1][k]
  <2>1. IsSeq(b[n + 1]) /\ IsSeq(f[n])
    BY <1>1, <1>5 DEF N
  <2>2. f[n + 1] = f[n] \o b[n + 1]
    BY <1>4
  <2>3. /\ Len(f[n] \o b[n + 1]) = Len(f[n]) + Len(b[n + 1])
        /\ \A k \in 1..Len(f[n]) : (f[n] \o b[n + 1])[k] = f[n][k]
        /\ \A k \in 1..Len(b[n + 1]) : (f[n] \o b[n + 1])[Len(f[n]) + k] = b[n + 1][k]
    <3>1. \A s, e : IsSeq(s) /\ IsSeq(e) =>
                      /\ Len(s \o e) = Len(s) + Len(e)
                      /\ \A k \in 1..Len(s) : (s \o e)[k] = s[k]
                      /\ \A k \in 1..Len(e) : (s \o e)[Len(s) + k] = e[k]
      BY ConcatFacts
    <3> DEFINE s == f[n]
               e == b[n + 1]
    <3>2. IsSeq(s) /\ IsSeq(e)
      BY <2>1
    <3> HIDE DEF s, e
    <3>3. /\ Len(s \o e) = Len(s) + Len(e)
          /\ \A k \in 1..Len(s) : (s \o e)[k] = s[k]
          /\ \A k \in 1..Len(e) : (s \o e)[Len(s) + k] = e[k]
      BY <3>1, <3>2
    <3>4. QED BY <3>3 DEF s, e
  <2>4. Len(b[n + 1]) \in Nat
    BY <2>1, Shape
  <2>5. QED BY <2>2, <2>3, <2>4, Zenon
<1> DEFINE F(m) == Len(f[m])
           B(m) == Len(b[m])
<1>10. /\ \A n \in 0..N : F(n) \in Nat /\ Address(b, n) = 1 + F(n)
       /\ \A n \in 0..N - 1 :
            /\ B(n + 1) \in Nat /\ F(n + 1) = F(n) + B(n + 1)
            /\ \A k \in 1..F(n) : f[n + 1][k] = f[n][k]
            /\ \A k \in 1..B(n + 1) : f[n + 1][F(n) + k] = b[n + 1][k]
  BY <1>8, <1>9, Zenon
<1> HIDE DEF F, B
(* What stands in the bytes of the first instructions stays there.         *)
<1>11. ASSUME NEW n \in 0..N
       PROVE  \A m \in n..N : F(n) <= F(m) /\ \A k \in 1..F(n) : f[m][k] = f[n][k]
  <2> DEFINE Kept(m) == F(n) <= F(m) /\ \A k \in 1..F(n) : f[m][k] = f[n][k]
             S == {m \in Nat : m >= n => Kept(m)}
  <2>0. Kept(n)
    BY <1>10
  <2>1. 0 \in S
    <3>1. 0 >= n => n = 0
      BY <1>1
    <3> HIDE DEF Kept
    <3>2. QED BY <2>0, <3>1
  <2>2. ASSUME NEW m \in 0..N - 1, m \in S PROVE m + 1 \in S
    <3>1. CASE m >= n
      <4>1. Kept(m)
        BY <2>2, <3>1
      <4>2. F(m) \in Nat /\ F(n) \in Nat /\ B(m + 1) \in Nat /\ F(m + 1) = F(m) + B(m + 1)
        BY <1>1, <1>10
      <4>3. \A k \in 1..F(m) : f[m + 1][k] = f[m][k]
        BY <1>10
      <4>4. F(n) <= F(m + 1)
        BY <4>1, <4>2
      <4>5. ASSUME NEW k \in 1..F(n) PROVE f[m + 1][k] = f[n][k]
        <5>1. k \in 1..F(m)
          BY <4>1, <4>2
        <5>2. QED BY <4>1, <4>3, <5>1, Zenon
      <4>6. QED BY <4>4, <4>5
    <3>2. CASE m < n
      <4>1. m + 1 >= n => m + 1 = n
        BY <3>2
      <4> HIDE DEF Kept
      <4>2. QED BY <2>0, <4>1
    <3>3. QED BY <3>1, <3>2
  <2> HIDE DEF S
  <2>3. 0..N \subseteq S
    BY <1>1, <2>1, <2>2, InductionUpTo
  <2> HIDE DEF Kept
  <2>4. \A m \in n..N : Kept(m)
    BY <1>1, <2>3 DEF S
  <2>5. QED BY <2>4 DEF Kept
<1>12. ASSUME NEW n \in 0..N - 1
       PROVE  /\ Address(b, n + 1) = Address(b, n) + Len(b[n + 1])
              /\ Holds(FlattenSeq(b), Address(b, n), b[n + 1])
  <2>1. n + 1 \in 0..N /\ n \in 0..N /\ N \in n + 1..N
    BY <1>1
  <2>2. /\ Address(b, n) = 1 + F(n)
        /\ Address(b, n + 1) = 1 + F(n + 1)
        /\ F(n) \in Nat /\ B(n + 1) \in Nat /\ F(N) \in Nat
        /\ F(n + 1) = F(n) + B(n + 1)
    BY <1>10, <2>1
  <2>3. F(n + 1) <= F(N) /\ \A k \in 1..F(n + 1) : f[N][k] = f[n + 1][k]
    BY <1>11, <2>1
  <2>4. \A k \in 1..B(n + 1) : f[n + 1][F(n) + k] = b[n + 1][k]
    BY <1>10
  <2>5. FlattenSeq(b) = f[N]
    BY <1>7
  <2>6. ASSUME NEW k \in 1..B(n + 1) PROVE f[N][Address(b, n) + k - 1] = b[n + 1][k]
    <3>1. Address(b, n) + k - 1 = F(n) + k /\ F(n) + k \in 1..F(n + 1)
      BY <2>2
    <3>2. f[n + 1][F(n) + k] = b[n + 1][k]
      BY <2>4
    <3>3. f[N][F(n) + k] = f[n + 1][F(n) + k]
      BY <2>3, <3>1
    <3>4. QED BY <3>1, <3>2, <3>3
  <2>7. Address(b, n) + B(n + 1) - 1 <= F(N)
    BY <2>2, <2>3
  <2>8. Address(b, n + 1) = Address(b, n) + B(n + 1)
    BY <2>2
  <2>9. Holds(f[N], Address(b, n), b[n + 1])
    BY <2>6, <2>7, Zenon DEF Holds, F, B
  <2>10. QED BY <2>5, <2>8, <2>9, Zenon DEF B
<1>13. Address(b, 0) = 1
  <2>1. 0 \in 0..N /\ Len(<<>>) = 0
    BY <1>1
  <2>2. QED BY <1>4, <1>8, <2>1
<1>14. Address(b, N) = Len(FlattenSeq(b)) + 1
  <2>1. N \in 0..N
    BY <1>1
  <2>2. QED BY <1>7, <1>8, <2>1
<1>15. \A n \in 0..N : Address(b, n) \in Nat \ {0}
  BY <1>8
<1>16. IsSeq(FlattenSeq(b))
  <2>1. N \in 0..N
    BY <1>1
  <2>2. QED BY <1>5, <1>7, <2>1
<1>17. QED BY <1>12, <1>13, <1>14, <1>15, <1>16 DEF N

-----------------------------------------------------------------------------
LEMMA CountUpTo ==
  ASSUME NEW S, NEW n \in Nat
  PROVE  /\ Cardinality({i \in 1..n : i \in S}) \in Nat
         /\ Cardinality({i \in 1..n + 1 : i \in S})
              = Cardinality({i \in 1..n : i \in S}) + IF n + 1 \in S THEN 1 ELSE 0
<1> DEFINE P == {i \in 1..n : i \in S}
<1>1. IsFiniteSet(P) /\ n + 1 \notin P
  <2>1. IsFiniteSet(1..n)
    BY FS_Interval
  <2>2. P \subseteq 1..n
    OBVIOUS
  <2>3. QED BY <2>1, <2>2, FS_Subset
<1>2. Cardinality(P) \in Nat
  BY <1>1, FS_CardinalityType
<1>3. {i \in 1..n + 1 : i \in S} = IF n + 1 \in S THEN P \cup {n + 1} ELSE P
  OBVIOUS
<1> HIDE DEF P
<1>4. Cardinality(P \cup {n + 1}) = Cardinality(P) + 1
  BY <1>1, FS_AddElement
<1>5. QED BY <1>2, <1>3, <1>4 DEF P

LEMMA DepthSteps ==
  ASSUME NEW b, NEW n \in Nat
  PROVE  /\ Depth(b, 0) = 1
         /\ Depth(b, n) \in Int
         /\ b[n + 1][1] \in Openers => Depth(b, n + 1) = Depth(b, n) + 1
         /\ b[n + 1][1] = op_end => Depth(b, n + 1) = Depth(b, n) - 1
         /\ b[n + 1][1] \notin Openers \cup {op_end} => Depth(b, n + 1) = Depth(b, n)
<1> DEFINE O == {i \in Nat : b[i][1] \in Openers}
           E == {i \in Nat : b[i][1] = op_end}
           Open(m) == Cardinality({i \in 1..m : i \in O})
           Close(m) == Cardinality({i \in 1..m : i \in E})
<1>1. \A m \in Nat : Depth(b, m) = 1 + Open(m) - Close(m)
  <2> TAKE m \in Nat
  <2>1. /\ {i \in 1..m : b[i][1] \in Openers} = {i \in 1..m : i \in O}
        /\ {i \in 1..m : b[i][1] = op_end} = {i \in 1..m : i \in E}
    OBVIOUS
  <2> HIDE DEF O, E
  <2>2. QED BY <2>1 DEF Depth
<1>2. /\ n + 1 \in O <=> b[n + 1][1] \in Openers
      /\ n + 1 \in E <=> b[n + 1][1] = op_end
  OBVIOUS
<1> HIDE DEF O, E
<1>3. Open(0) = 0 /\ Close(0) = 0
  <2>1. {i \in 1..0 : i \in O} = {} /\ {i \in 1..0 : i \in E} = {}
    OBVIOUS
  <2>2. QED BY <2>1, FS_EmptySet
<1>4. /\ Open(n) \in Nat /\ Open(n + 1) = Open(n) + IF n + 1 \in O THEN 1 ELSE 0
      /\ Close(n) \in Nat /\ Close(n + 1) = Close(n) + IF n + 1 \in E THEN 1 ELSE 0
  BY CountUpTo
<1> HIDE DEF Open, Close
<1>5. op_end \notin Openers
  BY DEF op_end, Openers, op_block, op_loop, op_if
<1>6. QED BY <1>1, <1>2, <1>3, <1>4, <1>5

(* What a block of the kind scanned is.                                    *)
LEMMA BodyFacts ==
  ASSUME NEW b \in Bodies
  PROVE  /\ IsSeq(b) /\ Len(b) \in Nat \ {0} /\ WellNested(b)
         /\ \A k \in 1..Len(b) : Format(b[k]) /\ IsSeq(b[k]) /\ Len(b[k]) > 0
<1>1. PICK n \in 1..MaxLength : b \in [1..n -> Instructions]
  BY DEF Bodies
<1>2. n \in Nat \ {0}
  BY <1>1, Shallow
<1>3. b \in Seq(Instructions) /\ Len(b) = n
  BY <1>1, <1>2
<1>4. \A k \in 1..Len(b) : Format(b[k])
  BY <1>3, InFormat, ElementOfSeq
<1>5. \A k \in 1..Len(b) : IsSeq(b[k]) /\ Len(b[k]) > 0
  BY <1>4, Zenon DEF Format, IsSeq
<1>6. WellNested(b)
  BY DEF Bodies
<1>7. QED BY <1>2, <1>3, <1>4, <1>5, <1>6 DEF IsSeq

(***************************************************************************)
(* The scan is at the start of an instruction with its bracket count the   *)
(* depth there, and has answered exactly when no instruction is left.      *)
(***************************************************************************)
At(n) ==
  ip = Address(body, n) /\ net = Depth(body, n) /\ (verdict = "found" <=> n = Len(body))
ScanInv == body \in Bodies /\ \E n \in 0..Len(body) : At(n)

LEMMA ScanInvInit == Init => ScanInv
<1> SUFFICES ASSUME Init PROVE ScanInv
  OBVIOUS
<1>1. /\ body \in Bodies /\ IsSeq(body) /\ Len(body) \in Nat \ {0}
      /\ \A k \in 1..Len(body) : IsSeq(body[k]) /\ Len(body[k]) > 0
  BY BodyFacts DEF Init
<1>2. Address(body, 0) = 1 /\ Depth(body, 0) = 1
  BY <1>1, Layout, DepthSteps
<1>3. At(0) /\ 0 \in 0..Len(body)
  BY <1>1, <1>2 DEF Init, At
<1>4. QED BY <1>1, <1>3 DEF ScanInv

(* How deep an unfinished scan can be: the block is open, and shallow.     *)
LEMMA DepthBounds ==
  ASSUME NEW b \in Bodies, NEW n \in 0..Len(b)
  PROVE  /\ Depth(b, n) < 256
         /\ n < Len(b) => Depth(b, n) > 0
         /\ n < Len(b) /\ n > 0 /\ b[n][1] = op_else => Depth(b, n) > 1
         /\ n + 1 = Len(b) => Depth(b, n) = 1 /\ b[n + 1][1] \in {op_end, op_else}
<1>1. WellNested(b) /\ Len(b) \in Nat \ {0}
  BY BodyFacts
<1>2. Depth(b, n) < 256
  BY Shallow
<1>3. n > 0 /\ n < Len(b) => n \in 1..Len(b) - 1
  BY <1>1
<1>4. n + 1 = Len(b) => n = Len(b) - 1
  BY <1>1
<1>5. Depth(b, 0) = 1
  BY DepthSteps
<1>6. QED BY <1>1, <1>2, <1>3, <1>4, <1>5 DEF WellNested

LEMMA ScanInvStep == ScanInv /\ [Next]_vars => ScanInv'
<1> SUFFICES ASSUME ScanInv, [Next]_vars PROVE ScanInv'
  OBVIOUS
<1>1. PICK n \in 0..Len(body) : At(n)
  BY DEF ScanInv
<1>2. CASE UNCHANGED vars
  <2>1. body' = body /\ ip' = ip /\ net' = net /\ verdict' = verdict
    BY <1>2 DEF vars
  <2>2. At(n)'
    BY <1>1, <2>1 DEF At
  <2>3. QED BY <2>1, <2>2 DEF ScanInv
<1>3. CASE StepOver \/ Finish \/ UnknownOpcode
  <2> DEFINE i == body[n + 1]
             op == i[1]
             depth == Depth(body, n)
             N == Len(body)
  <2>1. verdict = "scanning" /\ body' = body
    BY <1>3 DEF StepOver, Finish, UnknownOpcode, Scanning
  <2>2. /\ body \in Bodies /\ IsSeq(body) /\ N \in Nat \ {0}
        /\ \A k \in 1..N : Format(body[k]) /\ IsSeq(body[k]) /\ Len(body[k]) > 0
    BY BodyFacts DEF ScanInv
  <2>3. n \in 0..N - 1 /\ n + 1 \in 1..N /\ n + 1 \in 0..N
    BY <1>1, <2>1, <2>2 DEF At
  <2>4. /\ ip = Address(body, n) /\ ip \in Nat \ {0} /\ IsSeq(Code)
        /\ Address(body, n + 1) = ip + Len(i)
        /\ Holds(Code, ip, i)
    BY <1>1, <2>2, <2>3, Layout DEF At, Code
  <2>5. Code[ip] = op
    <3>1. Len(i) > 0 /\ IsSeq(i)
      BY <2>2, <2>3
    <3>2. Len(i) \in Nat
      BY <3>1, Shape
    <3>3. 1 \in 1..Len(i) /\ ip + 1 - 1 = ip
      BY <2>4, <3>1, <3>2
    <3>4. Code[ip + 1 - 1] = i[1]
      BY <2>4, <3>3, Zenon DEF Holds
    <3>5. QED BY <3>3, <3>4
  <2>6. /\ net = depth /\ depth \in 1..255 /\ Depth(body, n + 1) \in Int
        /\ Depth(body, n + 1) < 256
        /\ n + 1 < N => Depth(body, n + 1) > 0 /\ (op = op_else => Depth(body, n + 1) > 1)
        /\ n + 1 = N => depth = 1 /\ op \in {op_end, op_else}
    <3>1. depth \in Int /\ Depth(body, n + 1) \in Int
      BY <2>3, DepthSteps
    <3>2. n < N /\ n + 1 > 0
      BY <2>2, <2>3
    <3>3. /\ depth < 256 /\ depth > 0
          /\ n + 1 = N => depth = 1 /\ op \in {op_end, op_else}
      BY <2>2, <2>3, <3>2, DepthBounds
    <3>4. /\ Depth(body, n + 1) < 256
          /\ n + 1 < N => Depth(body, n + 1) > 0 /\ (op = op_else => Depth(body, n + 1) > 1)
      BY <2>2, <2>3, <3>2, DepthBounds
    <3>5. net = depth
      BY <1>1 DEF At
    <3> HIDE DEF depth, op, N, i
    <3>6. depth \in 1..255
      BY <3>1, <3>3
    <3>7. QED BY <3>1, <3>3, <3>4, <3>5, <3>6, Zenon
  <2>7. /\ op \in Openers => Depth(body, n + 1) = depth + 1
        /\ op = op_end => Depth(body, n + 1) = depth - 1
        /\ op \notin Openers \cup {op_end} => Depth(body, n + 1) = depth
    BY <2>3, DepthSteps
  <2>8. Format(i)
    BY <2>2, <2>3
  <2> HIDE DEF i, op, depth, N
  <2>9. /\ op_end \notin Openers /\ op_else \notin Openers /\ op_else # op_end
    BY DEF op_end, op_else, Openers, op_block, op_loop, op_if
  <2>10. ScanBracket(op, net) = Depth(body, n + 1)
    <3>1. /\ op \in Openers => ScanBracket(op, net) = (net + 1) % 256
          /\ op = op_end => ScanBracket(op, net) = (net + 255) % 256
          /\ op \notin Openers \cup {op_end} => ScanBracket(op, net) = net
      BY <2>9 DEF ScanBracket
    <3>2. op \in Openers => (net + 1) % 256 = net + 1
      BY <2>6, <2>7
    <3>3. (net + 255) % 256 = net - 1
      BY <2>6
    <3>4. QED BY <2>6, <2>7, <2>9, <3>1, <3>2, <3>3
  <2>11. op \in Known => ScanNext(Code, ip) = Address(body, n + 1)
    BY <2>4, <2>8, ScanNextExact DEF op
  <2>12. CASE StepOver
    <3>1. op \in Known /\ ~ScanStops(op, net) /\ ip' = ScanNext(Code, ip)
          /\ net' = ScanBracket(op, net) /\ verdict' = "scanning"
      BY <2>1, <2>5, <2>12, Zenon DEF StepOver, Scanning
    <3>2. n + 1 # N
      BY <2>6, <3>1 DEF ScanStops
    <3>3. At(n + 1)'
      BY <2>1, <2>10, <2>11, <3>1, <3>2 DEF At, N
    <3>4. QED BY <2>1, <2>2, <2>3, <3>3 DEF ScanInv, N
  <2>13. CASE Finish
    <3>1. op \in {op_end, op_else} /\ ScanStops(op, net) /\ ip' = ip + 1
          /\ net' = ScanBracket(op, net) /\ verdict' = "found"
      BY <2>5, <2>13, Zenon DEF Finish, Scanning
    <3>2. op \in Known
      BY <3>1 DEF Known
    <3>3. ScanNext(Code, ip) = ip + 1
      BY <2>5, <3>1, <3>2, Kinds DEF ScanNext
    <3>4. n + 1 = N
      <4> SUFFICES ASSUME n + 1 # N PROVE FALSE
        OBVIOUS
      <4>1. n + 1 < N
        BY <2>2, <2>3 DEF N
      <4>2. Depth(body, n + 1) > 0 /\ (op = op_else => Depth(body, n + 1) > 1) /\ depth = 1
        BY <2>6, <3>1, <4>1 DEF ScanStops
      <4>3. QED BY <2>7, <2>9, <3>1, <4>2
    <3>5. At(n + 1)'
      BY <2>1, <2>10, <2>11, <3>1, <3>2, <3>3, <3>4 DEF At, N
    <3>6. QED BY <2>1, <2>2, <2>3, <3>5 DEF ScanInv, N
  <2>14. CASE UnknownOpcode
    <3>1. ip' = ip /\ net' = net /\ verdict' = "unknown"
      BY <2>14 DEF UnknownOpcode
    <3>2. n # N
      BY <2>2, <2>3 DEF N
    <3>3. At(n)'
      BY <1>1, <2>1, <3>1, <3>2 DEF At, N
    <3>4. QED BY <2>1, <2>2, <3>3 DEF ScanInv
  <2>15. QED BY <1>3, <2>12, <2>13, <2>14
<1>4. CASE Done
  BY <1>2, <1>4 DEF Done
<1>5. QED BY <1>2, <1>3, <1>4 DEF Next

THEOREM ScanInvariant == Spec => []ScanInv
BY ScanInvInit, ScanInvStep, PTL DEF Spec

(***************************************************************************)
(* Whatever block of the format's instructions is scanned, between two     *)
(* steps the scan is at the start of an instruction and its bracket count  *)
(* is the number of constructs open there.                                 *)
(***************************************************************************)
THEOREM InStepAlways == Spec => []InStep
<1>1. ScanInv => InStep
  <2> SUFFICES ASSUME ScanInv PROVE InStep
    OBVIOUS
  <2>1. PICK n \in 0..Len(body) : At(n)
    BY DEF ScanInv
  <2>2. QED BY <2>1 DEF At, InStep, Passed
<1>2. QED BY <1>1, ScanInvariant, PTL

(***************************************************************************)
(* Whatever block of the format's instructions is scanned, a scan that     *)
(* answers has stopped after the block's last instruction.                 *)
(***************************************************************************)
THEOREM StopsAtTheEndAlways == Spec => []StopsAtTheEnd
<1>1. ScanInv => StopsAtTheEnd
  <2> SUFFICES ASSUME ScanInv, verdict = "found" PROVE ip = Len(Code) + 1
    BY DEF StopsAtTheEnd
  <2>1. PICK n \in 0..Len(body) : At(n)
    BY DEF ScanInv
  <2>2. ip = Address(body, Len(body))
    BY <2>1 DEF At
  <2>3. IsSeq(body) /\ \A k \in 1..Len(body) : IsSeq(body[k]) /\ Len(body[k]) > 0
    BY BodyFacts DEF ScanInv
  <2>4. QED BY <2>2, <2>3, Layout DEF Code
<1>2. QED BY <1>1, ScanInvariant, PTL
=============================================================================
