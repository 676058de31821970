---------------------------- MODULE Foundations ----------------------------
(***************************************************************************)
(* What the proofs of this project have in common: induction over the      *)
(* natural numbers, in which a set takes the place of the predicate, and   *)
(* what the operations on sequences do to a sequence of whatever elements. *)
(***************************************************************************)
EXTENDS Integers, Sequences, WellFoundedInduction, SequenceTheorems, TLAPS

(* A set of natural numbers that is not empty has a least element.         *)
LEMMA LeastNatural ==
  ASSUME NEW T, T \subseteq Nat, T # {}
  PROVE  \E m \in T : \A k \in T : m <= k
<1> DEFINE R == OpToRel(<, Nat)
<1>1. IsWellFoundedOn(R, Nat)
  BY NatLessThanWellFounded
<1>2. \A x, y : <<y, x>> \in R <=> (y \in Nat /\ x \in Nat /\ y < x)
  BY Zenon DEF OpToRel
<1> HIDE DEF R
<1>3. PICK m \in T : \A y \in T : ~(<<y, m>> \in R)
  BY <1>1, WFMin
<1>4. \A k \in T : ~(k < m)
  BY <1>2, <1>3, Zenon
<1>5. QED BY <1>4, SMT

(* A set that holds 0 and, with a number, the next holds them all.         *)
LEMMA SetInduction ==
  ASSUME NEW S, 0 \in S, \A n \in Nat : n \in S => n + 1 \in S
  PROVE  Nat \subseteq S
<1> SUFFICES ASSUME Nat \ S # {} PROVE FALSE
  OBVIOUS
<1>1. PICK m \in Nat \ S : \A k \in Nat \ S : m <= k
  BY LeastNatural
<1>2. m # 0 /\ m - 1 \in Nat /\ m - 1 \in S
  BY <1>1
<1>3. QED BY <1>1, <1>2

(* The same from a number on.                                              *)
LEMMA InductionUpTo ==
  ASSUME NEW m \in Nat, NEW S, 0 \in S, \A n \in 0..m - 1 : n \in S => n + 1 \in S
  PROVE  0..m \subseteq S
<1> DEFINE T == {n \in Nat : n <= m => n \in S}
<1>1. 0 \in T
  OBVIOUS
<1>2. \A n \in Nat : n \in T => n + 1 \in T
  OBVIOUS
<1> HIDE DEF T
<1>3. Nat \subseteq T
  BY <1>1, <1>2, SetInduction
<1>4. QED BY <1>3 DEF T

-----------------------------------------------------------------------------
IsSeq(s) == \E S : s \in Seq(S)

LEMMA Shape ==
  ASSUME NEW s, IsSeq(s)
  PROVE  Len(s) \in Nat /\ DOMAIN s = 1..Len(s)
BY LenProperties DEF IsSeq

LEMMA AppendFacts ==
  ASSUME NEW s, IsSeq(s), NEW e
  PROVE  /\ IsSeq(Append(s, e)) /\ Len(Append(s, e)) = Len(s) + 1
         /\ Append(s, e)[Len(s) + 1] = e
         /\ \A k \in 1..Len(s) : Append(s, e)[k] = s[k]
<1>1. PICK S : s \in Seq(S)
  BY DEF IsSeq
<1> DEFINE T == S \cup {e}
<1>2. s \in Seq(T) /\ e \in T
  BY <1>1, SeqMonotonic
<1> HIDE DEF T
<1>3. QED BY <1>2, AppendProperties DEF IsSeq

LEMMA ExceptFacts ==
  ASSUME NEW s, IsSeq(s), NEW i \in 1..Len(s), NEW e
  PROVE  /\ IsSeq([s EXCEPT ![i] = e]) /\ Len([s EXCEPT ![i] = e]) = Len(s)
         /\ [s EXCEPT ![i] = e][i] = e
         /\ \A k \in 1..Len(s) : k # i => [s EXCEPT ![i] = e][k] = s[k]
<1>1. PICK S : s \in Seq(S)
  BY DEF IsSeq
<1> DEFINE T == S \cup {e}
<1>2. s \in Seq(T) /\ e \in T
  BY <1>1, SeqMonotonic
<1> HIDE DEF T
<1>3. QED BY <1>2, ExceptSeq DEF IsSeq

LEMMA SubSeqFacts ==
  ASSUME NEW s, IsSeq(s), NEW m \in 1..Len(s) + 1, NEW n \in m - 1..Len(s)
  PROVE  /\ IsSeq(SubSeq(s, m, n)) /\ Len(SubSeq(s, m, n)) = n - m + 1
         /\ \A k \in 1..n - m + 1 : SubSeq(s, m, n)[k] = s[m + k - 1]
<1>1. PICK S : s \in Seq(S)
  BY DEF IsSeq
<1>2. Len(s) \in Nat /\ m \in Int /\ n \in Int
  BY Shape
<1>3. \A i \in m..n : s[i] \in S
  BY <1>1, <1>2, ElementOfSeq
<1>4. /\ SubSeq(s, m, n) \in Seq(S)
      /\ Len(SubSeq(s, m, n)) = IF m <= n THEN n - m + 1 ELSE 0
      /\ \A i \in 1..n - m + 1 : SubSeq(s, m, n)[i] = s[m + i - 1]
  BY <1>2, <1>3, SubSeqProperties
<1>5. QED BY <1>2, <1>4 DEF IsSeq

LEMMA ConcatFacts ==
  ASSUME NEW s, IsSeq(s), NEW t, IsSeq(t)
  PROVE  /\ IsSeq(s \o t) /\ Len(s \o t) = Len(s) + Len(t)
         /\ \A k \in 1..Len(s) : (s \o t)[k] = s[k]
         /\ \A k \in 1..Len(t) : (s \o t)[Len(s) + k] = t[k]
<1>1. PICK S : s \in Seq(S)
  BY DEF IsSeq
<1>2. PICK T : t \in Seq(T)
  BY DEF IsSeq
<1> DEFINE U == S \cup T
<1>3. s \in Seq(U) /\ t \in Seq(U)
  BY <1>1, <1>2, SeqMonotonic
<1> HIDE DEF U
<1>4. /\ s \o t \in Seq(U) /\ Len(s \o t) = Len(s) + Len(t)
      /\ \A i \in 1..Len(s) + Len(t) :
           (s \o t)[i] = IF i <= Len(s) THEN s[i] ELSE t[i - Len(s)]
  BY <1>3, ConcatProperties
<1>5. Len(s) \in Nat /\ Len(t) \in Nat
  BY Shape
<1>6. ASSUME NEW k \in 1..Len(t) PROVE (s \o t)[Len(s) + k] = t[k]
  <2>1. Len(s) + k \in 1..Len(s) + Len(t) /\ ~(Len(s) + k <= Len(s)) /\ Len(s) + k - Len(s) = k
    BY <1>5
  <2>2. QED BY <1>4, <2>1
<1>7. ASSUME NEW k \in 1..Len(s) PROVE (s \o t)[k] = s[k]
  BY <1>4, <1>5
<1>8. QED BY <1>4, <1>6, <1>7 DEF IsSeq

LEMMA Extensional ==
  ASSUME NEW s, IsSeq(s), NEW t, IsSeq(t), Len(s) = Len(t),
         \A k \in 1..Len(s) : s[k] = t[k]
  PROVE  s = t
<1>1. PICK S : s \in Seq(S)
  BY DEF IsSeq
<1>2. PICK T : t \in Seq(T)
  BY DEF IsSeq
<1> DEFINE U == S \cup T
<1>3. s \in Seq(U) /\ t \in Seq(U)
  BY <1>1, <1>2, SeqMonotonic
<1> HIDE DEF U
<1>4. QED BY <1>3, SeqEqual

-----------------------------------------------------------------------------
(* A sum, as a recursive function writes it: f[k] is h[1] + ... + h[k].    *)
IsSum(f, h, n) == f = [k \in 0..n |-> IF k = 0 THEN 0 ELSE f[k - 1] + h[k]]

LEMMA SumExists == ASSUME NEW h, NEW n \in Nat PROVE \E f : IsSum(f, h, n)
<1> DEFINE S == {m \in Nat : \E f : IsSum(f, h, m)}
<1>1. 0 \in S
  <2> DEFINE f == [k \in 0..0 |-> 0]
  <2>1. IsSum(f, h, 0)
    BY DEF IsSum
  <2>2. QED BY <2>1
<1>2. ASSUME NEW m \in Nat, m \in S PROVE m + 1 \in S
  <2>1. PICK f : IsSum(f, h, m)
    BY <1>2
  <2> DEFINE g == [k \in 0..m + 1 |-> IF k = m + 1 THEN f[m] + h[m + 1] ELSE f[k]]
  <2>2. g = [k \in 0..m + 1 |-> IF k = 0 THEN 0 ELSE g[k - 1] + h[k]]
    <3>1. ASSUME NEW k \in 0..m + 1 PROVE g[k] = IF k = 0 THEN 0 ELSE g[k - 1] + h[k]
      <4>1. CASE k = m + 1
        <5>1. g[k] = f[m] + h[m + 1] /\ g[k - 1] = f[m] /\ k # 0
          BY <4>1
        <5>2. QED BY <4>1, <5>1
      <4>2. CASE k # m + 1
        <5>1. k \in 0..m /\ g[k] = f[k]
          BY <4>2
        <5>2. f[k] = IF k = 0 THEN 0 ELSE f[k - 1] + h[k]
          BY <2>1, <5>1 DEF IsSum
        <5>3. k # 0 => g[k - 1] = f[k - 1]
          BY <4>2
        <5> HIDE DEF g
        <5>4. QED BY <5>1, <5>2, <5>3
      <4>3. QED BY <4>1, <4>2
    <3>2. g = [k \in 0..m + 1 |-> g[k]]
      OBVIOUS
    <3> HIDE DEF g
    <3>3. QED BY <3>1, <3>2
  <2> HIDE DEF g
  <2>3. IsSum(g, h, m + 1)
    BY <2>2 DEF IsSum
  <2>4. QED BY <2>3
<1> HIDE DEF S
<1>3. Nat \subseteq S
  BY <1>1, <1>2, SetInduction
<1>4. QED BY <1>3 DEF S

(* Two sums agree as far as what is summed does.                           *)
LEMMA SumsAgree ==
  ASSUME NEW f, NEW h, NEW m \in Nat, IsSum(f, h, m),
         NEW g, NEW e, NEW n \in Nat, IsSum(g, e, n),
         NEW j \in Nat, j <= m, j <= n, \A k \in 1..j : h[k] = e[k]
  PROVE  f[j] = g[j]
<1> DEFINE S == {i \in Nat : i <= j => f[i] = g[i]}
<1>0. /\ \A i \in 0..m : f[i] = IF i = 0 THEN 0 ELSE f[i - 1] + h[i]
      /\ \A i \in 0..n : g[i] = IF i = 0 THEN 0 ELSE g[i - 1] + e[i]
  BY DEF IsSum
<1>1. 0 \in S
  BY <1>0
<1>2. ASSUME NEW i \in 0..j - 1, i \in S PROVE i + 1 \in S
  <2>1. f[i + 1] = f[i + 1 - 1] + h[i + 1] /\ g[i + 1] = g[i + 1 - 1] + e[i + 1]
    BY <1>0
  <2>2. f[i] = g[i] /\ h[i + 1] = e[i + 1] /\ i + 1 - 1 = i
    BY <1>2
  <2>3. QED BY <2>1, <2>2
<1> HIDE DEF S
<1>3. 0..j \subseteq S
  BY <1>1, <1>2, InductionUpTo
<1>4. QED BY <1>3 DEF S

LEMMA SumsAreNatural ==
  ASSUME NEW f, NEW h, NEW n \in Nat, IsSum(f, h, n), \A k \in 1..n : h[k] \in Nat
  PROVE  \A k \in 0..n : f[k] \in Nat
<1> DEFINE S == {i \in Nat : f[i] \in Nat}
<1>0. \A i \in 0..n : f[i] = IF i = 0 THEN 0 ELSE f[i - 1] + h[i]
  BY DEF IsSum
<1>1. 0 \in S
  BY <1>0
<1>2. ASSUME NEW i \in 0..n - 1, i \in S PROVE i + 1 \in S
  <2>1. f[i + 1] = f[i + 1 - 1] + h[i + 1] /\ i + 1 - 1 = i /\ h[i + 1] \in Nat
    BY <1>0
  <2>2. QED BY <1>2, <2>1
<1> HIDE DEF S
<1>3. 0..n \subseteq S
  BY <1>1, <1>2, InductionUpTo
<1>4. QED BY <1>3 DEF S

-----------------------------------------------------------------------------
(* Any other recursion over 0..n whose values are in a set.                *)
Recurs(f, start, step, n) == f[0] = start /\ \A k \in 1..n : f[k] = step[<<f[k - 1], k>>]

LEMMA Recursion ==
  ASSUME NEW V, NEW start \in V, NEW step \in [V \X Nat -> V], NEW n \in Nat
  PROVE  \E f \in [0..n -> V] : Recurs(f, start, step, n)
<1> DEFINE Good(f, m) ==
             f[0] = start /\ \A k \in 1..m : f[k] = step[<<f[k - 1], k>>]
           S == {m \in Nat : \E f \in [0..m -> V] : Good(f, m)}
<1>1. 0 \in S
  <2> DEFINE f == [k \in 0..0 |-> start]
  <2>1. f \in [0..0 -> V] /\ Good(f, 0)
    OBVIOUS
  <2>2. QED BY <2>1
<1>2. ASSUME NEW m \in Nat, m \in S PROVE m + 1 \in S
  <2>1. PICK f \in [0..m -> V] : Good(f, m)
    BY <1>2
  <2> DEFINE next == step[<<f[m], m + 1>>]
             g == [k \in 0..m + 1 |-> IF k = m + 1 THEN next ELSE f[k]]
  <2>2. next \in V
    OBVIOUS
  <2> HIDE DEF next
  <2>3. g \in [0..m + 1 -> V]
    BY <2>2
  <2>4. /\ g[m + 1] = next
        /\ \A k \in 0..m : g[k] = f[k]
    OBVIOUS
  <2> HIDE DEF g
  <2>5. g[0] = start
    BY <2>1, <2>4
  <2>6. ASSUME NEW k \in 1..m + 1 PROVE g[k] = step[<<g[k - 1], k>>]
    <3>1. CASE k = m + 1
      <4>1. k - 1 = m /\ g[m] = f[m]
        BY <2>4, <3>1
      <4>2. QED BY <2>4, <3>1, <4>1 DEF next
    <3>2. CASE k # m + 1
      <4>1. k \in 1..m /\ k \in 0..m /\ k - 1 \in 0..m
        BY <3>2
      <4>2. f[k] = step[<<f[k - 1], k>>]
        BY <2>1, <4>1
      <4>3. QED BY <2>4, <4>1, <4>2
    <3>3. QED BY <3>1, <3>2
  <2>7. QED BY <2>3, <2>5, <2>6
<1> HIDE DEF S
<1>3. n \in S
  BY <1>1, <1>2, SetInduction
<1>4. QED BY <1>3, Zenon DEF S, Recurs

(* Two functions that start alike and go on alike.                         *)
Alike(f, g, n) == f[0] = g[0] /\ \A k \in 1..n : f[k - 1] = g[k - 1] => f[k] = g[k]

LEMMA Agree ==
  ASSUME NEW f, NEW g, NEW m \in Nat, Alike(f, g, m)
  PROVE  \A k \in 0..m : f[k] = g[k]
<1> DEFINE S == {k \in Nat : f[k] = g[k]}
<1>1. 0 \in S
  BY DEF Alike
<1>2. ASSUME NEW k \in 0..m - 1, k \in S PROVE k + 1 \in S
  <2>1. \A j \in 1..m : j = k + 1 => j - 1 = k
    OBVIOUS
  <2>2. k + 1 \in 1..m /\ k + 1 \in Nat
    OBVIOUS
  <2>3. f[k] = g[k]
    BY <1>2
  <2>4. \A j \in 1..m : j = k + 1 => f[j] = g[j]
    BY <2>1, <2>3 DEF Alike
  <2>5. f[k + 1] = g[k + 1]
    BY <2>2, <2>4, Zenon
  <2>6. QED BY <2>2, <2>5
<1> HIDE DEF S
<1>3. 0..m \subseteq S
  BY <1>1, <1>2, InductionUpTo
<1>4. QED BY <1>3 DEF S
=============================================================================
