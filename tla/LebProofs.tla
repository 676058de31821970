------------------------------ MODULE LebProofs ------------------------------
(***************************************************************************)
(* The codec of LebStream, for every number of bits in a byte, in a number *)
(* and bytes in a reader's reach: what is written is what is read.         *)
(***************************************************************************)
EXTENDS LebStream, Foundations

(* A quotient and its remainder are known by the equation between them.    *)
LEMMA Times ==
  ASSUME NEW b \in Nat \ {0}, NEW q \in Int, NEW r \in 0..b - 1, NEW s \in 0..b - 1,
         NEW p \in Int, b * q + r = b * p + s
  PROVE  q = p /\ r = s
<1>1. CASE q < p
  <2>1. b * (p - q) >= b
    BY <1>1
  <2>2. b * (p - q) = b * p - b * q
    OBVIOUS
  <2>3. QED BY <2>1, <2>2
<1>2. CASE p < q
  <2>1. b * (q - p) >= b
    BY <1>2
  <2>2. b * (q - p) = b * q - b * p
    OBVIOUS
  <2>3. QED BY <2>1, <2>2
<1>3. QED BY <1>1, <1>2

LEMMA Division ==
  ASSUME NEW a \in Int, NEW b \in Nat \ {0}
  PROVE  /\ a \div b \in Int /\ a % b \in 0..b - 1
         /\ a = b * (a \div b) + (a % b)
OBVIOUS

LEMMA Quotient ==
  ASSUME NEW b \in Nat \ {0}, NEW q \in Int, NEW r \in 0..b - 1
  PROVE  (b * q + r) \div b = q /\ (b * q + r) % b = r
<1>1. b * q \in Int /\ b * q + r \in Int
  OBVIOUS
<1>2. /\ (b * q + r) \div b \in Int /\ (b * q + r) % b \in 0..b - 1
      /\ b * q + r = b * ((b * q + r) \div b) + ((b * q + r) % b)
  BY <1>1, Division
<1>3. QED BY <1>2, Times

(* Dividing twice is dividing by the product.                              *)
TwiceIsOnce(x, y, z) ==
  /\ (x \div y) \div z = x \div (y * z)
  /\ x % (y * z) = (x % y) + ((x \div y) % z) * y

(* It holds for every positive y and z.                                    *)
LEMMA DivisionTwice ==
  ASSUME NEW a \in Int, NEW b \in Nat \ {0}, NEW c \in Nat \ {0}
  PROVE  TwiceIsOnce(a, b, c)
<1> DEFINE q == a \div b
           r == a % b
           p == q \div c
           d == q % c
<1>1. q \in Int /\ r \in 0..b - 1 /\ a = b * q + r
  BY Division
<1>2. p \in Int /\ d \in 0..c - 1 /\ q = c * p + d
  BY <1>1, Division
<1> HIDE DEF q, r, p, d
<1>3. b * c \in Nat \ {0}
  OBVIOUS
<1>4. d * b + r \in 0..b * c - 1
  <2>1. d * b \in Nat
    BY <1>2
  <2>2. d * b <= (c - 1) * b
    BY <1>2
  <2>3. (c - 1) * b = b * c - b
    OBVIOUS
  <2>4. b * c \in Int
    OBVIOUS
  <2>5. QED BY <1>1, <2>1, <2>2, <2>3, <2>4
<1>5. a = (b * c) * p + (d * b + r)
  <2>1. b * (c * p + d) = (b * c) * p + d * b
    BY <1>2
  <2>2. (b * c) * p \in Int /\ d * b \in Int
    BY <1>2
  <2>3. QED BY <1>1, <1>2, <2>1, <2>2
<1>6. a \div (b * c) = p /\ a % (b * c) = d * b + r
  <2> DEFINE m == b * c
             e == d * b + r
  <2>1. m \in Nat \ {0} /\ p \in Int /\ e \in 0..m - 1 /\ a = m * p + e
    BY <1>2, <1>3, <1>4, <1>5
  <2> HIDE DEF m, e
  <2>2. a \div m = p /\ a % m = e
    BY <2>1, Quotient
  <2>3. QED BY <2>2 DEF m, e
<1>7. r + d * b = d * b + r
  BY <1>1, <1>2
<1>8. QED BY <1>6, <1>7 DEF p, q, d, r, TwiceIsOnce

(* Sums may be cut to a number of bits at every step.                      *)
LEMMA CutSum ==
  ASSUME NEW x \in Int, NEW y \in Int, NEW m \in Nat \ {0}
  PROVE  ((x % m) + y) % m = (x + y) % m
<1> DEFINE q == x \div m
           r == x % m
           p == (r + y) \div m
           s == (r + y) % m
<1>1. q \in Int /\ r \in 0..m - 1 /\ x = m * q + r
  BY Division
<1>2. p \in Int /\ s \in 0..m - 1 /\ r + y = m * p + s
  BY <1>1, Division
<1> HIDE DEF q, r, p, s
<1>3. x + y = m * (q + p) + s
  <2>1. m * (q + p) = m * q + m * p
    BY <1>1, <1>2
  <2>2. m * q \in Int /\ m * p \in Int
    BY <1>1, <1>2
  <2>3. QED BY <1>1, <1>2, <2>1, <2>2
<1>4. (x + y) % m = s
  <2>1. q + p \in Int
    BY <1>1, <1>2
  <2>2. (m * (q + p) + s) % m = s
    BY <1>2, <2>1, Quotient
  <2>3. QED BY <1>3, <2>2
<1>5. QED BY <1>4 DEF r, s

-----------------------------------------------------------------------------
(* The powers of a number, and a number shifted and read group by group.   *)
PowerOf(f, b, n) == f = [k \in 0..n |-> IF k = 0 THEN 1 ELSE b * f[k - 1]]
LEMMA PowerIs ==
  ASSUME NEW b \in Nat \ {0}, NEW n \in Nat
  PROVE  \E f \in [0..n -> Nat \ {0}] : PowerOf(f, b, n) /\ Power(b, n) = f[n]
<1> DEFINE V == Nat \ {0}
           start == 1
           step == [x \in V \X Nat |-> b * x[1]]
           power == CHOOSE f : PowerOf(f, b, n)
<1>1. start \in V /\ start = 1 /\ step \in [V \X Nat -> V]
  OBVIOUS
<1>2. \A v \in V, k \in Nat : step[<<v, k>>] = b * v
  OBVIOUS
<1> HIDE DEF step, V, start, power
<1>3. PICK f \in [0..n -> V] : Recurs(f, start, step, n)
  BY <1>1, Recursion
<1>4. PowerOf(f, b, n)
  <2>1. ASSUME NEW k \in 0..n PROVE f[k] = IF k = 0 THEN 1 ELSE b * f[k - 1]
    <3>1. k # 0 => k \in 1..n /\ k - 1 \in 0..n /\ k \in Nat
      OBVIOUS
    <3>2. k # 0 => f[k] = b * f[k - 1]
      BY <1>2, <1>3, <3>1 DEF Recurs
    <3>3. QED BY <1>1, <1>3, <3>2 DEF Recurs
  <2>2. f = [k \in 0..n |-> f[k]]
    BY <1>3
  <2>3. QED BY <2>1, <2>2 DEF PowerOf
<1>5. PowerOf(power, b, n)
  BY <1>4, Zenon DEF power
<1>6. Power(b, n) = power[n]
  BY DEF Power, PowerOf, power
<1>7. \A k \in 0..n : power[k] = f[k]
  <2>1. Alike(power, f, n)
    BY <1>4, <1>5 DEF PowerOf, Alike
  <2>2. QED BY <2>1, Agree
<1>8. n \in 0..n
  OBVIOUS
<1>9. QED BY <1>3, <1>4, <1>6, <1>7, <1>8 DEF V

LEMMA PowerStep ==
  ASSUME NEW b \in Nat \ {0}, NEW n \in Nat
  PROVE  Power(b, 0) = 1 /\ Power(b, n) \in Nat \ {0} /\ Power(b, n + 1) = b * Power(b, n)
<1>1. PICK f \in [0..n -> Nat \ {0}] : PowerOf(f, b, n) /\ Power(b, n) = f[n]
  BY PowerIs
<1>2. PICK g \in [0..n + 1 -> Nat \ {0}] : PowerOf(g, b, n + 1) /\ Power(b, n + 1) = g[n + 1]
  <2>1. n + 1 \in Nat
    OBVIOUS
  <2>2. QED BY <2>1, PowerIs
<1>3. PICK h \in [0..0 -> Nat \ {0}] : PowerOf(h, b, 0) /\ Power(b, 0) = h[0]
  BY PowerIs
<1>4. /\ f[0] = 1 /\ \A k \in 1..n : f[k] = b * f[k - 1]
      /\ g[0] = 1 /\ \A k \in 1..n + 1 : g[k] = b * g[k - 1]
      /\ h[0] = 1
  BY <1>1, <1>2, <1>3 DEF PowerOf
<1>5. \A k \in 0..n : f[k] = g[k]
  <2>1. \A k \in 1..n : k \in 1..n + 1
    OBVIOUS
  <2>2. Alike(f, g, n)
    BY <1>4, <2>1 DEF Alike
  <2>3. QED BY <2>2, Agree
<1>6. n \in 0..n /\ n + 1 \in 1..n + 1 /\ n + 1 - 1 = n
  OBVIOUS
<1>7. g[n + 1] = b * g[n]
  BY <1>4, <1>6
<1>8. QED BY <1>1, <1>2, <1>3, <1>4, <1>5, <1>6, <1>7

(* What is left of a number after k rounds of a writer.                    *)
LeftOf(f, n, m) == f = [j \in 0..m |-> IF j = 0 THEN n ELSE f[j - 1] \div Base]
LEMMA LeftIs ==
  ASSUME NEW n \in Int, NEW m \in Nat
  PROVE  \E f \in [0..m -> Int] : LeftOf(f, n, m) /\ Left(n, m) = f[m]
<1> DEFINE V == Int
           step == [x \in V \X Nat |-> x[1] \div Base]
           left == CHOOSE f : LeftOf(f, n, m)
<1>0. Base \in Nat \ {0}
  BY LebSizes, PowerStep DEF Base
<1>1. n \in V /\ step \in [V \X Nat -> V]
  BY <1>0, Division
<1>2. \A v \in V, k \in Nat : step[<<v, k>>] = v \div Base
  OBVIOUS
<1> HIDE DEF step, V, left
<1>3. PICK f \in [0..m -> V] : Recurs(f, n, step, m)
  BY <1>1, Recursion
<1>4. LeftOf(f, n, m)
  <2>1. ASSUME NEW k \in 0..m PROVE f[k] = IF k = 0 THEN n ELSE f[k - 1] \div Base
    <3>1. k # 0 => k \in 1..m /\ k - 1 \in 0..m /\ k \in Nat
      OBVIOUS
    <3>2. k # 0 => f[k] = f[k - 1] \div Base
      BY <1>2, <1>3, <3>1 DEF Recurs
    <3>3. QED BY <1>1, <1>3, <3>2 DEF Recurs
  <2>2. f = [k \in 0..m |-> f[k]]
    BY <1>3
  <2>3. QED BY <2>1, <2>2 DEF LeftOf
<1>5. LeftOf(left, n, m)
  BY <1>4, Zenon DEF left
<1>6. Left(n, m) = left[m]
  BY DEF Left, LeftOf, left
<1>7. \A k \in 0..m : left[k] = f[k]
  <2>1. Alike(left, f, m)
    BY <1>4, <1>5 DEF LeftOf, Alike
  <2>2. QED BY <2>1, Agree
<1>8. m \in 0..m
  OBVIOUS
<1>9. QED BY <1>3, <1>4, <1>6, <1>7, <1>8 DEF V

LEMMA LeftStep ==
  ASSUME NEW n \in Int, NEW m \in Nat
  PROVE  Left(n, 0) = n /\ Left(n, m) \in Int /\ Left(n, m + 1) = Left(n, m) \div Base
<1>1. PICK f \in [0..m -> Int] : LeftOf(f, n, m) /\ Left(n, m) = f[m]
  BY LeftIs
<1>2. PICK g \in [0..m + 1 -> Int] : LeftOf(g, n, m + 1) /\ Left(n, m + 1) = g[m + 1]
  <2>1. m + 1 \in Nat
    OBVIOUS
  <2>2. QED BY <2>1, LeftIs
<1>3. PICK h \in [0..0 -> Int] : LeftOf(h, n, 0) /\ Left(n, 0) = h[0]
  BY LeftIs
<1>4. /\ f[0] = n /\ \A k \in 1..m : f[k] = f[k - 1] \div Base
      /\ g[0] = n /\ \A k \in 1..m + 1 : g[k] = g[k - 1] \div Base
      /\ h[0] = n
  BY <1>1, <1>2, <1>3 DEF LeftOf
<1>5. \A k \in 0..m : f[k] = g[k]
  <2>1. \A k \in 1..m : k \in 1..m + 1
    OBVIOUS
  <2>2. Alike(f, g, m)
    BY <1>4, <2>1 DEF Alike
  <2>3. QED BY <2>2, Agree
<1>6. m \in 0..m /\ m + 1 \in 1..m + 1 /\ m + 1 - 1 = m
  OBVIOUS
<1>7. g[m + 1] = g[m] \div Base
  BY <1>4, <1>6
<1>8. QED BY <1>1, <1>2, <1>3, <1>4, <1>5, <1>6, <1>7

-----------------------------------------------------------------------------
(* Powers of two, and the sizes of this format.                            *)
LEMMA PowerSum ==
  ASSUME NEW a \in Nat, NEW c \in Nat
  PROVE  Power(2, a + c) = Power(2, a) * Power(2, c)
<1> DEFINE S == {d \in Nat : Power(2, a + d) = Power(2, a) * Power(2, d)}
<1>0. \A d \in Nat : /\ Power(2, 0) = 1 /\ Power(2, d) \in Nat \ {0}
                    /\ Power(2, d + 1) = 2 * Power(2, d)
  BY PowerStep
<1>1. 0 \in S
  BY <1>0
<1>2. ASSUME NEW d \in Nat, d \in S PROVE d + 1 \in S
  <2>1. a + d \in Nat /\ a + (d + 1) = a + d + 1
    OBVIOUS
  <2>2. Power(2, a + d + 1) = 2 * Power(2, a + d) /\ Power(2, d + 1) = 2 * Power(2, d)
    BY <1>0, <2>1
  <2>3. Power(2, a + d) = Power(2, a) * Power(2, d)
    BY <1>2
  <2>4. \A x, y \in Int : 2 * (x * y) = x * (2 * y)
    OBVIOUS
  <2>5. 2 * (Power(2, a) * Power(2, d)) = Power(2, a) * (2 * Power(2, d))
    BY <1>0, <2>4
  <2>6. Power(2, a + (d + 1)) = Power(2, a) * Power(2, d + 1)
    BY <2>1, <2>2, <2>3, <2>5
  <2>7. QED BY <2>6
<1> HIDE DEF S
<1>3. c \in S
  BY <1>1, <1>2, SetInduction
<1>4. QED BY <1>3 DEF S

LEMMA PowerOfBase == ASSUME NEW k \in Nat PROVE Power(Base, k) = Power(2, Group * k)
<1> DEFINE S == {d \in Nat : Power(Base, d) = Power(2, Group * d)}
<1>0. Base \in Nat \ {0} /\ Group \in Nat
  BY LebSizes, PowerStep DEF Base
<1>1. 0 \in S
  <2>1. Group * 0 = 0
    BY <1>0
  <2>2. Power(Base, 0) = Power(2, Group * 0)
    BY <1>0, <2>1, PowerStep
  <2>3. QED BY <2>2
<1>2. ASSUME NEW d \in Nat, d \in S PROVE d + 1 \in S
  <2>1. Group * d \in Nat /\ Group * (d + 1) = Group + Group * d
    BY <1>0
  <2>2. Power(Base, d + 1) = Power(2, Group) * Power(Base, d)
    BY <1>0, PowerStep DEF Base
  <2>3. Power(2, Group + Group * d) = Power(2, Group) * Power(2, Group * d)
    BY <1>0, <2>1, PowerSum
  <2>4. Power(Base, d + 1) = Power(2, Group * (d + 1))
    BY <1>2, <2>1, <2>2, <2>3
  <2>5. QED BY <2>4
<1> HIDE DEF S
<1>3. k \in S
  BY <1>1, <1>2, SetInduction
<1>4. QED BY <1>3 DEF S

LEMMA Sizes ==
  /\ Base \in Nat \ {0} /\ Modulus \in Nat \ {0} /\ Half \in Nat \ {0}
  /\ Modulus = 2 * Half
  /\ \E e \in Nat \ {0} : Base = 2 * e /\ Base \div 2 = e
  /\ Groups \in 1..Width
<1>0. Group - 1 \in Nat /\ Width - 1 \in Nat /\ Group \in Nat /\ Width \in Nat
  BY LebSizes
<1>1. /\ Base = 2 * Power(2, Group - 1) /\ Power(2, Group - 1) \in Nat \ {0}
      /\ Modulus = 2 * Half /\ Half \in Nat \ {0}
  <2>1. Group - 1 + 1 = Group /\ Width - 1 + 1 = Width
    BY <1>0
  <2>2. \A d \in Nat : Power(2, d) \in Nat \ {0} /\ Power(2, d + 1) = 2 * Power(2, d)
    BY PowerStep
  <2>3. /\ Power(2, Group) = 2 * Power(2, Group - 1)
        /\ Power(2, Width) = 2 * Power(2, Width - 1)
    BY <1>0, <2>1, <2>2
  <2>4. QED BY <1>0, <2>2, <2>3 DEF Base, Modulus, Half
<1>2. \A e \in Nat \ {0} : 2 * e \in Nat \ {0} /\ (2 * e) \div 2 = e
  OBVIOUS
<1>3. Groups \in 1..Width
  <2>1. Groups # 0
    BY LebSizes
  <2>2. (Groups - 1) * 1 <= (Groups - 1) * Group
    BY <2>1, LebSizes
  <2>3. QED BY <2>1, <2>2, LebSizes
<1>4. QED BY <1>1, <1>2, <1>3

(* Groups that end below the last bit of a number, and those that do not.  *)
LEMMA Below ==
  ASSUME NEW k \in Nat, k * Group < Width
  PROVE  \E c \in Nat \ {0} : Half = Power(Base, k) * c
<1> DEFINE d == Width - 1 - Group * k
           c == Power(2, d)
<1>1. Group * k \in Nat /\ d \in Nat /\ Group * k + d = Width - 1
  BY LebSizes
<1>2. c \in Nat \ {0}
  BY <1>1, PowerStep
<1> HIDE DEF d
<1>3. Power(2, Width - 1) = Power(2, Group * k) * c
  BY <1>1, PowerSum
<1>4. QED BY <1>2, <1>3, PowerOfBase DEF Half

LEMMA Above ==
  ASSUME NEW k \in Nat, k * Group >= Width
  PROVE  \E c \in Nat \ {0} : Power(Base, k) = Modulus * c
<1> DEFINE d == Group * k - Width
           c == Power(2, d)
<1>1. Group * k \in Nat /\ Width \in Nat /\ d \in Nat /\ Group * k = Width + d
  BY LebSizes
<1>2. c \in Nat \ {0}
  BY <1>1, PowerStep
<1> HIDE DEF d
<1>3. Power(2, Width + d) = Power(2, Width) * c
  BY <1>1, PowerSum
<1>4. QED BY <1>1, <1>2, <1>3, PowerOfBase DEF Modulus

(* A number is what is left of it and the groups that were put.            *)
LEMMA Groupwise ==
  ASSUME NEW n \in Int, NEW k \in Nat
  PROVE  /\ Power(Base, k) \in Nat \ {0} /\ Left(n, k) \in Int
         /\ n = Power(Base, k) * Left(n, k) + (n % Power(Base, k))
         /\ n % Power(Base, k) \in 0..Power(Base, k) - 1
         /\ GroupAt(n, k + 1) \in 0..Base - 1
         /\ n % Power(Base, k + 1) =
              (n % Power(Base, k)) + GroupAt(n, k + 1) * Power(Base, k)
<1> DEFINE S == {j \in Nat : Left(n, j) = n \div Power(Base, j)}
<1>0. \A j \in Nat : /\ Power(Base, 0) = 1 /\ Power(Base, j) \in Nat \ {0}
                    /\ Power(Base, j + 1) = Power(Base, j) * Base
                    /\ Left(n, 0) = n /\ Left(n, j) \in Int
                    /\ Left(n, j + 1) = Left(n, j) \div Base
  <2>1. \A x, y \in Nat : x * y = y * x
    OBVIOUS
  <2>2. QED BY <2>1, Sizes, PowerStep, LeftStep
<1>a. ASSUME NEW x \in Int, NEW b \in Nat \ {0}, NEW c \in Nat \ {0}
      PROVE  /\ (x \div b) \div c = x \div (b * c)
             /\ x % (b * c) = (x % b) + ((x \div b) % c) * b
  <2>1. TwiceIsOnce(x, b, c)
    BY DivisionTwice
  <2>2. QED BY <2>1, Zenon DEF TwiceIsOnce
<1>b. Base \in Nat \ {0}
  BY Sizes
<1>1. 0 \in S
  BY <1>0
<1>2. ASSUME NEW j \in Nat, j \in S PROVE j + 1 \in S
  <2>1. (n \div Power(Base, j)) \div Base = n \div (Power(Base, j) * Base)
    <3> DEFINE b == Power(Base, j)
    <3>1. b \in Nat \ {0}
      BY <1>0
    <3> HIDE DEF b
    <3>2. (n \div b) \div Base = n \div (b * Base)
      BY <1>a, <1>b, <3>1
    <3>3. QED BY <3>2 DEF b
  <2>2. Left(n, j + 1) = n \div Power(Base, j + 1)
    BY <1>0, <1>2, <2>1
  <2>3. QED BY <2>2
<1> HIDE DEF S
<1>3. k \in S
  BY <1>1, <1>2, SetInduction
<1>4. Left(n, k) = n \div Power(Base, k)
  BY <1>3 DEF S
<1>5. GroupAt(n, k + 1) = Left(n, k) % Base
  BY DEF GroupAt
<1>6. n % (Power(Base, k) * Base) =
        (n % Power(Base, k)) + ((n \div Power(Base, k)) % Base) * Power(Base, k)
  <2> DEFINE b == Power(Base, k)
  <2>1. b \in Nat \ {0}
    BY <1>0
  <2> HIDE DEF b
  <2>2. n % (b * Base) = (n % b) + ((n \div b) % Base) * b
    BY <1>a, <1>b, <2>1
  <2>3. QED BY <2>2 DEF b
<1>7. GroupAt(n, k + 1) \in 0..Base - 1
  <2>1. \A x \in Int : x % Base \in 0..Base - 1
    BY <1>b, Division
  <2>2. QED BY <1>0, <1>5, <2>1
<1>8. /\ n = Power(Base, k) * Left(n, k) + (n % Power(Base, k))
      /\ n % Power(Base, k) \in 0..Power(Base, k) - 1
  BY <1>0, <1>4, Division
<1>9. QED BY <1>0, <1>4, <1>5, <1>6, <1>7, <1>8

-----------------------------------------------------------------------------
(* What a reader sums up of the groups of a number: its lowest bits.       *)
BitsOf(f, b, p, m) ==
  f = [j \in 0..m |->
         IF j = 0 THEN 0
         ELSE (f[j - 1] + Low(b[p + j - 1]) * Power(Base, j - 1)) % Modulus]
LEMMA BitsAre ==
  ASSUME NEW b, NEW p, NEW n \in Int, NEW k \in Nat,
         \A j \in 1..k : Low(b[p + j - 1]) = GroupAt(n, j)
  PROVE  Bits(b, p, k) = (n % Power(Base, k)) % Modulus
<1> DEFINE f == [j \in 0..k |-> (n % Power(Base, j)) % Modulus]
           sum == CHOOSE g : BitsOf(g, b, p, k)
<1>1. f[0] = 0
  <2>1. Power(Base, 0) = 1
    BY PowerStep, Sizes
  <2>2. n % 1 = 0
    OBVIOUS
  <2>3. 0 % Modulus = 0
    BY Sizes
  <2>4. QED BY <2>1, <2>2, <2>3
<1>2. ASSUME NEW j \in 1..k
      PROVE  f[j] = (f[j - 1] + Low(b[p + j - 1]) * Power(Base, j - 1)) % Modulus
  <2> DEFINE i == j - 1
             x == n % Power(Base, i)
             y == GroupAt(n, j) * Power(Base, i)
  <2>1. i \in Nat /\ i + 1 = j /\ i \in 0..k /\ j \in 0..k
    OBVIOUS
  <2>2. x \in Int /\ y \in Int /\ n % Power(Base, j) = x + y
    <3>1. /\ Power(Base, i) \in Nat /\ n % Power(Base, i) \in 0..Power(Base, i) - 1
          /\ GroupAt(n, i + 1) \in 0..Base - 1
          /\ n % Power(Base, i + 1) =
               (n % Power(Base, i)) + GroupAt(n, i + 1) * Power(Base, i)
      BY <2>1, Groupwise
    <3>2. QED BY <2>1, <3>1, Sizes
  <2>3. f[j] = (n % Power(Base, j)) % Modulus /\ f[i] = x % Modulus
    BY <2>1
  <2>4. Low(b[p + j - 1]) * Power(Base, i) = y
    OBVIOUS
  <2> HIDE DEF f, x, y
  <2>5. ((x % Modulus) + y) % Modulus = (x + y) % Modulus
    BY <2>2, Sizes, CutSum
  <2>6. QED BY <2>2, <2>3, <2>4, <2>5
<1>3. BitsOf(f, b, p, k)
  <2>1. \A j \in 0..k : f[j] =
          IF j = 0 THEN 0
          ELSE (f[j - 1] + Low(b[p + j - 1]) * Power(Base, j - 1)) % Modulus
    <3> HIDE DEF f
    <3>1. \A j \in 0..k : j # 0 => j \in 1..k
      OBVIOUS
    <3>2. QED BY <1>1, <1>2, <3>1
  <2>2. f = [j \in 0..k |-> f[j]]
    OBVIOUS
  <2> HIDE DEF f
  <2>3. QED BY <2>1, <2>2 DEF BitsOf
<1> HIDE DEF f, sum
<1>4. BitsOf(sum, b, p, k)
  BY <1>3, Zenon DEF sum
<1>5. Bits(b, p, k) = sum[k]
  BY DEF Bits, BitsOf, sum
<1>6. \A j \in 0..k : sum[j] = f[j]
  <2>1. Alike(sum, f, k)
    BY <1>3, <1>4 DEF BitsOf, Alike
  <2>2. QED BY <2>1, Agree
<1>7. f[k] = (n % Power(Base, k)) % Modulus
  BY DEF f
<1>8. QED BY <1>5, <1>6, <1>7

LEMMA Unsigned ==
  ASSUME NEW n \in Values, NEW k \in Nat, Left(n, k) = 0
  PROVE  (n % Power(Base, k)) % Modulus = n
<1>1. n \in Int /\ n \in 0..Modulus - 1 /\ Modulus \in Nat \ {0}
  BY Sizes DEF Values
<1>2. /\ n = Power(Base, k) * 0 + (n % Power(Base, k)) /\ Power(Base, k) \in Nat
      /\ n % Power(Base, k) \in 0..Power(Base, k) - 1
  BY <1>1, Groupwise
<1>3. n % Power(Base, k) = n
  BY <1>2
<1>4. QED BY <1>1, <1>3

LEMMA Signed ==
  ASSUME NEW n \in Halves, NEW k \in Nat \ {0}, OnlySignLeft(n, k),
         NEW byte, Low(byte) = GroupAt(n, k)
  PROVE  ToSigned(Extended((n % Power(Base, k)) % Modulus, k, byte, Width)) = n
<1> DEFINE P == Power(Base, k)
           r == n % P
           v == r % Modulus
<1>0. n \in Int /\ n \in -Half..Half - 1 /\ Modulus = 2 * Half /\ Half \in Nat \ {0}
  BY Sizes DEF Halves
<1>1. P \in Nat \ {0} /\ n = P * Left(n, k) + r /\ r \in 0..P - 1
  BY <1>0, Groupwise
<1>2. Left(n, k) = IF Negative(byte) THEN -1 ELSE 0
  <2>1. k - 1 \in Nat /\ k - 1 + 1 = k
    OBVIOUS
  <2>2. GroupAt(n, k - 1 + 1) \in 0..Base - 1
    BY <1>0, <2>1, Groupwise
  <2>3. Low(GroupAt(n, k)) = GroupAt(n, k)
    BY <2>1, <2>2, Sizes DEF Low
  <2>4. QED BY <2>3 DEF OnlySignLeft, Negative
<1>3. v = r % Modulus
  OBVIOUS
<1>4. k * Group >= Width => \E c \in Nat \ {0} : P = Modulus * c
  BY Above
<1>5. k * Group < Width => \E c \in Nat \ {0} : Half = P * c
  BY Below
<1> HIDE DEF P, r, v
<1>6. CASE ~Negative(byte)
  <2>1. P * 0 = 0
    BY <1>1
  <2>2. n = r
    BY <1>1, <1>2, <1>6, <2>1
  <2>3. v = n /\ n < Half
    BY <1>0, <1>1, <1>3, <2>2
  <2>4. ToSigned(Extended(v, k, byte, Width)) = n
    BY <1>0, <1>6, <2>3 DEF ToSigned, Extended
  <2>5. QED BY <2>4 DEF v, r, P
<1>7. CASE Negative(byte) /\ k * Group < Width
  <2>1. PICK c \in Nat \ {0} : Half = P * c
    BY <1>5, <1>7
  <2>2. P <= Half
    BY <1>1, <2>1
  <2>3. P * (-1) = -P
    BY <1>1
  <2>4. r = n + P
    BY <1>0, <1>1, <1>2, <1>7, <2>3
  <2>5. v = r
    BY <1>0, <1>1, <1>3, <2>2
  <2>6. ToSigned(v + Modulus - P) = n
    BY <1>0, <1>1, <2>2, <2>4, <2>5 DEF ToSigned
  <2>7. QED BY <1>7, <2>6 DEF Extended, v, r, P
<1>8. CASE Negative(byte) /\ ~(k * Group < Width)
  <2>1. PICK c \in Nat \ {0} : P = Modulus * c
    BY <1>4, <1>8, LebSizes
  <2>2. P * (-1) = -P
    BY <1>1
  <2>3. r = n + P
    BY <1>0, <1>1, <1>2, <1>8, <2>2
  <2>4. n < 0
    BY <1>0, <1>1, <2>3
  <2>5. r = Modulus * (c - 1) + (n + Modulus) /\ n + Modulus \in 0..Modulus - 1
    BY <1>0, <2>1, <2>3, <2>4
  <2>6. v = n + Modulus
    <3> DEFINE q == c - 1
               s == n + Modulus
    <3>1. q \in Int /\ s \in 0..Modulus - 1 /\ Modulus \in Nat \ {0} /\ r = Modulus * q + s
      BY <1>0, <2>5
    <3> HIDE DEF q, s
    <3>2. (Modulus * q + s) % Modulus = s
      BY <3>1, Quotient
    <3>3. QED BY <1>3, <3>1, <3>2 DEF s
  <2>7. ToSigned(v) = n
    BY <1>0, <2>6 DEF ToSigned
  <2>8. QED BY <1>8, <2>7 DEF Extended, v, r, P
<1>9. QED BY <1>6, <1>7, <1>8

-----------------------------------------------------------------------------
(* A number may be cut into k groups if a reader looks at so many and the  *)
(* rest is nothing but its sign.                                           *)
Fits(kind, n, k) ==
  /\ k \in 1..Groups
  /\ \/ kind = "u" /\ n \in Values /\ Left(n, k) = 0
     \/ kind = "s" /\ n \in Halves /\ OnlySignLeft(n, k)

LEMMA Halving ==
  ASSUME NEW x \in 0..Base - 1
  PROVE  Negative(x) <=> 2 * x >= Base
<1>1. PICK e \in Nat \ {0} : Base = 2 * e /\ Base \div 2 = e
  BY Sizes
<1>2. Low(x) = x
  BY Sizes DEF Low
<1>3. QED BY <1>1, <1>2 DEF Negative

(* What is left of a number tells its sign.                                *)
LEMMA Rest ==
  ASSUME NEW n \in Int, NEW k \in Nat
  PROVE  /\ n \in 0..Power(Base, k) - 1 => Left(n, k) = 0
         /\ n \in -Power(Base, k)..-1 => Left(n, k) = -1
         /\ Left(n, k) = 0 => n >= 0
         /\ Left(n, k) = -1 => n < 0
<1> DEFINE P == Power(Base, k)
           r == n % P
           l == Left(n, k)
<1>1. P \in Nat \ {0} /\ n = P * l + r /\ r \in 0..P - 1 /\ l \in Int
  BY Groupwise
<1> HIDE DEF P, r, l
<1>2. P * 0 = 0 /\ P * (-1) = -P
  BY <1>1
<1>3. l >= 1 => P * l >= P
  BY <1>1
<1>4. l <= -1 => P * l <= -P
  BY <1>1
<1>5. l <= -2 => P * l <= -P - P
  BY <1>1
<1>6. /\ n \in 0..P - 1 => l = 0
      /\ n \in -P..-1 => l = -1
      /\ l = 0 => n >= 0
      /\ l = -1 => n < 0
  BY <1>1, <1>2, <1>3, <1>4, <1>5
<1>7. QED BY <1>6 DEF P, l

LEMMA Enough ==
  /\ \A n \in Values : Left(n, Groups) = 0
  /\ \A n \in Halves : OnlySignLeft(n, Groups)
<1> DEFINE P == Power(Base, Groups)
           Q == Power(Base, Groups - 1)
<1>1. Groups \in Nat /\ Groups - 1 \in Nat /\ Groups - 1 + 1 = Groups
  BY Sizes, LebSizes
<1>2. P \in Nat \ {0} /\ Q \in Nat \ {0} /\ P = Base * Q
  BY <1>1, Sizes, PowerStep
<1>3. \E c \in Nat \ {0} : P = Modulus * c
  BY <1>1, LebSizes, Above
<1>5. Modulus = 2 * Half /\ Half \in Nat \ {0} /\ Base \in Nat \ {0}
  BY Sizes
<1>6. ASSUME NEW n \in Values PROVE Left(n, Groups) = 0
  <2>1. PICK c \in Nat \ {0} : P = Modulus * c
    BY <1>3
  <2> HIDE DEF P
  <2>2. P >= Modulus
    BY <1>2, <1>5, <2>1
  <2>3. n \in Int /\ n \in 0..P - 1
    BY <1>2, <1>5, <2>2 DEF Values
  <2>4. QED BY <1>1, <2>3, Rest DEF P
<1>7. ASSUME NEW n \in Halves PROVE OnlySignLeft(n, Groups)
  <2> DEFINE d == GroupAt(n, Groups)
             x == n % P
             y == n % Q
             l == Left(n, Groups)
  <2>1. n \in Int /\ n \in -Half..Half - 1
    BY <1>5 DEF Halves
  <2>2. n = P * l + x /\ x \in 0..P - 1 /\ l \in Int
    BY <1>1, <2>1, Groupwise
  <2>3. y \in 0..Q - 1 /\ d \in 0..Base - 1 /\ x = y + d * Q
    <3>1. \A k \in Nat : /\ n % Power(Base, k) \in 0..Power(Base, k) - 1
                        /\ GroupAt(n, k + 1) \in 0..Base - 1
                        /\ n % Power(Base, k + 1) =
                             (n % Power(Base, k)) + GroupAt(n, k + 1) * Power(Base, k)
      BY <2>1, Groupwise
    <3>2. QED BY <1>1, <3>1
  <2>4. PICK e \in Nat \ {0} : Base = 2 * e
    BY Sizes
  <2>5. Negative(d) <=> 2 * d >= Base
    BY <2>3, Halving
  <2>6. Half <= e * Q /\ P = 2 * (e * Q) /\ e * Q \in Nat
    <3>1. PICK c \in Nat \ {0} : P = Modulus * c
      BY <1>3
    <3> HIDE DEF P, Q
    <3>2. Modulus <= P
      BY <1>2, <1>5, <3>1
    <3>3. (2 * e) * Q = 2 * (e * Q) /\ e * Q \in Nat
      BY <1>2
    <3>4. QED BY <1>2, <1>5, <2>4, <3>2, <3>3
  <2>7. n \in 0..P - 1 => l = 0
    BY <1>1, <2>1, Rest
  <2>8. n \in -P..-1 => l = -1
    BY <1>1, <2>1, Rest
  <2> HIDE DEF P, Q, d, x, y, l
  <2>9. P * 0 = 0 /\ P * (-1) = -P
    BY <1>2
  <2>10. CASE n >= 0
    <3>1. n \in 0..P - 1
      BY <1>5, <2>1, <2>6, <2>10
    <3>2. x = n
      BY <1>2, <2>1, <2>2, <2>7, <2>9, <3>1
    <3>3. d * Q < e * Q
      BY <1>2, <1>5, <2>1, <2>3, <2>6, <3>2
    <3>4. d >= e => d * Q >= e * Q
      BY <1>2, <2>3
    <3>5. ~Negative(d)
      BY <1>2, <2>3, <2>4, <2>5, <3>3, <3>4
    <3>6. QED BY <2>7, <3>1, <3>5 DEF OnlySignLeft, l, d
  <2>11. CASE n < 0
    <3>1. n \in -P..-1
      BY <1>2, <1>5, <2>1, <2>6, <2>11
    <3>2. x = n + P
      BY <1>2, <2>1, <2>2, <2>8, <2>9, <3>1
    <3>3. d * Q > e * Q - Q
      BY <1>2, <1>5, <2>1, <2>3, <2>6, <3>2
    <3>4. d <= e - 1 => d * Q <= (e - 1) * Q
      BY <1>2, <2>3
    <3>5. (e - 1) * Q = e * Q - Q /\ d * Q \in Int
      BY <1>2, <2>3
    <3>6. d >= e
      BY <1>2, <2>3, <2>6, <3>3, <3>4, <3>5
    <3>7. Negative(d)
      BY <2>3, <2>4, <2>5, <3>6
    <3>8. QED BY <2>8, <3>1, <3>7 DEF OnlySignLeft, l, d
  <2>12. QED BY <2>1, <2>10, <2>11
<1>8. QED BY <1>6, <1>7

(* The bytes of a number, and of one that is damaged.                      *)
Overlong == [i \in 1..Groups + 1 |-> IF i <= Groups THEN Base + 1 ELSE 1]
Encodes(kind, n, bytes) ==
  \/ kind = "overlong" /\ bytes = Overlong
  \/ \E k \in 1..Groups : Fits(kind, n, k) /\ bytes = Written(n, k)

LEMMA WrittenFacts ==
  ASSUME NEW n \in Int, NEW k \in Nat
  PROVE  /\ IsSeq(Written(n, k)) /\ Len(Written(n, k)) = k
         /\ \A j \in 1..k :
              /\ Written(n, k)[j] = IF j < k THEN GroupAt(n, j) + Base ELSE GroupAt(n, j)
              /\ GroupAt(n, j) \in 0..Base - 1 /\ Written(n, k)[j] \in Byte
              /\ Low(Written(n, k)[j]) = GroupAt(n, j)
              /\ (Continues(Written(n, k)[j]) <=> j < k)
<1> DEFINE w == Written(n, k)
<1>1. Base \in Nat \ {0}
  BY Sizes
<1>2. ASSUME NEW j \in 1..k PROVE GroupAt(n, j) \in 0..Base - 1
  <2>1. j - 1 \in Nat /\ j - 1 + 1 = j
    OBVIOUS
  <2>2. QED BY <2>1, Groupwise
<1>3. w = [j \in 1..k |-> IF j < k THEN GroupAt(n, j) + Base ELSE GroupAt(n, j)]
  BY DEF Written
<1> HIDE DEF w
<1>4. ASSUME NEW j \in 1..k
      PROVE  /\ w[j] = IF j < k THEN GroupAt(n, j) + Base ELSE GroupAt(n, j)
             /\ w[j] \in Byte /\ Low(w[j]) = GroupAt(n, j) /\ (Continues(w[j]) <=> j < k)
  <2>1. w[j] = IF j < k THEN GroupAt(n, j) + Base ELSE GroupAt(n, j)
    BY <1>3
  <2>2. \A x \in 0..Base - 1 : (x + Base) % Base = x /\ x % Base = x
    BY <1>1
  <2>3. QED BY <1>1, <1>2, <2>1, <2>2 DEF Byte, Low, Continues
<1>5. w \in Seq(Byte) /\ Len(w) = k
  <2>1. DOMAIN w = 1..k /\ w = [j \in 1..k |-> w[j]]
    BY <1>3
  <2>2. QED BY <1>4, <2>1
<1>6. QED BY <1>2, <1>4, <1>5 DEF IsSeq, w

LEMMA EncodedBytes ==
  ASSUME NEW kind, NEW n, NEW bytes, Encodes(kind, n, bytes)
  PROVE  IsSeq(bytes) /\ \A j \in 1..Len(bytes) : bytes[j] \in Byte
<1>1. CASE bytes = Overlong
  <2>1. \A j \in 1..Groups + 1 : Overlong[j] \in Byte
    BY Sizes DEF Overlong, Byte
  <2>2. Overlong \in Seq(Byte)
    BY <2>1, Sizes DEF Overlong
  <2>3. QED BY <1>1, <2>2 DEF IsSeq
<1>2. ASSUME NEW k \in 1..Groups, Fits(kind, n, k), bytes = Written(n, k)
      PROVE  IsSeq(bytes) /\ \A j \in 1..Len(bytes) : bytes[j] \in Byte
  <2>1. n \in Int /\ k \in Nat
    BY <1>2, Sizes DEF Fits, Values, Halves
  <2>2. QED BY <1>2, <2>1, WrittenFacts
<1>3. QED BY <1>1, <1>2 DEF Encodes

(* A writer stops as early as it can, and can before it is too late.       *)
LEMMA PutUnsignedEncodes ==
  ASSUME NEW n \in Values
  PROVE  \E k \in 1..Groups : Fits("u", n, k) /\ put_leb_u(n) = Written(n, k)
<1> DEFINE S == {k \in 1..Width : Left(n, k) = 0}
           m == Min(S)
<1>1. Groups \in S
  BY Enough, Sizes
<1>2. \E x \in S : \A y \in S : x <= y
  <2>1. S \subseteq Nat /\ S # {}
    BY <1>1
  <2> HIDE DEF S
  <2>2. QED BY <2>1, LeastNatural
<1>3. m \in S /\ m <= Groups
  BY <1>1, <1>2, Zenon DEF Min, m
<1>4. m \in 1..Groups /\ Left(n, m) = 0
  BY <1>3, Sizes, LebSizes
<1>5. put_leb_u(n) = Written(n, m)
  BY DEF put_leb_u
<1> HIDE DEF m
<1>6. QED BY <1>4, <1>5 DEF Fits

LEMMA PutSignedEncodes ==
  ASSUME NEW n \in Halves
  PROVE  \E k \in 1..Groups : Fits("s", n, k) /\ put_leb_s(n) = Written(n, k)
<1> DEFINE S == {k \in 1..Width : OnlySignLeft(n, k)}
           m == Min(S)
<1>1. Groups \in S
  BY Enough, Sizes
<1>2. \E x \in S : \A y \in S : x <= y
  <2>1. S \subseteq Nat /\ S # {}
    BY <1>1
  <2> HIDE DEF S
  <2>2. QED BY <2>1, LeastNatural
<1>3. m \in S /\ m <= Groups
  BY <1>1, <1>2, Zenon DEF Min, m
<1>4. m \in 1..Groups /\ OnlySignLeft(n, m)
  BY <1>3, Sizes, LebSizes
<1>5. put_leb_s(n) = Written(n, m)
  BY DEF put_leb_s
<1> HIDE DEF m
<1>6. QED BY <1>4, <1>5 DEF Fits

(* A number filled up with its sign is the number cut into more groups.    *)
LEMMA SignRemains ==
  ASSUME NEW n \in Int, NEW r \in Nat, Left(n, r) \in {-1, 0}, NEW d \in Nat
  PROVE  Left(n, r + d) = Left(n, r)
<1> DEFINE S == {i \in Nat : Left(n, r + i) = Left(n, r)}
<1>1. 0 \in S
  <2>1. r + 0 = r
    OBVIOUS
  <2>2. QED BY <2>1
<1>2. ASSUME NEW i \in Nat, i \in S PROVE i + 1 \in S
  <2>1. r + i \in Nat /\ r + (i + 1) = r + i + 1
    OBVIOUS
  <2>2. Left(n, r + i + 1) = Left(n, r + i) \div Base
    BY <2>1, LeftStep
  <2>3. Left(n, r + i) = Left(n, r)
    BY <1>2
  <2>4. \A x \in {-1, 0} : x \div Base = x
    BY Sizes
  <2>5. Left(n, r + (i + 1)) = Left(n, r)
    BY <2>1, <2>2, <2>3, <2>4
  <2>6. QED BY <2>5
<1> HIDE DEF S
<1>3. d \in S
  BY <1>1, <1>2, SetInduction
<1>4. QED BY <1>3 DEF S

LEMMA PaddedEncodes ==
  ASSUME NEW kind, NEW n, NEW r \in 1..Groups, Fits(kind, n, r),
         NEW k \in 1..Groups, k > r, NEW fill, fill = IF n < 0 THEN Base - 1 ELSE 0
  PROVE  Fits(kind, n, k) /\ Padded(Written(n, r), fill, k) = Written(n, k)
<1>0. n \in Int /\ r \in Nat /\ k \in Nat /\ Groups \in Nat /\ Base \in Nat \ {0}
  BY LebSizes, Sizes DEF Fits, Values, Halves
<1>1. Left(n, r) = IF n < 0 THEN -1 ELSE 0
  <2>1. Left(n, r) \in {-1, 0}
    BY DEF Fits, OnlySignLeft
  <2>2. (Left(n, r) = 0 => n >= 0) /\ (Left(n, r) = -1 => n < 0)
    BY <1>0, Rest
  <2>3. QED BY <1>0, <2>1, <2>2
<1>2. ASSUME NEW j \in Nat, j >= r PROVE Left(n, j) = Left(n, r)
  <2> DEFINE d == j - r
  <2>1. d \in Nat /\ r + d = j
    BY <1>0, <1>2
  <2> HIDE DEF d
  <2>2. Left(n, r) \in {-1, 0}
    BY <1>1
  <2>3. QED BY <1>0, <2>1, <2>2, SignRemains
<1>3. ASSUME NEW j \in 1..k, j > r PROVE GroupAt(n, j) = fill
  <2>1. Left(n, j - 1) = Left(n, r)
    <3>1. j - 1 \in Nat /\ j - 1 >= r
      BY <1>0, <1>3
    <3>2. QED BY <1>2, <3>1
  <2>2. 0 % Base = 0 /\ (-1) % Base = Base - 1
    <3>1. Base * (-1) + (Base - 1) = -1 /\ Base - 1 \in 0..Base - 1
      BY <1>0
    <3> DEFINE q == -1
               s == Base - 1
    <3>2. (Base * q + s) % Base = s
      <4>1. q \in Int /\ s \in 0..Base - 1
        BY <1>0
      <4> HIDE DEF q, s
      <4>2. QED BY <1>0, <4>1, Quotient
    <3>3. QED BY <1>0, <3>1, <3>2
  <2>3. QED BY <1>1, <2>1, <2>2 DEF GroupAt
<1>4. Fits(kind, n, k)
  <2>1. Left(n, k) = Left(n, r)
    BY <1>0, <1>2
  <2>2. GroupAt(n, k) = fill /\ fill \in 0..Base - 1
    BY <1>0, <1>3
  <2>3. Negative(GroupAt(n, k)) <=> n < 0
    <3>1. Negative(fill) <=> 2 * fill >= Base
      BY <2>2, Halving
    <3>2. \E e \in Nat \ {0} : Base = 2 * e
      BY Sizes
    <3>3. (2 * fill >= Base) <=> n < 0
      BY <1>0, <3>2
    <3>4. QED BY <2>2, <3>1, <3>3
  <2>4. OnlySignLeft(n, k)
    BY <1>1, <2>1, <2>3 DEF OnlySignLeft
  <2>5. QED BY <1>1, <2>1, <2>4 DEF Fits
<1>5. Padded(Written(n, r), fill, k) = Written(n, k)
  <2> DEFINE w == Written(n, r)
             v == Written(n, k)
             u == [i \in 1..k |-> CASE i < r -> w[i]
                                    [] i = r -> w[i] + Base
                                    [] r < i /\ i < k -> fill + Base
                                    [] i = k -> fill]
  <2>1. /\ Len(w) = r
        /\ \A i \in 1..r : w[i] = IF i < r THEN GroupAt(n, i) + Base ELSE GroupAt(n, i)
    BY <1>0, WrittenFacts
  <2>2. v = [i \in 1..k |-> IF i < k THEN GroupAt(n, i) + Base ELSE GroupAt(n, i)]
    BY DEF Written
  <2>3. Padded(w, fill, k) = u
    BY <1>0, <2>1 DEF Padded
  <2> HIDE DEF w, v
  <2>4. ASSUME NEW i \in 1..k PROVE u[i] = v[i]
    <3>1. v[i] = IF i < k THEN GroupAt(n, i) + Base ELSE GroupAt(n, i)
      BY <2>2
    <3>2. CASE i < r
      <4>1. i \in 1..r /\ u[i] = w[i] /\ i < k
        BY <1>0, <2>1, <3>2
      <4>2. QED BY <2>1, <3>1, <3>2, <4>1
    <3>3. CASE i = r
      <4>1. i \in 1..r /\ u[i] = w[i] + Base /\ i < k
        BY <1>0, <2>1, <3>3
      <4>2. QED BY <2>1, <3>1, <3>3, <4>1
    <3>4. CASE i > r /\ i < k
      <4>1. u[i] = fill + Base
        BY <1>0, <2>1, <3>4
      <4>2. QED BY <1>3, <3>1, <3>4, <4>1
    <3>5. CASE i > r /\ i = k
      <4>1. u[i] = fill
        BY <1>0, <2>1, <3>5
      <4>2. QED BY <1>3, <3>1, <3>5, <4>1
    <3>6. QED BY <1>0, <3>2, <3>3, <3>4, <3>5
  <2>5. u = [i \in 1..k |-> u[i]] /\ v = [i \in 1..k |-> v[i]]
    BY <2>2
  <2> HIDE DEF u
  <2>6. u = v
    BY <2>4, <2>5
  <2>7. QED BY <2>3, <2>6 DEF w, v
<1>6. QED BY <1>4, <1>5

-----------------------------------------------------------------------------
(* The bytes of a number in a buffer, and what a reader makes of them.     *)
Holds(b, at, bytes) ==
  /\ at \in Nat \ {0} /\ at + Len(bytes) - 1 <= Len(b)
  /\ \A j \in 1..Len(bytes) : b[at + j - 1] = bytes[j]
Reader(kind, b, at) == IF kind = "s" THEN read_leb_s(b, at) ELSE read_leb_u(b, at)

LEMMA LastByteOf ==
  ASSUME NEW b, IsSeq(b), NEW at, NEW n \in Int, NEW k \in 1..Groups,
         Holds(b, at, Written(n, k))
  PROVE  LastByte(b, at) = {k} /\ b[at + k - 1] = Written(n, k)[k]
<1>0. Len(b) \in Nat /\ DOMAIN b = 1..Len(b) /\ at \in Nat \ {0} /\ Groups \in Nat /\ k \in Nat
  BY Shape, LebSizes, Sizes DEF Holds
<1>1. /\ Len(Written(n, k)) = k
      /\ \A j \in 1..k : Continues(Written(n, k)[j]) <=> j < k
  BY <1>0, WrittenFacts
<1>2. at + k - 1 <= Len(b) /\ \A j \in 1..k : b[at + j - 1] = Written(n, k)[j]
  BY <1>1 DEF Holds
<1>3. \A j \in 1..k : Continues(b[at + j - 1]) <=> j < k
  BY <1>1, <1>2
<1>4. k \in LastByte(b, at)
  <2>1. at + k - 1 \in DOMAIN b
    BY <1>0, <1>2
  <2>2. k \in 1..k /\ ~(k < k) /\ \A j \in 1..k - 1 : j \in 1..k /\ j < k
    BY <1>0
  <2>3. ~Continues(b[at + k - 1]) /\ \A j \in 1..k - 1 : Continues(b[at + j - 1])
    BY <1>3, <2>2, Zenon
  <2>4. QED BY <2>1, <2>3 DEF LastByte
<1>5. ASSUME NEW i \in LastByte(b, at) PROVE i = k
  <2>1. i \in 1..Groups /\ ~Continues(b[at + i - 1])
        /\ \A j \in 1..i - 1 : Continues(b[at + j - 1])
    BY <1>5 DEF LastByte
  <2>2. ~(i < k)
    BY <1>0, <1>3, <2>1
  <2>3. ~(k < i)
    <3>1. k < i => k \in 1..i - 1 /\ k \in 1..k
      BY <1>0, <2>1
    <3>2. QED BY <1>0, <1>3, <2>1, <3>1
  <2>4. QED BY <1>0, <2>1, <2>2, <2>3
<1>6. b[at + k - 1] = Written(n, k)[k]
  <2>1. k \in 1..k
    BY <1>0
  <2>2. QED BY <1>2, <2>1
<1>7. LastByte(b, at) = {k}
  BY <1>4, <1>5
<1>8. QED BY <1>6, <1>7

LEMMA ReadBack ==
  ASSUME NEW b, IsSeq(b), NEW at, NEW kind, NEW n, NEW k \in 1..Groups, Fits(kind, n, k),
         Holds(b, at, Written(n, k))
  PROVE  Reader(kind, b, at).value = n /\ Reader(kind, b, at).next = at + k
<1>0. n \in Int /\ k \in Nat \ {0}
  BY Sizes DEF Fits, Values, Halves
<1>1. LastByte(b, at) = {k} /\ b[at + k - 1] = Written(n, k)[k]
  BY <1>0, LastByteOf
<1>2. (CHOOSE i \in LastByte(b, at) : TRUE) = k
  BY <1>1
<1>3. /\ Len(Written(n, k)) = k
      /\ \A j \in 1..k : Low(Written(n, k)[j]) = GroupAt(n, j)
  BY <1>0, WrittenFacts
<1>4. \A j \in 1..k : Low(b[at + j - 1]) = GroupAt(n, j)
  BY <1>3 DEF Holds
<1>5. Bits(b, at, k) = (n % Power(Base, k)) % Modulus
  BY <1>0, <1>4, BitsAre
<1>6. CASE kind = "u"
  <2>1. n \in Values /\ Left(n, k) = 0
    BY <1>6 DEF Fits
  <2>2. (n % Power(Base, k)) % Modulus = n
    BY <1>0, <2>1, Unsigned
  <2>3. read_leb_u(b, at) = [value |-> Bits(b, at, k), next |-> at + k]
    BY <1>1, <1>2 DEF read_leb_u
  <2>4. QED BY <1>5, <1>6, <2>2, <2>3 DEF Reader
<1>7. CASE kind = "s"
  <2>1. n \in Halves /\ OnlySignLeft(n, k)
    BY <1>7 DEF Fits
  <2> DEFINE byte == b[at + k - 1]
  <2>2. Low(byte) = GroupAt(n, k)
    BY <1>0, <1>4
  <2>3. ToSigned(Extended(Bits(b, at, k), k, byte, Width)) = n
    <3> HIDE DEF byte
    <3>1. QED BY <1>0, <1>5, <2>1, <2>2, Signed
  <2>4. read_leb_s(b, at) =
          [value |-> ToSigned(Extended(Bits(b, at, k), k, byte, Width)), next |-> at + k]
    BY <1>1, <1>2 DEF read_leb_s, read_leb_s_below
  <2>5. QED BY <1>7, <2>3, <2>4 DEF Reader
<1>8. QED BY <1>6, <1>7 DEF Fits

LEMMA ReadOverlong ==
  ASSUME NEW b, NEW at, NEW kind, Holds(b, at, Overlong)
  PROVE  Reader(kind, b, at).value = 0 /\ Reader(kind, b, at).next = at
<1>1. Groups \in Nat /\ Base \in Nat /\ Base + 1 >= Base
  BY LebSizes, Sizes
<1>2. Len(Overlong) = Groups + 1 /\ \A j \in 1..Groups : Overlong[j] = Base + 1
  BY <1>1 DEF Overlong
<1>3. \A j \in 1..Groups : Continues(b[at + j - 1])
  BY <1>1, <1>2 DEF Holds, Continues
<1>4. LastByte(b, at) = {}
  BY <1>3 DEF LastByte
<1>5. QED BY <1>4 DEF Reader, read_leb_u, read_leb_s, read_leb_s_below

-----------------------------------------------------------------------------
(* The numbers lie in the buffer one behind the other, and the reader is   *)
(* at the one it reads next, or at the first that is damaged for good.     *)
Start(i) == IF i = 1 THEN 1 ELSE sent[i - 1].end
Item(i) ==
  \E bytes :
    /\ Encodes(sent[i].kind, sent[i].value, bytes) /\ Holds(buf, Start(i), bytes)
    /\ sent[i].end = Start(i) + Len(bytes)
Numbers ==
  /\ IsSeq(buf) /\ IsSeq(sent) /\ \A i \in 1..Len(buf) : buf[i] \in Byte
  /\ Start(Len(sent) + 1) = Len(buf) + 1
  /\ \A i \in 1..Len(sent) : Item(i)
Reading ==
  /\ IsSeq(got) /\ Len(got) <= Len(sent)
  /\ Sound(Len(got)) =>
       /\ pos = Start(Len(got) + 1)
       /\ \A i \in 1..Len(got) : got[i] = sent[i].value
  /\ ~Sound(Len(got)) =>
       \E j \in 1..Len(got) :
         /\ sent[j].kind = "overlong" /\ Sound(j - 1) /\ pos = Start(j)
         /\ \A i \in 1..Len(got) : got[i] = IF i < j THEN sent[i].value ELSE 0
LInv == Numbers /\ Reading

LEMMA InitInv == Init => LInv
<1> SUFFICES ASSUME Init PROVE LInv
  OBVIOUS
<1>1. buf = <<>> /\ sent = <<>> /\ pos = 1 /\ got = <<>>
  BY DEF Init
<1>2. Len(buf) = 0 /\ Len(sent) = 0 /\ Len(got) = 0
  BY <1>1
<1>3. IsSeq(buf) /\ IsSeq(sent) /\ IsSeq(got)
  BY <1>1 DEF IsSeq
<1>4. Numbers
  BY <1>2, <1>3 DEF Numbers, Start
<1>5. Reading
  BY <1>1, <1>2, <1>3 DEF Reading, Start, Sound
<1>6. QED BY <1>4, <1>5 DEF LInv

(* A number is written behind the others, before any is read.              *)
LEMMA WriteStep ==
  ASSUME LInv, NEW kind, NEW n, NEW bytes, Encodes(kind, n, bytes), Write(kind, n, bytes)
  PROVE  LInv'
<1>a. Len(sent) \in Nat /\ Len(buf) \in Nat
  BY Shape DEF LInv, Numbers
<1>b. PICK m \in Nat, l \in Nat : m = Len(sent) /\ l = Len(buf)
  BY <1>a
<1> DEFINE item == [kind |-> kind, value |-> n, end |-> l + Len(bytes) + 1]
<1>1. /\ got = <<>> /\ buf' = buf \o bytes /\ sent' = Append(sent, item)
      /\ pos' = pos /\ got' = got
  BY <1>b DEF Write, Writing
<1>2. IsSeq(buf) /\ IsSeq(sent) /\ IsSeq(bytes) /\ \A j \in 1..Len(bytes) : bytes[j] \in Byte
  BY EncodedBytes DEF LInv, Numbers
<1>3. m \in Nat /\ l \in Nat /\ Len(bytes) \in Nat
  BY <1>2, Shape
<1>4. /\ IsSeq(buf') /\ Len(buf') = l + Len(bytes)
      /\ \A k \in 1..l : buf'[k] = buf[k]
      /\ \A k \in 1..Len(bytes) : buf'[l + k] = bytes[k]
  BY <1>1, <1>2, <1>b, ConcatFacts
<1>5. /\ IsSeq(sent') /\ Len(sent') = m + 1 /\ sent'[m + 1] = item
      /\ \A k \in 1..m : sent'[k] = sent[k]
  <2> HIDE DEF item
  <2>1. QED BY <1>1, <1>2, <1>b, AppendFacts
<1>6. item.kind = kind /\ item.value = n /\ item.end = l + Len(bytes) + 1
  OBVIOUS
<1>7. Start(m + 1) = l + 1 /\ \A i \in 1..m : Item(i)
  BY <1>b DEF LInv, Numbers
<1> HIDE DEF item
<1>8. \A i \in 1..m + 1 : Start(i)' = Start(i)
  <2>1. \A i \in 1..m + 1 : i # 1 => i - 1 \in 1..m
    BY <1>3
  <2>2. QED BY <1>5, <2>1 DEF Start
<1>9. ASSUME NEW i \in 1..m PROVE Item(i)'
  <2>1. PICK c : /\ Encodes(sent[i].kind, sent[i].value, c) /\ Holds(buf, Start(i), c)
                 /\ sent[i].end = Start(i) + Len(c)
    BY <1>7 DEF Item
  <2>2. IsSeq(c) /\ Len(c) \in Nat
    BY <2>1, EncodedBytes, Shape
  <2>3. sent'[i] = sent[i] /\ Start(i)' = Start(i) /\ i \in 1..m + 1
    BY <1>3, <1>5, <1>8
  <2>4. Start(i) \in Nat \ {0} /\ Start(i) + Len(c) - 1 <= l
        /\ \A j \in 1..Len(c) : buf[Start(i) + j - 1] = c[j]
    BY <1>b, <2>1 DEF Holds
  <2>5. \A j \in 1..Len(c) : Start(i) + j - 1 \in 1..l
    BY <1>3, <2>2, <2>4
  <2>6. \A j \in 1..Len(c) : buf'[Start(i) + j - 1] = c[j]
    BY <1>4, <2>4, <2>5
  <2>7. Start(i) + Len(c) - 1 <= Len(buf')
    BY <1>3, <1>4, <2>2, <2>4
  <2>8. Holds(buf', Start(i)', c)
    BY <2>3, <2>4, <2>6, <2>7 DEF Holds
  <2>9. QED BY <2>1, <2>3, <2>8, Zenon DEF Item
<1>10. Item(m + 1)'
  <2>1. Start(m + 1)' = l + 1
    BY <1>3, <1>7, <1>8
  <2>2. \A j \in 1..Len(bytes) : l + 1 + j - 1 = l + j
    BY <1>3
  <2>3. l + 1 \in Nat \ {0} /\ l + 1 + Len(bytes) - 1 <= Len(buf')
    BY <1>3, <1>4
  <2>4. Holds(buf', l + 1, bytes)
    BY <1>4, <2>2, <2>3 DEF Holds
  <2>5. sent'[m + 1].end = l + 1 + Len(bytes)
    BY <1>3, <1>5, <1>6
  <2>6. Encodes(sent'[m + 1].kind, sent'[m + 1].value, bytes)
    BY <1>5, <1>6
  <2>7. QED BY <2>1, <2>4, <2>5, <2>6, Zenon DEF Item
<1>11. Numbers'
  <2>1. Start(m + 1 + 1)' = Len(buf') + 1
    BY <1>3, <1>4, <1>5, <1>6 DEF Start
  <2>2. ASSUME NEW i \in 1..Len(buf') PROVE buf'[i] \in Byte
    <3>1. CASE i \in 1..l
      BY <1>4, <1>b, <3>1 DEF LInv, Numbers
    <3>2. CASE i \notin 1..l
      <4>1. i - l \in 1..Len(bytes) /\ l + (i - l) = i
        BY <1>3, <1>4, <3>2
      <4>2. buf'[l + (i - l)] = bytes[i - l]
        BY <1>4, <4>1
      <4>3. QED BY <1>2, <4>1, <4>2
    <3>3. QED BY <3>1, <3>2
  <2>3. ASSUME NEW i \in 1..m + 1 PROVE Item(i)'
    <3>1. i \in 1..m \/ i = m + 1
      BY <1>3
    <3>2. QED BY <1>9, <1>10, <3>1
  <2>4. QED BY <1>4, <1>5, <2>1, <2>2, <2>3 DEF Numbers
<1>12. Reading'
  <2>1. Len(got) = 0 /\ Len(got') = 0
    BY <1>1
  <2>2. pos = Start(1) /\ Start(1) = 1 /\ Start(1)' = 1
    BY <2>1 DEF LInv, Reading, Sound, Start
  <2>3. IsSeq(got')
    BY <1>1 DEF IsSeq
  <2>4. QED BY <1>1, <1>3, <1>5, <2>1, <2>2, <2>3 DEF Reading, Sound
<1>13. QED BY <1>11, <1>12 DEF LInv

(* Every writer is one of them.                                            *)
LEMMA Writers ==
  ASSUME PutUnsigned \/ PutSigned \/ PutDataOffset \/ PutPadded \/ PutOverlong
  PROVE  \E kind, n, bytes : Encodes(kind, n, bytes) /\ Write(kind, n, bytes)
<1>1. ASSUME NEW n \in Values, NEW bytes, bytes = put_leb_u(n)
      PROVE  Encodes("u", n, bytes)
  BY <1>1, PutUnsignedEncodes DEF Encodes
<1>2. ASSUME NEW n \in Halves, NEW bytes, bytes = put_leb_s(n)
      PROVE  Encodes("s", n, bytes)
  BY <1>2, PutSignedEncodes DEF Encodes
<1>3. CASE PutUnsigned
  BY <1>1, <1>3 DEF PutUnsigned
<1>4. CASE PutSigned
  BY <1>2, <1>4 DEF PutSigned
<1>5. CASE PutDataOffset
  <2>1. PICK n \in Halves \cap Nat : Write("u", n, put_leb_s(n))
    BY <1>5 DEF PutDataOffset
  <2>2. PICK k \in 1..Groups : Fits("s", n, k) /\ put_leb_s(n) = Written(n, k)
    BY PutSignedEncodes
  <2>3. n \in Values /\ n \in Int /\ n >= 0 /\ k \in Nat
    BY Sizes DEF Values, Halves
  <2>4. Left(n, k) = 0
    BY <2>2, <2>3, Rest DEF Fits, OnlySignLeft
  <2>5. Encodes("u", n, put_leb_s(n))
    BY <2>2, <2>3, <2>4 DEF Encodes, Fits
  <2>6. QED BY <2>1, <2>5
<1>6. CASE PutPadded
  <2>1. ASSUME NEW n \in Values, NEW k \in 1..Groups, k > Len(put_leb_u(n)),
               Write("u", n, Padded(put_leb_u(n), 0, k))
        PROVE  \E kind, i, bytes : Encodes(kind, i, bytes) /\ Write(kind, i, bytes)
    <3>1. PICK r \in 1..Groups : Fits("u", n, r) /\ put_leb_u(n) = Written(n, r)
      BY PutUnsignedEncodes
    <3>2. n \in Int /\ ~(n < 0) /\ r \in Nat
      BY Sizes DEF Values
    <3>3. k > r
      BY <2>1, <3>1, <3>2, WrittenFacts
    <3>4. Fits("u", n, k) /\ Padded(Written(n, r), 0, k) = Written(n, k)
      BY <3>1, <3>2, <3>3, PaddedEncodes
    <3>5. Encodes("u", n, Padded(put_leb_u(n), 0, k))
      BY <3>1, <3>4 DEF Encodes
    <3>6. QED BY <2>1, <3>5
  <2>2. ASSUME NEW n \in Halves, NEW k \in 1..Groups, k > Len(put_leb_s(n)),
               Write("s", n, Padded(put_leb_s(n), IF n < 0 THEN Base - 1 ELSE 0, k))
        PROVE  \E kind, i, bytes : Encodes(kind, i, bytes) /\ Write(kind, i, bytes)
    <3> DEFINE fill == IF n < 0 THEN Base - 1 ELSE 0
    <3>1. PICK r \in 1..Groups : Fits("s", n, r) /\ put_leb_s(n) = Written(n, r)
      BY PutSignedEncodes
    <3>2. n \in Int /\ r \in Nat
      BY Sizes DEF Halves
    <3>3. k > r
      BY <2>2, <3>1, <3>2, WrittenFacts
    <3>4. Fits("s", n, k) /\ Padded(Written(n, r), fill, k) = Written(n, k)
      BY <3>1, <3>3, PaddedEncodes
    <3>5. Encodes("s", n, Padded(put_leb_s(n), fill, k))
      BY <3>1, <3>4 DEF Encodes
    <3>6. QED BY <2>2, <3>5
  <2>3. QED BY <1>6, <2>1, <2>2, Zenon DEF PutPadded
<1>7. CASE PutOverlong
  <2>1. Write("overlong", 0, Overlong)
    BY <1>7, Zenon DEF PutOverlong, Overlong
  <2>2. Encodes("overlong", 0, Overlong)
    BY DEF Encodes
  <2>3. QED BY <2>1, <2>2
<1>8. QED BY <1>3, <1>4, <1>5, <1>6, <1>7

(* What a reader makes of the next number, if it got so far, and of the    *)
(* first that is damaged.                                                  *)
LEMMA ReadsItem ==
  ASSUME LInv, NEW i \in 1..Len(sent), NEW kind, kind = "s" <=> sent[i].kind = "s"
  PROVE  /\ sent[i].kind # "overlong" =>
              /\ Reader(kind, buf, Start(i)).value = sent[i].value
              /\ Reader(kind, buf, Start(i)).next = Start(i + 1)
         /\ \A other : sent[i].kind = "overlong" =>
              /\ Reader(other, buf, Start(i)).value = 0
              /\ Reader(other, buf, Start(i)).next = Start(i)
<1>1. PICK bytes : /\ Encodes(sent[i].kind, sent[i].value, bytes)
                   /\ Holds(buf, Start(i), bytes) /\ sent[i].end = Start(i) + Len(bytes)
  BY DEF LInv, Numbers, Item
<1>2. Start(i + 1) = sent[i].end
  BY DEF Start
<1>3. CASE sent[i].kind = "overlong"
  <2>1. bytes = Overlong
    BY <1>1, <1>3 DEF Encodes, Fits
  <2>2. QED BY <1>1, <1>3, <2>1, ReadOverlong
<1>4. CASE sent[i].kind # "overlong"
  <2>1. PICK k \in 1..Groups :
          Fits(sent[i].kind, sent[i].value, k) /\ bytes = Written(sent[i].value, k)
    BY <1>1, <1>4 DEF Encodes
  <2>2. Len(bytes) = k
    <3>1. sent[i].value \in Int /\ k \in Nat
      BY <2>1, Sizes DEF Fits, Values, Halves
    <3>2. QED BY <2>1, <3>1, WrittenFacts
  <2>3. IsSeq(buf)
    BY DEF LInv, Numbers
  <2>4. /\ Reader(sent[i].kind, buf, Start(i)).value = sent[i].value
        /\ Reader(sent[i].kind, buf, Start(i)).next = Start(i) + k
    BY <1>1, <2>1, <2>3, ReadBack
  <2>5. Reader(kind, buf, Start(i)) = Reader(sent[i].kind, buf, Start(i))
    BY DEF Reader
  <2>6. QED BY <1>1, <1>2, <1>4, <2>2, <2>4, <2>5
<1>5. QED BY <1>3, <1>4

LEMMA GetStep == ASSUME LInv, Get PROVE LInv'
<1>a. IsSeq(got) /\ Len(got) \in Nat /\ Len(sent) \in Nat /\ Len(got) < Len(sent)
  BY Shape DEF LInv, Numbers, Reading, Get
<1>b. PICK m \in Nat : m = Len(got)
  BY <1>a
<1> DEFINE kind == sent[m + 1].kind
           r == Reader(kind, buf, pos)
<1>1. got' = Append(got, r.value) /\ pos' = r.next /\ buf' = buf /\ sent' = sent
  BY <1>b DEF Get, Current, Reader
<1>2. Numbers'
  BY <1>1 DEF LInv, Numbers, Item, Start
<1>3. m + 1 \in 1..Len(sent) /\ m + 1 <= Len(sent)
  BY <1>a, <1>b
<1>4. /\ IsSeq(got') /\ Len(got') = m + 1 /\ got'[m + 1] = r.value
      /\ \A i \in 1..m : got'[i] = got[i]
  <2> DEFINE e == r.value
  <2> HIDE DEF e
  <2>1. got' = Append(got, e)
    BY <1>1 DEF e
  <2>2. /\ IsSeq(got') /\ Len(got') = m + 1 /\ got'[m + 1] = e
        /\ \A i \in 1..m : got'[i] = got[i]
    BY <1>a, <1>b, <2>1, AppendFacts
  <2>3. QED BY <2>2 DEF e
<1>5. Sound(m) => /\ pos = Start(m + 1)
                  /\ \A i \in 1..m : got[i] = sent[i].value
  BY <1>b DEF LInv, Reading
<1>6. ~Sound(m) =>
        \E j \in 1..m : /\ sent[j].kind = "overlong" /\ Sound(j - 1) /\ pos = Start(j)
                        /\ \A i \in 1..m : got[i] = IF i < j THEN sent[i].value ELSE 0
  BY <1>b DEF LInv, Reading
<1>7. \A i \in Nat : Start(i)' = Start(i) /\ (Sound(i)' <=> Sound(i))
  BY <1>1 DEF Start, Sound
<1>8. /\ kind # "overlong" =>
           /\ Reader(kind, buf, Start(m + 1)).value = sent[m + 1].value
           /\ Reader(kind, buf, Start(m + 1)).next = Start(m + 1 + 1)
      /\ \A j \in 1..m + 1 : sent[j].kind = "overlong" =>
           /\ Reader(kind, buf, Start(j)).value = 0
           /\ Reader(kind, buf, Start(j)).next = Start(j)
  <2>1. \A j \in 1..m + 1 : j \in 1..Len(sent)
    BY <1>a, <1>3
  <2>2. kind = "s" <=> sent[m + 1].kind = "s"
    OBVIOUS
  <2> HIDE DEF kind
  <2>3. /\ sent[m + 1].kind # "overlong" =>
             /\ Reader(kind, buf, Start(m + 1)).value = sent[m + 1].value
             /\ Reader(kind, buf, Start(m + 1)).next = Start(m + 1 + 1)
    BY <1>3, <2>2, ReadsItem
  <2>4. \A j \in 1..m + 1 : sent[j].kind = "overlong" =>
           /\ Reader(kind, buf, Start(j)).value = 0
           /\ Reader(kind, buf, Start(j)).next = Start(j)
    <3> SUFFICES ASSUME NEW j \in 1..m + 1, sent[j].kind = "overlong"
                 PROVE  /\ Reader(kind, buf, Start(j)).value = 0
                        /\ Reader(kind, buf, Start(j)).next = Start(j)
      OBVIOUS
    <3>1. j \in 1..Len(sent) /\ (sent[j].kind = "s" <=> sent[j].kind = "s")
      BY <2>1
    <3>2. QED BY <3>1, ReadsItem
  <2>5. QED BY <2>3, <2>4 DEF kind
<1>9. Sound(m + 1) <=> Sound(m) /\ kind # "overlong"
  <2>1. \A i \in 1..m + 1 : i \in 1..m \/ i = m + 1
    OBVIOUS
  <2>2. m + 1 \in 1..m + 1 /\ \A i \in 1..m : i \in 1..m + 1
    OBVIOUS
  <2>3. QED BY <2>1, <2>2 DEF Sound
<1>10. Sound(m + 1) => /\ pos' = Start(m + 1 + 1)
                       /\ \A i \in 1..m + 1 : got'[i] = sent[i].value
  BY <1>1, <1>4, <1>5, <1>8, <1>9
<1>11. ASSUME ~Sound(m + 1)
       PROVE  \E j \in 1..m + 1 :
                /\ sent[j].kind = "overlong" /\ Sound(j - 1) /\ pos' = Start(j)
                /\ \A i \in 1..m + 1 : got'[i] = IF i < j THEN sent[i].value ELSE 0
  <2> DEFINE Stuck(j) ==
               /\ sent[j].kind = "overlong" /\ Sound(j - 1) /\ pos' = Start(j)
               /\ \A i \in 1..m + 1 : got'[i] = IF i < j THEN sent[i].value ELSE 0
  <2>1. CASE Sound(m)
    <3>1. kind = "overlong" /\ m + 1 \in 1..m + 1 /\ m + 1 - 1 = m
      BY <1>9, <1>11, <2>1
    <3>2. r.value = 0 /\ r.next = Start(m + 1)
      BY <1>5, <1>8, <2>1, <3>1
    <3>3. Stuck(m + 1)
      BY <1>1, <1>4, <1>5, <2>1, <3>1, <3>2
    <3>4. QED BY <3>1, <3>3
  <2>2. CASE ~Sound(m)
    <3>1. PICK j \in 1..m :
            /\ sent[j].kind = "overlong" /\ Sound(j - 1) /\ pos = Start(j)
            /\ \A i \in 1..m : got[i] = IF i < j THEN sent[i].value ELSE 0
      BY <1>6, <2>2
    <3>2. j \in 1..m + 1 /\ ~(m + 1 < j)
      BY <3>1
    <3>3. r.value = 0 /\ r.next = Start(j)
      BY <1>8, <3>1, <3>2
    <3>4. Stuck(j)
      BY <1>1, <1>4, <3>1, <3>2, <3>3
    <3>5. QED BY <3>2, <3>4
  <2>3. QED BY <2>1, <2>2
<1>12. Reading'
  <2>1. /\ (Sound(m + 1)' <=> Sound(m + 1)) /\ Start(m + 1 + 1)' = Start(m + 1 + 1)
        /\ \A j \in 1..m + 1 : Start(j)' = Start(j) /\ (Sound(j - 1)' <=> Sound(j - 1))
    BY <1>7
  <2>2. Len(got') = m + 1 /\ IsSeq(got') /\ m + 1 <= Len(sent') /\ sent' = sent
    BY <1>1, <1>3, <1>4
  <2> HIDE DEF r, kind
  <2>3. QED BY <1>10, <1>11, <2>1, <2>2 DEF Reading
<1>13. QED BY <1>2, <1>12 DEF LInv

(* The numbers in the buffer and the reader's place are invariant.         *)
THEOREM LebInvariant == Spec => []LInv
<1>1. Init => LInv
  BY InitInv
<1>2. LInv /\ [Next]_vars => LInv'
  <2> SUFFICES ASSUME LInv, [Next]_vars PROVE LInv'
    OBVIOUS
  <2>1. CASE PutUnsigned \/ PutSigned \/ PutDataOffset \/ PutPadded \/ PutOverlong
    BY <2>1, Writers, WriteStep
  <2>2. CASE Get
    BY <2>2, GetStep
  <2>3. CASE UNCHANGED vars
    BY <2>3 DEF vars, LInv, Numbers, Reading, Item, Start, Sound
  <2>4. QED BY <2>1, <2>2, <2>3 DEF Next
<1>3. QED BY <1>1, <1>2, PTL DEF Spec

(* Whatever the widths, and in whatever order numbers were written, short  *)
(* or filled up: what is read is what was written (the bb_put_leb_* of the *)
(* assembler against the read_leb_* of the loader).                        *)
THEOREM ReadsWhatWasWrittenAlways == Spec => []ReadsWhatWasWritten
<1>1. LInv => ReadsWhatWasWritten
  <2> SUFFICES ASSUME LInv, Sound(Len(got))
               PROVE  /\ \A i \in DOMAIN got : got[i] = sent[i].value
                      /\ got # <<>> => pos = sent[Len(got)].end
    BY DEF ReadsWhatWasWritten
  <2>1. IsSeq(got) /\ Len(got) \in Nat /\ DOMAIN got = 1..Len(got)
    BY Shape DEF LInv, Reading
  <2>2. got # <<>> => Len(got) # 0
    <3>1. got # <<>> /\ Len(got) = 0 => FALSE
      BY <2>1, EmptySeq DEF IsSeq
    <3>2. QED BY <3>1
  <2>3. Len(got) # 0 => Start(Len(got) + 1) = sent[Len(got)].end
    BY <2>1 DEF Start
  <2>4. QED BY <2>1, <2>2, <2>3 DEF LInv, Reading
<1>2. QED BY <1>1, LebInvariant, PTL

(* A reader never gets past a number that does not end in time.            *)
THEOREM StopsAtOverlongAlways == Spec => []StopsAtOverlong
<1>1. LInv => StopsAtOverlong
  <2> SUFFICES ASSUME LInv, NEW i \in DOMAIN got, ~Sound(i)
               PROVE  got[i] = 0 /\ \E j \in 1..i :
                        /\ sent[j].kind = "overlong"
                        /\ pos = IF j = 1 THEN 1 ELSE sent[j - 1].end
    BY DEF StopsAtOverlong
  <2>1. Len(got) \in Nat /\ i \in 1..Len(got)
    BY Shape DEF LInv, Reading
  <2>2. ~Sound(Len(got))
    BY <2>1 DEF Sound
  <2>3. PICK j \in 1..Len(got) :
          /\ sent[j].kind = "overlong" /\ Sound(j - 1) /\ pos = Start(j)
          /\ \A k \in 1..Len(got) : got[k] = IF k < j THEN sent[k].value ELSE 0
    BY <2>2 DEF LInv, Reading
  <2>4. ~(i < j)
    <3>1. i < j => \A k \in 1..i : k \in 1..j - 1
      BY <2>1
    <3>2. QED BY <2>3, <3>1 DEF Sound
  <2>5. j \in 1..i
    BY <2>1, <2>4
  <2>6. QED BY <2>1, <2>3, <2>4, <2>5 DEF Start
<1>2. QED BY <1>1, LebInvariant, PTL

(* No writer writes what is no byte, or a number that is too long.         *)
THEOREM AlwaysFitsAlways == Spec => []AlwaysFits
<1>1. LInv => AlwaysFits
  <2> SUFFICES ASSUME LInv PROVE AlwaysFits
    OBVIOUS
  <2>1. /\ IsSeq(buf) /\ IsSeq(sent)
        /\ DOMAIN buf = 1..Len(buf) /\ DOMAIN sent = 1..Len(sent)
    BY Shape DEF LInv, Numbers
  <2>2. ASSUME NEW i \in 1..Len(sent), sent[i].kind # "overlong"
        PROVE  sent[i].end - Start(i) <= Groups
    <3>1. PICK bytes : /\ Encodes(sent[i].kind, sent[i].value, bytes)
                       /\ Holds(buf, Start(i), bytes) /\ sent[i].end = Start(i) + Len(bytes)
      BY DEF LInv, Numbers, Item
    <3>2. PICK k \in 1..Groups :
            Fits(sent[i].kind, sent[i].value, k) /\ bytes = Written(sent[i].value, k)
      BY <2>2, <3>1 DEF Encodes
    <3>3. Len(bytes) = k /\ k \in Nat /\ Groups \in Nat /\ k <= Groups
      <4>1. sent[i].value \in Int /\ k \in Nat
        BY <3>2, Sizes DEF Fits, Values, Halves
      <4>2. Len(Written(sent[i].value, k)) = k
        BY <4>1, WrittenFacts
      <4>3. QED BY <3>2, <4>1, <4>2, LebSizes
    <3>4. Start(i) \in Nat
      BY <3>1 DEF Holds
    <3>5. QED BY <3>1, <3>3, <3>4
  <2>3. QED BY <2>1, <2>2 DEF AlwaysFits, LInv, Numbers, Start
<1>2. QED BY <1>1, LebInvariant, PTL
=============================================================================
