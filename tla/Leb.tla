--------------------------------- MODULE Leb ---------------------------------
(***************************************************************************)
(* The variable-length numbers of the binary format, as the assembler      *)
(* writes them (bb_put_leb_* in deep_wat.c) and the loader and interpreter *)
(* read them (read_leb_* in deep_loader.c).  A number of Width bits is cut *)
(* into groups of Group bits, the lowest first, a byte each, whose high    *)
(* bit says that another follows.                                          *)
(***************************************************************************)
EXTENDS Integers, Sequences, FiniteSetsExt

CONSTANTS
  Group,     \* bits of a number in a byte: 7
  Width,     \* bits of a number: 32 or 64
  Groups     \* bytes a reader looks at: 5 or 10

ASSUME LebSizes ==
  /\ Group \in Nat \ {0} /\ Width \in Nat \ {0} /\ Groups \in Nat
  /\ Groups * Group >= Width /\ (Groups - 1) * Group < Width

Power(b, n) ==
  LET power[k \in 0..n] == IF k = 0 THEN 1 ELSE b * power[k - 1] IN power[n]

Base == Power(2, Group)
Modulus == Power(2, Width)
Half == Power(2, Width - 1)
Values == 0..Modulus - 1
Halves == -Half..Half - 1
Byte == 0..2 * Base - 1
Continues(byte) == byte >= Base
Low(byte) == byte % Base
Negative(byte) == Low(byte) >= Base \div 2

(* The signed value of Width bits.                                         *)
ToSigned(n) == IF n >= Half THEN n - Modulus ELSE n

-----------------------------------------------------------------------------
(***************************************************************************)
(* The writers, a group in each round of their loop: what is left of n     *)
(* after k rounds (the shift is arithmetic), and the group the k-th round  *)
(* puts, with the high bit if the loop goes on.                            *)
(***************************************************************************)
Left(n, k) ==
  LET left[j \in 0..k] == IF j = 0 THEN n ELSE left[j - 1] \div Base IN left[k]
GroupAt(n, k) == Left(n, k - 1) % Base
Written(n, rounds) ==
  [k \in 1..rounds |-> IF k < rounds THEN GroupAt(n, k) + Base ELSE GroupAt(n, k)]

(* bb_put_leb_u32 is a do-while: a zero takes a byte, too.                 *)
put_leb_u_one_more(n) == Written(n, Min({k \in 1..Width + 1 : Left(n, k - 1) = 0}))
put_leb_u(n) == Written(n, Min({k \in 1..Width : Left(n, k) = 0}))

(* bb_put_leb_s32 and _s64 stop when the rest is only the sign of the      *)
(* group just written.                                                     *)
OnlySignLeft(n, k) == Left(n, k) = IF Negative(GroupAt(n, k)) THEN -1 ELSE 0
put_leb_s(n) == Written(n, Min({k \in 1..Width : OnlySignLeft(n, k)}))

(***************************************************************************)
(* The readers look for a last byte among Groups of them: the bits so far, *)
(* which beyond Width are shifted out; or 0 and no step forward.           *)
(***************************************************************************)
LastByte(buf, p) == {k \in 1..Groups : /\ p + k - 1 \in DOMAIN buf
                                       /\ ~Continues(buf[p + k - 1])
                                       /\ \A j \in 1..k - 1 : Continues(buf[p + j - 1])}
Bits(buf, p, k) ==
  LET sum[j \in 0..k] ==
        IF j = 0 THEN 0
        ELSE (sum[j - 1] + Low(buf[p + j - 1]) * Power(Base, j - 1)) % Modulus
  IN  sum[k]

read_leb_u(buf, p) ==
  IF LastByte(buf, p) = {} THEN [value |-> 0, next |-> p]
  ELSE LET k == CHOOSE k \in LastByte(buf, p) : TRUE
       IN  [value |-> Bits(buf, p, k), next |-> p + k]

(* The sign is extended only from a group that ends below bit Width.       *)
Extended(bits, k, byte, width) ==
  IF k * Group < width /\ Negative(byte) THEN bits + Modulus - Power(Base, k) ELSE bits
read_leb_s_below(buf, p, width) ==
  IF LastByte(buf, p) = {} THEN [value |-> 0, next |-> p]
  ELSE LET k == CHOOSE k \in LastByte(buf, p) : TRUE
       IN  [value |-> ToSigned(Extended(Bits(buf, p, k), k, buf[p + k - 1], width)),
            next |-> p + k]
read_leb_s_never(buf, p) == read_leb_s_below(buf, p, 0)
read_leb_s(buf, p) == read_leb_s_below(buf, p, Width)
=============================================================================
