------------------------------ MODULE LebStream ------------------------------
(***************************************************************************)
(* Numbers written one after the other, as in a section or a function      *)
(* body, and then read in the same order.  A number comes from the         *)
(* assembler, which writes as few bytes as it can, or from another tool,   *)
(* which may fill it up with bytes that add nothing but its sign; or it is *)
(* damaged and does not end in time.  A segment offset is written with the *)
(* signed writer; elem offsets are read back with the signed reader, data  *)
(* offsets with the unsigned one.                                          *)
(***************************************************************************)
EXTENDS Leb

CONSTANT MaxNumbers     \* numbers in a stream

VARIABLES
  buf,      \* the bytes written
  sent,     \* the numbers written, with the place after their last byte
  pos,      \* the reader's pointer
  got       \* the values read

vars == <<buf, sent, pos, got>>

Init == buf = <<>> /\ sent = <<>> /\ pos = 1 /\ got = <<>>

Writing == got = <<>> /\ Len(sent) < MaxNumbers
Write(kind, value, bytes) ==
  /\ Writing
  /\ buf' = buf \o bytes
  /\ sent' = Append(sent, [kind |-> kind, value |-> value, end |-> Len(buf) + Len(bytes) + 1])
  /\ UNCHANGED <<pos, got>>

PutUnsigned == \E n \in Values : Write("u", n, put_leb_u(n))
PutSigned == \E n \in Halves : Write("s", n, put_leb_s(n))
PutDataOffset == \E n \in Halves \cap Nat : Write("u", n, put_leb_s(n))

(* Up to Groups bytes: the last of a shorter form continued, zeros or, for *)
(* a negative number, ones in the groups that follow.                      *)
Padded(bytes, fill, n) ==
  IF n = Len(bytes) THEN bytes
  ELSE [i \in 1..n |-> CASE i < Len(bytes) -> bytes[i]
                         [] i = Len(bytes) -> bytes[i] + Base
                         [] Len(bytes) < i /\ i < n -> fill + Base
                         [] i = n -> fill]
PutPadded ==
  \/ \E n \in Values, k \in 1..Groups :
       k > Len(put_leb_u(n)) /\ Write("u", n, Padded(put_leb_u(n), 0, k))
  \/ \E n \in Halves, k \in 1..Groups :
       /\ k > Len(put_leb_s(n))
       /\ Write("s", n, Padded(put_leb_s(n), IF n < 0 THEN Base - 1 ELSE 0, k))

(* A number that goes on for one byte more than a reader looks at.         *)
PutOverlong ==
  Write("overlong", 0, [i \in 1..Groups + 1 |-> IF i <= Groups THEN Base + 1 ELSE 1])

Current == sent[Len(got) + 1]
(* A reader that goes on behind the bytes it gave up on.                   *)
GetPastOverlong ==
  /\ Len(got) < Len(sent)
  /\ LET r == IF Current.kind = "s" THEN read_leb_s(buf, pos) ELSE read_leb_u(buf, pos)
     IN  /\ got' = Append(got, r.value)
         /\ pos' = IF r.next = pos THEN pos + Groups ELSE r.next
  /\ UNCHANGED <<buf, sent>>
Get ==
  /\ Len(got) < Len(sent)
  /\ LET r == IF Current.kind = "s" THEN read_leb_s(buf, pos) ELSE read_leb_u(buf, pos)
     IN  got' = Append(got, r.value) /\ pos' = r.next
  /\ UNCHANGED <<buf, sent>>

Next == PutUnsigned \/ PutSigned \/ PutDataOffset \/ PutPadded \/ PutOverlong \/ Get

Spec == Init /\ [][Next]_vars /\ WF_vars(Get)

-----------------------------------------------------------------------------
Sound(n) == \A i \in 1..n : sent[i].kind # "overlong"

(***************************************************************************)
(* What was written is what is read, and the reader is then exactly at the *)
(* next number: one step too many or too few in any number would turn all  *)
(* the rest of the section or body into other numbers.                     *)
(***************************************************************************)
ReadsWhatWasWritten ==
  Sound(Len(got)) =>
    /\ \A i \in DOMAIN got : got[i] = sent[i].value
    /\ got # <<>> => pos = sent[Len(got)].end

(***************************************************************************)
(* A number that does not end in time stops the reader for good: it gives  *)
(* 0 for it and for every number after it, and never runs past it into     *)
(* bytes it would take for something else.                                 *)
(***************************************************************************)
StopsAtOverlong ==
  \A i \in DOMAIN got :
    ~Sound(i) => got[i] = 0 /\ \E j \in 1..i :
                   /\ sent[j].kind = "overlong"
                   /\ pos = IF j = 1 THEN 1 ELSE sent[j - 1].end

(***************************************************************************)
(* The assembler never writes a number a reader would give up on, nor what *)
(* is no byte.                                                             *)
(***************************************************************************)
AlwaysFits ==
  /\ \A i \in DOMAIN buf : buf[i] \in Byte
  /\ \A i \in DOMAIN sent :
       sent[i].kind # "overlong" =>
         sent[i].end - (IF i = 1 THEN 1 ELSE sent[i - 1].end) <= Groups
=============================================================================
