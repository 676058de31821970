-------------------------------- MODULE Heap --------------------------------
(***************************************************************************)
(* What an allocator promises its clients: a block it hands out lies in    *)
(* the arena and shares no byte with a block some client still holds.      *)
(* Which free place it takes, and when it refuses, is its own business.    *)
(* Once it has broken down (ok = FALSE) it promises nothing; the call with *)
(* which it breaks may still hand out blocks or take them back.            *)
(***************************************************************************)
EXTENDS Integers

CONSTANTS
  Lo, Hi,   \* the arena: the bytes Lo .. Hi - 1
  Header,   \* bytes of a block in front of its payload
  Sizes     \* payload sizes

VARIABLES
  live,   \* the blocks clients hold, [at, size]
  ok      \* FALSE after a breakdown

vars == <<live, ok>>

Blocks == [at : Lo .. Hi, size : Sizes]
End(b) == b.at + b.size + Header
Apart(b, c) == End(b) <= c.at \/ End(c) <= b.at

Init == live = {} /\ ok = TRUE

Alloc(b) ==
  /\ ok
  /\ End(b) <= Hi
  /\ \A c \in live : Apart(b, c)
  /\ live' = live \cup {b}
  /\ UNCHANGED ok

Release(b) == ok /\ live' = live \ {b} /\ UNCHANGED ok

BreakDown == ok /\ ok' = FALSE /\ (live \subseteq live' \/ live' \subseteq live)

Next ==
  \/ \E b \in Blocks : Alloc(b)
  \/ \E b \in live : Release(b)
  \/ BreakDown

Spec == Init /\ [][Next]_vars
=============================================================================
