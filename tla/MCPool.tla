------------------------------- MODULE MCPool -------------------------------
(* The pool with the code's own constants (first block at byte 168, fast   *)
(* blocks up to 64 bytes) in a buffer of a few hundred bytes.  Fast blocks *)
(* take 16 or 48 bytes, sorted blocks 88; two fast blocks and a sorted one *)
(* can leave a remainder of exactly 48.                                    *)
EXTENDS Pool

MCRequests == {0, 8, 40, 80}
=============================================================================
