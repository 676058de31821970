---------------------------- MODULE MCLebStream -----------------------------
(* Numbers of 5 bits in groups of 2: as with 64 bits in groups of 7, the   *)
(* last group reaches one bit into the number and is looked at in full.    *)
EXTENDS LebStream
=============================================================================
