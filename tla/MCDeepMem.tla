----------------------------- MODULE MCDeepMem -----------------------------
(* Two skip-list levels: a node takes 32 bytes, fast blocks 16, sorted     *)
(* blocks 32, and the pool holds three sorted blocks.                      *)
EXTENDS DeepMem

MCRequests == {0, 8, 16, 17}

(* One level: a node takes 24 bytes, fast blocks 16, sorted blocks 24 or   *)
(* 32.                                                                     *)
MCOneLevelRequests == {0, 8, 9, 24}
=============================================================================
