---------------------------- MODULE MCBlockScan -----------------------------
(* Blocks for BlockScan: one instruction of each kind of immediate, all of *)
(* the format that BlockScanProofs speaks of.                              *)
EXTENDS BlockScanProofs

Structure == {<<op_block, 64>>, <<op_if, 64>>, <<op_else>>, <<op_end>>}

(* A br_table of two labels and a default, a load, an indirect call, a     *)
(* two-byte number and an f64.add, which read_block does not know.         *)
MCInstructions ==
  Structure \cup {<<op_br_table, 2, 0, 1, 11>>, <<40, 2, 11>>,
                  <<op_call_indirect, 11, 0>>, <<i32_const, 139, 11>>, <<160>>}
=============================================================================
