------------------------- MODULE MCBlockScanFloats --------------------------
(* Blocks for BlockScan with float constants in them, the instructions     *)
(* that the assumptions of BlockScanProofs leave out.                      *)
EXTENDS BlockScan

(* f32.const 1.0, whose bytes are 00 00 80 3f, and f32.const 8.5e-32,      *)
(* whose last byte is that of an end.                                      *)
MCWithFloats ==
  {<<op_block, 64>>, <<op_if, 64>>, <<op_else>>, <<op_end>>,
   <<f32_const, 0, 0, 128, 63>>, <<f32_const, 0, 0, 0, 11>>}
=============================================================================
