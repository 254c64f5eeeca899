------------------------------ MODULE MCKHeap ------------------------------
(* Small heaps for TLC.  One address stands for one header's worth of bytes *)
(* (Hdr = 1), so a split leaves a rest only when five more are left over.   *)
EXTENDS KHeap
=============================================================================
