--------------------------- MODULE MCKernelLocks ---------------------------
(* Stacks of at most MaxDepth frames before a handler's own calls.          *)
EXTENDS KernelLocks
=============================================================================
