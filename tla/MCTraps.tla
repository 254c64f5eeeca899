------------------------------ MODULE MCTraps ------------------------------
(* Lines of both controllers; calls that succeed, fail and are missing;     *)
(* exceptions with and without an error code, on both sides of the border   *)
(* of 64K that the handlers cross.                                          *)
EXTENDS Traps
=============================================================================
