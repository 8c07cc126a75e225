--------------------------------- MODULE MCVm ---------------------------------
(* Vm for TLC: sbrk grows by 3 bytes (past a page boundary, and up to       *)
(* KERNBASE), shrinks by 1 (to a partial page, and to 0), and by 5 (which   *)
(* from a size below 5 wraps around as a uint).                             *)
EXTENDS Vm

MCDeltas == {3, -1, -5}
==============================================================================
