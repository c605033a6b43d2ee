------------------------- MODULE MCInterruptHandler -------------------------
(* The handler of one process of a parallel run.  Four signals reach every *)
(* level and one signal past the last one.                                 *)
EXTENDS InterruptHandler
=============================================================================
