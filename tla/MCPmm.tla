-------------------------------- MODULE MCPmm --------------------------------
(***************************************************************************)
(* Pmm on a memory of a few pages.                                         *)
(***************************************************************************)
EXTENDS Pmm

SmallRequests == 0 .. 3
=============================================================================
