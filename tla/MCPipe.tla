------------------------------- MODULE MCPipe -------------------------------
(***************************************************************************)
(* Pipe with idle0, the process that makes it, two children, and a ring of *)
(* three places, which holds two bytes.  In one run the maker reads and a  *)
(* child writes, in the other both children read.                          *)
(***************************************************************************)
EXTENDS Pipe

CONSTANTS idle, r, w, x

SmallReads  == 1 .. 3
SmallWrites == 0 .. 2
=============================================================================
