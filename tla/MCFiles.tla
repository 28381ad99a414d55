------------------------------- MODULE MCFiles -------------------------------
(***************************************************************************)
(* Files with the first process and one more, which can come and go, three *)
(* files, and two descriptors for a process: the first one has closed the  *)
(* standard ones.                                                          *)
(***************************************************************************)
EXTENDS Files

CONSTANTS p, q
=============================================================================
