------------------------------ MODULE MCVmSpace ------------------------------
(***************************************************************************)
(* VmSpace with pages of two places: the heap can grow by one page before  *)
(* it meets the page that programs can map at a fixed address, and by two  *)
(* before it meets the mmap area, which has three pages beside the one of  *)
(* the arguments.                                                          *)
(***************************************************************************)
EXTENDS VmSpace

TwoLengths == {2, 3}
FixedHints == {6, 7, 12}
TwoPages == {3, 6}
SomeBreaks == {3, 4, 5, 7, 9}
=============================================================================
