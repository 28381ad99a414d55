---------------------------- MODULE PageAllocator ----------------------------
(***************************************************************************)
(* What a page allocator promises: the pages in its callers' hands form    *)
(* disjoint runs, a run comes back as a whole, and the number of available *)
(* pages is known.  Which run an allocation gets, and when it is refused,  *)
(* is left open.                                                           *)
(***************************************************************************)
EXTENDS Integers, FiniteSets

CONSTANT Managed    \* the pages that may be handed out

VARIABLES
  blocks,           \* the runs of pages in the callers' hands
  available         \* how many pages are in nobody's hands

Init == blocks = {} /\ available = Cardinality(Managed)

Allocate(first, count) ==
  LET run == first .. first + count - 1 IN
  /\ run # {}
  /\ run \subseteq Managed \ UNION blocks
  /\ blocks' = blocks \cup {run}
  /\ available' = available - count

Release(run) ==
  /\ run \in blocks
  /\ blocks' = blocks \ {run}
  /\ available' = available + Cardinality(run)

Next ==
  \/ \E first \in Managed, count \in 1 .. available : Allocate(first, count)
  \/ \E run \in blocks : Release(run)

Step == [Next]_<<blocks, available>>

Spec == Init /\ [][Next]_<<blocks, available>>
=============================================================================
