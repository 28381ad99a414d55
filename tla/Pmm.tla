--------------------------------- MODULE Pmm ---------------------------------
(***************************************************************************)
(* The physical page allocator: an array of PAGE headers, and a doubly     *)
(* linked list of the free blocks, searched first-fit.  A block is named   *)
(* by its first page; that page's num is its length.                       *)
(*                                                                         *)
(* Source: src/Kernel/Memory/pmm.cpp, src/Include/Memory/pmm.hpp.          *)
(* kmalloc, new and the page tables of vmm.hpp are the callers.  pmm.cpp   *)
(* takes no lock: a process calls it inside a system call, with interrupts *)
(* off, and runs to the end of the call; idle0 calls it with interrupts    *)
(* on, and the timer may let another caller in meanwhile.                  *)
(***************************************************************************)
EXTENDS Integers, FiniteSets

CONSTANTS
  PageTotal,      \* pages from FreeMemoryStart to the end of memory
  HeaderPages,    \* pages the PAGE array takes itself
  Requests,       \* numbers of pages callers ask for
  FollowDamage    \* whether calls on a spoiled list are followed

ASSUME TotalAssumption  == PageTotal \in Nat
ASSUME HeaderAssumption == HeaderPages \in 1 .. PageTotal - 1
\* 0 is possible: read and write allocate as many bytes as the user says
ASSUME RequestAssumption == Requests \subseteq Nat
ASSUME FollowAssumption  == FollowDamage \in BOOLEAN

Page == 0 .. PageTotal - 1
Head == -1              \* PMM::head, whose nxt is the first free block
Nil  == -2              \* nullptr
None == -1              \* no request
Node == Page \cup {Head}

VARIABLES
  flags,      \* [Page -> {0, 1}]: 1 is the only usage kmalloc gives
  num,        \* [Page -> Nat]
  pre,        \* [Page -> Node or Nil]
  nxt,        \* [Node -> Page or Nil]
  PageCount,  \* free pages
  held,       \* the blocks in the callers' hands
  empties,    \* the blocks requests of no pages were answered with
  stale,      \* blocks given back whose pages nobody was given since
  idle,       \* whether idle0 is inside a call
  spoiled,    \* what the list can no longer be trusted after, "no" if nothing
  failed      \* the request that stopped the kernel, or None

list == <<pre, nxt>>
vars == <<flags, num, list, PageCount, held, empties, stale, idle, spoiled,
          failed>>

Sound == spoiled = "no"

Typed ==
  /\ flags \in [Page -> 0 .. 1]
  /\ num \in [Page -> 0 .. PageTotal]
  /\ pre \in [Page -> Node \cup {Nil}]
  /\ nxt \in [Node -> Page \cup {Nil}]
  /\ PageCount \in 0 .. PageTotal
  /\ held \subseteq Page \ {0}
  /\ empties \subseteq Page \ {0}
  /\ stale \subseteq Page \ {0}
  /\ idle \in BOOLEAN
  /\ failed \in Requests \cup {None}

TypeOK == spoiled \in {"no", "empty", "overtaken"} /\ (Sound => Typed)

(***************************************************************************)
(* PMM::Init: block 0 holds the array itself and is never given back, the  *)
(* rest is one free block.  The num and the links of the other pages are   *)
(* not initialised, nor read before they are written.                      *)
(***************************************************************************)
Init ==
  /\ flags = [p \in Page |-> IF p = 0 THEN 1 ELSE 0]
  /\ num = [p \in Page |-> CASE p = 0 -> HeaderPages
                             [] p = HeaderPages -> PageTotal - HeaderPages
                             [] OTHER -> 0]
  /\ pre = [p \in Page |-> IF p = HeaderPages THEN Head ELSE Nil]
  /\ nxt = [p \in Node |-> IF p = Head THEN HeaderPages ELSE Nil]
  /\ PageCount = PageTotal - HeaderPages
  /\ held = {}
  /\ empties = {}
  /\ stale = {}
  /\ idle = FALSE
  /\ Sound
  /\ failed = None

(***************************************************************************)
(* A call is made while the kernel runs.  One that ends while idle0 is     *)
(* inside is idle0's own.                                                  *)
(***************************************************************************)
Running == failed = None /\ (Sound \/ (spoiled = "empty" /\ FollowDamage))

IdleCalls ==
  /\ Running /\ ~idle
  /\ idle' = TRUE
  /\ UNCHANGED <<flags, num, list, PageCount, held, empties, stale, spoiled,
                 failed>>

(***************************************************************************)
(* The timer interrupts idle0 inside a call, and a process that runs then, *)
(* or the scheduler when it reaps one, allocates or frees.  Both edit the  *)
(* list at once: nothing is said of what they leave.                       *)
(***************************************************************************)
Overtaken ==
  /\ Running /\ idle
  /\ spoiled' = "overtaken"
  /\ UNCHANGED <<flags, num, list, PageCount, held, empties, stale, idle,
                 failed>>

-----------------------------------------------------------------------------
(***************************************************************************)
(* Where a walk along nxt gets that goes on while it is inside "through".  *)
(***************************************************************************)
Reach(start, through) ==
  {q \in Node : \A S \in SUBSET Node :
      (start \in S /\ \A r \in S \cap through : nxt[r] \in S \cup {Nil})
        => q \in S}

FreeList == Reach(Head, Node) \ {Head}

(***************************************************************************)
(* alloc_pages walks over the blocks that are too small: the block it      *)
(* stops at, or none.                                                      *)
(***************************************************************************)
FirstFit(count) ==
  LET small == {q \in Page : num[q] < count}
  IN  Reach(Head, small \cup {Head}) \ (small \cup {Head})

(***************************************************************************)
(* alloc_pages on a block: the pages that are left over replace it on the  *)
(* list, or it is unlinked.  When no pages are asked for, what is left     *)
(* over is the whole block: it stays on the list.                          *)
(***************************************************************************)
BugReadAfterWrite(p, count) == count - count
Remainder(p, count) == num[p] - count

Split(p, count) ==
  LET np   == p + count
      nxt1 == [nxt EXCEPT ![pre[p]] = np]
      pre1 == [q \in Page |-> IF q = nxt1[p] THEN np ELSE pre[q]]
  IN  /\ num[p] > count
      /\ num' = [num EXCEPT ![p] = count, ![np] = Remainder(p, count)]
      /\ nxt' = [nxt1 EXCEPT ![np] = nxt1[p]]
      /\ pre' = [pre1 EXCEPT ![np] = pre1[p]]

Unlink(p, count) ==
  /\ num[p] = count
  /\ nxt' = [nxt EXCEPT ![pre[p]] = nxt[p]]
  /\ pre' = [q \in Page |-> IF q = nxt[p] THEN pre[p] ELSE pre[q]]
  /\ UNCHANGED num

(***************************************************************************)
(* alloc_pages marks the block's first page, whatever the count, and       *)
(* PMM::malloc every page of the block.                                    *)
(***************************************************************************)
BugMarkLast(p, count) == [flags EXCEPT ![p + count - 1] = 1]

Marked(p, count) ==
  [q \in Page |-> IF q = p \/ q \in p .. p + count - 1 THEN 1 ELSE flags[q]]

Malloc(count) ==
  /\ Running
  /\ \E p \in FirstFit(count) :
       /\ Split(p, count) \/ Unlink(p, count)
       /\ flags' = Marked(p, count)
       /\ stale' = stale \ (p .. p + count - 1)
       /\ IF count = 0
          THEN empties' = empties \cup {p} /\ UNCHANGED held
          ELSE held' = held \cup {p} /\ UNCHANGED empties
  /\ PageCount' = PageCount - count
  /\ idle' = FALSE
  /\ UNCHANGED <<spoiled, failed>>

(***************************************************************************)
(* No block is large enough: kout[Fault] stops the kernel.                 *)
(***************************************************************************)
MallocFails(count) ==
  /\ Running
  /\ FirstFit(count) = {}
  /\ failed' = count
  /\ idle' = FALSE
  /\ UNCHANGED <<flags, num, list, PageCount, held, empties, stale, spoiled>>

-----------------------------------------------------------------------------
(***************************************************************************)
(* free_pages looks for the last free block before t, which is the head    *)
(* when the list is empty or begins behind t.                              *)
(***************************************************************************)
BugAtTheHead(t) == {Head}

InsertAfter(t) ==
  LET start == IF nxt[Head] = Nil \/ nxt[Head] > t THEN Head ELSE nxt[Head]
      below == {r \in Node : nxt[r] # Nil /\ nxt[r] < t}
  IN  Reach(start, below) \ below

(***************************************************************************)
(* insert_page: the block behind t, if its first page is not marked, is    *)
(* taken off the list and joined to t.                                     *)
(***************************************************************************)
BugMergeMarked(t) == t + num[t] < PageTotal

Merges(t) == t + num[t] < PageTotal /\ flags[t + num[t]] = 0

LinkAndMerge(q, t) ==
  LET m == t + num[t]
      nxt1 == [nxt EXCEPT ![q] = t, ![t] = nxt[q]]
      pre1 == [r \in Page |-> CASE r = t      -> q
                                [] r = nxt[q] -> t
                                [] OTHER      -> pre[r]]
  IN  IF Merges(t)
      THEN /\ num' = [num EXCEPT ![t] = @ + num[m], ![m] = 0]
           /\ nxt' = [nxt1 EXCEPT ![t] = nxt1[m], ![m] = Nil]
           /\ pre' = [r \in Page |-> CASE r = m       -> Nil
                                       [] r = nxt1[m] -> t
                                       [] OTHER       -> pre1[r]]
      ELSE nxt' = nxt1 /\ pre' = pre1 /\ UNCHANGED num

(***************************************************************************)
(* free_pages refuses, with a warning, a page that is marked free or does  *)
(* not begin a block.                                                      *)
(***************************************************************************)
Refused(t) == num[t] = 0 \/ flags[t] = 0

(***************************************************************************)
(* PMM::free and free_pages.  Callers give back what they hold; they may   *)
(* also give back twice, as Process::destroy does with the region of the   *)
(* heap, which VirtualMemorySpace::Destroy has freed already, and write    *)
(* gives back the block it was answered with for no pages (read keeps it). *)
(* Only the first page is marked free again.                               *)
(***************************************************************************)
Free(t) ==
  /\ Running
  /\ ~Refused(t)
  /\ \E q \in InsertAfter(t) : LinkAndMerge(q, t)
  /\ flags' = [flags EXCEPT ![t] = 0]
  /\ PageCount' = PageCount + num[t]
  /\ stale' = stale \cup {t}
  /\ idle' = FALSE
  /\ UNCHANGED failed

FreeHeld(t) ==
  /\ Free(t)
  /\ held' = held \ {t}
  /\ UNCHANGED <<empties, spoiled>>

\* the block may be on the list, or in another caller's hands
FreeEmpty(t) ==
  /\ Free(t)
  /\ empties' = empties \ {t}
  /\ spoiled' = "empty"
  /\ UNCHANGED held

FreeRefused(t) ==
  /\ Running
  /\ Refused(t)
  /\ empties' \in {empties, empties \ {t}}
  /\ idle' = FALSE
  /\ UNCHANGED <<flags, num, list, PageCount, held, stale, spoiled, failed>>

Halted == ~Running /\ UNCHANGED vars

Next ==
  \/ IdleCalls \/ Overtaken
  \/ \E t \in held : FreeHeld(t)
  \/ \E t \in empties \cup stale : FreeEmpty(t)
  \/ \E t \in held \cup empties \cup stale : FreeRefused(t)
  \/ \E count \in Requests : Malloc(count) \/ MallocFails(count)
  \/ Halted

Spec == Init /\ [][Next]_vars

-----------------------------------------------------------------------------
BlockAt(b) == b .. b + num[b] - 1

(***************************************************************************)
(* What follows is claimed of the list until it is spoiled: until a block  *)
(* that a request of no pages was answered with, or marked, is given back, *)
(* or idle0 is overtaken inside a call.                                    *)
(*                                                                         *)
(* The blocks - the array's own, those in the callers' hands and those on  *)
(* the free list - cover the memory without overlap, through any order of  *)
(* splits, merges and frees.                                               *)
(***************************************************************************)
BlocksTile == Sound =>
  LET blocks == {0} \cup held \cup FreeList IN
  /\ \A b \in blocks : BlockAt(b) \subseteq Page
  /\ \A p \in Page : Cardinality({b \in blocks : p \in BlockAt(b)}) = 1

(***************************************************************************)
(* The list that alloc_pages, insert_page and free_pages edit by hand is   *)
(* doubly linked, holds no empty block, and ascends.                       *)
(***************************************************************************)
FreeListSound == Sound =>
  LET free == FreeList IN
  \A b \in free :
    /\ num[b] > 0
    /\ pre[b] \in free \cup {Head} /\ nxt[pre[b]] = b
    /\ nxt[b] # Nil => b + num[b] <= nxt[b]

(***************************************************************************)
(* The marks in flags, of which free clears the first only, still tell     *)
(* free_pages what it asks of them: what a caller holds can be given back, *)
(* and giving it back twice is noticed - except where a request of no      *)
(* pages was answered with the block in between.                           *)
(***************************************************************************)
MarksTell == Sound =>
  /\ \A t \in held : ~Refused(t)
  /\ \A t \in stale : Refused(t) \/ t \in empties

(***************************************************************************)
(* The allocator keeps the promises of PageAllocator: no page is given to  *)
(* two callers, what comes back is what was given, PageCount is exact -    *)
(* in every step up to the one that spoils the list.                       *)
(***************************************************************************)
Allocator == INSTANCE PageAllocator WITH
               Managed   <- HeaderPages .. PageTotal - 1,
               blocks    <- {BlockAt(b) : b \in held},
               available <- PageCount

ImplementsAllocator == Allocator!Init /\ [][Sound' => Allocator!Step]_vars

(***************************************************************************)
(* pmm.cpp:51: head.nxt is where the pages that may be allocated begin.    *)
(* No block on the list has a page that is in a caller's hands.            *)
(***************************************************************************)
TakenIsOffTheList ==
  \A b \in held, f \in FreeList : BlockAt(b) \cap BlockAt(f) = {}
=============================================================================
