------------------------------- MODULE VmSpace -------------------------------
(***************************************************************************)
(* The address space of a process: its list of regions with the cache of   *)
(* the one used last, the heap and its break, the page table that page     *)
(* faults fill, and the copy that fork makes.                              *)
(*                                                                         *)
(* Source: src/Include/Memory/vmm.hpp, MemapFileRegion in                  *)
(* src/Include/File/FileEx.hpp, and brk, mmap, munmap and clone in         *)
(* src/Kernel/Trap/Syscall/Syscall.cpp.                                    *)
(*                                                                         *)
(* One space is followed from execve on; at a fork the child's is followed *)
(* (the father's stays as it was).  Every call runs to its end.            *)
(***************************************************************************)
EXTENDS Integers, Sequences, FiniteSets, FiniteSetsExt, SequencesExt

CONSTANTS
  PAGESIZE,
  Lowest,         \* mmap gives no address below (4 pages in the code)
  ProgramStart,   \* the program's segments
  HeapStart,      \* the first page behind them
  MmapStart,      \* 0x60000000; the arguments of the program are there
  MmapEnd,        \* 0x70000000
  StackStart,
  StackEnd,
  KernelStart,
  KernelEnd,
  Lengths,        \* lengths programs give mmap
  Hints,          \* addresses programs give mmap
  Breaks,         \* addresses programs give brk
  Touched,        \* the pages programs read and write
  MaxRegions,     \* bound: regions at a time
  MaxForks        \* bound

Aligned(a) == a % PAGESIZE = 0

ASSUME LayoutAssumption ==
  /\ PAGESIZE \in Nat \ {0}
  /\ \A a \in {Lowest, ProgramStart, HeapStart, MmapStart, MmapEnd, StackStart,
               StackEnd, KernelStart, KernelEnd} : a \in Nat /\ Aligned(a)
  /\ 0 < Lowest /\ Lowest <= HeapStart
  /\ ProgramStart < HeapStart /\ HeapStart + PAGESIZE <= MmapStart
  /\ MmapStart + PAGESIZE <= MmapEnd /\ MmapEnd <= StackStart
  /\ StackStart < StackEnd /\ StackEnd <= KernelStart /\ KernelStart < KernelEnd

ASSUME RequestAssumption ==
  /\ Lengths \subseteq Nat \ {0}
  /\ \A a \in Hints : a \in Nat \ {0}
  /\ Breaks \subseteq Nat \ {0}
  /\ Touched \subseteq 0 .. KernelStart \div PAGESIZE - 1
ASSUME BoundAssumption == MaxRegions \in Nat /\ MaxRegions >= 5 /\ MaxForks \in Nat

Nil == 0
Region == 1 .. MaxRegions
Page == 0 .. KernelStart \div PAGESIZE - 1

VARIABLES
  start, end,         \* StartAddress and EndAddress of the regions
  kind,               \* what a region is; "free": there is none
  list,               \* the list under vmrHead
  VmrCache, VmrCount,
  Heap,               \* Process::Heap
  BreakPointLength,
  pt,                 \* what a page holds: nothing mapped, zeros, or data
  halted,             \* what stopped the kernel; "unaligned" and "overlap" are InsertVMR's
  written,            \* the pages the program has data in
  told,               \* the break the program was last granted
  astray,             \* it asked for a break it could not have
  forks

regions == <<start, end, kind, list, VmrCount>>
heap    == <<Heap, BreakPointLength, told, astray>>
vars == <<regions, VmrCache, heap, pt, halted, written, forks>>

(***************************************************************************)
(* "copy" is a file mapping after fork: a region of the plain class that   *)
(* has the flags of a file mapping.                                        *)
(***************************************************************************)
Mapping == {"anon", "file", "copy"}
Kind == {"free", "program", "stack", "kernel", "heap"} \cup Mapping

TypeOK ==
  /\ start \in [Region -> Nat] /\ end \in [Region -> Nat]
  /\ kind \in [Region -> Kind]
  /\ list \in Seq(Region)
  /\ VmrCache \in Region \cup {Nil}
  /\ VmrCount = Len(list)
  /\ ToSet(list) = {v \in Region : kind[v] # "free"} /\ IsInjective(list)
  /\ Heap \in Region \cup {Nil} /\ BreakPointLength \in Nat
  /\ pt \in [Page -> {"none", "zero", "data"}]
  /\ halted \in {"no", "overlap", "unaligned", "empty", "copy"}
  /\ written \subseteq Page
  /\ told \in Nat /\ astray \in BOOLEAN
  /\ forks \in 0 .. MaxForks

(***************************************************************************)
(* What CreateProcessFromELF leaves: program, stack, heap and the page of  *)
(* the arguments, in the order of their addresses.                         *)
(***************************************************************************)
Init ==
  LET first == <<ProgramStart, HeapStart, MmapStart, StackStart, KernelStart>>
      past  == <<HeapStart, HeapStart + PAGESIZE, MmapStart + PAGESIZE, StackEnd,
                 KernelEnd>>
      what  == <<"program", "heap", "program", "stack", "kernel">>
  IN
  /\ start = [v \in Region |-> IF v <= 5 THEN first[v] ELSE 0]
  /\ end   = [v \in Region |-> IF v <= 5 THEN past[v] ELSE 0]
  /\ kind  = [v \in Region |-> IF v <= 5 THEN what[v] ELSE "free"]
  /\ list = <<1, 2, 3, 4, 5>>
  /\ VmrCache = 3 /\ VmrCount = 5
  /\ Heap = 2 /\ BreakPointLength = PAGESIZE
  /\ pt = [p \in Page |-> "none"]
  /\ halted = "no"
  /\ written = {}
  /\ told = HeapStart + PAGESIZE /\ astray = FALSE
  /\ forks = 0

-----------------------------------------------------------------------------
RoundUp(a) == ((a + PAGESIZE - 1) \div PAGESIZE) * PAGESIZE
RoundDown(a) == (a \div PAGESIZE) * PAGESIZE
Greater(a, b) == IF a < b THEN b ELSE a
Smaller(a, b) == IF a < b THEN a ELSE b

PagesOf(a, b) == {p \in Page : a <= p * PAGESIZE /\ p * PAGESIZE < b}
In(v, a) == start[v] <= a /\ a < end[v]

(***************************************************************************)
(* FindVMR: the cache, else the first region that ends behind the address, *)
(* if it begins before it.                                                 *)
(***************************************************************************)
Search(a) ==
  LET at == SelectInSeq(list, LAMBDA v : a < start[v] \/ a < end[v])
  IN  IF at # 0 /\ start[list[at]] <= a THEN list[at] ELSE Nil

FindVMR(a) ==
  IF VmrCache # Nil /\ In(VmrCache, a) THEN VmrCache ELSE Search(a)

CacheAfter(a) == IF FindVMR(a) = Nil THEN VmrCache ELSE FindVMR(a)

(***************************************************************************)
(* InsertVMR of a region in a list: behind the cache if that is the last   *)
(* one; else before the first region that begins behind it, and a region   *)
(* that overlaps it stops the kernel.  s and e are the regions' bounds.    *)
(***************************************************************************)
BugNotTheLast(l, cache, s, e, v) == l # <<>> /\ cache # Nil /\ e[cache] <= s[v]

Behind(l, cache, s, e, v) ==
  l # <<>> /\ cache # Nil /\ cache = Last(l) /\ e[cache] <= s[v]

Place(l, s, e, v) == SelectInSeq(l, LAMBDA u : e[v] <= s[u] \/ s[v] < e[u])

Overlaps(l, cache, s, e, v) ==
  /\ ~Behind(l, cache, s, e, v)
  /\ LET at == Place(l, s, e, v) IN at # 0 /\ ~(e[v] <= s[l[at]])

InsertVMR(l, cache, s, e, v) ==
  LET at == Place(l, s, e, v)
  IN  IF Behind(l, cache, s, e, v) \/ at = 0 THEN Append(l, v) ELSE InsertAt(l, at, v)

(***************************************************************************)
(* GetUsableVMR: the first gap between from and to that is long enough, 0  *)
(* if there is none; e is the ends of the regions.                         *)
(***************************************************************************)
BugIgnoresFrom(e, v, from) == e[v]

GapStart(e, v, from) == Greater(e[v], from)

GetUsableVMR(e, from, to, length) ==
  LET long  == RoundUp(length)
      first == RoundDown(from)
      low   == Greater(Lowest, first)
      Fits(i) == GapStart(e, list[i], first) + long <= Smaller(start[list[i + 1]], to)
      gaps == {i \in 1 .. Len(list) - 1 : Fits(i)}
  IN
  IF from >= to \/ to - from < length THEN 0
  ELSE IF low + long <= Smaller(start[list[1]], to) THEN low
  ELSE IF gaps = {} THEN 0 ELSE GapStart(e, list[Min(gaps)], first)

-----------------------------------------------------------------------------
(***************************************************************************)
(* mmap.  With MAP_FIXED it cuts off the end of a mapping that is there,   *)
(* and keeps that when it then finds no room.  The room is for length      *)
(* bytes from the start of a page; a hint inside a page is taken as it is, *)
(* so the region can need a page more than the room has.                   *)
(***************************************************************************)
Unused == {v \in Region : kind[v] = "free"}

Cuts(fixed, hint, length) ==
  fixed /\ FindVMR(hint) # Nil /\ end[FindVMR(hint)] <= RoundUp(hint + length)

EndsAfterCut(fixed, hint, length) ==
  IF Cuts(fixed, hint, length) THEN [end EXCEPT ![FindVMR(hint)] = RoundUp(hint)] ELSE end

Room(fixed, hint, length) ==
  LET e == EndsAfterCut(fixed, hint, length)
  IN  IF hint = Nil THEN GetUsableVMR(e, MmapStart, MmapEnd, length)
                    ELSE GetUsableVMR(e, hint, MmapEnd, length)

Refused(fixed, hint, length) ==
  LET s == Room(fixed, hint, length) IN s = 0 \/ (hint # Nil /\ RoundDown(hint) # s)

Given(fixed, hint, length) == IF hint = Nil THEN Room(fixed, hint, length) ELSE hint

\* MAP_FIXED is used over the program's own mappings and free pages only
Asks(fixed, hint, length) ==
  /\ halted = "no"
  /\ fixed => hint # Nil /\ (FindVMR(hint) # Nil => kind[FindVMR(hint)] \in Mapping)

CacheAfterCut(fixed, hint) == IF fixed THEN CacheAfter(hint) ELSE VmrCache

Mmap(fixed, hint, length, what) ==
  /\ Asks(fixed, hint, length)
  /\ ~(Cuts(fixed, hint, length) /\ kind[FindVMR(hint)] = "copy")
  /\ ~Refused(fixed, hint, length)
  /\ Unused # {}
  /\ LET v == Min(Unused)
         s == Room(fixed, hint, length)
         past == Given(fixed, hint, length) + length
         starts == [start EXCEPT ![v] = s]
         ends == [EndsAfterCut(fixed, hint, length) EXCEPT ![v] = RoundUp(past)]
         pages == PagesOf(s, past)
         cache == CacheAfterCut(fixed, hint)
     IN
     IF Overlaps(list, cache, starts, ends, v)
     THEN /\ halted' = IF Aligned(hint) THEN "overlap" ELSE "unaligned"
          /\ UNCHANGED <<regions, VmrCache, pt, written>>
     ELSE
     /\ start' = starts /\ end' = ends
     /\ kind' = [kind EXCEPT ![v] = what]
     /\ list' = InsertVMR(list, cache, starts, ends, v)
     /\ VmrCache' = v /\ VmrCount' = VmrCount + 1
     /\ pt' = [p \in Page |-> IF what = "file" /\ p \in pages THEN "data" ELSE pt[p]]
     /\ written' = IF what = "file" THEN written \cup pages ELSE written \ pages
     /\ UNCHANGED halted
  /\ UNCHANGED <<heap, forks>>

MmapRefused(fixed, hint, length) ==
  /\ Asks(fixed, hint, length)
  /\ ~(Cuts(fixed, hint, length) /\ kind[FindVMR(hint)] = "copy")
  /\ Refused(fixed, hint, length)
  /\ end' = EndsAfterCut(fixed, hint, length)
  /\ VmrCache' = CacheAfterCut(fixed, hint)
  /\ written' = written \ UNION {PagesOf(end'[v], end[v]) : v \in Region}
  /\ UNCHANGED <<start, kind, list, VmrCount, heap, pt, halted, forks>>

(***************************************************************************)
(* The fork's copy of a file mapping has none of the fields that mmap with *)
(* MAP_FIXED, or munmap, then uses: what happens is undefined.             *)
(***************************************************************************)
UseOfCopy(a) ==
  /\ halted = "no"
  /\ FindVMR(a) # Nil /\ kind[FindVMR(a)] = "copy"
  /\ halted' = "copy"
  /\ UNCHANGED <<regions, VmrCache, heap, pt, written, forks>>

(***************************************************************************)
(* munmap takes the region away that the address is in, whatever the       *)
(* length; programs are taken to unmap whole mappings.  The pages stay in  *)
(* the page table.                                                         *)
(***************************************************************************)
Position(v) == SelectInSeq(list, LAMBDA u : u = v)

BugKeepsCache(v) == FindVMR(start[v])

CacheAfterRemove(v) == Nil

Munmap(a) ==
  LET v == FindVMR(a) IN
  /\ halted = "no"
  /\ v # Nil /\ kind[v] \in {"anon", "file"} /\ a = start[v]
  /\ list' = RemoveAt(list, Position(v))
  /\ kind' = [kind EXCEPT ![v] = "free"]
  /\ start' = [start EXCEPT ![v] = 0] /\ end' = [end EXCEPT ![v] = 0]
  /\ VmrCount' = VmrCount - 1
  /\ VmrCache' = CacheAfterRemove(v)
  /\ written' = written \ PagesOf(start[v], end[v])
  /\ UNCHANGED <<heap, pt, halted, forks>>

(***************************************************************************)
(* brk: HeapMemoryRegion::Resize to the break asked for.  A growth that    *)
(* would collide is refused after BreakPointLength has been moved.         *)
(***************************************************************************)
BreakPoint == start[Heap] + BreakPointLength
NextStart == start[list[Position(Heap) + 1]]

BugRoundsDown(a) == (a \div PAGESIZE) * PAGESIZE

EndForBreak(a) == RoundUp(a)

SetBreak(a, e) ==
  /\ BreakPointLength' = a - start[Heap]
  /\ end' = [end EXCEPT ![Heap] = e]
  /\ written' = written \ PagesOf(e, end[Heap])
  /\ told' = a
  /\ UNCHANGED <<start, kind, list, VmrCount, VmrCache, Heap, pt, halted, forks>>

BrkGrows(a) ==
  /\ halted = "no" /\ Heap # Nil /\ a >= BreakPoint
  /\ a <= end[Heap] \/ a <= NextStart
  /\ SetBreak(a, IF a > end[Heap] THEN EndForBreak(a) ELSE end[Heap])
  /\ UNCHANGED astray

BrkCollides(a) ==
  /\ halted = "no" /\ Heap # Nil /\ a >= BreakPoint
  /\ a > end[Heap] /\ a > NextStart
  /\ BreakPointLength' = a - start[Heap]
  /\ astray' = TRUE
  /\ UNCHANGED <<regions, VmrCache, Heap, told, pt, halted, written, forks>>

BrkShrinks(a) ==
  /\ halted = "no" /\ Heap # Nil /\ a \in start[Heap] .. BreakPoint - 1
  /\ SetBreak(a, EndForBreak(a))
  /\ UNCHANGED astray

\* below the heap: the break goes to its start, and a page stays
BrkBelow(a) ==
  /\ halted = "no" /\ Heap # Nil /\ a < start[Heap]
  /\ SetBreak(start[Heap], start[Heap] + PAGESIZE)
  /\ astray' = TRUE

(***************************************************************************)
(* The program reads or writes a page: SolvePageFault gives it a page of   *)
(* zeros if the page table has none.                                       *)
(***************************************************************************)
Access(p, write) ==
  LET a == p * PAGESIZE IN
  /\ halted = "no"
  /\ \E v \in ToSet(list) : kind[v] # "kernel" /\ In(v, a)
  /\ pt[p] = "none" => FindVMR(a) # Nil
  /\ pt' = [pt EXCEPT ![p] = IF write THEN "data" ELSE IF @ = "none" THEN "zero" ELSE @]
  /\ VmrCache' = IF pt[p] = "none" THEN CacheAfter(a) ELSE VmrCache
  /\ written' = IF write THEN written \cup {p} ELSE written
  /\ UNCHANGED <<regions, heap, halted, forks>>

(***************************************************************************)
(* fork: CreateFrom inserts a copy of each region, and of its pages, in    *)
(* the new space.  An empty region fails the assertion of its constructor. *)
(* The child's Process::Heap is not set.                                   *)
(***************************************************************************)
CopyOf(l) ==
  LET copy[i \in 0 .. Len(l)] ==
        IF i = 0 THEN <<>>
        ELSE LET c == copy[i - 1] IN
             InsertVMR(c, IF c = <<>> THEN Nil ELSE Last(c), start, end, l[i])
  IN  copy[Len(l)]

BugStopsEarly == CopyOf(Front(list))

CopyList == CopyOf(list)

CopyFails ==
  \/ \E v \in ToSet(list) : start[v] = end[v]
  \/ \E i \in 2 .. Len(list) :
       LET l == SubSeq(list, 1, i - 1) IN Overlaps(l, Last(l), start, end, list[i])

BugLastPage(v, p) == start[v] <= p * PAGESIZE /\ (p + 1) * PAGESIZE < end[v]

Copied(v, p) == start[v] <= p * PAGESIZE /\ p * PAGESIZE < end[v]

Fork ==
  /\ halted = "no" /\ forks < MaxForks
  /\ forks' = forks + 1
  /\ IF CopyFails
     THEN /\ halted' = IF \E v \in ToSet(list) : start[v] = end[v] THEN "empty" ELSE "overlap"
          /\ UNCHANGED <<regions, VmrCache, heap, pt>>
     ELSE /\ list' = CopyList
          /\ kind' = [v \in Region |-> CASE kind[v] = "file" -> "copy"
                                         [] kind[v] = "heap" -> "program"
                                         [] OTHER -> kind[v]]
          /\ VmrCache' = Last(CopyList)
          /\ Heap' = Nil /\ BreakPointLength' = 0
          /\ pt' = [p \in Page |-> IF \E v \in ToSet(list) : kind[v] # "kernel" /\ Copied(v, p)
                                   THEN pt[p] ELSE "none"]
          /\ VmrCount' = Len(CopyList)
          /\ UNCHANGED <<start, end, told, astray, halted>>
  /\ UNCHANGED written

-----------------------------------------------------------------------------
Next ==
  \/ \E hint \in Hints \cup {Nil}, length \in Lengths, fixed \in BOOLEAN :
       \/ \E what \in {"anon", "file"} : Mmap(fixed, hint, length, what)
       \/ MmapRefused(fixed, hint, length)
  \/ \E v \in Region : Munmap(start[v]) \/ UseOfCopy(start[v])
  \/ \E a \in Breaks : BrkGrows(a) \/ BrkCollides(a) \/ BrkShrinks(a) \/ BrkBelow(a)
  \/ \E p \in Touched, write \in BOOLEAN : Access(p, write)
  \/ Fork

Spec == Init /\ [][Next]_vars

-----------------------------------------------------------------------------
(***************************************************************************)
(* The cache never names a region that is gone, and an answer from it is   *)
(* the one the list would give.                                            *)
(***************************************************************************)
CacheTransparent ==
  /\ VmrCache # Nil => VmrCache \in ToSet(list)
  /\ ~astray => \A p \in Page : FindVMR(p * PAGESIZE) = Search(p * PAGESIZE)

(***************************************************************************)
(* The list stays in the order of the addresses, and no region reaches     *)
(* into a later one but the heap, and that only after brk was asked for a  *)
(* break that could not be (see HeapIsApart).  InsertVMR meets an overlap  *)
(* only then, or for a hint that is not the start of a page.               *)
(***************************************************************************)
RegionsDisjoint ==
  /\ \A i, j \in DOMAIN list : i < j /\ end[list[i]] > start[list[j]]
                                 => astray /\ list[i] = 2
  /\ halted = "overlap" => astray

(***************************************************************************)
(* GetUsableVMR finds room exactly when there is some, and the lowest; a   *)
(* request that would end behind MmapEnd counted from the hint itself is   *)
(* refused.  (An empty region, which MAP_FIXED and brk can leave, divides  *)
(* the room it lies in.)                                                   *)
(***************************************************************************)
FreeRoom(a, length) ==
  \A v \in ToSet(list) : RoundUp(a + length) <= start[v] \/ end[v] <= a

RoomIsFound ==
  ~astray =>
  \A from \in Hints \cup {MmapStart}, length \in Lengths :
    LET rooms == {a \in Greater(Lowest, RoundDown(from)) .. MmapEnd - 1 :
                    /\ from + length <= MmapEnd
                    /\ Aligned(a) /\ RoundUp(a + length) <= MmapEnd
                    /\ FreeRoom(a, length)}
    IN  GetUsableVMR(end, from, MmapEnd, length) = IF rooms = {} THEN 0 ELSE Min(rooms)

(***************************************************************************)
(* What a program wrote into its pages is there as long as they are        *)
(* mapped, in the child of a fork as well.                                 *)
(***************************************************************************)
NothingLost ==
  \A p \in written :
    /\ pt[p] = "data"
    /\ halted = "no" => \E v \in ToSet(list) : In(v, p * PAGESIZE)

(***************************************************************************)
(* The memory up to the break a program was granted is in its heap region, *)
(* even after a refused growth has moved BreakPointLength.                 *)
(***************************************************************************)
BreakIsCovered == Heap # Nil => told <= end[Heap]

(***************************************************************************)
(* What the documentation promises of Resize: the heap never overlaps      *)
(* another region.                                                         *)
(***************************************************************************)
HeapIsApart ==
  \A i, j \in DOMAIN list : i < j /\ list[i] = Heap => end[Heap] <= start[list[j]]

(***************************************************************************)
(* What the comment in SolvePageFault promises: a page a program has not   *)
(* written since it was mapped shows it no old data.                       *)
(***************************************************************************)
FreshIsZero ==
  \A p \in Page \ written :
    (\E v \in ToSet(list) : kind[v] \in Mapping /\ In(v, p * PAGESIZE)) => pt[p] # "data"
=============================================================================
