# A verification of the EFOS kernel

EFOS (this repository) is a small RISC-V kernel in C++ for one hart: Sv39
virtual memory, a first-fit page allocator, processes with a round-robin
scheduler, pipes, a virtual file system over ext4 (the lwext4 library), and a virtio disk. This
directory holds TLA+ models of it, the TLC configurations that check them, and
TLAPS proofs. Paths below are relative to `src/`.

## 1. Inventory

Interrupts are off from trap entry to `sret`, and there is one hart, so a system
call runs alone **until it calls `immSchedule()`** (an `ebreak` from which another
process is resumed). Everything that can interleave does so at those calls, at a
timer interrupt in user code, or in `idle0`, the kernel's main thread, which runs
with interrupts on (`main.cpp:656`) and can be interrupted anywhere, inside the page
allocator too. One call reschedules where nobody expects it: closing the last write
descriptor of a pipe writes an end marker, which sleeps when the ring is full, also when it
is `Schedule` that reaps the owner.

| component | state | operations | talks to | hard behaviour | what makes it correct |
|---|---|---|---|---|---|
| process table, scheduler, wait/exit (`Kernel/Process/Process.cpp`) | `Proc[]`, status, father/child/brother pointers, `waitSem`, `SemRef`, `procCount`, `curProc` | `allocProc`, `init`, `setFa`, `exit`, `destroy`, `freeProc`, `run`, `Schedule`, `immSchedule` | semaphores, address spaces, system calls, `idle0` | wait/exit races, two reapers (father and scheduler), recursive destroy, resuming `idle0` | exact counts, one Running process, a well-formed family tree, no lost wakeup, no starvation |
| system calls on processes (`Kernel/Trap/Syscall/Syscall.cpp`) | the caller's position in `wait4`/`execve` | `clone`, `execve`, `wait4`, `exit`, `sched_yield` | process table | loops around `immSchedule()` | `wait4` returns when it can |
| semaphores (`Kernel/Synchronize/Synchronize.cpp`) | `value`, a queue of `Process*` | `init`, `wait`, `signal` | process table | several waiters, waiters that die in the queue | a signal that has a waiter wakes one |
| traps (`Kernel/Trap/Trap.cpp`) | saved frame, `needSchedule` | timer, page fault, system call, `ebreak` | scheduler | page faults inside a system call | the frame that is resumed belongs to `curProc` |
| ELF loader (`Kernel/Process/parseELF.cpp`) | - | `CreateProcessFromELF` | process table, VMS, files | failure half way | a refused image leaves nothing behind |
| page allocator (`Kernel/Memory/pmm.cpp`) | `PAGE[]` (`flags`, `num`, `pre`, `nxt`), `head`, `PageCount` | `Init`, `alloc_pages`, `free_pages`, `insert_page`, `malloc`, `free` | everything | split and merge in any order, stale `flags` inside blocks, requests for 0 pages, `idle0` interrupted inside a call | blocks never overlap, list sorted and doubly linked, `PageCount` exact |
| address spaces (`Include/Memory/vmm.hpp`) | list of regions, one-entry cache, heap break, page table, `SharedCount` | `InsertVMR`, `FindVMR`, `RemoveVMR`, `GetUsableVMR`, `Resize`, `Destroy` | page allocator, processes | cache, refused break, hints inside a page, sharing by threads | regions disjoint and sorted, cache valid |
| pipes (`Kernel/File/FileEx.cpp`) | ring buffer, `in`/`out`, semaphores `full`, `empty`, `file`, `readRef`/`writeRef` | `read`, `write`, `close` | semaphores, processes, descriptors | three semaphores taken in turn with reschedules, in-band end marker written inside `close` and `destroy` | bytes in order and once, reader ends when writers are gone |
| descriptors (`Kernel/File/FileObject.cpp`) | per-process list of `FileObject` | open, dup, close, `find_sui_fd` | VFS, pipes | dup/close counts | smallest free descriptor, one object per number |
| VFS nodes (`Kernel/File/vfsm.cpp`) | node tree, `RefCount` | `open`, `close`, `unlink`, duplicate | ext4, descriptors | counts along paths, opens that share nodes and opens that do not | no node freed while a descriptor uses it |
| ext4, FAT32 (`Kernel/File/myext4.cpp`, `FAT32.cpp`) | on disk | adapters to vendored code | disk | crash | out of scope |
| virtio disk (`Kernel/Driver/VirtioDisk.cpp`) | descriptor ring, `waitDisk` | read, write, interrupt | process table | `waitDisk->wait()` without a reschedule | ring descriptors never shared |
| kernel main (`Kernel/Boot/main.cpp`) | the program `idle0` watches | start a program, poll for its end | process table | polls a slot another party frees | it sees each program's end |
| signals, slab, path tool, kernel library | - | - | - | signals are queued and never delivered; slab is switched off; the others are pure code | - |

`PROJECT.json` lists every component with its status, every hazard at its line,
and which property watches it.

## 2. Modules

| module | models |
|---|---|
| `ProcessManager` | the process table with its system calls, scheduler and `idle0` |
| `ProcessManager_proofs`, `ProcessFamily_proofs`, `ProcessWait_proofs` | the theorems about it: counts and sleepers, the family tree, who gets a zombie |
| `PageAllocator` | what a page allocator promises: an abstract specification |
| `Pmm` | the page allocator of `pmm.cpp`, pointers included, refining `PageAllocator` |
| `Pmm_proofs` | the theorems about it, the refinement included |
| `Semaphore` | `Semaphore::wait` and `signal` with the queue of processes |
| `ByteQueue` | what a pipe promises: an abstract specification |
| `Pipe` | a pipe and the processes that share it: two instances of `Semaphore`, the ring, the write descriptors; refines `ByteQueue` |
| `Pipe_proofs`, `PipeData_proofs` | the theorems about it: semaphores and write descriptors, then the bytes and the refinement |
| `VmSpace` | the regions of an address space, the heap, `mmap`, `munmap`, `brk`, page faults, fork |
| `VmSpace_proofs` | the theorems about it |
| `Files` | descriptor tables and the nodes of open files with their reference counts |
| `Files_proofs` | the theorems about it: descriptor numbers, reference counts, the links of the nodes |
| `MCProcessManager`, `MCPmm`, `MCPipe`, `MCVmSpace`, `MCFiles` | the instances for TLC |

### ProcessManager

Kept: every state change of `allocProc`, `init`, `setFa`, `exit`, `destroy`,
`freeProc`, `run`, `Schedule`, `signal`/`wait` on a process's own semaphore, and
the control of `clone`, `execve`, `wait4`, `exit`.

| code | model |
|---|---|
| `Process::status` | `status`; `S_Allocated` and `S_Initing` exist only inside an atomic section and do not appear |
| `father`, `fstChild`, `broNext`, `broPre` | `father`, and `children`, the **set** of processes on the list. The order of brothers is lost: "the first Terminated child" of `wait4` becomes any Terminated child |
| `waitSem` | `semVal`, and `queued`, whether the owner is in the queue (no one else waits there) |
| `VMS` | the number of the creation that made it, `Nil` after `destroy`; `liveVMS` are those not destroyed, 0 is the boot table |
| a kernel loop around `immSchedule()` | `at`, where a process resumes, with `arg`; `cpu`, whose context was loaded last, is kept apart from `curProc`, which `Schedule` leaves alone when it falls back to `idle0` |
| the loop of `Schedule` | `scan`, its index; one slot per step. The steps cannot interleave with anything |
| `kout[Fault]`, a null or freed pointer | `fault` names it, and nothing is claimed afterwards: `KernelFaultSolver` (`Include/Library/KoutSingle.hpp:604`) shuts the machine down |
| `idle0`'s loop | `IdleStart`, `IdlePoll` |

`destroy` is one step here. That is exact unless it closes the last write descriptor of a
pipe with a full ring and sleeps; `Pipe` models that.

Left out: sleeping on pipes (see `Pipe`) and on the disk semaphore, kernel threads and
`ProcessManager::destroy` (no live caller), the loop of `nanosleep` around `immSchedule`
(for the table it is `sched_yield`), the exits for banned and unknown system calls, exit codes,
times and names. Descriptors are in `Files`.

### PageAllocator and Pmm

See section 4 for what is checked. `PageAllocator` knows only which pages are in
whose hands: an allocation takes a run of free pages, a release gives a whole
allocation back, a refusal changes nothing. `Pmm` has the array of `PAGE` headers
with `flags`, `num`, `pre` and `nxt`, the list head and `PageCount`.

| code | model |
|---|---|
| `PMM::malloc`, and `alloc_pages(1)` as `vmm.hpp` calls it | `Malloc`; `MallocFails` when `kout[Fault]` ends the kernel |
| `free_pages`, reached by `free` too | `Free`, as `FreeHeld` of a block its caller holds and `FreeEmpty` of one it should not give back; `FreeRefused`, the early return |
| `new unsigned char[0]` in `read` and `write` | `Malloc(0)`: the block is marked and stays on the list (`empties`); `write` gives it back, `read` does not |
| `Process::destroy` freeing the heap's region after `VMS->Destroy()` did (`Process.cpp:242`) | a second free of a block in `stale`, at any time until its pages are handed out |
| a call of `idle0`, with interrupts on | `IdleCalls`, then the call's own step, or `Overtaken` when another call comes in between |

A walk along the list is `Reach`: the nodes one gets to from a start, going on inside a
set. `PAGE::flags` is written when a block is handed out and cleared for the **first** page
when it comes back: the pages inside keep their old flags, which is one reason why adjacent
free blocks can stay apart.

`spoiled` says what the list can no longer be trusted after. Giving back a block that a
request for no pages was answered with links it in a second time ("empty"; finding 4);
`FollowDamage` says whether the model goes on from there, as the run `empty_request` does.
A call that overtakes `idle0` leaves a list of which the model says nothing ("overtaken"),
since it would have to interleave every load and store of the two. The properties are claimed of the list
until then, the refinement of every step before the one that spoils it; a request for no
pages alone spoils nothing, and they hold through it.

Left out: `PAGE::ref`, the addresses computed from page numbers, and usages other than 1 (the slab is
switched off). Assumed of callers: a block is freed a second time before its pages are in
someone else's hands (`destroy` closes descriptors between the two, and what a close
allocates it is taken to give back).

### Semaphore, ByteQueue and Pipe

| code | model |
|---|---|
| `Semaphore::value`, `queue` | `full`, `fullQ` and `empty`, `emptyQ`: one instance of `Semaphore` each |
| `Process::SemRef`, `S_Sleeping` | `SemRef`, `asleep`, shared by the two instances |
| `buffer`, `in`, `out`, `PipeSize`, `flag` | `data`, `in`, `out`, `PipeSize`, `flag`; a byte is the number of its write, and 0 is the end marker |
| `writeRef`; the `file_object`s that can write | `writeRef`; `ends`, their number in each process |
| a kernel stack with calls in it | `calls`, a stack: `close_fo` can run inside another process's `read`, because the scheduler that a sleeping reader calls may reap a zombie and close its descriptors in the reader's context |
| `destroy` with `close_fo` for each descriptor | `Destroy`, by `Reap` (in `Schedule`) or `Wait4` (the father); the descriptor whose close writes the marker stays listed (`ends`), and the zombie Terminated, until `MarkReturns` |
| a process that sleeps inside `Schedule` | `by = "nested"`: its saved context is overwritten (`Process.cpp:468`), and when it comes back the kernel runs on a lost one |
| a zombie destroyed again while its marker's write sleeps | `Destroy` once more: `writeRef` goes to 0 - 1 (`Less`, modulo `RefWidth`, 2^32 in the code); the first `destroy` resumes on a list that is gone (`fo_head` null): `broken` |

A step is one semaphore operation with what the code does up to the next one; only the
process on the CPU takes steps, and `Switch` and `Reap` happen where the kernel calls
`immSchedule()` or returns to user code. `wait` does not sleep by itself: it marks the
caller and returns, and the caller looks at the value and reschedules, once. That is
why `at` has the value "slept", and why a resumed process goes on without looking
again.

Left out: the semaphore `file`, which is taken and given back between two
reschedules and so never blocks; the byte 4 as data (a program that writes it ends the
pipe); `dup3` over a write end, which loses the count (a hazard without a property); what
the kernel does once it is `broken`;
descriptors whose flags `fcntl` changes; `readRef`, which nothing reads; a reader
that dies asleep, which takes a father that is reaped (see finding 1). A second
`read` after the end sleeps for ever, since the first one used the marker's signal up:
`ReadersAreReleased` says so in its comment.

### VmSpace

| code | model |
|---|---|
| `VirtualMemoryRegion` | `start`, `end`, `kind` of a region number; the class and the flags are the `kind` |
| the list under `vmrHead` | `list`, a sequence |
| `VmrCache`, `VmrCount` | the same |
| `Process::Heap`, `BreakPointLength` | `Heap`, `BreakPointLength` |
| the page table and the frames | `pt`: nothing, a page of zeros, or a page with data |
| a `kout[Fault]`, an assertion | `halted` |

`written`, `told` and `astray` belong to the properties: where the program has data, the
break it was last granted, and whether it asked for a break it could not have. One
space is followed; a fork goes on with the child's.

A hint may be any address (`Syscall.cpp:1213`). The room is looked for from the start of its
page and for the length alone, but the region is made from the hint itself (`Given`), so it
may need a page more than there is room for: `InsertVMR` then stops the kernel
(`halted = "unaligned"`; "overlap" is the same stop for a hint on a page, which
`RegionsDisjoint` allows only after a break that could not be had). That the heap reaches
over its neighbour then is finding 6, run `heap_overlap`; `RegionsDisjoint` says that
nothing else ever does.

Left out: rights of regions and pages, large pages (switched off), spaces shared by
threads (`ProcessManager`, finding 2), `Destroy`, faults outside every region (they end
the process), the size and offset of a file mapping. Assumed of programs: `munmap` is called with the start of a whole mapping (the code
ignores the length, and takes away any region, the heap's or the program's too), and
MAP_FIXED lies over mappings or free pages. These assumptions are guards of the
model, and stand in its comments.

### Files

| code | model |
|---|---|
| `Process::fo_head` and its list | `table[p]`, a sequence of descriptors with number and file |
| `FileNode` of files and of the directories above | `tree`: a **chain** for each call of `EXT4::open`, with a node for the file (the chain's number) and, if it is not in the root directory, one for its directory (`Folder`), each with its count |
| `parent`, up to the root | `Path`, the node and those above it; `Top`, the first of a chain |
| `root->child`, `next`, `pre` | `tree.child`, `tree.next`, `tree.pre`: the first nodes of the chains |
| `MemapFileRegion` | `maps`, the mappings of each node by each process |
| the use of a node that was freed, or of a null pointer | `tree.broken`, after which nothing is claimed |

`VFSM::open` looks for the names of the path among the nodes that are open. A path that
begins with "/" has an empty first name (`split_path_name`), which no node has: the search
fails at once and `EXT4::open` makes new nodes for the whole path, so opening one file twice gives
two chains. A path that does not begin with "/" is possible, too: `chdir` stores a relative
path as it is (`Syscall.cpp:91`), and `unified_path` makes "b/" of "/a/../b"
(`pathtool.cpp:129`). All its names may then be found, and `open` returns the node that is
there and counts up its whole path (`vfsm.cpp:423`). `OpenNode` is both: a new chain, or any node that
is open (names are left out, so any may be the one), or the root.

`Nil` as a file is the null node that `openat` with O_DIRECTORY gives a descriptor for
a plain file; `Device` is the terminal, a pipe or the root directory, which `VFSM::close`
leaves alone. The first two have no parent: `openat` relative to them, and `mmap` of them,
follow a null pointer (`NoParent`).
`lost`, `left` and `refused` belong to the properties: opens that no descriptor or mapping
stands for (`execve`'s, `openat`'s for nothing), mappings whose process was destroyed, refused
`mmap`s; `tree.copied` counts the duplicates of a file in a directory. Left out: chains with
more than one directory, positions, modes, `F_SETFD`, `unlink` (unfinished in the code),
contents.

## 3. Fairness

`FairSpec` of `ProcessManager` assumes weak fairness of

* `Schedule`, `KernelLoop` and the exit at the end of `execve`: kernel paths with
  interrupts off that simply run to their end;
* `Preempt`: the timer interrupt (`Trap.cpp`) keeps arriving in user code and in
  `idle0`.

Nothing is assumed of programs: they may run for ever, never wait, never exit.
`FairSpec` of `Pipe` assumes

* weak fairness of the kernel steps: a call runs on, with interrupts off, to its next
  reschedule;
* strong fairness of `Switch` for each process, and of `Reap`: a round of `Schedule`
  passes over every slot, so a process that is Ready again and again gets its turn
  and a zombie is met. Strong, because the guard is false while a call runs.
  `ProcessManager` justifies it: its run `processes` checks `ReadyRuns` with the
  scheduler itself modelled, under weak fairness only.

Nothing is assumed of `read`, `write`, `close` and `exit`. `Pmm`, `VmSpace` and `Files`
state no liveness: each of their calls runs to its end.

## 4. Runs

| run | question | result |
|---|---|---|
| `processes` | 4 slots, 4 creations by fork, thread and execve: counts, family tree, sleepers, lost wakeups, who takes a zombie, starvation, `wait4`'s return | all hold |
| `destroy_leaves_slots` | does a destroyed process return to `None`, as EFOS.6 says? | no |
| `page_allocator` | 4 free pages, requests of 0 to 3 pages, second frees, calls of `idle0`: does the memory stay tiled, the list sorted and doubly linked, do the marks tell a second free, and is each step one of `PageAllocator`, until the list is spoiled? | yes |
| `empty_request` | going on after a block for no pages was given back: are the pages on the list free, as `pmm.cpp:51` says? | no |
| `pipe` | a reader, a writer and a third process with write descriptors, reaped by father or scheduler: do the semaphores count the ring, does nobody sleep for nothing, are bytes in order and once (less those dropped at the marker), is `writeRef` exact, is it a bounded queue, is the reader released? | all hold |
| `pipe_readers` | with two readers: does a process sleep only when there is nothing for it, as EFOS.7 says? | no |
| `address_space` | `mmap` at any hint, `munmap`, `brk`, faults, a fork in every order: is the cache transparent, are the regions disjoint but for a heap gone astray, is room found exactly when there is some, is no data lost, is a granted break covered? | all hold |
| `heap_overlap` | does `Resize` never let the heap overlap another region, as EFOS.5 says? | no |
| `stale_pages` | is a page that is first touched clear, as `vmm.hpp:691` says? | no |
| `files` | three chains, shared or not, two processes with dup, dup3, clone, mmap, exit, lost opens: descriptor numbers, reference counts, leaks, links of nodes | all hold |
| `dangling_descriptor` | do the counts keep the node of a descriptor, as `vfsm.cpp:423` says? | no |
| `thread_space` | does an address space live until its last user is gone, as EFOS.5 says of `SharedCount`? | no |

**Bounds.** `MaxProcessCount = 4` (the code has 256): `idle0`, a father, a child and
a grandchild or brother. Every code path looks at one process, its father, and its
descendants, so four slots give all shapes of family that differ for it, a full
table, and a reused slot. `MaxCreate = 4` lets three slots be filled and one be
used again; the 5th creation adds only repetitions. Slots are not symmetric: the
scheduler's order matters. The violation runs without threads use `ForkOnly` so
that the trace shows the one thing in question.

For the page allocator, four free pages hold three blocks with room between or around
them, so that a freed block meets every neighbour it can: none, a free or a held one
before and behind it, the list empty, at its head, middle and end. A request for no pages
meets each of these lists, too. The array's own block takes two pages.

For the pipe: `idle0`, the maker, two children; a ring of 3 places, which holds 2 bytes, so
that it is full, empty and wraps; 3 bytes, so that a write of 2 blocks and the next wraps;
reads of up to 3 bytes, which may be more than there are; 2 write descriptors per
process, for `dup`. `pipe` has one reader and one writer, which is what the properties
need (`pipe_readers` shows why); the third process holds, inherits and drops write
descriptors and may be reaped while the others sleep. `writeRef` is counted modulo 16 in place
of 2^32, which is more than there can be write descriptors.

For address spaces: pages of 2 places, so that a length or break may lie inside a page;
the heap meets a fixed mapping after one page and the mmap area after two; that area has
3 pages, so that mappings of 1 page fill it and one of 2 pages does not always fit; lengths
2 and 3, hints 6, 7 and 12, one of them inside a page; 7 regions, 5 of them there from the
start; one fork.

For files: 2 processes, so that one outlives the other; 3 chains, one of them with a
directory; 2 descriptors each and 3 in all before a clone, which is enough for a gap in the
numbers together with dup3 to number 2, and for two opens that share a node beside one that
does not; 1 mapping, refused mapping or lost open at a time; `Kept = 0`, the process has closed its standard descriptors, which
leaves all room to files (`DescriptorsDiffer` is proved for any).

**Fault states.** `ProcessManager` reaches a stop of the kernel in `CreationFault` (full
table), `ExecveNotElf`, `DestroyTwice`, `DeadVMS` and `RunDestroyed`. The invariants
speak of a running kernel, except where they exclude a fault: `FamilyTree` excludes
`NullWaitSem` and `SleepersAreQueued` excludes `EmptyQueue`. The other modules have states
after which the code's behaviour is undefined or out of the model's reach: `Pmm.spoiled`,
`Pipe.broken`, `VmSpace.halted`, `Files.tree.broken`. Each is entered by a step of the model,
nothing is claimed after it, and what leads there is a finding or a hazard in
`PROJECT.json`. Where a property makes an exception for a defect of the code (`astray`,
`refused`, `lost`, `left`, `copied`, `ClosedTwice`, and `lost` bytes of a pipe), it states what holds
apart from it, and the hazard of the defect lists no property.

**Findings** (violation runs):

1. `Process::destroy` destroys the descendants of a process but frees its own slot
   only; a destroyed descendant is met again by `Schedule`.
2. `clone` with a stack shares the address space and counts no user: reaping one
   thread destroys the table of the others.
3. `signal` wakes a process only when the value is back at 0. With two readers asleep
   (value -2) the first byte wakes nobody.
4. A `read` or `write` of 0 bytes asks the allocator for 0 pages and is answered with the
   first free block, which stays on the list. When `write` gives it back it is linked in
   again, over whoever has been given it since: pages in use are free.
5. `RemoveVMR`, and the cut of MAP_FIXED, leave the pages of the old mapping in the page
   table: a new mapping there shows the old data.
6. A `brk` that is refused has moved `BreakPointLength` all the same; the next smaller `brk`
   takes it for a shrink and sets the end of the heap over the mapping behind it.
7. `VFSM::close` counts down a file and the directories above it, `duplicate_fo` counts up
   the file only: after `open`, `dup`, `close` the node of the other descriptor is freed.
   What does hold is `ReferencedIsOpen`.

Two more disagreements are not runs of their own. `Schedule` reaps any Terminated process with
`F_AutoDestroy`, the default flag, with or without a father, while `Syscall.cpp:434` says
that only the father may reap; `NoStolenZombie` says that it never happens under a father
already waiting. And the merging that EFOS.5 describes for `alloc_pages` is commented out, and
`free_pages` joins a block with the one behind it only, so a request can stop the kernel with
enough adjacent pages free.

## 5. Proofs

`ProcessManager_proofs` proves for **every** number of slots (at least 2) and of
creations, and every choice of flags, under the four ASSUMEs of `ProcessManager`:

* `TypeCorrect`: `Spec => []TypeOK`;
* `Invariance`: `Spec => []IInv`;
* `ExactCounts`, `OneProcessRuns`, `SleepersWillWake`: the three safety properties
  `CountsAreExact`, `OneRunning`, `SleepersAreQueued`.

The argument. None of the three is inductive alone, and they need each other:

* `OneRunning` says that `Schedule` may fall back to `idle0` only while `idle0` is
  current. That needs the slot of `idle0` to be still **ahead** in the round whenever
  another process is current (`IdleIsAhead`), and the loop to be entered at all,
  which needs `procCount >= 2`, which follows from `CountsAreExact` because two slots
  are in use (`TwoInUse`).
* `idle0` stays runnable because no destroy reaches it: it is nobody's child
  (`IdleIsRoot`, lemmas `SubtreeReach`, `DestroySafe`).
* `CountsAreExact` needs that freeing a slot takes it from in use to free exactly
  once: a slot that is free holds no resources (`FreeSlotsAreEmpty`), so `destroy`
  faults on it before `freeProc` can be reached.
* `SleepersAreQueued` ties status, value, queue and `SemRef` together; `Exit` and
  `Block` are the two steps that could break it (lemmas `ExitInv`, `BlockInv`).

`IInv` is the conjunction, checked by TLC in the run `processes`, and `InvStep` is
proved with one step per action. `TypeOK` is one of its conjuncts and is proved
first, alone.

`Files_proofs` proves for every number of processes, files and descriptors, under the
ASSUME of `Files`:

* `DescriptorsDiffer`: `Spec => []FdsDiffer`, no process has two descriptors of one number;
* `SmallestIsFound`: `Spec => []SmallestFd`, a new descriptor gets the smallest free number;
* `FilesTyped`: `Spec => []TypeOK`;
* `CountsAreReferences`: `Spec => []CountsReferences`, the count of an open node is the number
  of its descriptors, mappings and lost opens, less the refused mappings, and a directory's has
  those of its file too, less the duplicates;
* `ReferencedStaysOpen`: `Spec => []ReferencedIsOpen`, and `NothingStaysOpen`:
  `Spec => []NothingLeaks`, the counts guard what they should and nothing else;
* `BrothersStayLinked`: `Spec => []BrothersLinked`, the children of the root stay a list
  linked both ways.

The argument for the numbers. `find_sui_fd` marks the numbers up to the length of the list only. A list of
n descriptors cannot use up all of 0 .. n (`OneIsFree`, by counting), so the least
unmarked number is free and the least that is (`SuitableIsSmallest`). `TableInv` says
that the tables are lists of descriptors whose numbers differ; it is inductive because
appending with a free number and removing an element keep that (`WithNewKeeps`,
`WithNumberedKeeps`, `RemoveAtKeeps`), and every step appends, removes, copies a list or
leaves the tables alone (`TableStep`).

The argument for counts and nodes. Of the properties only the numbers' is inductive with
`TableInv`; the others are one induction (`FilesStep`, one lemma per action), with the invariant
`FilesInv`: `TableInv`, `RecordInv` (nothing refers to a chain that was not made yet; a process
that is not there has no descriptors) and `Agree`, which ties the tree to the function `Count` of
what each node's count should be:

* `NodeInv`: the nodes are linked, no count of an open node is 0, a file in a directory is open
  only while the directory is;
* `Matches`, for every chain: the count of the file is its `Count`, the count of the directory its
  own and the file's less the duplicates. This is inductive whether a chain is one open's or
  shared by several, since `VFSM::open` of an open node counts up just what `close` counts down;
* `Present`, for the chains that are `Guarded` (no refused `mmap`, no duplicate in a directory): a
  node that is gone has no uses. It is what makes `close` of a descriptor safe (`Known`), and it
  cannot be had for the others: finding 7.

Once a node that was freed, or a null pointer, is used (`tree.broken`) nothing is claimed of
counts, only that some chain is not `Guarded` in the first case. Each call does one thing to the
nodes and one to the references:

* what the calls do to the nodes is stated apart from tables and mappings, for any function of
  references (`DuplicatedAgrees`, `ReopenedAgrees`, `ClosedAgrees`, `OpenedAgrees`);
* the references of a file are the cardinality of a set of pairs of process and number, and a
  change to one process's list changes that set by as many pairs (`OneChanges`, `TableChange`,
  `MapsChange`);
* `copyFds` and `destroy` go through a whole list. They are functions by recursion over its
  positions, and the proof that after the last the nodes agree with the new references
  (`DuplicateAllAgrees`, `CloseAllAgrees`) takes the least position after which they do not.

`ProcessFamily_proofs` adds `FamilyHolds`: `Spec => []FamilyTree`, by `FamilyStep` on top of
`Invariance`. `FamilyTree` alone is not inductive for two reasons. The process that
creates another becomes its father, and the one that exits signals its father, so the
current process must have its resources (`CurrentHasSpace`: `run` and `destroy` both stop
the kernel first). And a new process must find nothing left in its slot of the one that
had it before (`FreeSlotsAreEmpty` of `IInv`, with `FamilyTree` itself). For `destroy` the
lemma is `ChildOutside`: who is on a list outside the family that is destroyed is outside
it, having one father only, so destroying the family takes exactly one name off exactly
one list. "The recursion of destroy ends" is proved through closed sets (`Subtree`), so
no induction over the tree is needed.

`ProcessWait_proofs` adds, on top of both, `NoChildIsLost`: `Spec => []NoLostChild`, and
`NoZombieIsStolen`: `Spec => []NoStolenZombie`. The first is inductive once `SemRef` and the
value of `waitSem` are tied to where the father is (`Block` looks for a terminated child
before it sleeps, `Exit` of a child signals). The second speaks of two reapers: the round of
`Schedule` starts behind the current process, goes through the slots and may meet a zombie
whose father has been woken but has not run. It holds because the father comes first: the
zombie was current when it exited, so the round that reaches it again has gone past every
other slot, the father's included. The invariant is about this cyclic order (who is between
the start of the round and `scan`).

`Pmm_proofs` proves for every size of the memory, every set of requests (0 included) and every
sequence of them, under the ASSUMEs of `Pmm`, `PmmTyped`, `BlocksAlwaysTile`,
`FreeListStaysSound`, `MarksAlwaysTell` and `AllocatorImplemented` (`Spec => ImplementsAllocator`:
every step to a state that is not spoiled is one of `PageAllocator`, under the refinement mapping,
or a stutter). They are one induction, since none holds without the others: while the list is
not spoiled, the free list is threaded through the headers from `head` in ascending
order, free blocks and held ones tile the pages, the first page of a block tells by `flags`
which of the two it is, unless a request for no pages has marked it (`empties`), and `PageCount`
is the number of pages in free blocks. A block marked that way is not merged with, which keeps
pages apart but breaks none of this (`EmptyEffect`, `EmptyStep`). The list is not a sequence in the code and not one in
the proof: `Reach` is handled through closed sets (what contains a start and is closed under
`nxt` contains all of it), which needs no induction along the list, and where the code walks to
the place of a block, the proof takes the greatest node in front of it.

`Pipe_proofs` proves for every size of the ring, number of processes and of bytes:

* `PipeTyped`, `WritersAreCounted` (`WriteRefCounts`: `writeRef` is the number of write descriptors
  that are not being closed, until a zombie is destroyed twice) and
  `SemaphoresCountTheRing` (`CreditsMatch`) with one reader (assumption `OneReader`) and any
  number of writers;
* `NobodySleepsInVain` (`SleepIsNeeded`) with one reader and one writer (`OneReader`,
  `OneWriter`).

The assumptions are needed and not for convenience: `signal` wakes somebody only when the value
is back at 0, and the run `pipe_readers` is TLC's counterexample to the last with two readers.
The invariant bounds a stack to two calls (a read inside which another process is reaped, whose
close writes the end marker), allows one marker (`EndInv`) and says where everything is while it
is written (`MarkOK`): nobody else has a write descriptor, and the last one belongs to the
writer of the marker, or to a zombie that is still there (`writeRef` 0), or was to one that has
been destroyed a second time (`writeRef` -1). It makes each
queue the processes that sleep on it, and counts credits: the value, plus who is past a wait
and has not used its byte or place, is what the ring has.

`PipeData_proofs` adds `BytesStayInOrder` (`BytesConserved`) and `PipeIsAByteQueue` (the refinement of
`ByteQueue`). Written bytes are consecutive numbers; the invariant cuts them into four
consecutive pieces: returned, dropped or in the read under way, in the ring, and yet to come.
Every step is one of five effects on these (`Quiet`, `Takes`, `Puts`, `Ends`, `Returns`), and each
effect is an action of `ByteQueue` or a stutter.

`VmSpace_proofs` proves for every layout of the address space, page size, bound and set of
requests, hints inside a page included, under the three ASSUMEs of `VmSpace`: `VmTyped`,
`RegionsStayApart` (`RegionsDisjoint`), `CacheTellsTheTruth` (`CacheTransparent`),
`RoomIsAlwaysFound` (`RoomIsFound`), `WrittenPagesStay` (`NothingLost`) and
`GrantedBreakIsCovered` (`BreakIsCovered`). The invariant `VmInv` says that bounds lie on pages
and in order, that the heap is region 2 and reaches to the break unless a refused `brk` moved
that, that the list is in the order of addresses with the kernel's region last (so an insertion
never appends and a walk always stops), and that the cache is in the list. That a heap gone
`astray` overlaps its neighbour (finding 6) is an exception the invariant names; that
`InsertVMR` stops the kernel on a hint inside a page is a case of `mmap`'s proof. The hard steps are

* `mmap`: MAP_FIXED may cut a region's end, so the proof first shows that ends that are only
  cut keep the order (`CutIs`), then that what `GetUsableVMR` returns lies between two
  neighbours or before the first (`UsableLies`), then that `InsertVMR` puts the new region
  just there (`MmapPlace`, `InsertedList`);
* `RoomIsFound`: a free stretch lies between two neighbours of the list (`FreeIsBetween`), so
  looking at gaps between neighbours misses none, and the first gap is the lowest;
* fork: each insertion into the copy is at its end, so the copy is the list (`CopyIsTheList`,
  through the least prefix for which it is not);
* `brk`: the heap grows by whole pages up to an aligned neighbour (`RoundUpLeast`).

The invariants of `ProcessWait_proofs`, `Pmm_proofs`, `Pipe_proofs`, `PipeData_proofs`,
`VmSpace_proofs` and `Files_proofs` were checked by TLC on the instances of section 4 before they were proved.

Model-checked only:

* liveness, `ReadyRuns`, `WaitReturns`, `ReadersAreReleased`, which the prover does not do
  (no liveness under fairness, no `ENABLED`).

The safety invariants of the runs that pass are all proved, and so are both refinements. What
the runs that end in a violation state, the code does not keep, so there is nothing to prove.

Recursive operators and the library's induction rules are out of the prover's reach. No module
declares a RECURSIVE operator: what recurses is a function, and the proofs about one argue with
the least argument for which the claim would fail.

## 6. Plan, and what is not modelled

Done: `ProcessManager`, `Pmm`, `Semaphore` with `Pipe`, `VmSpace`, `Files`, the theorems of
section 5.

Next, in order of importance:

* **Theorems.** How far the violated claims do hold: `NoDanglingFd` as long as every chain is
  `Sound`; `TakenIsOffTheList` as long as no empty block is given back; what holds of the sleepers of a pipe in place of `SleepIsNeeded` with several
  readers or writers.
* **The brother list** with `broNext` and `broPre` as a refinement of the set `children`.
* **A pipe between processes that die asleep**: `Pipe` composed with `ProcessManager`, where a
  father is reaped while its child sleeps on the ring.
* **The page allocator under `idle0`**: `Pmm` with the loads and stores of two callers apart, which
  is what `Overtaken` stands for.
* **The disk lock**: `readSector` calls `waitDisk->wait()` and goes on without a reschedule. It
  matters when `idle0`, which opens programs with interrupts on, is preempted inside a
  read: `Semaphore` composed with `idle0` and one program that reads.
* **The failure paths of `CreateProcessFromELF`**, with what each leaves behind.

Not modelled, and why:

* **`Kernel/File/lwext4`** (17 700 lines, more than 40% of the repository's C and C++): a
  library taken in from outside, on-disk structures throughout (bitmaps, extents, a
  journal, checksums). A faithful model of it would be a project of its own. This is why
  the share of the repository that the models stand for is low; the kernel's own code
  that keeps state and can go wrong across steps is in the modules above.
* **FAT32** (`FAT32.cpp`): not used, the kernel mounts ext4 only.
* **Headers of constants and accessors** (`Include/Arch/Riscv.h`, the SBI calls, `Kout`,
  string and container templates): no state of their own, or text.
* **Boot and trap assembly**: that `ebreak` saves and `sret` restores a frame is taken for
  granted; what is modelled is which frame.
* **Disk and interrupt controller**: a request polls for its answer with interrupts off, so
  what is left of the driver is the register protocol of virtio. The semaphore around
  requests, `waitDisk`, is a listed hazard and planned above.
* **Slab** is switched off; **signals** are queued and never delivered; **`unlink`** is unfinished.
* **Path resolution** is a pure string function. `Files` uses two facts about it: a path that
  begins with "/" has an empty first name, and not every unified path does.
* **System calls without state** (times, `uname`, `getcwd`, directory listing, `poll` stubs):
  they copy values out.
