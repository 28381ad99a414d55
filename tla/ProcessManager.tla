--------------------------- MODULE ProcessManager ---------------------------
(***************************************************************************)
(* The process table of the kernel: allocation and release of slots, the   *)
(* father/child links, the per-process waiting semaphore, the round-robin  *)
(* scheduler and the system calls clone, execve, wait4 and exit.           *)
(*                                                                         *)
(* Source: src/Kernel/Process/Process.cpp, src/Kernel/Process/parseELF.cpp *)
(* (CreateProcessFromELF), src/Kernel/Synchronize/Synchronize.cpp, the     *)
(* process part of src/Kernel/Trap/Syscall/Syscall.cpp, and the scheduling *)
(* tail of src/Kernel/Trap/Trap.cpp.                                       *)
(*                                                                         *)
(* Grain.  There is one hart and a trap runs with interrupts off, so a     *)
(* system call is atomic up to the point where it calls immSchedule().     *)
(* User code and idle0 may be preempted by the timer anywhere.  The loop   *)
(* of Schedule() is taken one slot per step ("scan" is its index i): those *)
(* steps cannot interleave with anything, they only keep actions small.    *)
(***************************************************************************)
EXTENDS Integers, FiniteSets

CONSTANTS
  MaxProcessCount,  \* slots in ProcessManager::Proc
  MaxCreate,        \* bound: processes created in one behaviour
  ElfAutoDestroy,   \* values of the F_AutoDestroy bit given to
                    \* CreateProcessFromELF (every caller leaves it at TRUE)
  CloneStack        \* whether programs give clone a stack (a thread) or not

ASSUME CountAssumption  == MaxProcessCount \in Nat /\ MaxProcessCount >= 2
ASSUME CreateAssumption == MaxCreate \in Nat
ASSUME FlagAssumption   == ElfAutoDestroy \subseteq BOOLEAN
ASSUME StackAssumption  == CloneStack \subseteq BOOLEAN

Slot == 0 .. MaxProcessCount - 1
Idle == 0            \* idle0, the kernel's main thread
Nil  == -1           \* a null pointer
Any  == -1           \* the pid argument -1 of wait4

(***************************************************************************)
(* The states of a slot that survive to the end of an atomic section.      *)
(* S_Allocated and S_Initing only exist inside one, S_UserRunning is never *)
(* used.                                                                   *)
(***************************************************************************)
ProcStatus == {"None", "Ready", "Running", "Sleeping", "Terminated"}

(***************************************************************************)
(* Where the kernel ends up when a pointer it follows is gone or an        *)
(* assertion fails: kout[Fault] shuts the machine down, and nothing is     *)
(* claimed of what happens after a use of freed memory.                    *)
(***************************************************************************)
Faults == {"AllocFailed", "NotElf", "DestroyTwice", "DestroyCurrentVMS",
           "DeadVMS", "RunDestroyed", "EmptyQueue", "NullWaitSem"}

VARIABLES
  status,       \* [Slot -> ProcStatus]
  father,       \* [Slot -> Slot or Nil]
  children,     \* [Slot -> SUBSET Slot]: the list fstChild, broNext, ...
  semVal,       \* waitSem->value of each process
  queued,       \* the process is in the queue of its own waitSem
  semRef,       \* Process::SemRef
  VMS,          \* creation number of the address space, Nil once destroyed
  liveVMS,      \* the address spaces that are not destroyed (0 is BootVMS)
  autoDestroy,  \* the F_AutoDestroy bit of Process::flags
  procCount,    \* ProcessManager::procCount
  curProc,      \* ProcessManager::curProc
  cpu,          \* the process whose saved context was last loaded
  scan,         \* index i of the loop of Schedule, 0 outside it
  at,           \* where each process resumes: user code, or a kernel loop
  arg,          \* argument of that loop: pid for wait4, new_proc for execve
  idleTask,     \* the process idle0's busy loop looks at
  created,      \* number of processes created
  fault         \* "none", or the fault that stopped the kernel

links   == <<father, children>>
sems    == <<semVal, queued, semRef>>
spaces  == <<VMS, liveVMS>>
control == <<at, arg, idleTask>>
cpuVars == <<curProc, cpu, scan>>
vars == <<status, links, sems, spaces, autoDestroy, procCount, cpuVars,
          control, created, fault>>

At == {"user", "wait4", "execve", "exit"}

TypeOK ==
  /\ status \in [Slot -> ProcStatus]
  /\ father \in [Slot -> Slot \cup {Nil}]
  /\ children \in [Slot -> SUBSET Slot]
  /\ semVal \in [Slot -> Int]
  /\ queued \in [Slot -> BOOLEAN]
  /\ semRef \in [Slot -> Int]
  /\ VMS \in [Slot -> 0 .. MaxCreate \cup {Nil}]
  /\ liveVMS \subseteq 0 .. MaxCreate
  /\ autoDestroy \in [Slot -> BOOLEAN]
  /\ procCount \in Int
  /\ curProc \in Slot
  /\ cpu \in Slot
  /\ scan \in 0 .. MaxProcessCount
  /\ at \in [Slot -> At]
  /\ arg \in [Slot -> Slot \cup {Nil}]
  /\ idleTask \in Slot \cup {Nil}
  /\ created \in 0 .. MaxCreate
  /\ fault \in Faults \cup {"none"}

(***************************************************************************)
(* ProcessManager::init: idle0 runs on the boot page table.                *)
(***************************************************************************)
Init ==
  /\ status = [p \in Slot |-> IF p = Idle THEN "Running" ELSE "None"]
  /\ father = [p \in Slot |-> Nil]
  /\ children = [p \in Slot |-> {}]
  /\ semVal = [p \in Slot |-> 0]
  /\ queued = [p \in Slot |-> FALSE]
  /\ semRef = [p \in Slot |-> 0]
  /\ VMS = [p \in Slot |-> IF p = Idle THEN 0 ELSE Nil]
  /\ liveVMS = {0}
  /\ autoDestroy = [p \in Slot |-> FALSE]
  /\ procCount = 1
  /\ curProc = Idle
  /\ cpu = Idle
  /\ scan = 0
  /\ at = [p \in Slot |-> "user"]
  /\ arg = [p \in Slot |-> Nil]
  /\ idleTask = Nil
  /\ created = 0
  /\ fault = "none"

-----------------------------------------------------------------------------
(***************************************************************************)
(* The program on the CPU, and where it is.                                *)
(***************************************************************************)
Executing(where) == fault = "none" /\ scan = 0 /\ at[cpu] = where
InUser == Executing("user") /\ curProc # Idle

(***************************************************************************)
(* The entry of Schedule: with fewer than two processes the loop is        *)
(* skipped.                                                                *)
(***************************************************************************)
BugLoopBound(count) == scan' = IF count >= 2 THEN 1 ELSE MaxProcessCount + 1

EnterSchedule(count) == scan' = IF count >= 2 THEN 1 ELSE MaxProcessCount

-----------------------------------------------------------------------------
(***************************************************************************)
(* allocProc and init.  The new process takes the first free slot; the     *)
(* caller makes it Ready before interrupts come back.                      *)
(***************************************************************************)
FreeSlots == {p \in Slot : status[p] = "None"}
FirstFree(p) == p \in FreeSlots /\ \A q \in FreeSlots : p <= q

NewProcess(p, fa, space, auto) ==
  /\ status' = [status EXCEPT ![p] = "Ready"]
  /\ father' = [father EXCEPT ![p] = fa]
  /\ children' = [q \in Slot |-> IF q = p THEN {}
                                 ELSE IF q = fa THEN children[q] \cup {p}
                                 ELSE children[q]]
  /\ semVal' = [semVal EXCEPT ![p] = 0]
  /\ queued' = [queued EXCEPT ![p] = FALSE]
  /\ semRef' = [semRef EXCEPT ![p] = 0]
  /\ VMS' = [VMS EXCEPT ![p] = space]
  /\ liveVMS' = IF space = created + 1 THEN liveVMS \cup {space} ELSE liveVMS
  /\ autoDestroy' = [autoDestroy EXCEPT ![p] = auto]
  /\ procCount' = procCount + 1
  /\ created' = created + 1

(***************************************************************************)
(* Semaphore::signal on a process's own waitSem: the process wakes up when *)
(* the value comes back to 0 and SemRef with it.                           *)
(***************************************************************************)
BugWakeLate(p) == semVal[p] + 1 = 1 /\ semRef[p] - 1 = 0

Wakes(p) == semVal[p] + 1 = 0 /\ semRef[p] - 1 = 0

SignalFault(p) ==
  IF p = Nil THEN "none"
  ELSE IF VMS[p] = Nil THEN "NullWaitSem"
  ELSE IF semVal[p] + 1 = 0 /\ ~queued[p] THEN "EmptyQueue"
  ELSE "none"

(***************************************************************************)
(* Process::exit on its own process: Terminated, then its waitSem is       *)
(* signalled up to 1.  If the process was in the queue of that semaphore   *)
(* the signal makes it Ready again.                                        *)
(***************************************************************************)
StatusAfterExit(p) ==
  IF status[p] # "Terminated" /\ semVal[p] < 0 /\ semRef[p] = 1
  THEN "Ready" ELSE "Terminated"

AtLeastOne(n) == IF n < 1 THEN 1 ELSE n

(***************************************************************************)
(* Process::exit by the current process: the father's waitSem is signalled *)
(* too, and what the process was waiting for is left alone.                *)
(***************************************************************************)
Exit(p) ==
  LET fa == father[p] IN
  /\ status' = [q \in Slot |-> IF q = p THEN StatusAfterExit(p)
                               ELSE IF q = fa /\ Wakes(fa) THEN "Ready"
                               ELSE status[q]]
  /\ semVal' = [q \in Slot |-> IF q = p THEN AtLeastOne(semVal[q])
                               ELSE IF q = fa THEN semVal[q] + 1
                               ELSE semVal[q]]
  /\ queued' = [q \in Slot |-> IF q = fa /\ Wakes(fa) THEN FALSE ELSE queued[q]]
  /\ semRef' = [q \in Slot |-> IF q = fa /\ semVal[q] + 1 = 0
                               THEN semRef[q] - 1 ELSE semRef[q]]
  /\ fault' = SignalFault(fa)

(***************************************************************************)
(* Process::destroy runs over the process and, before its own resources    *)
(* are released, over all its descendants.                                 *)
(***************************************************************************)
Subtree(p) ==
  {q \in Slot : \A S \in SUBSET Slot :
      (p \in S /\ \A r \in S : children[r] \subseteq S) => q \in S}

(***************************************************************************)
(* What can go wrong in destroy: the file table is already gone, the       *)
(* address space is the current one (an ASSERTEX of                        *)
(* VirtualMemorySpace::Destroy), or it was destroyed before, which happens *)
(* to an address space shared by two threads.                              *)
(***************************************************************************)
DestroyFault(p) ==
  LET D == Subtree(p) IN
  IF \E d \in D : VMS[d] = Nil THEN "DestroyTwice"
  ELSE IF \E d \in D : VMS[d] = VMS[curProc] THEN "DestroyCurrentVMS"
  ELSE IF \/ \E d \in D : VMS[d] \notin liveVMS
          \/ \E d, e \in D : d # e /\ VMS[d] = VMS[e] THEN "DeadVMS"
  ELSE "none"

(***************************************************************************)
(* destroy unlinks the process from its father's list and ends every list  *)
(* of the subtree; freeProc gives one slot back.                           *)
(***************************************************************************)
BugStayListed(p) == [q \in Slot |-> IF q \in Subtree(p) THEN {} ELSE children[q]]
BugSlotNotCounted == procCount

ChildrenAfterDestroy(p) ==
  [q \in Slot |-> IF q \in Subtree(p) THEN {} ELSE children[q] \ {p}]
CountAfterFree == procCount - 1

(***************************************************************************)
(* child->destroy(); pm.freeProc(child).  Only the process itself is       *)
(* freed: its descendants are exited, stripped of their resources and left *)
(* in their slots.  setFa(nullptr) does nothing, so father pointers stay.  *)
(***************************************************************************)
Reap(p) ==
  LET D == Subtree(p) IN
  IF DestroyFault(p) # "none"
  THEN /\ fault' = DestroyFault(p)
       /\ UNCHANGED <<status, links, sems, spaces, procCount>>
  ELSE /\ status' = [q \in Slot |-> IF q = p THEN "None"
                                    ELSE IF q \in D THEN StatusAfterExit(q)
                                    ELSE status[q]]
       /\ children' = ChildrenAfterDestroy(p)
       /\ semVal' = [q \in Slot |-> IF q \in D THEN 0 ELSE semVal[q]]
       /\ queued' = [q \in Slot |-> IF q \in D THEN FALSE ELSE queued[q]]
       /\ semRef' = [q \in Slot |-> IF q \in D THEN 0 ELSE semRef[q]]
       /\ VMS' = [q \in Slot |-> IF q \in D THEN Nil ELSE VMS[q]]
       /\ liveVMS' = liveVMS \ {VMS[d] : d \in D}
       /\ procCount' = CountAfterFree
       /\ UNCHANGED <<father, fault>>

-----------------------------------------------------------------------------
(***************************************************************************)
(* System calls.  CreationFault: with a full table clone reports           *)
(* kout[Fault], and CreateProcessFromELF follows the null pointer.         *)
(***************************************************************************)
CreationFault ==
  /\ FreeSlots = {}
  /\ fault' = "AllocFailed"
  /\ UNCHANGED <<status, links, sems, spaces, autoDestroy, procCount, cpuVars,
                 control, created>>

(***************************************************************************)
(* Syscall_clone: a copy of the caller with its own address space, or, when*)
(* a stack is given, a thread in the same one.  Without SIGCHLD in the     *)
(* flags the new process has no father.                                    *)
(***************************************************************************)
Clone(thread, sigchld) ==
  /\ InUser
  /\ created < MaxCreate
  /\ \/ CreationFault
     \/ \E p \in Slot :
          /\ FirstFree(p)
          /\ NewProcess(p,
                        IF sigchld THEN curProc ELSE Nil,
                        IF thread THEN VMS[curProc] ELSE created + 1,
                        autoDestroy[curProc])
          /\ at' = [at EXCEPT ![p] = "user"]
          /\ arg' = [arg EXCEPT ![p] = Nil]
          /\ UNCHANGED <<cpuVars, idleTask, fault>>

(***************************************************************************)
(* Syscall_execve of a file that is not an ELF image: CreateProcessFromELF *)
(* returns nullptr and new_proc->destroyFds() follows it.                  *)
(***************************************************************************)
ExecveNotElf ==
  /\ InUser
  /\ fault' = "NotElf"
  /\ UNCHANGED <<status, links, sems, spaces, autoDestroy, procCount, cpuVars,
                 control, created>>

(***************************************************************************)
(* Syscall_execve: the image runs in a new child, and the caller waits for *)
(* that child in the kernel.                                               *)
(***************************************************************************)
Execve(auto) ==
  /\ InUser
  /\ created < MaxCreate
  /\ \/ CreationFault
     \/ \E p \in Slot :
          /\ FirstFree(p)
          /\ NewProcess(p, curProc, created + 1, auto)
          /\ at' = [at EXCEPT ![p] = "user", ![curProc] = "execve"]
          /\ arg' = [arg EXCEPT ![p] = Nil, ![curProc] = p]
          /\ UNCHANGED <<cpuVars, idleTask, fault>>

(***************************************************************************)
(* The zombies a waiting process would take: any child, or the one asked   *)
(* for.                                                                    *)
(***************************************************************************)
BugAnyIgnored(p, who) == {c \in children[p] : status[c] = "Terminated" /\ who = c}

Zombies(p, who) == {c \in children[p] : /\ status[c] = "Terminated"
                                        /\ who = Any \/ who = c}

(***************************************************************************)
(* Syscall_wait4 with WNOHANG: one look at the children.                   *)
(***************************************************************************)
Wait4NoHang(who) ==
  /\ InUser
  /\ \E c \in Zombies(curProc, who) : Reap(c)
  /\ UNCHANGED <<autoDestroy, cpuVars, control, created>>

(***************************************************************************)
(* Syscall_wait4: a process without children returns -1 at once, every     *)
(* other caller enters the loop.                                           *)
(***************************************************************************)
Wait4(who) ==
  /\ InUser
  /\ children[curProc] # {}
  /\ at' = [at EXCEPT ![curProc] = "wait4"]
  /\ arg' = [arg EXCEPT ![curProc] = who]
  /\ UNCHANGED <<status, links, sems, spaces, autoDestroy, procCount, cpuVars,
                 idleTask, created, fault>>

Wait4Return ==
  /\ Executing("wait4")
  /\ \E c \in Zombies(curProc, arg[curProc]) : Reap(c)
  /\ at' = [at EXCEPT ![curProc] = "user"]
  /\ arg' = [arg EXCEPT ![curProc] = Nil]
  /\ UNCHANGED <<autoDestroy, cpuVars, idleTask, created>>

(***************************************************************************)
(* The child of execve has terminated: reap it, then exit in its place.    *)
(***************************************************************************)
ExecveReturn ==
  /\ Executing("execve")
  /\ \E c \in Zombies(curProc, arg[curProc]) : Reap(c)
  /\ at' = [at EXCEPT ![curProc] = "exit"]
  /\ arg' = [arg EXCEPT ![curProc] = Nil]
  /\ UNCHANGED <<autoDestroy, cpuVars, idleTask, created>>

(***************************************************************************)
(* The blocking half of both loops: Semaphore::wait on the caller's own    *)
(* waitSem and immSchedule().                                              *)
(***************************************************************************)
Block ==
  /\ Executing("wait4") \/ Executing("execve")
  /\ Zombies(curProc, arg[curProc]) = {}
  /\ semVal' = [semVal EXCEPT ![curProc] = @ - 1]
  /\ IF semVal[curProc] - 1 < 0
     THEN /\ queued' = [queued EXCEPT ![curProc] = TRUE]
          /\ semRef' = [semRef EXCEPT ![curProc] = @ + 1]
          /\ status' = [status EXCEPT ![curProc] = "Sleeping"]
     ELSE UNCHANGED <<queued, semRef, status>>
  /\ EnterSchedule(procCount)
  /\ UNCHANGED <<links, spaces, autoDestroy, procCount, curProc, cpu, control,
                 created, fault>>

(***************************************************************************)
(* exit: by the system call, an unknown or banned system call, a page      *)
(* fault that cannot be served, or at the end of execve.                   *)
(***************************************************************************)
ExitProcess ==
  /\ InUser \/ Executing("exit")
  /\ Exit(curProc)
  /\ EnterSchedule(procCount)
  /\ UNCHANGED <<links, spaces, autoDestroy, procCount, curProc, cpu, control,
                 created>>

(***************************************************************************)
(* A timer interrupt in user code or in idle0, or sched_yield.             *)
(***************************************************************************)
Preempt ==
  /\ Executing("user")
  /\ EnterSchedule(procCount)
  /\ UNCHANGED <<status, links, sems, spaces, autoDestroy, procCount, curProc,
                 cpu, control, created, fault>>

-----------------------------------------------------------------------------
(***************************************************************************)
(* idle0 starts the programs of the test list one after the other and      *)
(* spins, with interrupts on, until the process it started is Terminated.  *)
(***************************************************************************)
IdleStart(auto) ==
  /\ Executing("user") /\ curProc = Idle
  /\ idleTask = Nil
  /\ created < MaxCreate
  /\ \/ CreationFault
     \/ \E p \in Slot :
          /\ FirstFree(p)
          /\ NewProcess(p, Idle, created + 1, auto)
          /\ at' = [at EXCEPT ![p] = "user"]
          /\ arg' = [arg EXCEPT ![p] = Nil]
          /\ idleTask' = p
          /\ UNCHANGED <<cpuVars, fault>>

IdlePoll ==
  /\ Executing("user") /\ curProc = Idle
  /\ idleTask # Nil
  /\ status[idleTask] = "Terminated"
  /\ idleTask' = Nil
  /\ UNCHANGED <<status, links, sems, spaces, autoDestroy, procCount, cpuVars,
                 at, arg, created, fault>>

-----------------------------------------------------------------------------
(***************************************************************************)
(* The loop of ProcessManager::Schedule over the slots after curProc.      *)
(***************************************************************************)
Scanning == fault = "none" /\ scan \in 1 .. MaxProcessCount - 1
BugFromSlotZero == scan % MaxProcessCount

Target == (curProc + scan) % MaxProcessCount
AutoReapable(p) == status[p] = "Terminated" /\ autoDestroy[p]

RunFault(p) == IF VMS[p] = Nil THEN "RunDestroyed"
               ELSE IF VMS[p] \notin liveVMS THEN "DeadVMS"
               ELSE "none"

(***************************************************************************)
(* tar->run(): the old process goes back to Ready if it was Running.       *)
(***************************************************************************)
BugOldKeepsRunning(tar) == [status EXCEPT ![tar] = "Running"]

StatusAfterRun(tar) ==
  [p \in Slot |-> IF p = tar THEN "Running"
                  ELSE IF p = curProc /\ status[p] = "Running" THEN "Ready"
                  ELSE status[p]]

Dispatch ==
  /\ Scanning
  /\ status[Target] = "Ready"
  /\ status' = StatusAfterRun(Target)
  /\ curProc' = Target
  /\ cpu' = Target
  /\ scan' = 0
  /\ fault' = RunFault(Target)
  /\ UNCHANGED <<links, sems, spaces, autoDestroy, procCount, control, created>>

AutoReap ==
  /\ Scanning
  /\ AutoReapable(Target)
  /\ Reap(Target)
  /\ scan' = scan + 1
  /\ UNCHANGED <<autoDestroy, curProc, cpu, control, created>>

Skip ==
  /\ Scanning
  /\ status[Target] # "Ready" /\ ~AutoReapable(Target)
  /\ scan' = scan + 1
  /\ UNCHANGED <<status, links, sems, spaces, autoDestroy, procCount, curProc,
                 cpu, control, created, fault>>

(***************************************************************************)
(* No slot is Ready: idle0's saved context is resumed and curProc is left  *)
(* as it is.                                                               *)
(***************************************************************************)
Fallback ==
  /\ fault = "none"
  /\ scan = MaxProcessCount
  /\ cpu' = Idle
  /\ scan' = 0
  /\ UNCHANGED <<status, links, sems, spaces, autoDestroy, procCount, curProc,
                 control, created, fault>>

(***************************************************************************)
(* KernelFaultSolver: shutdown, then an endless loop.                      *)
(***************************************************************************)
Halted == fault # "none" /\ UNCHANGED vars

-----------------------------------------------------------------------------
Syscall ==
  \/ \E thread \in CloneStack, sigchld \in BOOLEAN : Clone(thread, sigchld)
  \/ \E auto \in ElfAutoDestroy : Execve(auto)
  \/ ExecveNotElf
  \/ \E who \in {Any} \cup (Slot \ {Idle}) : Wait4(who) \/ Wait4NoHang(who)
  \/ ExitProcess

KernelLoop == Wait4Return \/ ExecveReturn \/ Block

Schedule == Dispatch \/ AutoReap \/ Skip \/ Fallback

IdleLoop == (\E auto \in ElfAutoDestroy : IdleStart(auto)) \/ IdlePoll

Next == Syscall \/ KernelLoop \/ Schedule \/ IdleLoop \/ Preempt \/ Halted

Spec == Init /\ [][Next]_vars

(***************************************************************************)
(* A kernel path runs to its end and the timer keeps interrupting; nothing *)
(* is assumed of the programs.                                             *)
(***************************************************************************)
Fairness ==
  /\ WF_vars(Schedule)
  /\ WF_vars(KernelLoop)
  /\ WF_vars(Executing("exit") /\ ExitProcess)
  /\ WF_vars(Preempt)

FairSpec == Spec /\ Fairness

-----------------------------------------------------------------------------
Running == fault = "none"

(***************************************************************************)
(* procCount is the number of slots in use (allocProc, freeProc).          *)
(***************************************************************************)
CountsAreExact ==
  Running => procCount = Cardinality({p \in Slot : status[p] # "None"})

(***************************************************************************)
(* Outside Schedule the program on the CPU is curProc and curProc alone is *)
(* Running.  At every moment idle0 is runnable, so that Schedule never     *)
(* resumes idle0's context while curProc is another process.               *)
(***************************************************************************)
OneRunning ==
  Running =>
    /\ scan = 0 => cpu = curProc /\ status[curProc] = "Running"
    /\ \A p \in Slot : status[p] = "Running" => p = curProc
    /\ status[Idle] \in {"Ready", "Running"}

(***************************************************************************)
(* The links kept by setFa and destroy: a listed child names its father,   *)
(* is in use and still has its resources, and so does its father; the      *)
(* lists form a forest, so that destroy's recursion ends.  A father is     *)
(* never destroyed before its child: exit never signals a semaphore that   *)
(* was deleted.                                                            *)
(***************************************************************************)
FamilyTree ==
  /\ fault # "NullWaitSem"
  /\ Running =>
       /\ \A p \in Slot : \A c \in children[p] :
             /\ father[c] = p
             /\ status[c] # "None"
             /\ VMS[c] # Nil /\ VMS[p] # Nil
             /\ p \notin Subtree(c)
       /\ \A c \in Slot :
             VMS[c] # Nil /\ father[c] # Nil => c \in children[father[c]]

(***************************************************************************)
(* A process sleeps exactly when its own waitSem is at -1 with it in the   *)
(* queue and one reference: the next signal wakes it, and signal never     *)
(* takes the front of an empty queue.                                      *)
(***************************************************************************)
SleepersAreQueued ==
  /\ fault # "EmptyQueue"
  /\ Running =>
       \A p \in Slot :
         IF status[p] = "Sleeping"
         THEN semVal[p] = -1 /\ queued[p] /\ semRef[p] = 1
         ELSE semVal[p] >= 0 /\ ~queued[p] /\ semRef[p] = 0

(***************************************************************************)
(* No lost wakeup in wait4(-1): a caller that sleeps has a child, and none *)
(* of its children has terminated.                                         *)
(***************************************************************************)
NoLostChild ==
  Running =>
    \A p \in Slot :
      status[p] = "Sleeping" /\ at[p] = "wait4" /\ arg[p] = Any =>
        /\ children[p] # {}
        /\ \A c \in children[p] : status[c] # "Terminated"

(***************************************************************************)
(* Schedule reaps zombies too (F_AutoDestroy).  It never takes one from    *)
(* under a father that is already in wait4 or execve for it: the woken     *)
(* father comes before the zombie in the round.                            *)
(***************************************************************************)
WaitsFor(p, c) ==
  c \in children[p] /\ \/ at[p] = "execve" /\ arg[p] = c
                       \/ at[p] = "wait4" /\ arg[p] \in {Any, c}

NoStolenZombie ==
  [][\A c \in Slot :
       status[c] = "Terminated" /\ status'[c] = "None" =>
         \A p \in Slot : WaitsFor(p, c) => scan = 0 /\ curProc = p]_vars

(***************************************************************************)
(* Starvation freedom: a Ready process is eventually dispatched (or        *)
(* destroyed), whatever the other programs do.                             *)
(***************************************************************************)
ReadyRuns == \A p \in Slot : status[p] = "Ready" ~> (status[p] # "Ready" \/ ~Running)

(***************************************************************************)
(* wait4 returns once there is a child for it to reap.                     *)
(***************************************************************************)
WaitReturns ==
  \A p \in Slot :
    (at[p] = "wait4" /\ Zombies(p, arg[p]) # {})
      ~> (at[p] # "wait4" \/ status[p] \in {"Terminated", "None"} \/ ~Running)

-----------------------------------------------------------------------------
(***************************************************************************)
(* What CountsAreExact, OneRunning and SleepersAreQueued rest on, and the  *)
(* inductive invariant they make together.                                 *)
(*   - a free slot holds no resources (destroy comes before freeProc);     *)
(*   - idle0 is nobody's child, so that no destroy reaches it, and it      *)
(*     never enters a kernel loop;                                         *)
(*   - the round of Schedule does not pass over idle0: while another       *)
(*     process is current, the slot of idle0 is still ahead.               *)
(***************************************************************************)
FreeSlotsAreEmpty == Running => \A p \in Slot : status[p] = "None" => VMS[p] = Nil

IdleIsRoot ==
  Running =>
    /\ at[Idle] = "user"
    /\ \A p \in Slot : Idle \notin children[p]
    /\ curProc = Idle => status[Idle] = "Running"

IdleIsAhead ==
  Running => (scan >= 1 /\ curProc # Idle => scan <= MaxProcessCount - curProc)

IInv ==
  /\ TypeOK
  /\ CountsAreExact
  /\ OneRunning
  /\ SleepersAreQueued
  /\ FreeSlotsAreEmpty
  /\ IdleIsRoot
  /\ IdleIsAhead

-----------------------------------------------------------------------------
(***************************************************************************)
(* The remaining properties are claims of the documentation that the code  *)
(* does not keep; each has a run that shows the counterexample.            *)
(***************************************************************************)

(***************************************************************************)
(* EFOS.6: a destroyed process goes back to None.  destroy does not free   *)
(* the slots of the descendants it destroys.                               *)
(***************************************************************************)
DestroyedIsFree == Running => \A p \in Slot : VMS[p] = Nil => status[p] = "None"

(***************************************************************************)
(* EFOS.5: SharedCount keeps an address space until its last user is gone. *)
(* Every address space a process refers to still exists.                   *)
(***************************************************************************)
SpacesAlive == Running => \A p \in Slot : VMS[p] # Nil => VMS[p] \in liveVMS
=============================================================================
