----------------------- MODULE ProcessManager_proofs -----------------------
(***************************************************************************)
(* Proofs about ProcessManager, for every number of slots and processes.   *)
(***************************************************************************)
EXTENDS ProcessManager, FiniteSetTheorems, TLAPS

USE CountAssumption, CreateAssumption DEF Slot, Idle, Nil, Any

-----------------------------------------------------------------------------
(***************************************************************************)
(* Type correctness of the parts the actions are built from.               *)
(***************************************************************************)

(***************************************************************************)
(* The slot Schedule looks at is a slot, and it is idle0 exactly when the  *)
(* index has come round to it.                                             *)
(***************************************************************************)
LEMMA TargetInRange ==
  ASSUME TypeOK, Scanning
  PROVE  /\ Target \in Slot
         /\ Target # curProc
         /\ curProc + scan = MaxProcessCount => Target = Idle
<1>1. /\ curProc \in 0 .. MaxProcessCount - 1
      /\ scan \in 1 .. MaxProcessCount - 1
  BY DEF TypeOK, Scanning
<1>2. CASE curProc + scan < MaxProcessCount
  <2>1. Target = curProc + scan
    BY <1>1, <1>2 DEF Target
  <2> QED  BY <1>1, <1>2, <2>1
<1>3. CASE curProc + scan >= MaxProcessCount
  <2>1. Target = curProc + scan - MaxProcessCount
    BY <1>1, <1>3 DEF Target
  <2> QED  BY <1>1, <1>3, <2>1
<1> QED  BY <1>1, <1>2, <1>3

(***************************************************************************)
(* The parts the actions are built from keep their types.                  *)
(***************************************************************************)
LEMMA NewProcessType ==
  ASSUME TypeOK, created < MaxCreate,
         NEW p \in Slot, NEW fa \in Slot \cup {Nil},
         NEW space \in 0 .. MaxCreate \cup {Nil}, NEW auto \in BOOLEAN,
         NewProcess(p, fa, space, auto)
  PROVE  /\ status' \in [Slot -> ProcStatus]
         /\ father' \in [Slot -> Slot \cup {Nil}]
         /\ children' \in [Slot -> SUBSET Slot]
         /\ semVal' \in [Slot -> Int]
         /\ queued' \in [Slot -> BOOLEAN]
         /\ semRef' \in [Slot -> Int]
         /\ VMS' \in [Slot -> 0 .. MaxCreate \cup {Nil}]
         /\ liveVMS' \subseteq 0 .. MaxCreate
         /\ autoDestroy' \in [Slot -> BOOLEAN]
         /\ procCount' \in Int
         /\ created' \in 0 .. MaxCreate
BY DEF TypeOK, NewProcess, ProcStatus

LEMMA CreateType ==
  ASSUME TypeOK, created < MaxCreate,
         NEW p \in Slot, NEW fa \in Slot \cup {Nil},
         NEW space \in 0 .. MaxCreate \cup {Nil}, NEW auto \in BOOLEAN,
         NewProcess(p, fa, space, auto),
         at' \in [Slot -> At], arg' \in [Slot -> Slot \cup {Nil}],
         idleTask' \in Slot \cup {Nil},
         UNCHANGED <<curProc, cpu, scan, fault>>
  PROVE  TypeOK'
<1>1. /\ status' \in [Slot -> ProcStatus]
      /\ father' \in [Slot -> Slot \cup {Nil}]
      /\ children' \in [Slot -> SUBSET Slot]
      /\ semVal' \in [Slot -> Int]
      /\ queued' \in [Slot -> BOOLEAN]
      /\ semRef' \in [Slot -> Int]
      /\ VMS' \in [Slot -> 0 .. MaxCreate \cup {Nil}]
      /\ liveVMS' \subseteq 0 .. MaxCreate
      /\ autoDestroy' \in [Slot -> BOOLEAN]
      /\ procCount' \in Int
      /\ created' \in 0 .. MaxCreate
  BY NewProcessType
<1> QED  BY <1>1 DEF TypeOK

(***************************************************************************)
(* The two outcomes of Reap, without its LET and IF.                       *)
(***************************************************************************)
LEMMA ReapEffect ==
  ASSUME NEW p, Reap(p), DestroyFault(p) = "none"
  PROVE  /\ status' = [q \in Slot |-> IF q = p THEN "None"
                                      ELSE IF q \in Subtree(p)
                                           THEN StatusAfterExit(q)
                                      ELSE status[q]]
         /\ children' = ChildrenAfterDestroy(p)
         /\ semVal' = [q \in Slot |-> IF q \in Subtree(p) THEN 0 ELSE semVal[q]]
         /\ queued' = [q \in Slot |-> IF q \in Subtree(p) THEN FALSE ELSE queued[q]]
         /\ semRef' = [q \in Slot |-> IF q \in Subtree(p) THEN 0 ELSE semRef[q]]
         /\ VMS' = [q \in Slot |-> IF q \in Subtree(p) THEN Nil ELSE VMS[q]]
         /\ liveVMS' \subseteq liveVMS
         /\ procCount' = procCount - 1
         /\ father' = father
         /\ fault' = fault
BY DEF Reap, CountAfterFree

LEMMA ReapFails ==
  ASSUME NEW p, Reap(p), DestroyFault(p) # "none"
  PROVE  /\ fault' = DestroyFault(p)
         /\ UNCHANGED <<status, father, children, semVal, queued, semRef, VMS,
                        liveVMS, procCount>>
BY DEF Reap, links, sems, spaces

LEMMA ReapType ==
  ASSUME TypeOK, NEW p \in Slot, Reap(p)
  PROVE  /\ status' \in [Slot -> ProcStatus]
         /\ father' \in [Slot -> Slot \cup {Nil}]
         /\ children' \in [Slot -> SUBSET Slot]
         /\ semVal' \in [Slot -> Int]
         /\ queued' \in [Slot -> BOOLEAN]
         /\ semRef' \in [Slot -> Int]
         /\ VMS' \in [Slot -> 0 .. MaxCreate \cup {Nil}]
         /\ liveVMS' \subseteq 0 .. MaxCreate
         /\ procCount' \in Int
         /\ fault' \in Faults \cup {"none"}
<1>1. DestroyFault(p) \in Faults \cup {"none"}
  BY DEF DestroyFault, Faults
<1>2. CASE DestroyFault(p) # "none"
  BY <1>1, <1>2, ReapFails DEF TypeOK
<1>3. CASE DestroyFault(p) = "none"
  <2>1. /\ status' = [q \in Slot |-> IF q = p THEN "None"
                                     ELSE IF q \in Subtree(p)
                                          THEN StatusAfterExit(q)
                                     ELSE status[q]]
        /\ children' = ChildrenAfterDestroy(p)
    BY <1>3, ReapEffect
  <2>2. /\ semVal' = [q \in Slot |-> IF q \in Subtree(p) THEN 0 ELSE semVal[q]]
        /\ semRef' = [q \in Slot |-> IF q \in Subtree(p) THEN 0 ELSE semRef[q]]
        /\ VMS' = [q \in Slot |-> IF q \in Subtree(p) THEN Nil ELSE VMS[q]]
        /\ queued' = [q \in Slot |-> IF q \in Subtree(p) THEN FALSE ELSE queued[q]]
    BY <1>3, ReapEffect
  <2>3. /\ liveVMS' \subseteq liveVMS
        /\ procCount' = procCount - 1
        /\ father' = father
        /\ fault' = fault
    BY <1>3, ReapEffect
  <2>4. status' \in [Slot -> ProcStatus]
    <3>1. \A q \in Slot : StatusAfterExit(q) \in ProcStatus
      BY DEF StatusAfterExit, ProcStatus
    <3> QED  BY <2>1, <3>1 DEF TypeOK, ProcStatus
  <2>5. children' \in [Slot -> SUBSET Slot]
    BY <2>1 DEF TypeOK, ChildrenAfterDestroy
  <2>6. /\ semVal' \in [Slot -> Int]
        /\ semRef' \in [Slot -> Int]
        /\ VMS' \in [Slot -> 0 .. MaxCreate \cup {Nil}]
    BY <2>2 DEF TypeOK
  <2>7. queued' \in [Slot -> BOOLEAN]
    BY <2>2 DEF TypeOK
  <2> QED
    BY <2>3, <2>4, <2>5, <2>6, <2>7 DEF TypeOK
<1> QED  BY <1>2, <1>3

LEMMA ExitType ==
  ASSUME TypeOK, Exit(curProc)
  PROVE  /\ status' \in [Slot -> ProcStatus]
         /\ semVal' \in [Slot -> Int]
         /\ queued' \in [Slot -> BOOLEAN]
         /\ semRef' \in [Slot -> Int]
         /\ fault' \in Faults \cup {"none"}
<1>1. SignalFault(father[curProc]) \in Faults \cup {"none"}
  BY DEF SignalFault, Faults
<1>2. \A q \in Slot : StatusAfterExit(q) \in ProcStatus
  BY DEF StatusAfterExit, ProcStatus
<1>3. status' \in [Slot -> ProcStatus]
  BY <1>2 DEF Exit, TypeOK, ProcStatus
<1>4. semVal' \in [Slot -> Int] /\ semRef' \in [Slot -> Int]
  BY DEF Exit, TypeOK, AtLeastOne
<1>5. queued' \in [Slot -> BOOLEAN]
  BY DEF Exit, TypeOK
<1> QED  BY <1>1, <1>3, <1>4, <1>5 DEF Exit

LEMMA CreationFaultType ==
  ASSUME TypeOK, CreationFault
  PROVE  TypeOK'
BY DEF CreationFault, TypeOK, links, sems, spaces, cpuVars, control, Faults

LEMMA TypeInit == Init => TypeOK
BY DEF Init, TypeOK, ProcStatus, At, Faults

(***************************************************************************)
(* Every action keeps the types.                                           *)
(***************************************************************************)
LEMMA TypeStep == TypeOK /\ [Next]_vars => TypeOK'
<1> SUFFICES ASSUME TypeOK, [Next]_vars
             PROVE  TypeOK'
  OBVIOUS
<1>1. ASSUME NEW thread \in CloneStack, NEW sigchld \in BOOLEAN,
             Clone(thread, sigchld)
      PROVE  TypeOK'
  <2>1. CASE CreationFault
    BY <2>1, CreationFaultType
  <2>2. ASSUME NEW p \in Slot,
               NewProcess(p, IF sigchld THEN curProc ELSE Nil,
                          IF thread THEN VMS[curProc] ELSE created + 1,
                          autoDestroy[curProc]),
               at' = [at EXCEPT ![p] = "user"],
               arg' = [arg EXCEPT ![p] = Nil],
               UNCHANGED <<cpuVars, idleTask, fault>>
        PROVE  TypeOK'
    <3> DEFINE fa == IF sigchld THEN curProc ELSE Nil
               space == IF thread THEN VMS[curProc] ELSE created + 1
               auto == autoDestroy[curProc]
    <3>1. created < MaxCreate /\ NewProcess(p, fa, space, auto)
      BY <1>1, <2>2 DEF Clone
    <3>2. fa \in Slot \cup {Nil} /\ auto \in BOOLEAN
      BY DEF TypeOK
    <3>3. space \in 0 .. MaxCreate \cup {Nil}
      BY <3>1 DEF TypeOK
    <3>4. at' \in [Slot -> At] /\ arg' \in [Slot -> Slot \cup {Nil}]
      BY <2>2 DEF TypeOK, At
    <3>5. idleTask' \in Slot \cup {Nil} /\ UNCHANGED <<curProc, cpu, scan, fault>>
      BY <2>2 DEF TypeOK, cpuVars
    <3> HIDE DEF fa, space, auto
    <3> QED  BY <3>1, <3>2, <3>3, <3>4, <3>5, CreateType
  <2> QED  BY <1>1, <2>1, <2>2 DEF Clone
<1>2. ASSUME NEW auto \in ElfAutoDestroy, Execve(auto)
      PROVE  TypeOK'
  <2>1. CASE CreationFault
    BY <2>1, CreationFaultType
  <2>2. ASSUME NEW p \in Slot, NewProcess(p, curProc, created + 1, auto),
               at' = [at EXCEPT ![p] = "user", ![curProc] = "execve"],
               arg' = [arg EXCEPT ![p] = Nil, ![curProc] = p],
               UNCHANGED <<cpuVars, idleTask, fault>>
        PROVE  TypeOK'
    <3>1. /\ created < MaxCreate
          /\ created + 1 \in 0 .. MaxCreate \cup {Nil}
          /\ curProc \in Slot \cup {Nil}
          /\ auto \in BOOLEAN
      BY <1>2, FlagAssumption DEF Execve, TypeOK
    <3>2. at' \in [Slot -> At] /\ arg' \in [Slot -> Slot \cup {Nil}]
      BY <2>2 DEF TypeOK, At
    <3>3. idleTask' \in Slot \cup {Nil} /\ UNCHANGED <<curProc, cpu, scan, fault>>
      BY <2>2 DEF TypeOK, cpuVars
    <3> QED  BY <2>2, <3>1, <3>2, <3>3, CreateType
  <2> QED  BY <1>2, <2>1, <2>2 DEF Execve
<1>3. ASSUME NEW auto \in ElfAutoDestroy, IdleStart(auto)
      PROVE  TypeOK'
  <2>1. CASE CreationFault
    BY <2>1, CreationFaultType
  <2>2. ASSUME NEW p \in Slot, NewProcess(p, Idle, created + 1, auto),
               at' = [at EXCEPT ![p] = "user"],
               arg' = [arg EXCEPT ![p] = Nil],
               idleTask' = p,
               UNCHANGED <<cpuVars, fault>>
        PROVE  TypeOK'
    <3>1. /\ created < MaxCreate
          /\ created + 1 \in 0 .. MaxCreate \cup {Nil}
          /\ Idle \in Slot \cup {Nil}
          /\ auto \in BOOLEAN
      BY <1>3, FlagAssumption DEF IdleStart, TypeOK
    <3>2. at' \in [Slot -> At] /\ arg' \in [Slot -> Slot \cup {Nil}]
      BY <2>2 DEF TypeOK, At
    <3>3. idleTask' \in Slot \cup {Nil} /\ UNCHANGED <<curProc, cpu, scan, fault>>
      BY <2>2 DEF TypeOK, cpuVars
    <3> QED  BY <2>2, <3>1, <3>2, <3>3, CreateType
  <2> QED  BY <1>3, <2>1, <2>2 DEF IdleStart
<1>4. CASE ExecveNotElf
  BY <1>4 DEF ExecveNotElf, TypeOK, Faults, links, sems, spaces, cpuVars, control
<1>5. ASSUME NEW who \in {Any} \cup (Slot \ {Idle}), Wait4(who)
      PROVE  TypeOK'
  BY <1>5 DEF Wait4, TypeOK, At, links, sems, spaces, cpuVars
<1>6. ASSUME NEW who \in {Any} \cup (Slot \ {Idle}), Wait4NoHang(who)
      PROVE  TypeOK'
  <2>1. PICK c \in Slot : Reap(c)
    BY <1>6 DEF Wait4NoHang, Zombies, TypeOK
  <2> QED
    BY <1>6, <2>1, ReapType DEF Wait4NoHang, TypeOK, cpuVars, control
<1>7. CASE Wait4Return
  <2>1. PICK c \in Slot : Reap(c)
    BY <1>7 DEF Wait4Return, Zombies, TypeOK
  <2> QED
    BY <1>7, <2>1, ReapType DEF Wait4Return, TypeOK, At, cpuVars
<1>8. CASE ExecveReturn
  <2>1. PICK c \in Slot : Reap(c)
    BY <1>8 DEF ExecveReturn, Zombies, TypeOK
  <2> QED
    BY <1>8, <2>1, ReapType DEF ExecveReturn, TypeOK, At, cpuVars
<1>9. CASE Block
  <2>1. scan' \in 0 .. MaxProcessCount
    BY <1>9 DEF Block, EnterSchedule
  <2>2. semVal' \in [Slot -> Int]
    BY <1>9 DEF Block, TypeOK
  <2>3. /\ status' \in [Slot -> ProcStatus]
        /\ queued' \in [Slot -> BOOLEAN]
        /\ semRef' \in [Slot -> Int]
    <3>1. CASE semVal[curProc] - 1 < 0
      <4>1. /\ queued' = [queued EXCEPT ![curProc] = TRUE]
            /\ semRef' = [semRef EXCEPT ![curProc] = @ + 1]
            /\ status' = [status EXCEPT ![curProc] = "Sleeping"]
        BY <1>9, <3>1 DEF Block
      <4>2. queued' \in [Slot -> BOOLEAN]
        BY <4>1 DEF TypeOK
      <4>3. status' \in [Slot -> ProcStatus] /\ semRef' \in [Slot -> Int]
        BY <4>1 DEF TypeOK, ProcStatus
      <4> QED  BY <4>2, <4>3
    <3>2. CASE ~(semVal[curProc] - 1 < 0)
      BY <1>9, <3>2 DEF Block, TypeOK
    <3> QED  BY <3>1, <3>2
  <2> QED
    BY <1>9, <2>1, <2>2, <2>3 DEF Block, TypeOK, links, spaces, control
<1>10. CASE ExitProcess
  <2>1. scan' \in 0 .. MaxProcessCount
    BY <1>10 DEF ExitProcess, EnterSchedule
  <2>2. /\ status' \in [Slot -> ProcStatus]
        /\ semVal' \in [Slot -> Int]
        /\ queued' \in [Slot -> BOOLEAN]
        /\ semRef' \in [Slot -> Int]
        /\ fault' \in Faults \cup {"none"}
    BY <1>10, ExitType DEF ExitProcess
  <2> QED
    BY <1>10, <2>1, <2>2 DEF ExitProcess, TypeOK, links, spaces, control
<1>11. CASE Preempt
  BY <1>11 DEF Preempt, EnterSchedule, TypeOK, links, sems, spaces, control
<1>12. CASE IdlePoll
  BY <1>12 DEF IdlePoll, TypeOK, links, sems, spaces, cpuVars
<1>13. CASE Dispatch
  <2>1. Target \in Slot
    BY <1>13, TargetInRange DEF Dispatch
  <2>2. status' \in [Slot -> ProcStatus]
    BY <1>13, <2>1 DEF Dispatch, StatusAfterRun, TypeOK, ProcStatus
  <2>3. fault' \in Faults \cup {"none"}
    BY <1>13 DEF Dispatch, RunFault, Faults
  <2> QED
    BY <1>13, <2>1, <2>2, <2>3
       DEF Dispatch, TypeOK, links, sems, spaces, control
<1>14. CASE AutoReap
  <2>1. Target \in Slot
    BY <1>14, TargetInRange DEF AutoReap
  <2>2. /\ status' \in [Slot -> ProcStatus]
        /\ father' \in [Slot -> Slot \cup {Nil}]
        /\ children' \in [Slot -> SUBSET Slot]
        /\ semVal' \in [Slot -> Int]
        /\ queued' \in [Slot -> BOOLEAN]
        /\ semRef' \in [Slot -> Int]
        /\ VMS' \in [Slot -> 0 .. MaxCreate \cup {Nil}]
        /\ liveVMS' \subseteq 0 .. MaxCreate
        /\ procCount' \in Int
        /\ fault' \in Faults \cup {"none"}
    BY <1>14, <2>1, ReapType DEF AutoReap
  <2> QED
    BY <1>14, <2>2 DEF AutoReap, Scanning, TypeOK, control
<1>15. CASE Skip
  BY <1>15 DEF Skip, Scanning, TypeOK, links, sems, spaces, control
<1>16. CASE Fallback
  BY <1>16 DEF Fallback, TypeOK, links, sems, spaces, control
<1>17. CASE UNCHANGED vars
  BY <1>17 DEF vars, TypeOK, links, sems, spaces, cpuVars, control
<1> QED
  BY <1>1, <1>2, <1>3, <1>4, <1>5, <1>6, <1>7, <1>8, <1>9, <1>10, <1>11,
     <1>12, <1>13, <1>14, <1>15, <1>16, <1>17
     DEF Next, Syscall, KernelLoop, Schedule, IdleLoop, Halted

(***************************************************************************)
(* The variables keep their types in every behaviour.                      *)
(***************************************************************************)
THEOREM TypeCorrect == Spec => []TypeOK
BY TypeInit, TypeStep, PTL DEF Spec

-----------------------------------------------------------------------------
(***************************************************************************)
(* The inductive invariant.  First what destroy can reach: the process     *)
(* itself, never idle0, and, when it does not fail, neither the current    *)
(* process nor a free slot.                                                *)
(***************************************************************************)
LEMMA SubtreeReach ==
  ASSUME TypeOK, IdleIsRoot, Running, NEW p \in Slot, p # Idle
  PROVE  p \in Subtree(p) /\ Idle \notin Subtree(p)
<1>1. p \in Subtree(p)
  BY DEF Subtree
<1>2. Idle \notin Subtree(p)
  <2> DEFINE S == Slot \ {Idle}
  <2>1. S \in SUBSET Slot /\ p \in S /\ Idle \notin S
    OBVIOUS
  <2>2. \A r \in S : children[r] \subseteq S
    BY DEF IdleIsRoot, TypeOK
  <2> HIDE DEF S
  <2> QED  BY <2>1, <2>2 DEF Subtree
<1> QED  BY <1>1, <1>2

LEMMA DestroySafe ==
  ASSUME NEW p, DestroyFault(p) = "none"
  PROVE  \A d \in Subtree(p) : VMS[d] # Nil /\ VMS[d] # VMS[curProc]
BY DEF DestroyFault

(***************************************************************************)
(* Used is the set of slots procCount counts.                              *)
(***************************************************************************)
Used == {p \in Slot : status[p] # "None"}

LEMMA UsedIsFinite == IsFiniteSet(Used)
<1>1. IsFiniteSet(Slot)
  BY FS_Interval
<1>2. Used \in SUBSET Slot
  BY DEF Used
<1> QED  BY <1>1, <1>2, FS_Subset

(***************************************************************************)
(* While another process than idle0 is current, two slots are in use and   *)
(* the loop of Schedule is entered.                                        *)
(***************************************************************************)
LEMMA TwoInUse ==
  ASSUME IInv, Running, curProc # Idle, status[curProc] = "Running"
  PROVE  procCount >= 2
<1>1. {Idle, curProc} \in SUBSET Used
  BY DEF Used, IInv, OneRunning, TypeOK
<1>2. Cardinality({Idle, curProc}) = 2
  <2>1. IsFiniteSet({Idle}) /\ Cardinality({Idle}) = 1
    BY FS_Singleton
  <2>2. {Idle, curProc} = {Idle} \cup {curProc}
    OBVIOUS
  <2> QED  BY <2>1, <2>2, FS_AddElement
<1>3. /\ Cardinality(Used) \in Nat
      /\ Cardinality({Idle, curProc}) <= Cardinality(Used)
  BY <1>1, UsedIsFinite, FS_Subset, FS_CardinalityType
<1> QED  BY <1>2, <1>3 DEF IInv, CountsAreExact, Used

(***************************************************************************)
(* Once the kernel has stopped, only the reason it stopped matters.        *)
(***************************************************************************)
LEMMA FaultInv ==
  ASSUME TypeOK', fault' \notin {"none", "EmptyQueue"}
  PROVE  IInv'
BY DEF IInv, CountsAreExact, OneRunning, SleepersAreQueued, FreeSlotsAreEmpty,
       IdleIsRoot, IdleIsAhead, Running

(***************************************************************************)
(* A new process.                                                          *)
(***************************************************************************)
LEMMA CreateInv ==
  ASSUME IInv, Running, TypeOK',
         NEW p \in Slot, NEW fa, NEW space, NEW auto,
         FirstFree(p), NewProcess(p, fa, space, auto),
         at'[Idle] = "user", UNCHANGED <<curProc, cpu, scan, fault>>
  PROVE  IInv'
<1>1. /\ status' = [status EXCEPT ![p] = "Ready"]
      /\ semVal' = [semVal EXCEPT ![p] = 0]
      /\ queued' = [queued EXCEPT ![p] = FALSE]
      /\ semRef' = [semRef EXCEPT ![p] = 0]
      /\ VMS' = [VMS EXCEPT ![p] = space]
      /\ procCount' = procCount + 1
  BY DEF NewProcess
<1>2. status[p] = "None" /\ p # Idle
  BY DEF FirstFree, FreeSlots, IInv, OneRunning
<1>3. CountsAreExact'
  <2>1. Used' = Used \cup {p} /\ p \notin Used
    BY <1>1, <1>2 DEF Used, IInv, TypeOK
  <2>2. Cardinality(Used') = Cardinality(Used) + 1
    BY <2>1, UsedIsFinite, FS_AddElement
  <2> QED  BY <1>1, <2>2 DEF CountsAreExact, Used, IInv
<1>4. OneRunning'
  BY <1>1, <1>2 DEF OneRunning, IInv, Running, TypeOK
<1>5. SleepersAreQueued'
  BY <1>1, <1>2 DEF SleepersAreQueued, IInv, Running, TypeOK
<1>6. FreeSlotsAreEmpty'
  BY <1>1, <1>2 DEF FreeSlotsAreEmpty, IInv, Running, TypeOK
<1>7. IdleIsRoot'
  BY <1>1, <1>2 DEF IdleIsRoot, IInv, Running, TypeOK, NewProcess
<1>8. IdleIsAhead'
  BY DEF IdleIsAhead, IInv, Running
<1> QED  BY <1>3, <1>4, <1>5, <1>6, <1>7, <1>8 DEF IInv

(***************************************************************************)
(* Destroying and freeing a terminated process.                            *)
(***************************************************************************)
LEMMA ReapInv ==
  ASSUME IInv, Running, TypeOK', NEW p \in Slot, p # Idle,
         status[p] = "Terminated", Reap(p), at'[Idle] = "user",
         UNCHANGED <<curProc, cpu>>,
         scan' = 0 => scan = 0, IdleIsAhead'
  PROVE  IInv'
<1>1. CASE DestroyFault(p) # "none"
  <2>1. DestroyFault(p) \notin {"none", "EmptyQueue"}
    BY <1>1 DEF DestroyFault
  <2> QED  BY <1>1, <2>1, ReapFails, FaultInv
<1>2. CASE DestroyFault(p) = "none"
  <2> DEFINE D == Subtree(p)
  <2>1. status' = [q \in Slot |-> IF q = p THEN "None"
                                  ELSE IF q \in D THEN StatusAfterExit(q)
                                  ELSE status[q]]
    BY <1>2, ReapEffect
  <2>2. /\ semVal' = [q \in Slot |-> IF q \in D THEN 0 ELSE semVal[q]]
        /\ queued' = [q \in Slot |-> IF q \in D THEN FALSE ELSE queued[q]]
        /\ semRef' = [q \in Slot |-> IF q \in D THEN 0 ELSE semRef[q]]
        /\ VMS' = [q \in Slot |-> IF q \in D THEN Nil ELSE VMS[q]]
    BY <1>2, ReapEffect
  <2>3. children' = ChildrenAfterDestroy(p) /\ procCount' = procCount - 1
    BY <1>2, ReapEffect
  <2>4. fault' = fault
    BY <1>2, ReapEffect
  <2>5. p \in D /\ Idle \notin D
    BY SubtreeReach DEF IInv
  <2>6. curProc \notin D /\ \A d \in D : VMS[d] # Nil
    BY <1>2, DestroySafe
  <2>7. \A q : StatusAfterExit(q) \in {"Ready", "Terminated"}
    BY DEF StatusAfterExit
  <2> HIDE DEF D
  <2>8. CountsAreExact'
    <3>1. \A d \in Slot : d \in D => status[d] # "None"
      BY <2>6 DEF IInv, FreeSlotsAreEmpty
    <3>2. Used' = Used \ {p} /\ p \in Used
      BY <2>1, <2>7, <3>1 DEF Used
    <3>3. Cardinality(Used') = Cardinality(Used) - 1
      BY <3>2, UsedIsFinite, FS_RemoveElement
    <3> QED  BY <2>3, <2>4, <3>3 DEF CountsAreExact, Used, IInv, Running
  <2>9. OneRunning'
    <3>1. status'[curProc] = status[curProc] /\ status'[Idle] = status[Idle]
      BY <2>1, <2>5, <2>6 DEF IInv, TypeOK
    <3>2. \A q \in Slot : status'[q] = "Running" => status[q] = "Running"
      BY <2>1, <2>7
    <3> QED  BY <2>4, <3>1, <3>2 DEF OneRunning, IInv, Running
  <2>10. SleepersAreQueued'
    <3>1. \A q \in Slot : q \in D => status'[q] # "Sleeping"
      BY <2>1, <2>7
    <3>2. \A q \in Slot : q \notin D => status'[q] = status[q]
      BY <2>1, <2>5
    <3> QED  BY <2>2, <2>4, <3>1, <3>2 DEF SleepersAreQueued, IInv, Running
  <2>11. FreeSlotsAreEmpty'
    BY <2>1, <2>2, <2>4, <2>5, <2>7 DEF FreeSlotsAreEmpty, IInv, Running
  <2>12. IdleIsRoot'
    <3>1. status'[Idle] = status[Idle]
      BY <2>1, <2>5
    <3>2. \A q \in Slot : Idle \notin children'[q]
      BY <2>3 DEF ChildrenAfterDestroy, IInv, IdleIsRoot
    <3> QED  BY <2>4, <3>1, <3>2 DEF IdleIsRoot, IInv, Running
  <2> QED  BY <2>8, <2>9, <2>10, <2>11, <2>12 DEF IInv
<1> QED  BY <1>1, <1>2

(***************************************************************************)
(* Exit of the current process.  It is Running, so its own semaphore is    *)
(* not negative; the father is woken only if it sleeps, and then it is in  *)
(* the queue.                                                              *)
(***************************************************************************)
LEMMA ExitInv ==
  ASSUME IInv, Running, TypeOK', ExitProcess
  PROVE  IInv'
<1> DEFINE fa == father[curProc]
<1>1. /\ scan = 0 /\ cpu = curProc /\ curProc # Idle
      /\ curProc \in Slot /\ status[curProc] = "Running"
      /\ fa \in Slot \cup {Nil}
  BY DEF ExitProcess, InUser, Executing, IInv, OneRunning, IdleIsRoot, TypeOK
<1>2. semVal[curProc] >= 0 /\ semRef[curProc] = 0
  BY <1>1 DEF IInv, SleepersAreQueued
<1>3. StatusAfterExit(curProc) = "Terminated"
  BY <1>1, <1>2 DEF StatusAfterExit, IInv, TypeOK
<1>4. /\ status' = [q \in Slot |-> IF q = curProc THEN "Terminated"
                                   ELSE IF q = fa /\ Wakes(fa) THEN "Ready"
                                   ELSE status[q]]
      /\ semVal' = [q \in Slot |-> IF q = curProc THEN AtLeastOne(semVal[q])
                                   ELSE IF q = fa THEN semVal[q] + 1
                                   ELSE semVal[q]]
  BY <1>3 DEF ExitProcess, Exit
<1>5. /\ queued' = [q \in Slot |-> IF q = fa /\ Wakes(fa) THEN FALSE
                                   ELSE queued[q]]
      /\ semRef' = [q \in Slot |-> IF q = fa /\ semVal[q] + 1 = 0
                                   THEN semRef[q] - 1 ELSE semRef[q]]
      /\ fault' = SignalFault(fa)
  BY DEF ExitProcess, Exit
<1>6. /\ scan' \in {1, MaxProcessCount}
      /\ procCount < 2 => scan' = MaxProcessCount
      /\ procCount >= 2 => scan' = 1
  BY DEF ExitProcess, EnterSchedule, IInv, TypeOK
<1>7. UNCHANGED <<VMS, children, procCount, curProc, cpu, at>>
  BY DEF ExitProcess, links, spaces, control
<1>8. ASSUME fa \in Slot
      PROVE  Wakes(fa) <=> status[fa] = "Sleeping"
  <2>1. IF status[fa] = "Sleeping"
        THEN semVal[fa] = -1 /\ queued[fa] /\ semRef[fa] = 1
        ELSE semVal[fa] >= 0 /\ ~queued[fa] /\ semRef[fa] = 0
    BY <1>8 DEF IInv, SleepersAreQueued
  <2>2. semVal[fa] \in Int /\ semRef[fa] \in Int
    BY <1>8 DEF IInv, TypeOK
  <2> HIDE DEF fa
  <2>3. CASE status[fa] = "Sleeping"
    BY <2>1, <2>2, <2>3 DEF Wakes
  <2>4. CASE status[fa] # "Sleeping"
    BY <2>1, <2>2, <2>4 DEF Wakes
  <2> QED  BY <2>3, <2>4
<1>9. fault' # "EmptyQueue"
  <2>1. CASE fa = Nil
    BY <1>5, <2>1 DEF SignalFault
  <2>2. CASE fa \in Slot
    <3>1. semVal[fa] \in Int /\ (semVal[fa] >= 0 \/ queued[fa])
      BY <2>2 DEF IInv, SleepersAreQueued, TypeOK
    <3> QED  BY <1>5, <3>1 DEF SignalFault
  <2> QED  BY <1>1, <2>1, <2>2
<1> HIDE DEF fa
<1>10. CASE fault' # "none"
  BY <1>9, <1>10, FaultInv
<1>11. CASE fault' = "none"
  <2>1. fa \in Slot => VMS[fa] # Nil
    BY <1>5, <1>11 DEF SignalFault
  <2>2. \A q \in Slot : status'[q] = "None" <=> status[q] = "None"
    BY <1>1, <1>4, <1>8
  <2>3. CountsAreExact'
    <3>1. Used' = Used
      BY <2>2 DEF Used
    <3> QED  BY <1>7, <3>1 DEF CountsAreExact, Used, IInv, Running
  <2>4. OneRunning'
    <3>1. \A q \in Slot : status'[q] # "Running"
      BY <1>1, <1>4 DEF IInv, OneRunning
    <3>2. status'[Idle] \in {"Ready", "Running"}
      BY <1>1, <1>4 DEF IInv, OneRunning
    <3> QED  BY <1>6, <3>1, <3>2 DEF OneRunning
  <2>5. SleepersAreQueued'
    <3>1. ASSUME NEW q \in Slot
          PROVE  IF status'[q] = "Sleeping"
                 THEN semVal'[q] = -1 /\ queued'[q] /\ semRef'[q] = 1
                 ELSE semVal'[q] >= 0 /\ ~queued'[q] /\ semRef'[q] = 0
      <4>1. IF status[q] = "Sleeping"
            THEN semVal[q] = -1 /\ queued[q] /\ semRef[q] = 1
            ELSE semVal[q] >= 0 /\ ~queued[q] /\ semRef[q] = 0
        BY DEF IInv, SleepersAreQueued
      <4>2. semVal[q] \in Int /\ semRef[q] \in Int
        BY DEF IInv, TypeOK
      <4>3. CASE q = curProc
        <5>1. status'[q] = "Terminated" /\ semVal'[q] = AtLeastOne(semVal[q])
          BY <1>4, <4>3
        <5>2. semVal'[q] >= 0
          BY <4>2, <5>1 DEF AtLeastOne
        <5>3. queued'[q] = FALSE
          BY <1>1, <1>5, <4>1, <4>3
        <5>4. semRef'[q] = 0
          <6>1. semVal[q] + 1 # 0
            BY <1>2, <4>2, <4>3
          <6>2. semRef'[q] = semRef[q]
            BY <1>5, <6>1
          <6> QED  BY <1>2, <4>3, <6>2
        <5> QED  BY <5>1, <5>2, <5>3, <5>4
      <4>4. CASE q # curProc /\ q = fa /\ status[q] = "Sleeping"
        BY <1>4, <1>5, <1>8, <4>1, <4>4
      <4>5. CASE q # curProc /\ q = fa /\ status[q] # "Sleeping"
        <5>1. /\ status'[q] = status[q]
              /\ semVal'[q] = semVal[q] + 1
              /\ queued'[q] = queued[q]
              /\ semRef'[q] = semRef[q]
          <6>1. ~Wakes(fa)
            BY <1>8, <4>5
          <6>2. semVal[q] + 1 # 0
            BY <4>1, <4>2, <4>5
          <6>3. status'[q] = status[q] /\ semVal'[q] = semVal[q] + 1
            BY <1>4, <4>5, <6>1
          <6>4. queued'[q] = queued[q] /\ semRef'[q] = semRef[q]
            BY <1>5, <6>1, <6>2
          <6> QED  BY <6>3, <6>4
        <5> QED  BY <4>1, <4>2, <4>5, <5>1
      <4>6. CASE q # curProc /\ q # fa
        BY <1>4, <1>5, <4>1, <4>6
      <4> QED  BY <4>3, <4>4, <4>5, <4>6
    <3> QED  BY <1>9, <3>1 DEF SleepersAreQueued
  <2>6. FreeSlotsAreEmpty'
    BY <1>7, <2>2 DEF FreeSlotsAreEmpty, IInv, Running
  <2>7. IdleIsRoot'
    BY <1>1, <1>7 DEF IdleIsRoot, IInv, Running
  <2>8. IdleIsAhead'
    <3>1. procCount >= 2
      BY <1>1, TwoInUse
    <3> QED  BY <1>1, <1>6, <1>7, <3>1 DEF IdleIsAhead
  <2> QED  BY <2>3, <2>4, <2>5, <2>6, <2>7, <2>8 DEF IInv
<1> QED  BY <1>10, <1>11

(***************************************************************************)
(* The current process waits: its semaphore goes from 0 to -1, or it is    *)
(* above 0 and the process stays Running.                                  *)
(***************************************************************************)
LEMMA BlockInv ==
  ASSUME IInv, Running, TypeOK', Block
  PROVE  IInv'
<1>1. /\ scan = 0 /\ cpu = curProc /\ curProc # Idle
      /\ curProc \in Slot /\ status[curProc] = "Running"
  BY DEF Block, Executing, IInv, OneRunning, IdleIsRoot, TypeOK
<1>2. /\ semVal[curProc] \in Int /\ semVal[curProc] >= 0
      /\ semRef[curProc] = 0 /\ ~queued[curProc]
  BY <1>1 DEF IInv, SleepersAreQueued, TypeOK
<1>3. semVal' = [semVal EXCEPT ![curProc] = @ - 1]
  BY DEF Block
<1>4. \/ /\ semVal[curProc] - 1 < 0
         /\ queued' = [queued EXCEPT ![curProc] = TRUE]
         /\ semRef' = [semRef EXCEPT ![curProc] = @ + 1]
         /\ status' = [status EXCEPT ![curProc] = "Sleeping"]
      \/ /\ semVal[curProc] - 1 >= 0
         /\ UNCHANGED <<queued, semRef, status>>
  <2>1. CASE semVal[curProc] - 1 < 0
    BY <2>1 DEF Block
  <2>2. CASE ~(semVal[curProc] - 1 < 0)
    <3>1. UNCHANGED <<queued, semRef, status>>
      BY <2>2 DEF Block
    <3>2. semVal[curProc] - 1 >= 0
      BY <1>2, <2>2
    <3> QED  BY <3>1, <3>2
  <2> QED  BY <2>1, <2>2
<1>5. UNCHANGED <<VMS, children, procCount, curProc, cpu, at, fault>>
  BY DEF Block, links, spaces, control
<1>6. scan' \in {1, MaxProcessCount} /\ (procCount >= 2 => scan' = 1)
  BY DEF Block, EnterSchedule
<1>7. \A q \in Slot : q # curProc => /\ status'[q] = status[q]
                                     /\ semVal'[q] = semVal[q]
                                     /\ queued'[q] = queued[q]
                                     /\ semRef'[q] = semRef[q]
  BY <1>3, <1>4 DEF IInv, TypeOK
<1>8. status'[curProc] \in {"Sleeping", "Running"}
  BY <1>1, <1>4 DEF IInv, TypeOK
<1>9. CountsAreExact'
  <2>1. Used' = Used
    BY <1>1, <1>7, <1>8 DEF Used
  <2> QED  BY <1>5, <2>1 DEF CountsAreExact, Used, IInv, Running
<1>10. OneRunning'
  BY <1>1, <1>5, <1>6, <1>7, <1>8 DEF OneRunning, IInv, Running
<1>11. SleepersAreQueued'
  <2>1. ASSUME NEW q \in Slot
        PROVE  IF status'[q] = "Sleeping"
               THEN semVal'[q] = -1 /\ queued'[q] /\ semRef'[q] = 1
               ELSE semVal'[q] >= 0 /\ ~queued'[q] /\ semRef'[q] = 0
    <3>1. CASE q # curProc
      BY <1>7, <3>1 DEF IInv, SleepersAreQueued
    <3>2. CASE q = curProc /\ semVal[curProc] - 1 < 0
      <4>1. /\ queued' = [queued EXCEPT ![curProc] = TRUE]
            /\ semRef' = [semRef EXCEPT ![curProc] = @ + 1]
            /\ status' = [status EXCEPT ![curProc] = "Sleeping"]
        BY <1>2, <1>4, <3>2
      <4>2. queued'[q] = TRUE
        BY <3>2, <4>1 DEF IInv, TypeOK
      <4>3. status'[q] = "Sleeping" /\ semRef'[q] = semRef[q] + 1
        BY <3>2, <4>1 DEF IInv, TypeOK
      <4>4. semVal'[q] = semVal[q] - 1
        BY <1>3, <3>2 DEF IInv, TypeOK
      <4> QED  BY <1>2, <3>2, <4>2, <4>3, <4>4
    <3>3. CASE q = curProc /\ semVal[curProc] - 1 >= 0
      <4>1. UNCHANGED <<queued, semRef, status>>
        BY <1>2, <1>4, <3>3
      <4>2. semVal'[q] = semVal[q] - 1
        BY <1>3, <3>3 DEF IInv, TypeOK
      <4> QED  BY <1>1, <1>2, <3>3, <4>1, <4>2
    <3> QED  BY <1>2, <3>1, <3>2, <3>3
  <2> QED  BY <1>5, <2>1 DEF SleepersAreQueued, IInv
<1>12. FreeSlotsAreEmpty'
  BY <1>1, <1>5, <1>7, <1>8 DEF FreeSlotsAreEmpty, IInv, Running
<1>13. IdleIsRoot'
  BY <1>1, <1>5, <1>7 DEF IdleIsRoot, IInv, Running
<1>14. IdleIsAhead'
  <2>1. procCount >= 2
    BY <1>1, TwoInUse
  <2> QED  BY <1>1, <1>5, <1>6, <2>1 DEF IdleIsAhead
<1> QED  BY <1>9, <1>10, <1>11, <1>12, <1>13, <1>14 DEF IInv

(***************************************************************************)
(* A process is dispatched.                                                *)
(***************************************************************************)
LEMMA DispatchInv ==
  ASSUME IInv, Running, TypeOK', Dispatch
  PROVE  IInv'
<1>1. Target \in Slot /\ Target # curProc /\ status[Target] = "Ready"
  BY TargetInRange DEF IInv, Dispatch
<1>2. /\ status' = StatusAfterRun(Target)
      /\ curProc' = Target /\ cpu' = Target /\ scan' = 0
      /\ fault' = RunFault(Target)
  BY DEF Dispatch
<1>3. UNCHANGED <<semVal, queued, semRef, VMS, children, procCount, at>>
  BY DEF Dispatch, links, sems, spaces, control
<1>4. CASE fault' # "none"
  BY <1>2, <1>4, FaultInv DEF RunFault
<1>5. CASE fault' = "none"
  <2>1. \A q \in Slot : status'[q] = IF q = Target THEN "Running"
                                     ELSE IF q = curProc /\ status[q] = "Running"
                                          THEN "Ready" ELSE status[q]
    BY <1>2 DEF StatusAfterRun
  <2>2. CountsAreExact'
    <3>1. Used' = Used
      BY <1>1, <2>1 DEF Used
    <3> QED  BY <1>3, <3>1 DEF CountsAreExact, Used, IInv, Running
  <2>3. OneRunning'
    BY <1>1, <1>2, <2>1 DEF OneRunning, IInv, Running
  <2>4. SleepersAreQueued'
    <3>1. \A q \in Slot : status'[q] = "Sleeping" <=> status[q] = "Sleeping"
      BY <1>1, <2>1
    <3> QED  BY <1>3, <1>5, <3>1 DEF SleepersAreQueued, IInv, Running
  <2>5. FreeSlotsAreEmpty'
    BY <1>1, <1>3, <2>1 DEF FreeSlotsAreEmpty, IInv, Running
  <2>6. IdleIsRoot'
    BY <1>1, <1>2, <1>3, <2>1 DEF IdleIsRoot, IInv, Running
  <2>7. IdleIsAhead'
    BY <1>2 DEF IdleIsAhead
  <2> QED  BY <2>2, <2>3, <2>4, <2>5, <2>6, <2>7 DEF IInv
<1> QED  BY <1>4, <1>5

(***************************************************************************)
(* A step that only moves the index of Schedule, or a program counter.     *)
(***************************************************************************)
LEMMA FrameInv ==
  ASSUME IInv, TypeOK', OneRunning', IdleIsAhead', at'[Idle] = at[Idle],
         UNCHANGED <<status, semVal, queued, semRef, VMS, children, procCount,
                     curProc, fault>>
  PROVE  IInv'
<1>1. CountsAreExact' /\ SleepersAreQueued' /\ FreeSlotsAreEmpty'
  BY DEF IInv, CountsAreExact, SleepersAreQueued, FreeSlotsAreEmpty, Running
<1>2. IdleIsRoot'
  BY DEF IInv, IdleIsRoot, Running
<1> QED  BY <1>1, <1>2 DEF IInv

LEMMA CreationFaultInv ==
  ASSUME IInv, TypeOK', CreationFault
  PROVE  IInv'
<1>1. fault' = "AllocFailed"
  BY DEF CreationFault
<1> QED  BY <1>1, FaultInv

LEMMA InvInit == Init => IInv
<1> SUFFICES ASSUME Init
             PROVE  IInv
  OBVIOUS
<1>1. TypeOK
  BY TypeInit
<1>2. CountsAreExact
  <2>1. {p \in Slot : status[p] # "None"} = {Idle}
    BY DEF Init
  <2> QED  BY <2>1, FS_Singleton DEF Init, CountsAreExact
<1>3. OneRunning /\ SleepersAreQueued /\ FreeSlotsAreEmpty
  BY DEF Init, OneRunning, SleepersAreQueued, FreeSlotsAreEmpty
<1>4. IdleIsRoot /\ IdleIsAhead
  BY DEF Init, IdleIsRoot, IdleIsAhead
<1> QED  BY <1>1, <1>2, <1>3, <1>4 DEF IInv

(***************************************************************************)
(* Every action preserves the invariant.                                   *)
(***************************************************************************)
LEMMA InvStep == IInv /\ [Next]_vars => IInv'
<1> SUFFICES ASSUME IInv, [Next]_vars
             PROVE  IInv'
  OBVIOUS
<1> USE DEF Idle
<1>0. TypeOK /\ TypeOK'
  BY TypeStep DEF IInv
<1>1. ASSUME NEW thread \in CloneStack, NEW sigchld \in BOOLEAN,
             Clone(thread, sigchld)
      PROVE  IInv'
  <2>1. CASE CreationFault
    BY <1>0, <2>1, CreationFaultInv
  <2>2. CASE ~CreationFault
    <3>0. PICK p \in Slot :
              /\ FirstFree(p)
              /\ NewProcess(p, IF sigchld THEN curProc ELSE Nil,
                          IF thread THEN VMS[curProc] ELSE created + 1,
                          autoDestroy[curProc])
              /\ at' = [at EXCEPT ![p] = "user"]
              /\ UNCHANGED <<cpuVars, idleTask, fault>>
      BY <1>1, <2>2 DEF Clone
    <3> DEFINE fa == IF sigchld THEN curProc ELSE Nil
               space == IF thread THEN VMS[curProc] ELSE created + 1
               auto == autoDestroy[curProc]
    <3>1. NewProcess(p, fa, space, auto)
      BY <3>0
    <3>2. Running
      BY <1>1 DEF Clone, InUser, Executing, Running
    <3>3. at'[Idle] = "user"
      BY <1>0, <3>0, <3>2 DEF IInv, IdleIsRoot, TypeOK
    <3>4. UNCHANGED <<curProc, cpu, scan, fault>>
      BY <3>0 DEF cpuVars
    <3> HIDE DEF fa, space, auto
    <3> QED  BY <1>0, <3>0, <3>1, <3>2, <3>3, <3>4, CreateInv
  <2> QED  BY <2>1, <2>2
<1>2. ASSUME NEW auto \in ElfAutoDestroy, Execve(auto)
      PROVE  IInv'
  <2>1. CASE CreationFault
    BY <1>0, <2>1, CreationFaultInv
  <2>2. CASE ~CreationFault
    <3>0. PICK p \in Slot :
              /\ FirstFree(p)
              /\ NewProcess(p, curProc, created + 1, auto)
              /\ at' = [at EXCEPT ![p] = "user", ![curProc] = "execve"]
              /\ UNCHANGED <<cpuVars, idleTask, fault>>
      BY <1>2, <2>2 DEF Execve
    <3>1. Running /\ curProc # Idle
      BY <1>2 DEF Execve, InUser, Executing, Running
    <3>2. at'[Idle] = "user"
      BY <1>0, <3>0, <3>1 DEF IInv, IdleIsRoot, TypeOK
    <3>3. UNCHANGED <<curProc, cpu, scan, fault>>
      BY <3>0 DEF cpuVars
    <3> QED  BY <1>0, <3>0, <3>1, <3>2, <3>3, CreateInv
  <2> QED  BY <2>1, <2>2
<1>3. ASSUME NEW auto \in ElfAutoDestroy, IdleStart(auto)
      PROVE  IInv'
  <2>1. CASE CreationFault
    BY <1>0, <2>1, CreationFaultInv
  <2>2. CASE ~CreationFault
    <3>0. PICK p \in Slot :
              /\ FirstFree(p)
              /\ NewProcess(p, Idle, created + 1, auto)
              /\ at' = [at EXCEPT ![p] = "user"]
              /\ UNCHANGED <<cpuVars, fault>>
      BY <1>3, <2>2 DEF IdleStart
    <3>1. Running
      BY <1>3 DEF IdleStart, Executing, Running
    <3>2. at'[Idle] = "user"
      BY <1>0, <3>0, <3>1 DEF IInv, IdleIsRoot, TypeOK
    <3>3. UNCHANGED <<curProc, cpu, scan, fault>>
      BY <3>0 DEF cpuVars
    <3> QED  BY <1>0, <3>0, <3>1, <3>2, <3>3, CreateInv
  <2> QED  BY <2>1, <2>2
<1>4. CASE ExecveNotElf
  <2>1. fault' = "NotElf"
    BY <1>4 DEF ExecveNotElf
  <2> QED  BY <1>0, <2>1, FaultInv
<1>5. ASSUME NEW who \in {Any} \cup (Slot \ {Idle}), Wait4(who)
      PROVE  IInv'
  <2>1. UNCHANGED <<status, semVal, queued, semRef, VMS, children, procCount,
                    curProc, cpu, scan, fault>>
    BY <1>5 DEF Wait4, links, sems, spaces, cpuVars
  <2>2. OneRunning' /\ IdleIsAhead'
    BY <2>1 DEF IInv, OneRunning, IdleIsAhead, Running
  <2>3. at'[Idle] = at[Idle]
    BY <1>0, <1>5 DEF Wait4, InUser, TypeOK
  <2> QED  BY <1>0, <2>1, <2>2, <2>3, FrameInv
<1>6. ASSUME NEW who, Zombies(curProc, who) # {}, scan = 0, Running,
             \E c \in Zombies(curProc, who) : Reap(c),
             at'[Idle] = "user", UNCHANGED <<curProc, cpu, scan>>
      PROVE  IInv'
  <2>1. PICK c \in Zombies(curProc, who) : Reap(c)
    BY <1>6
  <2>2. c \in Slot /\ c # Idle /\ status[c] = "Terminated"
    BY <1>0, <1>6 DEF Zombies, IInv, IdleIsRoot, TypeOK
  <2>3. IdleIsAhead'
    BY <1>6 DEF IdleIsAhead
  <2> QED  BY <1>0, <1>6, <2>1, <2>2, <2>3, ReapInv
<1>7. ASSUME NEW who \in {Any} \cup (Slot \ {Idle}), Wait4NoHang(who)
      PROVE  IInv'
  <2>1. /\ scan = 0 /\ Running
        /\ \E c \in Zombies(curProc, who) : Reap(c)
        /\ UNCHANGED <<curProc, cpu, scan, at>>
    BY <1>7 DEF Wait4NoHang, InUser, Executing, Running, cpuVars, control
  <2>2. at'[Idle] = "user"
    BY <2>1 DEF IInv, IdleIsRoot
  <2> QED  BY <1>6, <2>1, <2>2
<1>8. CASE Wait4Return
  <2>1. /\ scan = 0 /\ Running
        /\ \E c \in Zombies(curProc, arg[curProc]) : Reap(c)
        /\ UNCHANGED <<curProc, cpu, scan>>
    BY <1>8 DEF Wait4Return, Executing, Running, cpuVars
  <2>2. at'[Idle] = "user"
    BY <1>0, <1>8, <2>1 DEF IInv, IdleIsRoot, Wait4Return, TypeOK
  <2> QED  BY <1>6, <2>1, <2>2
<1>9. CASE ExecveReturn
  <2>1. /\ scan = 0 /\ Running /\ at[cpu] = "execve"
        /\ \E c \in Zombies(curProc, arg[curProc]) : Reap(c)
        /\ UNCHANGED <<curProc, cpu, scan>>
    BY <1>9 DEF ExecveReturn, Executing, Running, cpuVars
  <2>2. at[Idle] = "user" /\ cpu = curProc
    BY <2>1 DEF IInv, IdleIsRoot, OneRunning
  <2>3. at'[Idle] = "user"
    BY <1>0, <1>9, <2>1, <2>2 DEF ExecveReturn, TypeOK
  <2> QED  BY <1>6, <2>1, <2>3
<1>10. CASE Block
  BY <1>0, <1>10, BlockInv DEF Block, Executing, Running
<1>11. CASE ExitProcess
  BY <1>0, <1>11, ExitInv DEF ExitProcess, InUser, Executing, Running
<1>12. CASE Preempt
  <2>1. /\ UNCHANGED <<status, semVal, queued, semRef, VMS, children, procCount,
                       curProc, cpu, at, fault>>
        /\ scan = 0 /\ Running /\ EnterSchedule(procCount)
    BY <1>12 DEF Preempt, Executing, Running, links, sems, spaces, control
  <2>2. scan' # 0 /\ (procCount >= 2 => scan' = 1)
    BY <1>0, <2>1 DEF EnterSchedule, TypeOK
  <2>3. OneRunning'
    BY <2>1, <2>2 DEF IInv, OneRunning, Running
  <2>4. status[curProc] = "Running"
    BY <2>1 DEF IInv, OneRunning
  <2>5. IdleIsAhead'
    BY <1>0, <2>1, <2>2, <2>4, TwoInUse DEF IdleIsAhead, TypeOK
  <2> QED  BY <1>0, <2>1, <2>3, <2>5, FrameInv
<1>13. CASE IdlePoll
  <2>1. UNCHANGED <<status, semVal, queued, semRef, VMS, children, procCount,
                    curProc, cpu, scan, at, fault>>
    BY <1>13 DEF IdlePoll, links, sems, spaces, cpuVars
  <2>2. OneRunning' /\ IdleIsAhead'
    BY <2>1 DEF IInv, OneRunning, IdleIsAhead, Running
  <2> QED  BY <1>0, <2>1, <2>2, FrameInv
<1>14. CASE Dispatch
  BY <1>0, <1>14, DispatchInv DEF Dispatch, Scanning, Running
<1>15. ASSUME Scanning, status[Target] # "Ready", scan' = scan + 1,
              UNCHANGED curProc
       PROVE  IdleIsAhead'
  <2>1. Target = Idle => curProc = Idle
    BY <1>0, <1>15, TargetInRange
       DEF IInv, OneRunning, Scanning, Running
  <2>2. curProc # Idle => curProc + scan # MaxProcessCount
    BY <1>0, <1>15, <2>1, TargetInRange
  <2> QED
    BY <1>0, <1>15, <2>2 DEF IInv, IdleIsAhead, Scanning, Running, TypeOK
<1>16. CASE AutoReap
  <2>1. /\ Scanning /\ status[Target] = "Terminated" /\ Reap(Target)
        /\ scan' = scan + 1 /\ scan >= 1
        /\ UNCHANGED <<curProc, cpu, at>>
    BY <1>16 DEF AutoReap, AutoReapable, Scanning, control
  <2>2. Running
    BY <2>1 DEF Scanning, Running
  <2>3. Target \in Slot /\ Target # Idle
    BY <1>0, <2>1, <2>2, TargetInRange DEF IInv, OneRunning
  <2>4. IdleIsAhead'
    BY <1>15, <2>1
  <2>5. at'[Idle] = "user" /\ scan' # 0
    BY <1>0, <2>1, <2>2 DEF IInv, IdleIsRoot, TypeOK
  <2> QED  BY <1>0, <2>1, <2>2, <2>3, <2>4, <2>5, ReapInv
<1>17. CASE Skip
  <2>1. /\ UNCHANGED <<status, semVal, queued, semRef, VMS, children, procCount,
                       curProc, cpu, at, fault>>
        /\ Scanning /\ status[Target] # "Ready" /\ scan' = scan + 1
    BY <1>17 DEF Skip, links, sems, spaces, control
  <2>2. scan' # 0
    BY <1>0, <2>1 DEF TypeOK
  <2>3. OneRunning'
    BY <2>1, <2>2 DEF IInv, OneRunning, Running
  <2>4. IdleIsAhead'
    BY <1>15, <2>1
  <2> QED  BY <1>0, <2>1, <2>3, <2>4, FrameInv
<1>18. CASE Fallback
  <2>1. /\ UNCHANGED <<status, semVal, queued, semRef, VMS, children, procCount,
                       curProc, at, fault>>
        /\ scan = MaxProcessCount /\ Running /\ cpu' = Idle /\ scan' = 0
    BY <1>18 DEF Fallback, Running, links, sems, spaces, control
  <2>2. curProc = Idle
    BY <1>0, <2>1 DEF IInv, IdleIsAhead, TypeOK
  <2>3. OneRunning'
    BY <2>1, <2>2 DEF IInv, OneRunning, IdleIsRoot, Running
  <2>4. IdleIsAhead'
    BY <2>1 DEF IdleIsAhead
  <2> QED  BY <1>0, <2>1, <2>3, <2>4, FrameInv
<1>19. CASE UNCHANGED vars
  <2>1. UNCHANGED <<status, semVal, queued, semRef, VMS, children, procCount,
                    curProc, cpu, scan, at, fault>>
    BY <1>19 DEF vars, links, sems, spaces, cpuVars, control
  <2>2. OneRunning' /\ IdleIsAhead'
    BY <2>1 DEF IInv, OneRunning, IdleIsAhead, Running
  <2> QED  BY <1>0, <2>1, <2>2, FrameInv
<1> QED
  BY <1>1, <1>2, <1>3, <1>4, <1>5, <1>7, <1>8, <1>9, <1>10, <1>11,
     <1>12, <1>13, <1>14, <1>16, <1>17, <1>18, <1>19
     DEF Next, Syscall, KernelLoop, Schedule, IdleLoop, Halted

(***************************************************************************)
(* The inductive invariant of the process table holds in every behaviour:  *)
(* the counts, the process on the CPU and the sleepers stay right through  *)
(* every interleaving of system calls, timer interrupts and scheduling.    *)
(***************************************************************************)
THEOREM Invariance == Spec => []IInv
BY InvInit, InvStep, PTL DEF Spec

(***************************************************************************)
(* procCount always equals the number of slots in use, through every order *)
(* of creations, exits, waits and reapings by the scheduler.               *)
(***************************************************************************)
THEOREM ExactCounts == Spec => []CountsAreExact
<1>1. IInv => CountsAreExact
  BY DEF IInv
<1> QED  BY <1>1, Invariance, PTL

(***************************************************************************)
(* The program on the CPU is always curProc, the one process that is       *)
(* Running; Schedule never resumes idle0 behind another process's back.    *)
(***************************************************************************)
THEOREM OneProcessRuns == Spec => []OneRunning
<1>1. IInv => OneRunning
  BY DEF IInv
<1> QED  BY <1>1, Invariance, PTL

(***************************************************************************)
(* A process sleeps only with its semaphore at -1 and itself in the queue, *)
(* so that the exit of a child wakes it, and signal never takes the front  *)
(* of an empty queue.                                                      *)
(***************************************************************************)
THEOREM SleepersWillWake == Spec => []SleepersAreQueued
<1>1. IInv => SleepersAreQueued
  BY DEF IInv
<1> QED  BY <1>1, Invariance, PTL

=============================================================================
