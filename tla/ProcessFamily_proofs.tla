------------------------ MODULE ProcessFamily_proofs ------------------------
(***************************************************************************)
(* Proof that the family tree of ProcessManager stays well formed, for     *)
(* every number of slots and processes.                                    *)
(***************************************************************************)
EXTENDS ProcessManager_proofs

USE CountAssumption, CreateAssumption DEF Slot, Idle, Nil, Any

(***************************************************************************)
(* The family tree needs the current process to have its resources: it is  *)
(* the father of what it creates, and it signals its father when it exits. *)
(***************************************************************************)
CurrentHasSpace == Running => VMS[curProc] # Nil

FamilyInv == FamilyTree /\ CurrentHasSpace

-----------------------------------------------------------------------------
(***************************************************************************)
(* What destroy recurses over is closed under children, and is contained   *)
(* in every set that is and has the process in it.                         *)
(***************************************************************************)
LEMMA SubtreeClosed ==
  ASSUME TypeOK, NEW p \in Slot
  PROVE  \A d \in Subtree(p) : children[d] \subseteq Subtree(p)
<1>1. ASSUME NEW d \in Subtree(p), NEW c \in children[d],
             NEW S \in SUBSET Slot, p \in S, \A r \in S : children[r] \subseteq S
      PROVE  c \in S
  <2>1. d \in S
    BY <1>1 DEF Subtree
  <2> QED  BY <1>1, <2>1
<1>2. \A d \in Subtree(p) : d \in Slot
  BY DEF Subtree
<1>3. \A d \in Subtree(p) : children[d] \subseteq Slot
  BY <1>2 DEF TypeOK
<1> QED  BY <1>1, <1>3 DEF Subtree

LEMMA SubtreeLeast ==
  ASSUME NEW p \in Slot, NEW S \in SUBSET Slot, p \in S,
         \A r \in S : children[r] \subseteq S
  PROVE  Subtree(p) \subseteq S
BY DEF Subtree

(***************************************************************************)
(* A process is outside the family of another when a closed set says so.   *)
(***************************************************************************)
LEMMA OutsideSubtree ==
  ASSUME NEW p \in Slot, NEW c \in Slot
  PROVE  p \notin Subtree(c) <=>
           \E S \in SUBSET Slot :
             c \in S /\ p \notin S /\ \A r \in S : children[r] \subseteq S
BY DEF Subtree

(***************************************************************************)
(* A child that is on the list of a process outside the family of p is     *)
(* outside it too, unless it is p: it has one father only.                 *)
(***************************************************************************)
LEMMA ChildOutside ==
  ASSUME TypeOK, Running, FamilyTree, NEW p \in Slot,
         NEW q \in Slot, q \notin Subtree(p), NEW c \in children[q], c # p
  PROVE  c \notin Subtree(p)
<1> SUFFICES ASSUME c \in Subtree(p) PROVE FALSE
  OBVIOUS
<1> DEFINE S == Subtree(p) \ {c}
<1>1. S \in SUBSET Slot /\ p \in S
  BY DEF Subtree
<1>2. ASSUME NEW r \in S, NEW x \in children[r] PROVE x \in S
  <2>1. x \in Subtree(p)
    BY <1>2, SubtreeClosed
  <2>2. CASE x = c
    <3>1. r \in Slot /\ father[c] = r /\ father[c] = q
      BY <1>1, <1>2, <2>2 DEF FamilyTree
    <3> QED  BY <1>2, <3>1
  <2> QED  BY <2>1, <2>2
<1> HIDE DEF S
<1>3. Subtree(p) \subseteq S
  BY <1>1, <1>2, SubtreeLeast
<1> QED  BY <1>3 DEF S

-----------------------------------------------------------------------------
(***************************************************************************)
(* Once the kernel has stopped, only the reason matters.                   *)
(***************************************************************************)
LEMMA FamilyStop ==
  ASSUME fault' \notin {"none", "NullWaitSem"}
  PROVE  FamilyInv'
BY DEF FamilyInv, FamilyTree, CurrentHasSpace, Running

(***************************************************************************)
(* Steps that leave the links and resources alone and free no slot.        *)
(***************************************************************************)
LEMMA FamilyFrame ==
  ASSUME FamilyInv, Running, UNCHANGED <<father, children, VMS>>,
         \A q \in Slot : status'[q] = "None" => status[q] = "None",
         TypeOK, fault' # "NullWaitSem",
         fault' = "none" => VMS[curProc'] # Nil
  PROVE  FamilyInv'
<1>1. \A c \in Slot : Subtree(c)' = Subtree(c)
  BY DEF Subtree
<1>2. ASSUME NEW p \in Slot, NEW c \in children'[p]
      PROVE  /\ father'[c] = p
             /\ status'[c] # "None"
             /\ VMS'[c] # Nil /\ VMS'[p] # Nil
             /\ p \notin Subtree(c)'
  <2>1. c \in children[p] /\ c \in Slot
    BY <1>2 DEF TypeOK
  <2> QED  BY <1>1, <2>1 DEF FamilyInv, FamilyTree
<1>3. \A c \in Slot :
        VMS'[c] # Nil /\ father'[c] # Nil => c \in children'[father'[c]]
  BY DEF FamilyInv, FamilyTree
<1>4. FamilyTree'
  BY <1>2, <1>3 DEF FamilyTree
<1>5. CurrentHasSpace'
  BY DEF CurrentHasSpace, Running
<1> QED  BY <1>4, <1>5 DEF FamilyInv

(***************************************************************************)
(* A new process, of a father with resources or of none, in a free slot:   *)
(* nothing is left there of the process that had it before.                *)
(***************************************************************************)
LEMMA FamilyCreate ==
  ASSUME IInv, FamilyInv, Running,
         NEW p \in Slot, FirstFree(p),
         NEW fa \in Slot \cup {Nil}, fa # Nil => VMS[fa] # Nil,
         NEW space \in 0 .. MaxCreate, NEW auto,
         NewProcess(p, fa, space, auto), UNCHANGED <<curProc, fault>>
  PROVE  FamilyInv'
<1>1. /\ father' = [father EXCEPT ![p] = fa]
      /\ status' = [status EXCEPT ![p] = "Ready"]
      /\ VMS' = [VMS EXCEPT ![p] = space]
      /\ children' = [q \in Slot |-> IF q = p THEN {}
                                     ELSE IF q = fa THEN children[q] \cup {p}
                                     ELSE children[q]]
  BY DEF NewProcess
<1>2. TypeOK
  BY DEF IInv
<1>3. status[p] = "None" /\ VMS[p] = Nil
  BY DEF FirstFree, FreeSlots, IInv, FreeSlotsAreEmpty
<1>4. fa # p /\ curProc # p
  BY <1>3 DEF FamilyInv, CurrentHasSpace
<1>5. /\ children[p] = {}
      /\ \A q \in Slot : p \notin children[q]
      /\ \A c \in Slot : VMS[c] # Nil => father[c] # p
  <2>1. \A c : c \notin children[p]
    BY <1>3 DEF FamilyInv, FamilyTree
  <2>2. \A q \in Slot : p \notin children[q]
    BY <1>3 DEF FamilyInv, FamilyTree
  <2> QED  BY <2>1, <2>2 DEF FamilyInv, FamilyTree
<1>6. ASSUME NEW q \in Slot, NEW c \in children'[q]
      PROVE  /\ father'[c] = q
             /\ status'[c] # "None"
             /\ VMS'[c] # Nil /\ VMS'[q] # Nil
             /\ q \notin Subtree(c)'
  <2>1. CASE c = p
    <3>1. q = fa /\ q # p
      BY <1>1, <1>4, <1>5, <1>6, <2>1
    <3>2. /\ father'[c] = q /\ status'[c] # "None"
          /\ VMS'[c] # Nil /\ VMS'[q] # Nil
      BY <1>1, <1>2, <2>1, <3>1 DEF TypeOK
    <3>3. \A r \in {p} : children'[r] \subseteq {p}
      BY <1>1
    <3>4. q \notin Subtree(c)'
      BY <2>1, <3>1, <3>3 DEF Subtree
    <3> QED  BY <3>2, <3>4
  <2>2. CASE c # p
    <3>1. q # p /\ c \in children[q] /\ c \in Slot
      BY <1>1, <1>2, <1>6, <2>2 DEF TypeOK
    <3>2. father[c] = q /\ status[c] # "None" /\ VMS[c] # Nil /\ VMS[q] # Nil
      BY <3>1 DEF FamilyInv, FamilyTree
    <3>3. PICK S \in SUBSET Slot :
            c \in S /\ q \notin S /\ \A r \in S : children[r] \subseteq S
      BY <3>1, OutsideSubtree DEF FamilyInv, FamilyTree
    <3>4. \A r \in S \cup {p} : children'[r] \subseteq S \cup {p}
      BY <1>1, <3>3
    <3>5. q \notin Subtree(c)'
      BY <3>1, <3>3, <3>4 DEF Subtree
    <3> QED  BY <1>1, <1>2, <2>2, <3>1, <3>2, <3>5 DEF TypeOK
  <2> QED  BY <2>1, <2>2
<1>7. ASSUME NEW c \in Slot, VMS'[c] # Nil, father'[c] # Nil
      PROVE  c \in children'[father'[c]]
  <2>1. CASE c = p
    <3>1. father'[c] = fa /\ fa \in Slot
      BY <1>1, <1>2, <1>7, <2>1 DEF TypeOK
    <3> QED  BY <1>1, <1>4, <2>1, <3>1
  <2>2. CASE c # p
    <3>1. VMS[c] # Nil /\ father[c] # Nil /\ father'[c] = father[c]
      BY <1>1, <1>2, <1>7, <2>2 DEF TypeOK
    <3>2. c \in children[father[c]] /\ father[c] \in Slot /\ father[c] # p
      BY <1>2, <1>5, <3>1 DEF FamilyInv, FamilyTree, TypeOK
    <3> QED  BY <1>1, <3>1, <3>2
  <2> QED  BY <2>1, <2>2
<1>8. FamilyTree'
  BY <1>6, <1>7 DEF FamilyTree, Running
<1>9. CurrentHasSpace'
  BY <1>1, <1>2, <1>4 DEF CurrentHasSpace, FamilyInv, Running, TypeOK
<1> QED  BY <1>8, <1>9 DEF FamilyInv

(***************************************************************************)
(* A process is destroyed with its family: the lists of the others lose    *)
(* that one process, and nobody outside has a father inside.               *)
(***************************************************************************)
LEMMA FamilyReap ==
  ASSUME IInv, FamilyInv, Running, NEW p \in Slot, p # Idle,
         Reap(p), UNCHANGED curProc
  PROVE  FamilyInv'
<1>1. CASE DestroyFault(p) # "none"
  <2>1. DestroyFault(p) # "NullWaitSem"
    BY DEF DestroyFault
  <2> QED  BY <1>1, <2>1, ReapFails, FamilyStop
<1>2. CASE DestroyFault(p) = "none"
  <2> DEFINE D == Subtree(p)
  <2>0. TypeOK /\ IdleIsRoot
    BY DEF IInv
  <2>1. /\ status' = [q \in Slot |-> IF q = p THEN "None"
                                     ELSE IF q \in D THEN StatusAfterExit(q)
                                     ELSE status[q]]
        /\ VMS' = [q \in Slot |-> IF q \in D THEN Nil ELSE VMS[q]]
        /\ children' = [q \in Slot |-> IF q \in D THEN {} ELSE children[q] \ {p}]
        /\ father' = father /\ fault' = fault
    BY <1>2, ReapEffect DEF ChildrenAfterDestroy
  <2>2. p \in D
    BY <2>0, SubtreeReach
  <2>3. curProc \notin D
    BY <1>2, DestroySafe
  <2>4. \A d \in D : children[d] \subseteq D
    BY <2>0, SubtreeClosed
  <2>5. \A q \in Slot : q \notin D => \A c \in children[q] : c # p => c \notin D
    BY <2>0, ChildOutside DEF FamilyInv
  <2> HIDE DEF D
  <2>6. ASSUME NEW q \in Slot, NEW c \in children'[q]
        PROVE  /\ father'[c] = q
               /\ status'[c] # "None"
               /\ VMS'[c] # Nil /\ VMS'[q] # Nil
               /\ q \notin Subtree(c)'
    <3>1. q \notin D /\ c \in children[q] /\ c # p /\ c \in Slot
      BY <2>0, <2>1, <2>6 DEF TypeOK
    <3>2. c \notin D
      BY <2>5, <3>1
    <3>3. father[c] = q /\ status[c] # "None" /\ VMS[c] # Nil /\ VMS[q] # Nil
      BY <3>1 DEF FamilyInv, FamilyTree
    <3>4. PICK S \in SUBSET Slot :
            c \in S /\ q \notin S /\ \A r \in S : children[r] \subseteq S
      BY <3>1, OutsideSubtree DEF FamilyInv, FamilyTree
    <3>5. \A r \in S : children'[r] \subseteq S
      BY <2>1, <3>4
    <3>6. q \notin Subtree(c)'
      BY <3>1, <3>4, <3>5 DEF Subtree
    <3> QED  BY <2>1, <3>1, <3>2, <3>3, <3>6
  <2>7. ASSUME NEW c \in Slot, VMS'[c] # Nil, father'[c] # Nil
        PROVE  c \in children'[father'[c]]
    <3>1. c \notin D /\ VMS[c] # Nil /\ father[c] # Nil
      BY <2>1, <2>7
    <3>2. c \in children[father[c]] /\ father[c] \in Slot
      BY <2>0, <3>1 DEF FamilyInv, FamilyTree, TypeOK
    <3>3. father[c] \notin D /\ c # p
      BY <2>2, <2>4, <3>1, <3>2
    <3> QED  BY <2>1, <3>2, <3>3
  <2>8. FamilyTree'
    BY <2>1, <2>6, <2>7 DEF FamilyTree, Running
  <2>9. CurrentHasSpace'
    BY <2>0, <2>1, <2>3 DEF CurrentHasSpace, FamilyInv, Running, TypeOK
  <2> QED  BY <2>8, <2>9 DEF FamilyInv
<1> QED  BY <1>1, <1>2

(***************************************************************************)
(* Exit: the father that is signalled has its resources, because the       *)
(* process that exits has its own and is on its father's list.             *)
(***************************************************************************)
LEMMA FamilyExit ==
  ASSUME IInv, FamilyInv, Running, ExitProcess
  PROVE  FamilyInv'
<1>0. TypeOK /\ curProc \in Slot /\ VMS[curProc] # Nil
  BY DEF IInv, TypeOK, FamilyInv, CurrentHasSpace
<1>1. /\ UNCHANGED <<father, children, VMS, curProc>>
      /\ fault' = SignalFault(father[curProc])
  BY DEF ExitProcess, Exit, links, spaces
<1>2. \A q \in Slot : status'[q] = "None" => status[q] = "None"
  BY DEF ExitProcess, Exit, StatusAfterExit
<1>3. fault' # "NullWaitSem"
  <2>1. CASE father[curProc] = Nil
    BY <1>1, <2>1 DEF SignalFault
  <2>2. CASE father[curProc] # Nil
    <3>1. father[curProc] \in Slot /\ curProc \in children[father[curProc]]
      BY <1>0, <2>2 DEF FamilyInv, FamilyTree, TypeOK
    <3>2. VMS[father[curProc]] # Nil
      BY <3>1 DEF FamilyInv, FamilyTree
    <3> QED  BY <1>1, <3>2 DEF SignalFault
  <2> QED  BY <2>1, <2>2
<1> QED  BY <1>0, <1>1, <1>2, <1>3, FamilyFrame

-----------------------------------------------------------------------------
LEMMA FamilyInit == Init => FamilyInv
<1> SUFFICES ASSUME Init PROVE FamilyInv
  OBVIOUS
<1>1. /\ \A p \in Slot : children[p] = {} /\ father[p] = Nil
      /\ VMS[curProc] # Nil /\ fault = "none"
  BY DEF Init
<1> QED  BY <1>1 DEF FamilyInv, FamilyTree, CurrentHasSpace

(***************************************************************************)
(* Every action keeps the family tree.                                     *)
(***************************************************************************)
LEMMA FamilyStep == IInv /\ FamilyInv /\ [Next]_vars => FamilyInv'
<1> SUFFICES ASSUME IInv, FamilyInv, [Next]_vars
             PROVE  FamilyInv'
  OBVIOUS
<1>0. /\ TypeOK /\ curProc \in Slot
      /\ Running => VMS[curProc] # Nil
  BY DEF IInv, TypeOK, FamilyInv, CurrentHasSpace
<1>1. CASE CreationFault
  BY <1>1, FamilyStop DEF CreationFault
<1>2. ASSUME NEW thread \in CloneStack, NEW sigchld \in BOOLEAN,
             Clone(thread, sigchld), ~CreationFault
      PROVE  FamilyInv'
  <2> DEFINE fa == IF sigchld THEN curProc ELSE Nil
             space == IF thread THEN VMS[curProc] ELSE created + 1
             auto == autoDestroy[curProc]
  <2>1. Running /\ created < MaxCreate
    BY <1>2 DEF Clone, InUser, Executing, Running
  <2>2. PICK p \in Slot : /\ FirstFree(p) /\ NewProcess(p, fa, space, auto)
                          /\ UNCHANGED <<curProc, fault>>
    BY <1>2 DEF Clone, cpuVars
  <2>3. fa \in Slot \cup {Nil} /\ (fa # Nil => VMS[fa] # Nil)
    BY <1>0, <2>1
  <2>4. space \in 0 .. MaxCreate
    BY <1>0, <2>1 DEF TypeOK
  <2> HIDE DEF fa, space, auto
  <2> QED  BY <2>1, <2>2, <2>3, <2>4, FamilyCreate
<1>3. ASSUME NEW auto \in ElfAutoDestroy, Execve(auto), ~CreationFault
      PROVE  FamilyInv'
  <2>1. Running /\ created + 1 \in 0 .. MaxCreate
    BY <1>0, <1>3 DEF Execve, InUser, Executing, Running, TypeOK
  <2>2. PICK p \in Slot : /\ FirstFree(p) /\ NewProcess(p, curProc, created + 1, auto)
                          /\ UNCHANGED <<curProc, fault>>
    BY <1>3 DEF Execve, cpuVars
  <2> QED  BY <1>0, <2>1, <2>2, FamilyCreate
<1>4. ASSUME NEW auto \in ElfAutoDestroy, IdleStart(auto), ~CreationFault
      PROVE  FamilyInv'
  <2>1. Running /\ created + 1 \in 0 .. MaxCreate /\ curProc = Idle
    BY <1>0, <1>4 DEF IdleStart, Executing, Running, TypeOK
  <2>2. PICK p \in Slot : /\ FirstFree(p) /\ NewProcess(p, Idle, created + 1, auto)
                          /\ UNCHANGED <<curProc, fault>>
    BY <1>4 DEF IdleStart, cpuVars
  <2> QED  BY <1>0, <2>1, <2>2, FamilyCreate
<1>5. CASE ExecveNotElf
  BY <1>5, FamilyStop DEF ExecveNotElf
<1>6. ASSUME Running, NEW who, \E c \in Zombies(curProc, who) : Reap(c),
             UNCHANGED curProc
      PROVE  FamilyInv'
  <2>1. PICK c \in Zombies(curProc, who) : Reap(c)
    BY <1>6
  <2>2. c \in Slot /\ c # Idle
    BY <1>0, <1>6 DEF Zombies, IInv, IdleIsRoot, TypeOK
  <2> QED  BY <1>6, <2>1, <2>2, FamilyReap
<1>7. ASSUME NEW who \in {Any} \cup (Slot \ {Idle}), Wait4NoHang(who)
      PROVE  FamilyInv'
  BY <1>6, <1>7 DEF Wait4NoHang, InUser, Executing, Running, cpuVars
<1>8. CASE Wait4Return
  BY <1>6, <1>8 DEF Wait4Return, Executing, Running, cpuVars
<1>9. CASE ExecveReturn
  BY <1>6, <1>9 DEF ExecveReturn, Executing, Running, cpuVars
<1>10. CASE AutoReap
  <2>1. /\ Scanning /\ Running /\ status[Target] = "Terminated"
        /\ Reap(Target) /\ UNCHANGED curProc
    BY <1>10 DEF AutoReap, AutoReapable, Scanning, Running
  <2>2. Target \in Slot /\ Target # Idle
    BY <1>0, <2>1, TargetInRange DEF IInv, OneRunning
  <2> QED  BY <2>1, <2>2, FamilyReap
<1>11. CASE ExitProcess
  BY <1>11, FamilyExit DEF ExitProcess, InUser, Executing, Running
<1>12. CASE Dispatch
  <2>1. /\ Running /\ Target \in Slot /\ curProc' = Target
        /\ UNCHANGED <<father, children, VMS>>
        /\ fault' = RunFault(Target)
    BY <1>0, <1>12, TargetInRange DEF Dispatch, Scanning, Running, links, spaces
  <2>2. \A q \in Slot : status'[q] = "None" => status[q] = "None"
    BY <1>12 DEF Dispatch, StatusAfterRun
  <2>3. fault' # "NullWaitSem" /\ (fault' = "none" => VMS[Target] # Nil)
    BY <2>1 DEF RunFault
  <2> QED  BY <1>0, <2>1, <2>2, <2>3, FamilyFrame
<1>13. ASSUME UNCHANGED <<father, children, VMS, curProc, fault>>, Running,
              \A q \in Slot : status'[q] = "None" => status[q] = "None"
       PROVE  FamilyInv'
  BY <1>0, <1>13, FamilyFrame DEF Running
<1>14. CASE Block
  <2>1. \A q \in Slot : status'[q] = "None" => status[q] = "None"
    BY <1>0, <1>14 DEF Block, TypeOK
  <2> QED
    BY <1>13, <1>14, <2>1 DEF Block, Executing, Running, links, spaces
<1>15. ASSUME NEW who \in {Any} \cup (Slot \ {Idle}), Wait4(who)
       PROVE  FamilyInv'
  BY <1>13, <1>15 DEF Wait4, InUser, Executing, Running, links, spaces, cpuVars
<1>16. CASE Preempt
  BY <1>13, <1>16 DEF Preempt, Executing, Running, links, spaces
<1>17. CASE IdlePoll
  BY <1>13, <1>17 DEF IdlePoll, Executing, Running, links, spaces, cpuVars
<1>18. CASE Skip
  BY <1>13, <1>18 DEF Skip, Scanning, Running, links, spaces
<1>19. CASE Fallback
  BY <1>13, <1>19 DEF Fallback, Running, links, spaces
<1>20. CASE UNCHANGED vars
  <2>1. UNCHANGED <<status, father, children, VMS, curProc, fault>>
    BY <1>20 DEF vars, links, spaces, cpuVars
  <2>2. CASE Running
    BY <1>13, <2>1, <2>2
  <2>3. CASE ~Running
    <3>1. fault \notin {"none", "NullWaitSem"}
      BY <2>3 DEF Running, FamilyInv, FamilyTree
    <3> QED  BY <2>1, <3>1, FamilyStop
  <2> QED  BY <2>2, <2>3
<1> QED
  BY <1>1, <1>2, <1>3, <1>4, <1>5, <1>7, <1>8, <1>9, <1>10, <1>11, <1>12,
     <1>14, <1>15, <1>16, <1>17, <1>18, <1>19, <1>20
     DEF Next, Syscall, KernelLoop, Schedule, IdleLoop, Halted

(***************************************************************************)
(* The family tree is well formed in every behaviour: lists and father     *)
(* pointers agree, the recursion of destroy ends, a listed process and its *)
(* father have their resources, and exit never signals a semaphore that    *)
(* was deleted.                                                            *)
(***************************************************************************)
THEOREM FamilyHolds == Spec => []FamilyTree
<1>1. FamilyInv => FamilyTree
  BY DEF FamilyInv
<1> QED  BY <1>1, Invariance, FamilyInit, FamilyStep, PTL DEF Spec
=============================================================================
