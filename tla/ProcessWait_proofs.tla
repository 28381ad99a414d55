------------------------- MODULE ProcessWait_proofs -------------------------
(***************************************************************************)
(* Proof that no child's end is lost by a father that waits for it: not to *)
(* a wait4 that goes to sleep, nor to a scheduler that reaps zombies.      *)
(***************************************************************************)
EXTENDS ProcessFamily_proofs

USE CountAssumption, CreateAssumption DEF Slot, Idle, Nil, Any

(***************************************************************************)
(* The index at which the loop of Schedule looks at slot p, if curProc     *)
(* enters it; curProc itself would be the last.                            *)
(***************************************************************************)
Round(p) == IF p > curProc THEN p - curProc
            ELSE p - curProc + MaxProcessCount

(***************************************************************************)
(* A father that waits for a child which has terminated is either looking  *)
(* for it, or Ready, and then the round comes to the father before it      *)
(* comes to the child.                                                     *)
(***************************************************************************)
ZombieInTurn ==
  Running =>
    \A p \in Slot : \A c \in children[p] :
      WaitsFor(p, c) /\ status[c] = "Terminated" =>
        \/ scan = 0 /\ curProc = p
        \/ status[p] = "Ready" /\ scan <= Round(p) /\ Round(p) < Round(c)

(***************************************************************************)
(* A process that waits and was not destroyed has not terminated, and has  *)
(* a child; one that sleeps was not destroyed.                             *)
(***************************************************************************)
WaitersLive ==
  Running =>
    \A p \in Slot :
      /\ status[p] = "Terminated" /\ VMS[p] # Nil => at[p] \notin {"wait4", "execve"}
      /\ at[p] = "wait4" /\ arg[p] = Any /\ VMS[p] # Nil => children[p] # {}
      /\ status[p] = "Sleeping" => VMS[p] # Nil

WaitInv == ZombieInTurn /\ WaitersLive

(***************************************************************************)
(* What ZombieInTurn says of one process and one child.                    *)
(***************************************************************************)
InTurn(p, c) ==
  \/ scan = 0 /\ curProc = p
  \/ status[p] = "Ready" /\ scan <= Round(p) /\ Round(p) < Round(c)

LEMMA ZombieTurn ==
  ASSUME WaitInv, Running, NEW p \in Slot, NEW c \in children[p], WaitsFor(p, c),
         status[c] = "Terminated"
  PROVE  InTurn(p, c)
BY DEF WaitInv, ZombieInTurn, InTurn

-----------------------------------------------------------------------------
(***************************************************************************)
(* The order of the round.                                                 *)
(***************************************************************************)
LEMMA RoundRange ==
  ASSUME TypeOK, NEW p \in Slot
  PROVE  /\ Round(p) \in 1 .. MaxProcessCount
         /\ p # curProc => Round(p) < MaxProcessCount
         /\ p = curProc => Round(p) = MaxProcessCount
BY DEF TypeOK, Round

LEMMA RoundOfTarget ==
  ASSUME TypeOK, Scanning, NEW p \in Slot
  PROVE  Round(p) = scan <=> p = Target
<1>1. /\ curProc \in 0 .. MaxProcessCount - 1
      /\ scan \in 1 .. MaxProcessCount - 1
  BY DEF TypeOK, Scanning
<1>2. CASE curProc + scan < MaxProcessCount
  <2>1. Target = curProc + scan
    BY <1>1, <1>2 DEF Target
  <2> QED  BY <1>1, <1>2, <2>1 DEF Round
<1>3. CASE curProc + scan >= MaxProcessCount
  <2>1. Target = curProc + scan - MaxProcessCount
    BY <1>1, <1>3 DEF Target
  <2> QED  BY <1>1, <1>3, <2>1 DEF Round
<1> QED  BY <1>1, <1>2, <1>3

(***************************************************************************)
(* When the slot at index scan takes over, what was behind it in the round *)
(* keeps its order.                                                        *)
(***************************************************************************)
LEMMA RoundAfterDispatch ==
  ASSUME TypeOK, Scanning, curProc' = Target, Target \in Slot,
         NEW p \in Slot, NEW c \in Slot, scan < Round(p), Round(p) < Round(c)
  PROVE  Round(p)' >= 1 /\ Round(p)' < Round(c)'
<1>1. /\ curProc \in 0 .. MaxProcessCount - 1 /\ curProc' \in 0 .. MaxProcessCount - 1
      /\ scan \in 1 .. MaxProcessCount - 1
      /\ p \in 0 .. MaxProcessCount - 1 /\ c \in 0 .. MaxProcessCount - 1
  BY DEF TypeOK, Scanning
<1>2. scan = IF curProc' > curProc THEN curProc' - curProc
             ELSE curProc' - curProc + MaxProcessCount
  BY RoundOfTarget DEF Round
<1>3. /\ Round(p)' = IF p > curProc' THEN p - curProc'
                     ELSE p - curProc' + MaxProcessCount
      /\ Round(c)' = IF c > curProc' THEN c - curProc'
                     ELSE c - curProc' + MaxProcessCount
  BY DEF Round
<1>4. Round(p)' = Round(p) - scan
  BY <1>1, <1>2, <1>3 DEF Round
<1>5. Round(c)' = Round(c) - scan
  BY <1>1, <1>2, <1>3 DEF Round
<1>6. Round(p) \in Int /\ Round(c) \in Int
  BY RoundRange
<1> QED  BY <1>1, <1>4, <1>5, <1>6

LEMMA TwoSlotsInUse ==
  ASSUME IInv, Running, NEW a \in Slot, NEW b \in Slot, a # b,
         status[a] # "None", status[b] # "None"
  PROVE  procCount >= 2
<1>1. {a, b} \in SUBSET Used
  BY DEF Used
<1>2. Cardinality({a, b}) = 2
  <2>1. IsFiniteSet({a}) /\ Cardinality({a}) = 1
    BY FS_Singleton
  <2>2. {a, b} = {a} \cup {b}
    OBVIOUS
  <2> QED  BY <2>1, <2>2, FS_AddElement
<1>3. /\ Cardinality(Used) \in Nat
      /\ Cardinality({a, b}) <= Cardinality(Used)
  BY <1>1, UsedIsFinite, FS_Subset, FS_CardinalityType
<1> QED  BY <1>2, <1>3 DEF IInv, CountsAreExact, Used

-----------------------------------------------------------------------------
(***************************************************************************)
(* What the invariants say of a father and a child on its list.            *)
(***************************************************************************)
LEMMA PairFacts ==
  ASSUME IInv, FamilyInv, Running, NEW p \in Slot, NEW c \in children[p]
  PROVE  /\ c \in Slot /\ c # p /\ father[c] = p
         /\ VMS[p] # Nil /\ status[p] # "None" /\ status[c] # "None"
<1>1. c \in Slot
  BY DEF IInv, TypeOK
<1>2. /\ father[c] = p /\ VMS[p] # Nil /\ status[c] # "None"
      /\ p \notin Subtree(c)
  BY DEF FamilyInv, FamilyTree
<1>3. c \in Subtree(c)
  BY <1>1 DEF Subtree
<1>4. status[p] # "None"
  BY <1>2 DEF IInv, FreeSlotsAreEmpty
<1> QED  BY <1>1, <1>2, <1>3, <1>4

LEMMA WaitStop == fault' # "none" => WaitInv'
BY DEF WaitInv, ZombieInTurn, WaitersLive, Running

LEMMA WaitInit == Init => WaitInv
BY DEF Init, WaitInv, ZombieInTurn, WaitersLive

(***************************************************************************)
(* Outside Schedule, the process on the CPU is Running; it waits for no    *)
(* child unless it is in one of the loops of the kernel.                   *)
(***************************************************************************)
LEMMA OnCpu ==
  ASSUME IInv, NEW where, Executing(where)
  PROVE  /\ Running /\ scan = 0 /\ cpu = curProc /\ curProc \in Slot
         /\ status[curProc] = "Running" /\ at[curProc] = where
         /\ \A q \in Slot : status[q] = "Running" => q = curProc
         /\ semVal[curProc] >= 0 /\ semVal[curProc] \in Int
BY DEF IInv, Executing, Running, OneRunning, SleepersAreQueued, TypeOK

(***************************************************************************)
(* A new process: it has no children, and is not Terminated.               *)
(***************************************************************************)
LEMMA WaitCreate ==
  ASSUME IInv, FamilyInv, WaitInv, Running, scan = 0, status[curProc] = "Running",
         NEW p \in Slot, FirstFree(p), NEW fa, NEW space, space # Nil, NEW auto,
         NewProcess(p, fa, space, auto), UNCHANGED <<curProc, scan, fault>>,
         at'[p] = "user",
         \A q \in Slot \ {p} :
           \/ at'[q] = at[q] /\ arg'[q] = arg[q]
           \/ q = curProc /\ at'[q] = "execve" /\ arg'[q] = p
  PROVE  WaitInv'
<1>1. /\ status' = [status EXCEPT ![p] = "Ready"]
      /\ VMS' = [VMS EXCEPT ![p] = space]
      /\ children' = [q \in Slot |-> IF q = p THEN {}
                                     ELSE IF q = fa THEN children[q] \cup {p}
                                     ELSE children[q]]
  BY DEF NewProcess
<1>2. TypeOK /\ status[p] = "None"
  BY DEF IInv, FirstFree, FreeSlots
<1>3. /\ status'[p] = "Ready" /\ \A q \in Slot \ {p} : status'[q] = status[q]
      /\ \A q \in Slot \ {p} : VMS'[q] = VMS[q]
      /\ children'[p] = {}
      /\ \A q \in Slot \ {p} : children[q] \subseteq children'[q]
      /\ \A q \in Slot \ {p} : children'[q] \subseteq children[q] \cup {p}
  BY <1>1, <1>2 DEF TypeOK
<1>4. \A q \in Slot : Round(q)' = Round(q)
  BY DEF Round
<1>5. ASSUME NEW q \in Slot, NEW c \in children'[q],
             WaitsFor(q, c)', status'[c] = "Terminated"
      PROVE  \/ scan' = 0 /\ curProc' = q
             \/ status'[q] = "Ready" /\ scan' <= Round(q)' /\ Round(q)' < Round(c)'
  <2>1. q # p /\ c # p /\ c \in children[q] /\ c \in Slot
    BY <1>2, <1>3, <1>5 DEF TypeOK
  <2>2. CASE q = curProc
    BY <2>2
  <2>3. CASE q # curProc
    <3>1. at'[q] = at[q] /\ arg'[q] = arg[q]
      BY <2>1, <2>3
    <3>2. WaitsFor(q, c) /\ status[c] = "Terminated"
      BY <1>3, <1>5, <2>1, <3>1 DEF WaitsFor
    <3>3. status[q] = "Ready" /\ scan <= Round(q) /\ Round(q) < Round(c)
      BY <2>1, <2>3, <3>2 DEF WaitInv, ZombieInTurn
    <3> QED  BY <1>3, <1>4, <2>1, <3>3
  <2> QED  BY <2>2, <2>3
<1>6. ASSUME NEW q \in Slot
      PROVE  /\ status'[q] = "Terminated" /\ VMS'[q] # Nil
                  => at'[q] \notin {"wait4", "execve"}
             /\ at'[q] = "wait4" /\ arg'[q] = Any /\ VMS'[q] # Nil
                  => children'[q] # {}
             /\ status'[q] = "Sleeping" => VMS'[q] # Nil
  <2>1. CASE q = p
    BY <1>3, <2>1
  <2>2. CASE q # p
    <3>1. /\ status'[q] = status[q] /\ VMS'[q] = VMS[q]
          /\ children[q] \subseteq children'[q]
      BY <1>3, <2>2
    <3>2. CASE at'[q] = at[q] /\ arg'[q] = arg[q]
      BY <3>1, <3>2 DEF WaitInv, WaitersLive
    <3>3. CASE q = curProc /\ at'[q] = "execve"
      BY <3>1, <3>3 DEF WaitInv, WaitersLive
    <3> QED  BY <2>2, <3>2, <3>3
  <2> QED  BY <2>1, <2>2
<1> QED  BY <1>5, <1>6 DEF WaitInv, ZombieInTurn, WaitersLive

(***************************************************************************)
(* A reaping: it destroys the family of a zombie d for which no other      *)
(* process waits; fathers outside the family and their other children are  *)
(* left alone.                                                             *)
(***************************************************************************)
LEMMA WaitReap ==
  ASSUME IInv, FamilyInv, WaitInv, Running, NEW d \in Slot, Reap(d),
         UNCHANGED curProc,
         scan = 0 => at'[curProc] \in {"user", "exit"},
         \A q \in Slot : \/ at'[q] = at[q] /\ arg'[q] = arg[q]
                         \/ at'[q] \in {"user", "exit"},
         \A q \in Slot : d \in children[q] /\ at'[q] = "wait4" => arg'[q] # Any,
         \A q \in Slot : status[q] = "Ready" /\ scan <= Round(q) => scan' <= Round(q)
  PROVE  WaitInv'
<1>1. CASE DestroyFault(d) # "none"
  BY <1>1, ReapFails, WaitStop
<1>2. CASE DestroyFault(d) = "none"
  <2> DEFINE D == Subtree(d)
  <2>1. /\ status' = [q \in Slot |-> IF q = d THEN "None"
                                     ELSE IF q \in D THEN StatusAfterExit(q)
                                     ELSE status[q]]
        /\ children' = [q \in Slot |-> IF q \in D THEN {} ELSE children[q] \ {d}]
        /\ VMS' = [q \in Slot |-> IF q \in D THEN Nil ELSE VMS[q]]
    BY <1>2, ReapEffect DEF ChildrenAfterDestroy
  <2>2. TypeOK /\ FamilyTree
    BY DEF IInv, FamilyInv
  <2>3. d \in D
    BY DEF Subtree
  <2>4. /\ \A q \in Slot : q \in D => /\ children'[q] = {} /\ VMS'[q] = Nil
                                      /\ status'[q] # "Sleeping"
        /\ \A q \in Slot : q \notin D => /\ children'[q] = children[q] \ {d}
                                         /\ VMS'[q] = VMS[q]
                                         /\ status'[q] = status[q]
    BY <2>1, <2>3 DEF StatusAfterExit
  <2>5. \A q \in Slot : Round(q)' = Round(q)
    BY DEF Round
  <2>6. ASSUME NEW q \in Slot, NEW c \in children'[q],
               WaitsFor(q, c)', status'[c] = "Terminated"
        PROVE  \/ scan' = 0 /\ curProc' = q
               \/ status'[q] = "Ready" /\ scan' <= Round(q)' /\ Round(q)' < Round(c)'
    <3>1. q \notin D /\ c \in children[q] /\ c # d /\ c \in Slot
      BY <2>2, <2>4, <2>6 DEF TypeOK
    <3>2. c \notin D
      BY <2>2, <3>1, ChildOutside
    <3>3. at'[q] \in {"wait4", "execve"}
      BY <2>6 DEF WaitsFor
    <3>4. at'[q] = at[q] /\ arg'[q] = arg[q] /\ ~(scan = 0 /\ curProc = q)
      BY <3>3
    <3>5. WaitsFor(q, c) /\ status[c] = "Terminated"
      BY <2>4, <2>6, <3>1, <3>2, <3>4 DEF WaitsFor
    <3>6. status[q] = "Ready" /\ scan <= Round(q) /\ Round(q) < Round(c)
      BY <3>1, <3>4, <3>5 DEF WaitInv, ZombieInTurn
    <3> QED  BY <2>4, <2>5, <3>1, <3>6
  <2>7. ASSUME NEW q \in Slot
        PROVE  /\ status'[q] = "Terminated" /\ VMS'[q] # Nil
                    => at'[q] \notin {"wait4", "execve"}
               /\ at'[q] = "wait4" /\ arg'[q] = Any /\ VMS'[q] # Nil
                    => children'[q] # {}
               /\ status'[q] = "Sleeping" => VMS'[q] # Nil
    <3>1. CASE q \in D
      BY <2>4, <3>1
    <3>2. CASE q \notin D
      <4>1. /\ children'[q] = children[q] \ {d} /\ VMS'[q] = VMS[q]
            /\ status'[q] = status[q]
        BY <2>4, <3>2
      <4>2. CASE at'[q] = at[q] /\ arg'[q] = arg[q]
        <5>1. /\ status[q] = "Terminated" /\ VMS[q] # Nil
                   => at[q] \notin {"wait4", "execve"}
              /\ at[q] = "wait4" /\ arg[q] = Any /\ VMS[q] # Nil => children[q] # {}
              /\ status[q] = "Sleeping" => VMS[q] # Nil
          BY DEF WaitInv, WaitersLive
        <5> QED  BY <4>1, <4>2, <5>1
      <4>3. CASE at'[q] \in {"user", "exit"}
        BY <4>1, <4>3 DEF WaitInv, WaitersLive
      <4> QED  BY <4>2, <4>3
    <3> QED  BY <3>1, <3>2
  <2> QED  BY <2>6, <2>7 DEF WaitInv, ZombieInTurn, WaitersLive
<1> QED  BY <1>1, <1>2

(***************************************************************************)
(* The end of the current process: its father is woken if it sleeps, and   *)
(* then comes before it in the round that begins.                          *)
(***************************************************************************)
LEMMA WaitExit ==
  ASSUME IInv, FamilyInv, WaitInv, ExitProcess
  PROVE  WaitInv'
<1>1. /\ Running /\ scan = 0 /\ cpu = curProc /\ curProc \in Slot
      /\ status[curProc] = "Running" /\ at[curProc] \in {"user", "exit"}
      /\ \A q \in Slot : status[q] = "Running" => q = curProc
      /\ semVal[curProc] >= 0 /\ semVal[curProc] \in Int
  BY OnCpu DEF ExitProcess, InUser
<1>2. /\ UNCHANGED <<children, VMS, curProc, at, arg>>
      /\ scan' = IF procCount >= 2 THEN 1 ELSE MaxProcessCount
      /\ status' = [q \in Slot |-> IF q = curProc THEN StatusAfterExit(curProc)
                                   ELSE IF q = father[curProc] /\ Wakes(father[curProc])
                                        THEN "Ready"
                                   ELSE status[q]]
  BY DEF ExitProcess, Exit, links, spaces, control, EnterSchedule
<1>3. StatusAfterExit(curProc) = "Terminated"
  BY <1>1 DEF StatusAfterExit
<1>4. \A q \in Slot : Round(q)' = Round(q)
  BY <1>2 DEF Round
<1>5. TypeOK
  BY DEF IInv
<1>6. ASSUME NEW q \in Slot, NEW c \in children'[q],
             WaitsFor(q, c)', status'[c] = "Terminated"
      PROVE  \/ scan' = 0 /\ curProc' = q
             \/ status'[q] = "Ready" /\ scan' <= Round(q)' /\ Round(q)' < Round(c)'
  <2>1. c \in children[q] /\ WaitsFor(q, c)
    BY <1>2, <1>6 DEF WaitsFor
  <2>2. /\ c \in Slot /\ c # q /\ father[c] = q
        /\ VMS[q] # Nil /\ status[q] # "None" /\ status[c] # "None"
    BY <1>1, <2>1, PairFacts
  <2>3. at[q] \in {"wait4", "execve"} /\ q # curProc
    BY <1>1, <2>1 DEF WaitsFor
  <2>4. status[q] # "Terminated" /\ status[q] # "Running"
    BY <1>1, <2>2, <2>3 DEF WaitInv, WaitersLive
  <2>5. procCount >= 2
    BY <1>1, <2>2, <2>3, TwoSlotsInUse
  <2>6. scan' = 1 /\ Round(q) \in 1 .. MaxProcessCount /\ Round(q) < MaxProcessCount
    BY <1>2, <1>5, <2>3, <2>5, RoundRange
  <2>7. CASE c = curProc
    <3>1. status'[q] = "Ready"
      <4>1. CASE status[q] = "Sleeping"
        <5>1. semVal[q] = -1 /\ semRef[q] = 1
          BY <1>1, <4>1 DEF IInv, SleepersAreQueued
        <5>2. Wakes(q)
          BY <5>1 DEF Wakes
        <5> QED  BY <1>2, <2>2, <2>3, <2>7, <5>2
      <4>2. CASE status[q] = "Ready"
        BY <1>2, <2>3, <4>2
      <4> QED  BY <1>5, <2>2, <2>4, <4>1, <4>2 DEF TypeOK, ProcStatus
    <3>2. Round(c) = MaxProcessCount
      BY <1>1, <1>5, <2>7, RoundRange
    <3> QED  BY <1>4, <2>2, <2>6, <3>1, <3>2
  <2>8. CASE c # curProc
    <3>1. status[c] = "Terminated"
      BY <1>2, <1>6, <2>2, <2>8
    <3>2. status[q] = "Ready" /\ Round(q) < Round(c)
      BY <1>1, <2>1, <2>3, <3>1 DEF WaitInv, ZombieInTurn
    <3>3. status'[q] = "Ready"
      BY <1>2, <2>3, <3>2
    <3> QED  BY <1>4, <2>2, <2>6, <3>2, <3>3
  <2> QED  BY <2>7, <2>8
<1>7. ASSUME NEW q \in Slot
      PROVE  /\ status'[q] = "Terminated" /\ VMS'[q] # Nil
                  => at'[q] \notin {"wait4", "execve"}
             /\ at'[q] = "wait4" /\ arg'[q] = Any /\ VMS'[q] # Nil
                  => children'[q] # {}
             /\ status'[q] = "Sleeping" => VMS'[q] # Nil
  <2>1. /\ status[q] = "Terminated" /\ VMS[q] # Nil
             => at[q] \notin {"wait4", "execve"}
        /\ at[q] = "wait4" /\ arg[q] = Any /\ VMS[q] # Nil => children[q] # {}
        /\ status[q] = "Sleeping" => VMS[q] # Nil
    BY <1>1 DEF WaitInv, WaitersLive
  <2>2. /\ q = curProc => status'[q] = "Terminated"
        /\ q # curProc => status'[q] \in {"Ready", status[q]}
    BY <1>2, <1>3
  <2>3. CASE q = curProc
    BY <1>1, <1>2, <2>1, <2>2, <2>3
  <2>4. CASE q # curProc
    BY <1>2, <2>1, <2>2, <2>4
  <2> QED  BY <2>3, <2>4
<1> QED  BY <1>6, <1>7 DEF WaitInv, ZombieInTurn, WaitersLive

(***************************************************************************)
(* The current process enters Schedule with no zombie to wait for: the     *)
(* round begins, and every father that is Ready is ahead in it.            *)
(***************************************************************************)
LEMMA WaitEnter ==
  ASSUME IInv, FamilyInv, WaitInv, Running, scan = 0, status[curProc] = "Running",
         \A c \in children[curProc] : WaitsFor(curProc, c) => status[c] # "Terminated",
         EnterSchedule(procCount),
         UNCHANGED <<children, VMS, curProc, at, arg, fault>>,
         status'[curProc] \in {"Running", "Sleeping"},
         \A q \in Slot \ {curProc} : status'[q] = status[q]
  PROVE  WaitInv'
<1>1. TypeOK /\ curProc \in Slot /\ VMS[curProc] # Nil
  BY DEF IInv, TypeOK, FamilyInv, CurrentHasSpace
<1>2. \A q \in Slot : Round(q)' = Round(q)
  BY DEF Round
<1>3. ASSUME NEW q \in Slot, NEW c \in children'[q],
             WaitsFor(q, c)', status'[c] = "Terminated"
      PROVE  \/ scan' = 0 /\ curProc' = q
             \/ status'[q] = "Ready" /\ scan' <= Round(q)' /\ Round(q)' < Round(c)'
  <2>1. c \in children[q] /\ WaitsFor(q, c)
    BY <1>3 DEF WaitsFor
  <2>2. c \in Slot /\ status[q] # "None"
    BY <2>1, PairFacts
  <2>3. status[c] = "Terminated" /\ c # curProc
    BY <1>3, <2>2
  <2>4. q # curProc
    BY <2>1, <2>3
  <2>5. status[q] = "Ready" /\ Round(q) < Round(c)
    BY <2>1, <2>3, <2>4 DEF WaitInv, ZombieInTurn
  <2>6. scan' = 1
    <3>1. procCount >= 2
      BY <1>1, <2>2, <2>4, TwoSlotsInUse
    <3> QED  BY <3>1 DEF EnterSchedule
  <2>7. Round(q) >= 1
    BY <1>1, RoundRange
  <2> QED  BY <1>2, <2>2, <2>4, <2>5, <2>6, <2>7
<1>4. ASSUME NEW q \in Slot
      PROVE  /\ status'[q] = "Terminated" /\ VMS'[q] # Nil
                  => at'[q] \notin {"wait4", "execve"}
             /\ at'[q] = "wait4" /\ arg'[q] = Any /\ VMS'[q] # Nil
                  => children'[q] # {}
             /\ status'[q] = "Sleeping" => VMS'[q] # Nil
  <2>1. /\ status[q] = "Terminated" /\ VMS[q] # Nil
             => at[q] \notin {"wait4", "execve"}
        /\ at[q] = "wait4" /\ arg[q] = Any /\ VMS[q] # Nil => children[q] # {}
        /\ status[q] = "Sleeping" => VMS[q] # Nil
    BY DEF WaitInv, WaitersLive
  <2>2. CASE q = curProc
    BY <1>1, <2>1, <2>2
  <2>3. CASE q # curProc
    BY <2>1, <2>3
  <2> QED  BY <2>2, <2>3
<1> QED  BY <1>3, <1>4 DEF WaitInv, ZombieInTurn, WaitersLive

(***************************************************************************)
(* A Ready slot takes over: what is left of the round keeps its order, and *)
(* the process that had the CPU has no zombie to wait for.                 *)
(***************************************************************************)
LEMMA WaitDispatch ==
  ASSUME IInv, FamilyInv, WaitInv, Dispatch
  PROVE  WaitInv'
<1>1. /\ Running /\ Scanning /\ TypeOK
      /\ Target \in Slot /\ Target # curProc /\ status[Target] = "Ready"
      /\ scan >= 1
  BY TargetInRange DEF IInv, Dispatch, Scanning, Running
<1>2. /\ UNCHANGED <<children, VMS, at, arg>>
      /\ curProc' = Target /\ scan' = 0
      /\ status' = [p \in Slot |-> IF p = Target THEN "Running"
                                   ELSE IF p = curProc /\ status[p] = "Running"
                                        THEN "Ready"
                                   ELSE status[p]]
  BY DEF Dispatch, StatusAfterRun, links, spaces, control
<1>3. ASSUME NEW q \in Slot, NEW c \in children'[q],
             WaitsFor(q, c)', status'[c] = "Terminated"
      PROVE  \/ scan' = 0 /\ curProc' = q
             \/ status'[q] = "Ready" /\ scan' <= Round(q)' /\ Round(q)' < Round(c)'
  <2>1. c \in children[q] /\ WaitsFor(q, c)
    BY <1>2, <1>3 DEF WaitsFor
  <2>2. c \in Slot
    BY <1>1, <2>1, PairFacts
  <2>3. status[c] = "Terminated"
    BY <1>2, <1>3, <2>2
  <2>4. status[q] = "Ready" /\ scan <= Round(q) /\ Round(q) < Round(c)
    <3>1. InTurn(q, c)
      BY <1>1, <2>1, <2>3, ZombieTurn
    <3> QED  BY <1>1, <3>1 DEF InTurn
  <2>5. CASE q = Target
    BY <1>2, <2>5
  <2>6. CASE q # Target
    <3>1. Round(q) \in Int /\ scan \in Int
      <4>1. Round(q) \in 1 .. MaxProcessCount
        BY <1>1, RoundRange
      <4>2. scan \in Int
        BY <1>1 DEF TypeOK
      <4> QED  BY <4>1, <4>2
    <3>2. Round(q) # scan
      BY <1>1, <2>6, RoundOfTarget
    <3>3. scan < Round(q)
      BY <2>4, <3>1, <3>2
    <3>4. Round(q)' >= 1 /\ Round(q)' < Round(c)'
      BY <1>1, <1>2, <2>2, <2>4, <3>3, RoundAfterDispatch
    <3>5. Round(q)' \in Int
      BY <1>1, <1>2 DEF Round
    <3>6. 0 <= Round(q)'
      BY <3>4, <3>5
    <3>7. status'[q] = "Ready"
      BY <1>2, <2>4, <2>6
    <3> QED  BY <1>2, <3>4, <3>6, <3>7
  <2> QED  BY <2>5, <2>6
<1>4. ASSUME NEW q \in Slot
      PROVE  /\ status'[q] = "Terminated" /\ VMS'[q] # Nil
                  => at'[q] \notin {"wait4", "execve"}
             /\ at'[q] = "wait4" /\ arg'[q] = Any /\ VMS'[q] # Nil
                  => children'[q] # {}
             /\ status'[q] = "Sleeping" => VMS'[q] # Nil
  <2>1. /\ status[q] = "Terminated" /\ VMS[q] # Nil
             => at[q] \notin {"wait4", "execve"}
        /\ at[q] = "wait4" /\ arg[q] = Any /\ VMS[q] # Nil => children[q] # {}
        /\ status[q] = "Sleeping" => VMS[q] # Nil
    BY <1>1 DEF WaitInv, WaitersLive
  <2>2. status'[q] \in {"Running", "Ready", status[q]}
    BY <1>2
  <2> QED  BY <1>2, <2>1, <2>2
<1> QED  BY <1>3, <1>4 DEF WaitInv, ZombieInTurn, WaitersLive

(***************************************************************************)
(* The loop of Schedule reaps a zombie.  Nobody waits for it: a father     *)
(* that does would be Ready and behind it in the round.                    *)
(***************************************************************************)
LEMMA NobodyWaits ==
  ASSUME IInv, WaitInv, Scanning, status[Target] = "Terminated",
         NEW q \in Slot, Target \in children[q]
  PROVE  ~WaitsFor(q, Target)
<1> SUFFICES ASSUME WaitsFor(q, Target) PROVE FALSE
  OBVIOUS
<1>1. TypeOK /\ Running /\ scan >= 1 /\ Target \in Slot
  BY TargetInRange DEF IInv, Scanning, Running
<1>2. Round(Target) = scan
  BY <1>1, RoundOfTarget
<1>3. scan <= Round(q) /\ Round(q) < Round(Target)
  <2>1. InTurn(q, Target)
    BY <1>1, ZombieTurn
  <2> QED  BY <1>1, <2>1 DEF InTurn
<1>4. Round(q) \in Int /\ Round(Target) \in Int /\ scan \in Int
  <2>1. scan \in Int
    BY <1>1 DEF TypeOK
  <2>2. \A s \in Slot : Round(s) \in 1 .. MaxProcessCount
    BY <1>1, RoundRange
  <2> QED  BY <1>1, <2>1, <2>2
<1> QED  BY <1>2, <1>3, <1>4

LEMMA WaitAutoReap ==
  ASSUME IInv, FamilyInv, WaitInv, AutoReap
  PROVE  WaitInv'
<1>1. /\ Running /\ Scanning /\ TypeOK /\ Target \in Slot
      /\ status[Target] = "Terminated" /\ Reap(Target)
      /\ scan' = scan + 1 /\ scan \in 1 .. MaxProcessCount - 1
      /\ UNCHANGED <<curProc, at, arg>>
  BY TargetInRange DEF IInv, AutoReap, AutoReapable, Scanning, Running, control
<1>2. scan # 0
  BY <1>1
<1>3. ASSUME NEW q \in Slot, Target \in children[q], at'[q] = "wait4"
      PROVE  arg'[q] # Any
  <2>1. ~WaitsFor(q, Target)
    BY <1>1, <1>3, NobodyWaits
  <2> QED  BY <1>1, <1>3, <2>1 DEF WaitsFor
<1>4. ASSUME NEW q \in Slot, status[q] = "Ready", scan <= Round(q)
      PROVE  scan' <= Round(q)
  <2>1. Round(q) # scan /\ Round(q) \in Int
    BY <1>1, <1>4, RoundOfTarget, RoundRange
  <2> QED  BY <1>1, <1>4, <2>1
<1> QED  BY <1>1, <1>2, <1>3, <1>4, WaitReap

(***************************************************************************)
(* Steps that change nothing a waiting process depends on.                 *)
(***************************************************************************)
LEMMA WaitFrame ==
  ASSUME TypeOK, WaitInv, Running,
         UNCHANGED <<status, children, VMS, curProc, at, arg>>,
         \A q \in Slot : \A c \in children[q] :
           WaitsFor(q, c) /\ status[c] = "Terminated" =>
             \/ scan' = 0 /\ curProc = q
             \/ status[q] = "Ready" /\ scan' <= Round(q) /\ Round(q) < Round(c)
  PROVE  WaitInv'
<1>1. \A q \in Slot : Round(q)' = Round(q)
  BY DEF Round
<1>2. ASSUME NEW q \in Slot, NEW c \in children'[q],
             WaitsFor(q, c)', status'[c] = "Terminated"
      PROVE  \/ scan' = 0 /\ curProc' = q
             \/ status'[q] = "Ready" /\ scan' <= Round(q)' /\ Round(q)' < Round(c)'
  <2>1. c \in children[q] /\ WaitsFor(q, c) /\ c \in Slot
    BY <1>2 DEF WaitsFor, TypeOK
  <2> QED  BY <1>1, <1>2, <2>1
<1>3. WaitersLive'
  BY DEF WaitInv, WaitersLive
<1> QED  BY <1>2, <1>3 DEF WaitInv, ZombieInTurn

-----------------------------------------------------------------------------
(***************************************************************************)
(* A father takes one of its own zombies: nobody else waits for it.        *)
(***************************************************************************)
LEMMA WaitTake ==
  ASSUME IInv, FamilyInv, WaitInv, NEW where, Executing(where), NEW who,
         \E c \in Zombies(curProc, who) : Reap(c),
         UNCHANGED <<curProc, scan>>,
         at'[curProc] \in {"user", "exit"},
         \A q \in Slot \ {curProc} : at'[q] = at[q] /\ arg'[q] = arg[q]
  PROVE  WaitInv'
<1>1. /\ Running /\ scan = 0 /\ curProc \in Slot
  BY OnCpu
<1>2. PICK c \in Zombies(curProc, who) : Reap(c)
  OBVIOUS
<1>3. c \in children[curProc]
  BY <1>2 DEF Zombies
<1>4. c \in Slot /\ father[c] = curProc
  BY <1>1, <1>3, PairFacts
<1>5. ASSUME NEW q \in Slot, c \in children[q], at'[q] = "wait4"
      PROVE  arg'[q] # Any
  <2>1. father[c] = q
    BY <1>1, <1>5, PairFacts
  <2> QED  BY <1>4, <1>5, <2>1
<1>6. \A q \in Slot : \/ at'[q] = at[q] /\ arg'[q] = arg[q]
                      \/ at'[q] \in {"user", "exit"}
  OBVIOUS
<1>7. \A q \in Slot : status[q] = "Ready" /\ scan <= Round(q) => scan' <= Round(q)
  OBVIOUS
<1> QED  BY <1>1, <1>2, <1>4, <1>5, <1>6, <1>7, WaitReap

(***************************************************************************)
(* Every action keeps the two invariants.                                  *)
(***************************************************************************)
LEMMA WaitStep == IInv /\ FamilyInv /\ WaitInv /\ [Next]_vars => WaitInv'
<1> SUFFICES ASSUME IInv, FamilyInv, WaitInv, [Next]_vars
             PROVE  WaitInv'
  OBVIOUS
<1>0. /\ TypeOK /\ curProc \in Slot
      /\ Running => VMS[curProc] # Nil
  BY DEF IInv, TypeOK, FamilyInv, CurrentHasSpace
<1>1. CASE CreationFault
  BY <1>1, WaitStop DEF CreationFault
<1>2. CASE ExecveNotElf
  BY <1>2, WaitStop DEF ExecveNotElf
<1>3. ASSUME NEW thread \in CloneStack, NEW sigchld \in BOOLEAN,
             Clone(thread, sigchld), ~CreationFault
      PROVE  WaitInv'
  <2> DEFINE fa == IF sigchld THEN curProc ELSE Nil
             space == IF thread THEN VMS[curProc] ELSE created + 1
             auto == autoDestroy[curProc]
  <2>1. Executing("user")
    BY <1>3 DEF Clone, InUser
  <2>2. Running /\ scan = 0 /\ status[curProc] = "Running"
    BY <2>1, OnCpu
  <2>3. PICK p \in Slot : /\ FirstFree(p) /\ NewProcess(p, fa, space, auto)
                          /\ at' = [at EXCEPT ![p] = "user"]
                          /\ arg' = [arg EXCEPT ![p] = Nil]
                          /\ UNCHANGED <<curProc, scan, fault>>
    BY <1>3 DEF Clone, cpuVars
  <2>4. space # Nil
    BY <1>0, <2>2 DEF TypeOK
  <2>5. at'[p] = "user" /\ \A q \in Slot \ {p} : at'[q] = at[q] /\ arg'[q] = arg[q]
    BY <1>0, <2>3 DEF TypeOK
  <2> HIDE DEF fa, space, auto
  <2> QED  BY <2>2, <2>3, <2>4, <2>5, WaitCreate
<1>4. ASSUME NEW auto \in ElfAutoDestroy, Execve(auto), ~CreationFault
      PROVE  WaitInv'
  <2>1. Executing("user")
    BY <1>4 DEF Execve, InUser
  <2>2. Running /\ scan = 0 /\ status[curProc] = "Running"
    BY <2>1, OnCpu
  <2>3. PICK p \in Slot : /\ FirstFree(p)
                          /\ NewProcess(p, curProc, created + 1, auto)
                          /\ at' = [at EXCEPT ![p] = "user", ![curProc] = "execve"]
                          /\ arg' = [arg EXCEPT ![p] = Nil, ![curProc] = p]
                          /\ UNCHANGED <<curProc, scan, fault>>
    BY <1>4 DEF Execve, cpuVars
  <2>4. created + 1 # Nil
    BY <1>0 DEF TypeOK
  <2>5. p # curProc
    BY <2>2, <2>3 DEF FirstFree, FreeSlots
  <2>6. /\ at'[p] = "user"
        /\ \A q \in Slot \ {p} : \/ at'[q] = at[q] /\ arg'[q] = arg[q]
                                 \/ q = curProc /\ at'[q] = "execve" /\ arg'[q] = p
    BY <1>0, <2>3, <2>5 DEF TypeOK
  <2> QED  BY <2>2, <2>3, <2>4, <2>6, WaitCreate
<1>5. ASSUME NEW auto \in ElfAutoDestroy, IdleStart(auto), ~CreationFault
      PROVE  WaitInv'
  <2>1. Executing("user")
    BY <1>5 DEF IdleStart
  <2>2. Running /\ scan = 0 /\ status[curProc] = "Running"
    BY <2>1, OnCpu
  <2>3. PICK p \in Slot : /\ FirstFree(p)
                          /\ NewProcess(p, Idle, created + 1, auto)
                          /\ at' = [at EXCEPT ![p] = "user"]
                          /\ arg' = [arg EXCEPT ![p] = Nil]
                          /\ UNCHANGED <<curProc, scan, fault>>
    BY <1>5 DEF IdleStart, cpuVars
  <2>4. created + 1 # Nil
    BY <1>0 DEF TypeOK
  <2>5. at'[p] = "user" /\ \A q \in Slot \ {p} : at'[q] = at[q] /\ arg'[q] = arg[q]
    BY <1>0, <2>3 DEF TypeOK
  <2> QED  BY <2>2, <2>3, <2>4, <2>5, WaitCreate
<1>6. ASSUME NEW who \in {Any} \cup (Slot \ {Idle}), Wait4NoHang(who)
      PROVE  WaitInv'
  <2>1. Executing("user")
    BY <1>6 DEF Wait4NoHang, InUser
  <2>2. at[curProc] = "user"
    BY <2>1, OnCpu
  <2>3. UNCHANGED <<curProc, scan, at, arg>>
    BY <1>6 DEF Wait4NoHang, cpuVars, control
  <2> QED  BY <1>6, <2>1, <2>2, <2>3, WaitTake DEF Wait4NoHang
<1>7. CASE Wait4Return
  <2>1. /\ UNCHANGED <<curProc, scan>> /\ at'[curProc] = "user"
        /\ \A q \in Slot \ {curProc} : at'[q] = at[q] /\ arg'[q] = arg[q]
    BY <1>0, <1>7 DEF Wait4Return, cpuVars, TypeOK
  <2> QED  BY <1>7, <2>1, WaitTake DEF Wait4Return
<1>8. CASE ExecveReturn
  <2>1. /\ UNCHANGED <<curProc, scan>> /\ at'[curProc] = "exit"
        /\ \A q \in Slot \ {curProc} : at'[q] = at[q] /\ arg'[q] = arg[q]
    BY <1>0, <1>8 DEF ExecveReturn, cpuVars, TypeOK
  <2> QED  BY <1>8, <2>1, WaitTake DEF ExecveReturn
<1>9. ASSUME NEW who \in {Any} \cup (Slot \ {Idle}), Wait4(who)
      PROVE  WaitInv'
  <2>1. Executing("user")
    BY <1>9 DEF Wait4, InUser
  <2>2. Running /\ scan = 0 /\ status[curProc] = "Running"
    BY <2>1, OnCpu
  <2>3. /\ UNCHANGED <<status, children, VMS, curProc, scan, fault>>
        /\ children[curProc] # {}
        /\ \A q \in Slot \ {curProc} : at'[q] = at[q] /\ arg'[q] = arg[q]
    BY <1>0, <1>9 DEF Wait4, links, spaces, cpuVars, TypeOK
  <2>4. \A q \in Slot : Round(q)' = Round(q)
    BY <2>3 DEF Round
  <2>5. ASSUME NEW q \in Slot, NEW c \in children'[q],
               WaitsFor(q, c)', status'[c] = "Terminated"
        PROVE  \/ scan' = 0 /\ curProc' = q
               \/ status'[q] = "Ready" /\ scan' <= Round(q)' /\ Round(q)' < Round(c)'
    <3>1. CASE q = curProc
      BY <2>2, <2>3, <3>1
    <3>2. CASE q # curProc
      <4>1. c \in children[q] /\ WaitsFor(q, c) /\ status[c] = "Terminated"
        BY <2>3, <2>5, <3>2 DEF WaitsFor
      <4>2. c \in Slot
        BY <1>0, <4>1 DEF TypeOK
      <4>3. status[q] = "Ready" /\ scan <= Round(q) /\ Round(q) < Round(c)
        BY <2>2, <3>2, <4>1 DEF WaitInv, ZombieInTurn
      <4> QED  BY <2>3, <2>4, <4>2, <4>3
    <3> QED  BY <3>1, <3>2
  <2>6. ASSUME NEW q \in Slot
        PROVE  /\ status'[q] = "Terminated" /\ VMS'[q] # Nil
                    => at'[q] \notin {"wait4", "execve"}
               /\ at'[q] = "wait4" /\ arg'[q] = Any /\ VMS'[q] # Nil
                    => children'[q] # {}
               /\ status'[q] = "Sleeping" => VMS'[q] # Nil
    <3>1. CASE q = curProc
      BY <2>2, <2>3, <3>1
    <3>2. CASE q # curProc
      BY <2>2, <2>3, <3>2 DEF WaitInv, WaitersLive
    <3> QED  BY <3>1, <3>2
  <2> QED  BY <2>5, <2>6 DEF WaitInv, ZombieInTurn, WaitersLive
<1>10. CASE ExitProcess
  BY <1>10, WaitExit
<1>11. CASE Block
  <2>1. PICK where \in {"wait4", "execve"} : Executing(where)
    BY <1>11 DEF Block
  <2>2. Running /\ scan = 0 /\ status[curProc] = "Running"
    BY <2>1, OnCpu
  <2>3. ASSUME NEW c \in children[curProc], WaitsFor(curProc, c)
        PROVE  status[c] # "Terminated"
    BY <1>11, <2>3 DEF Block, Zombies, WaitsFor
  <2>4. /\ EnterSchedule(procCount)
        /\ UNCHANGED <<children, VMS, curProc, at, arg, fault>>
    BY <1>11 DEF Block, links, spaces, control
  <2>5. /\ status'[curProc] \in {"Running", "Sleeping"}
        /\ \A q \in Slot \ {curProc} : status'[q] = status[q]
    BY <1>0, <1>11, <2>2 DEF Block, TypeOK
  <2> QED  BY <2>2, <2>3, <2>4, <2>5, WaitEnter
<1>12. CASE Preempt
  <2>1. Executing("user")
    BY <1>12 DEF Preempt
  <2>2. Running /\ scan = 0 /\ status[curProc] = "Running" /\ at[curProc] = "user"
    BY <2>1, OnCpu
  <2>3. \A c \in children[curProc] : ~WaitsFor(curProc, c)
    BY <2>2 DEF WaitsFor
  <2>4. /\ EnterSchedule(procCount)
        /\ UNCHANGED <<status, children, VMS, curProc, at, arg, fault>>
    BY <1>12 DEF Preempt, links, spaces, control
  <2> QED  BY <2>2, <2>3, <2>4, WaitEnter
<1>13. CASE Dispatch
  BY <1>13, WaitDispatch
<1>14. CASE AutoReap
  BY <1>14, WaitAutoReap
<1>15. CASE Skip
  <2>1. /\ Running /\ Scanning /\ scan' = scan + 1
        /\ scan \in 1 .. MaxProcessCount - 1 /\ status[Target] # "Ready"
        /\ UNCHANGED <<status, children, VMS, curProc, at, arg>>
    BY <1>15 DEF Skip, Scanning, Running, links, spaces, control
  <2>2. ASSUME NEW q \in Slot, NEW c \in children[q],
               WaitsFor(q, c), status[c] = "Terminated"
        PROVE  status[q] = "Ready" /\ scan' <= Round(q) /\ Round(q) < Round(c)
    <3>1. scan # 0
      BY <2>1
    <3>2. status[q] = "Ready" /\ scan <= Round(q) /\ Round(q) < Round(c)
      BY <2>1, <2>2, <3>1 DEF WaitInv, ZombieInTurn
    <3>3. Round(q) # scan /\ Round(q) \in Int
      BY <1>0, <2>1, <3>2, RoundOfTarget, RoundRange
    <3> QED  BY <2>1, <3>2, <3>3
  <2> QED  BY <1>0, <2>1, <2>2, WaitFrame
<1>16. CASE Fallback
  <2>1. /\ Running /\ scan = MaxProcessCount
        /\ UNCHANGED <<status, children, VMS, curProc, at, arg>>
    BY <1>16 DEF Fallback, Running, links, spaces, control
  <2>2. ASSUME NEW q \in Slot, NEW c \in children[q],
               WaitsFor(q, c), status[c] = "Terminated"
        PROVE  FALSE
    <3>1. c \in Slot /\ scan # 0
      BY <1>0, <2>1, <2>2 DEF TypeOK
    <3>2. MaxProcessCount <= Round(q) /\ Round(q) < Round(c)
      BY <2>1, <2>2, <3>1 DEF WaitInv, ZombieInTurn
    <3>3. Round(q) \in 1 .. MaxProcessCount /\ Round(c) \in 1 .. MaxProcessCount
      BY <1>0, <3>1, RoundRange
    <3> QED  BY <3>2, <3>3
  <2> QED  BY <1>0, <2>1, <2>2, WaitFrame
<1>17. CASE IdlePoll
  <2>1. Running /\ UNCHANGED <<status, children, VMS, curProc, scan, at, arg>>
    BY <1>17 DEF IdlePoll, Executing, Running, links, spaces, cpuVars
  <2> QED  BY <1>0, <2>1, WaitFrame DEF WaitInv, ZombieInTurn
<1>18. CASE UNCHANGED vars
  <2>1. UNCHANGED <<status, children, VMS, curProc, scan, at, arg, fault>>
    BY <1>18 DEF vars, links, spaces, cpuVars, control
  <2>2. CASE Running
    BY <1>0, <2>1, <2>2, WaitFrame DEF WaitInv, ZombieInTurn
  <2>3. CASE ~Running
    BY <2>1, <2>3, WaitStop DEF Running
  <2> QED  BY <2>2, <2>3
<1> QED
  BY <1>1, <1>2, <1>3, <1>4, <1>5, <1>6, <1>7, <1>8, <1>9, <1>10, <1>11, <1>12,
     <1>13, <1>14, <1>15, <1>16, <1>17, <1>18
     DEF Next, Syscall, KernelLoop, Schedule, IdleLoop, Halted

LEMMA WaitInvariance == Spec => [](IInv /\ FamilyInv /\ WaitInv)
BY Invariance, FamilyInit, FamilyStep, WaitInit, WaitStep, PTL DEF Spec

-----------------------------------------------------------------------------
(***************************************************************************)
(* wait4(-1) loses no wakeup: a caller that sleeps has a child, and none of*)
(* its children has terminated, in every behaviour and for any number of   *)
(* slots.                                                                  *)
(***************************************************************************)
THEOREM NoChildIsLost == Spec => []NoLostChild
<1>1. IInv /\ FamilyInv /\ WaitInv => NoLostChild
  <2> SUFFICES ASSUME IInv, FamilyInv, WaitInv, Running, NEW p \in Slot,
                      status[p] = "Sleeping", at[p] = "wait4", arg[p] = Any
               PROVE  /\ children[p] # {}
                      /\ \A c \in children[p] : status[c] # "Terminated"
    BY DEF NoLostChild
  <2>1. children[p] # {}
    BY DEF WaitInv, WaitersLive
  <2>2. ASSUME NEW c \in children[p], status[c] = "Terminated"
        PROVE  FALSE
    <3>1. WaitsFor(p, c)
      BY <2>2 DEF WaitsFor
    <3>2. scan = 0 /\ curProc = p
      BY <2>2, <3>1 DEF WaitInv, ZombieInTurn
    <3> QED  BY <3>2 DEF IInv, OneRunning
  <2> QED  BY <2>1, <2>2
<1> QED  BY <1>1, WaitInvariance, PTL

(***************************************************************************)
(* The scheduler, which reaps zombies on its way, never takes one from     *)
(* under a father that is in wait4 or execve for it: what ends such a      *)
(* zombie is a step of that father.                                        *)
(***************************************************************************)
THEOREM NoZombieIsStolen == Spec => NoStolenZombie
<1> DEFINE A == \A c \in Slot :
                  status[c] = "Terminated" /\ status'[c] = "None" =>
                    \A p \in Slot : WaitsFor(p, c) => scan = 0 /\ curProc = p
<1>1. IInv /\ FamilyInv /\ WaitInv /\ [Next]_vars => [A]_vars
  <2> SUFFICES ASSUME IInv, FamilyInv, WaitInv, Next,
                      NEW c \in Slot, status[c] = "Terminated", status'[c] = "None",
                      NEW p \in Slot, WaitsFor(p, c)
               PROVE  scan = 0 /\ curProc = p
    BY DEF A
  <2>0. TypeOK /\ c \in children[p]
    BY DEF IInv, WaitsFor
  <2>1. ASSUME NEW q \in Slot, Reap(q), Running PROVE q = c
    <3>1. CASE DestroyFault(q) # "none"
      BY <2>1, <3>1, ReapFails
    <3>2. CASE DestroyFault(q) = "none"
      <4>1. status' = [r \in Slot |-> IF r = q THEN "None"
                                      ELSE IF r \in Subtree(q)
                                           THEN StatusAfterExit(r)
                                      ELSE status[r]]
        BY <2>1, <3>2, ReapEffect
      <4> QED  BY <4>1 DEF StatusAfterExit
    <3> QED  BY <3>1, <3>2
  <2>2. ASSUME NEW where, Executing(where), NEW who,
               \E d \in Zombies(curProc, who) : Reap(d)
        PROVE  scan = 0 /\ curProc = p
    <3>1. Running /\ scan = 0 /\ curProc \in Slot
      BY <2>2, OnCpu
    <3>2. PICK d \in Zombies(curProc, who) : Reap(d)
      BY <2>2
    <3>3. d \in children[curProc] /\ d \in Slot
      BY <2>0, <3>1, <3>2 DEF Zombies, TypeOK
    <3>4. d = c
      BY <2>1, <3>1, <3>2, <3>3
    <3>5. father[c] = curProc /\ father[c] = p
      BY <2>0, <3>1, <3>3, <3>4, PairFacts
    <3> QED  BY <3>1, <3>5
  <2>3. ASSUME NEW who, Wait4NoHang(who) PROVE scan = 0 /\ curProc = p
    BY <2>2, <2>3 DEF Wait4NoHang, InUser
  <2>4. CASE Wait4Return
    BY <2>2, <2>4 DEF Wait4Return
  <2>5. CASE ExecveReturn
    BY <2>2, <2>5 DEF ExecveReturn
  <2>6. CASE AutoReap
    <3>1. /\ Running /\ Scanning /\ Target \in Slot
          /\ status[Target] = "Terminated" /\ Reap(Target)
      BY <2>0, <2>6, TargetInRange DEF AutoReap, AutoReapable, Scanning, Running
    <3>2. Target = c
      BY <2>1, <3>1
    <3> QED  BY <2>0, <3>1, <3>2, NobodyWaits
  <2>7. ~\E q \in Slot : status' = [status EXCEPT ![q] = "Ready"]
    BY <2>0 DEF TypeOK
  <2>8. ~CreationFault
    BY DEF CreationFault
  <2>9. ASSUME NEW thread, NEW sigchld, Clone(thread, sigchld) PROVE FALSE
    <3>1. PICK q \in Slot : status' = [status EXCEPT ![q] = "Ready"]
      BY <2>8, <2>9 DEF Clone, NewProcess
    <3> QED  BY <2>7, <3>1
  <2>10. ASSUME NEW auto, Execve(auto) \/ IdleStart(auto) PROVE FALSE
    <3>1. PICK q \in Slot : status' = [status EXCEPT ![q] = "Ready"]
      BY <2>8, <2>10 DEF Execve, IdleStart, NewProcess
    <3> QED  BY <2>7, <3>1
  <2>11. CASE ExitProcess
    BY <2>11 DEF ExitProcess, Exit, StatusAfterExit
  <2>12. CASE Block
    BY <2>0, <2>12 DEF Block, TypeOK
  <2>13. CASE Dispatch
    BY <2>13 DEF Dispatch, StatusAfterRun
  <2>14. CASE \/ \E who \in {Any} \cup (Slot \ {Idle}) : Wait4(who)
              \/ ExecveNotElf \/ Preempt \/ IdlePoll \/ Skip \/ Fallback \/ Halted
    BY <2>14 DEF Wait4, ExecveNotElf, Preempt, IdlePoll, Skip, Fallback, Halted, vars
  <2> QED
    BY <2>3, <2>4, <2>5, <2>6, <2>9, <2>10, <2>11, <2>12, <2>13, <2>14
       DEF Next, Syscall, KernelLoop, Schedule, IdleLoop
<1> QED  BY <1>1, WaitInvariance, PTL DEF Spec, NoStolenZombie, A
=============================================================================
