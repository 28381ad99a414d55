------------------------------ MODULE Semaphore ------------------------------
(***************************************************************************)
(* The counting semaphore of the kernel, with its queue of processes.      *)
(*                                                                         *)
(* Source: src/Kernel/Synchronize/Synchronize.cpp.                         *)
(* wait marks the caller Sleeping and returns: it is the caller that then  *)
(* looks at the value and reschedules itself.  Both operations run with    *)
(* interrupts off.                                                         *)
(***************************************************************************)
EXTENDS Integers, Sequences, SequencesExt

VARIABLES
  value,      \* Semaphore::value, below 0 when processes wait
  queue,      \* Semaphore::queue, the first to be woken at the head
  SemRef,     \* Process::SemRef: the waits of a process not yet answered
  asleep      \* the processes in S_Sleeping

(***************************************************************************)
(* Semaphore::wait: the process is queued once, however often it waits.    *)
(***************************************************************************)
Blocks == value - 1 < 0
Queued(p) == IF p \in ToSet(queue) THEN queue ELSE Append(queue, p)

Wait(p) ==
  /\ value' = value - 1
  /\ IF Blocks
     THEN /\ queue' = Queued(p)
          /\ SemRef' = [SemRef EXCEPT ![p] = @ + 1]
          /\ asleep' = asleep \cup {p}
     ELSE UNCHANGED <<queue, SemRef, asleep>>

(***************************************************************************)
(* Semaphore::signal: only the signal that brings the value back to 0      *)
(* looks at the queue, and it wakes the process at its head, if this was   *)
(* the last wait of that process.  On an empty queue getFront stops the    *)
(* kernel: no step.                                                        *)
(***************************************************************************)
BugWakesAt(v) == v = 1

WakesAt(v) == v = 0

Wake(p) ==
  /\ SemRef' = [SemRef EXCEPT ![p] = @ - 1]
  /\ IF SemRef[p] = 1
     THEN queue' = Tail(queue) /\ asleep' = asleep \ {p}
     ELSE UNCHANGED <<queue, asleep>>

Signal ==
  /\ value' = value + 1
  /\ IF WakesAt(value + 1)
     THEN queue # <<>> /\ Wake(Head(queue))
     ELSE UNCHANGED <<queue, SemRef, asleep>>
=============================================================================
