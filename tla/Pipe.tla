-------------------------------- MODULE Pipe --------------------------------
(***************************************************************************)
(* One pipe and the processes that share it: its ring buffer with the      *)
(* semaphores full and empty, the write descriptors that keep it open, and *)
(* the marker that ends it.                                                *)
(*                                                                         *)
(* Source: src/Kernel/File/FileEx.cpp (PIPEFILE), the pipe part of         *)
(* src/Kernel/File/FileObject.cpp (close_fo, duplicate_fo), pipe2, dup,    *)
(* dup3 and close in src/Kernel/Trap/Syscall/Syscall.cpp, and copyFds and  *)
(* destroy in src/Kernel/Process/Process.cpp.                              *)
(*                                                                         *)
(* Grain.  A system call runs alone until it reschedules, which it does    *)
(* after a wait that left a semaphore below 0.  A step is one semaphore    *)
(* operation with what the code does up to the next one; "cpu" keeps       *)
(* others out in between.  The semaphore "file" is taken and given back    *)
(* between two reschedules, so it is free whenever it is asked for, and is *)
(* left out.                                                               *)
(***************************************************************************)
EXTENDS Integers, Sequences, FiniteSets, SequencesExt

CONSTANTS
  Proc,         \* processes: idle0, the one that makes the pipe, children
  Maker,        \* the process that calls pipe2, and clones the others
  Child,        \* the processes it clones
  Readers,      \* the processes that call read
  Writers,      \* the processes that call write
  ReadSizes,
  WriteSizes,
  FILESIZE,     \* size of the ring
  RefWidth,     \* writeRef is counted modulo this, 2^32 in the code
  MaxBytes,     \* bound: bytes written in one behaviour
  MaxEnds       \* bound: write descriptors of one process

ASSUME ProcAssumption == /\ IsFiniteSet(Proc) /\ Maker \in Proc
                         /\ Child \subseteq Proc \ {Maker}
                         /\ Readers \subseteq Proc
                         /\ Writers \subseteq Proc
ASSUME SizeAssumption == /\ ReadSizes \subseteq Nat
                         /\ WriteSizes \subseteq Nat
ASSUME BoundAssumption == /\ FILESIZE \in Nat \ {0, 1}
                          /\ MaxBytes \in Nat
                          /\ MaxEnds \in Nat \ {0}
ASSUME WidthAssumption == RefWidth \in Nat /\ RefWidth > Cardinality(Proc) * MaxEnds

(***************************************************************************)
(* A byte is the number of its write; the marker is the byte 4 in the      *)
(* code, which no program is taken to write.                               *)
(***************************************************************************)
Eof == 0
Byte == 1 .. MaxBytes
Index == 0 .. FILESIZE - 1

VARIABLES
  full, fullQ,      \* the semaphore that counts what can be read
  empty, emptyQ,    \* the semaphore that counts what can be written
  SemRef, asleep,   \* of the processes, see Semaphore
  data, in, out,    \* the ring
  PipeSize, flag,   \* size of the last write, and that there was one
  writeRef,         \* PIPEFILE::writeRef
  ends,             \* the write descriptors of each process
  life,             \* unborn, live, zombie or gone
  cpu,              \* curProc
  calls,            \* the calls each process is in, the innermost first
  broken,           \* the kernel has stopped or runs on a lost context; what
                    \* it does then is open
  sent,             \* bytes written so far
  got,              \* the bytes that reads have returned
  lost,             \* the bytes taken by reads that did not return them
  ended             \* a read has met the marker

semaphores == <<full, fullQ, empty, emptyQ, SemRef, asleep>>
ring       == <<data, in, out, PipeSize, flag>>
owners     == <<writeRef, ends, life>>
traffic    == <<sent, got, lost, ended>>
vars == <<semaphores, ring, owners, cpu, calls, broken, traffic>>

Full  == INSTANCE Semaphore WITH value <- full,  queue <- fullQ
Empty == INSTANCE Semaphore WITH value <- empty, queue <- emptyQ

(***************************************************************************)
(* A call in the kernel: what it does; whether it is at the head of its    *)
(* loop, in the reschedule behind a wait, or past it; its index and size;  *)
(* the bytes it read; for a marker, whose descriptor is closed, and        *)
(* whether by a system call or in Schedule, where a reschedule (nested)    *)
(* overwrites the context that Schedule was to save.                       *)
(***************************************************************************)
Call == [op : {"read", "write", "mark"}, at : {"head", "slept", "waited"},
         i : Nat, size : Nat, buf : Seq(Byte),
         of : Proc, by : {"syscall", "Schedule", "nested"}]

NewCall(op, size, of, by) ==
  [op |-> op, at |-> "head", i |-> 0, size |-> size, buf |-> <<>>,
   of |-> of, by |-> by]

TypeOK ==
  /\ full \in Int /\ empty \in Int
  /\ fullQ \in Seq(Proc) /\ emptyQ \in Seq(Proc)
  /\ SemRef \in [Proc -> 0 .. 1]
  /\ asleep = {p \in Proc : SemRef[p] = 1}
  /\ data \in [Index -> Byte \cup {Eof}]
  /\ in \in Index /\ out \in Index
  /\ PipeSize \in Nat /\ flag \in BOOLEAN
  /\ writeRef \in Nat
  /\ ends \in [Proc -> 0 .. MaxEnds]
  /\ life \in [Proc -> {"unborn", "live", "zombie", "gone"}]
  /\ cpu \in Proc
  /\ calls \in [Proc -> Seq(Call)]
  /\ broken \in BOOLEAN
  /\ sent \in 0 .. MaxBytes
  /\ got \in Seq(Byte) /\ lost \in Seq(Byte)
  /\ ended \in BOOLEAN

(***************************************************************************)
(* After pipe2: the maker has both descriptors.                            *)
(***************************************************************************)
Init ==
  /\ full = 0 /\ fullQ = <<>>
  /\ empty = FILESIZE - 1 /\ emptyQ = <<>>
  /\ SemRef = [p \in Proc |-> 0] /\ asleep = {}
  /\ data = [i \in Index |-> Eof] /\ in = 0 /\ out = 0
  /\ PipeSize = 0 /\ flag = FALSE
  /\ writeRef = 1
  /\ ends = [p \in Proc |-> IF p = Maker THEN 1 ELSE 0]
  /\ life = [p \in Proc |-> IF p \in Child THEN "unborn" ELSE "live"]
  /\ cpu = Maker
  /\ calls = [p \in Proc |-> <<>>]
  /\ broken = FALSE
  /\ sent = 0 /\ got = <<>> /\ lost = <<>> /\ ended = FALSE

-----------------------------------------------------------------------------
(***************************************************************************)
(* Where the process on the CPU is: in user code, or in the kernel, in its *)
(* innermost call.                                                         *)
(***************************************************************************)
InUser(p) == ~broken /\ cpu = p /\ life[p] = "live" /\ calls[p] = <<>>
Call0(p) == Head(calls[p])
Doing(p, ops, at) ==
  /\ ~broken /\ cpu = p /\ calls[p] # <<>>
  /\ Call0(p).op \in ops /\ Call0(p).at = at

Enter(p, call) == calls' = [calls EXCEPT ![p] = <<call>> \o @]
Go(p, call)    == calls' = [calls EXCEPT ![p] = <<call>> \o Tail(@)]
Leave(p)       == calls' = [calls EXCEPT ![p] = Tail(@)]
AfterWait(value) == IF value < 0 THEN "slept" ELSE "waited"

\* the sum of f over the processes, f[p] being in 0 .. bound
Total(f, bound) == Cardinality({e \in Proc \X (1 .. bound) : e[2] <= f[e[1]]})

BugNoWrap(i) == i + 1

Following(i) == (i + 1) % FILESIZE

-----------------------------------------------------------------------------
(***************************************************************************)
(* PIPEFILE::read.  At the head of the loop: the read ends when it has all *)
(* it asked for, or as many bytes as the last write had; else it waits on  *)
(* full.                                                                   *)
(***************************************************************************)
ReadDone(f) == f.i = f.size \/ (f.i = PipeSize /\ flag)

ReadReturns(p) ==
  /\ Doing(p, {"read"}, "head")
  /\ ReadDone(Call0(p))
  /\ got' = got \o Call0(p).buf
  /\ Leave(p)
  /\ UNCHANGED <<semaphores, ring, owners, cpu, broken, sent, lost, ended>>

ReadWaits(p) ==
  /\ Doing(p, {"read"}, "head")
  /\ ~ReadDone(Call0(p))
  /\ Full!Wait(p)
  /\ Go(p, [Call0(p) EXCEPT !.at = AfterWait(full')])
  /\ UNCHANGED <<empty, emptyQ, ring, owners, cpu, broken, traffic>>

(***************************************************************************)
(* Behind the wait it takes one byte, without looking at full again.       *)
(***************************************************************************)
BugOutStays == out

OutAfterRead == Following(out)

ReadTakes(p) ==
  LET f == Call0(p) IN
  /\ Doing(p, {"read"}, "waited")
  /\ data[out] # Eof
  /\ out' = OutAfterRead
  /\ Empty!Signal
  /\ Go(p, [f EXCEPT !.at = "head", !.i = @ + 1, !.buf = Append(@, data[out])])
  /\ UNCHANGED <<full, fullQ, data, in, PipeSize, flag, owners, cpu, broken, traffic>>

(***************************************************************************)
(* The marker ends the read with 0, whatever it has read before; it stays  *)
(* where it is.                                                            *)
(***************************************************************************)
ReadEnds(p) ==
  /\ Doing(p, {"read"}, "waited")
  /\ data[out] = Eof
  /\ Empty!Signal
  /\ lost' = lost \o Call0(p).buf
  /\ ended' = TRUE
  /\ Leave(p)
  /\ UNCHANGED <<full, fullQ, ring, owners, cpu, broken, sent, got>>

-----------------------------------------------------------------------------
(***************************************************************************)
(* PIPEFILE::write, called by write and, for the marker, by close_fo.      *)
(***************************************************************************)
WriteDone(p, ops) == Doing(p, ops, "head") /\ Call0(p).i = Call0(p).size

WriteReturns(p) ==
  /\ WriteDone(p, {"write"})
  /\ PipeSize' = Call0(p).size
  /\ flag' = TRUE
  /\ Leave(p)
  /\ UNCHANGED <<semaphores, data, in, out, owners, cpu, broken, traffic>>

(***************************************************************************)
(* Behind the marker, close_fo takes the descriptor off its list, and      *)
(* destroy frees a zombie.  If the zombie is gone, there is no list        *)
(* (fo_head is nullptr), and the kernel stops.                             *)
(***************************************************************************)
MarkReturns(p) ==
  LET z == Call0(p).of IN
  /\ WriteDone(p, {"mark"})
  /\ PipeSize' = 1
  /\ flag' = TRUE
  /\ broken' = (Call0(p).by = "nested" \/ life[z] = "gone")
  /\ IF life[z] = "gone"
     THEN UNCHANGED <<calls, ends, life>>
     ELSE /\ Leave(p)
          /\ ends' = [ends EXCEPT ![z] = @ - 1]
          /\ life' = [life EXCEPT ![z] = IF @ = "zombie" THEN "gone" ELSE @]
  /\ UNCHANGED <<semaphores, data, in, out, writeRef, cpu, traffic>>

BugNoWait(p) == UNCHANGED <<empty, emptyQ, SemRef, asleep>>

WaitForRoom(p) == Empty!Wait(p)

(***************************************************************************)
(* A process that reaps in the Schedule of its own exit and has to sleep   *)
(* there is Sleeping, then Ready, and no longer Terminated.                *)
(***************************************************************************)
Nested(by) == IF by = "Schedule" THEN "nested" ELSE by

WriteWaits(p) ==
  /\ Doing(p, {"write", "mark"}, "head")
  /\ Call0(p).i < Call0(p).size
  /\ WaitForRoom(p)
  /\ IF empty' < 0
     THEN /\ Go(p, [Call0(p) EXCEPT !.at = "slept", !.by = Nested(@)])
          /\ life' = [life EXCEPT ![p] = "live"]
     ELSE /\ Go(p, [Call0(p) EXCEPT !.at = "waited"])
          /\ UNCHANGED life
  /\ UNCHANGED <<full, fullQ, ring, writeRef, ends, cpu, broken, traffic>>

WritePuts(p) ==
  LET f == Call0(p)
      byte == IF f.op = "mark" THEN Eof ELSE sent + 1
  IN
  /\ Doing(p, {"write", "mark"}, "waited")
  /\ data' = [data EXCEPT ![in] = byte]
  /\ in' = Following(in)
  /\ Full!Signal
  /\ sent' = IF f.op = "mark" THEN sent ELSE sent + 1
  /\ Go(p, [f EXCEPT !.at = "head", !.i = @ + 1])
  /\ UNCHANGED <<empty, emptyQ, out, PipeSize, flag, owners, cpu, broken, got, lost, ended>>

-----------------------------------------------------------------------------
(***************************************************************************)
(* The programs.  Everybody keeps a read descriptor; closing one does not  *)
(* touch the pipe (canRead is never true, and vfsm.close leaves pipes      *)
(* alone).  A process writes through a write descriptor it has.            *)
(***************************************************************************)
Read(p, size) ==
  /\ InUser(p) /\ p \in Readers
  /\ Enter(p, NewCall("read", size, p, "syscall"))
  /\ UNCHANGED <<semaphores, ring, owners, cpu, broken, traffic>>

\* the bytes that writes under way will add come under the bound, too
Promised ==
  [p \in Proc |-> IF calls[p] # <<>> /\ Last(calls[p]).op = "write"
                  THEN Last(calls[p]).size - Last(calls[p]).i ELSE 0]

Write(p, size) ==
  /\ InUser(p) /\ p \in Writers
  /\ ends[p] > 0
  /\ sent + size + Total(Promised, MaxBytes) <= MaxBytes
  /\ Enter(p, NewCall("write", size, p, "syscall"))
  /\ UNCHANGED <<semaphores, ring, owners, cpu, broken, traffic>>

(***************************************************************************)
(* duplicate_fo, called by dup and, for each descriptor, by copyFds when a *)
(* process is cloned.                                                      *)
(***************************************************************************)
BugNotCounted(n) == writeRef

WriteRefAfterDup(n) == writeRef + n

Dup(p) ==
  /\ InUser(p)
  /\ ends[p] \in 1 .. MaxEnds - 1
  /\ writeRef' = WriteRefAfterDup(1)
  /\ ends' = [ends EXCEPT ![p] = @ + 1]
  /\ UNCHANGED <<semaphores, ring, life, cpu, calls, broken, traffic>>

Clone(p, c) ==
  /\ InUser(p) /\ p = Maker
  /\ life[c] = "unborn"
  /\ life' = [life EXCEPT ![c] = "live"]
  /\ writeRef' = WriteRefAfterDup(ends[p])
  /\ ends' = [ends EXCEPT ![c] = ends[p]]
  /\ UNCHANGED <<semaphores, ring, cpu, calls, broken, traffic>>

BugTestedFirst(n) == writeRef = 0
LastEnds(n) == writeRef = n

(***************************************************************************)
(* close_fo on n write descriptors of z in a row.  The one that takes      *)
(* writeRef to 0 first writes the marker, as a call of the process on the  *)
(* CPU, and is on the list until that returns.                             *)
(***************************************************************************)
Less(m, n) == IF m >= n THEN m - n ELSE m - n + RefWidth

CloseEnds(z, n, by) ==
  /\ writeRef' = Less(writeRef, n)
  /\ IF n > 0 /\ LastEnds(n)
     THEN /\ Enter(cpu, NewCall("mark", 1, z, by))
          /\ ends' = [ends EXCEPT ![z] = @ - n + 1]
     ELSE /\ UNCHANGED calls
          /\ ends' = [ends EXCEPT ![z] = @ - n]

Close(p) ==
  /\ InUser(p)
  /\ ends[p] > 0
  /\ CloseEnds(p, 1, "syscall")
  /\ UNCHANGED <<semaphores, ring, life, cpu, broken, traffic>>

(***************************************************************************)
(* exit closes nothing: the descriptors of a process go with destroy, when *)
(* its father or the scheduler reaps it.  The maker stays; a process with  *)
(* living children would take them along (see ProcessManager).             *)
(***************************************************************************)
Exit(p) ==
  /\ InUser(p) /\ p \in Child
  /\ life' = [life EXCEPT ![p] = "zombie"]
  /\ UNCHANGED <<semaphores, ring, writeRef, ends, cpu, calls, broken, traffic>>

(***************************************************************************)
(* Where the kernel schedules: on a trap from user code, behind a wait     *)
(* that put the process to sleep, and after exit.                          *)
(***************************************************************************)
AtSchedule == ~broken /\ (calls[cpu] # <<>> => Call0(cpu).at = "slept")

\* the marker of a descriptor of z is being written
Closing(z) ==
  \E p \in Proc : \E k \in DOMAIN calls[p] :
    calls[p][k].op = "mark" /\ calls[p][k].of = z

(***************************************************************************)
(* destroy and freeProc: z is Terminated until its files are closed, also  *)
(* while the write of the marker sleeps, and Schedule may find it again.   *)
(* Its father does not, for destroy begins by taking z off its list.       *)
(***************************************************************************)
Destroy(z, by) ==
  /\ life[z] = "zombie"
  /\ CloseEnds(z, ends[z], by)
  /\ life' = IF ends'[z] = 0 THEN [life EXCEPT ![z] = "gone"] ELSE life
  /\ UNCHANGED <<semaphores, ring, cpu, broken, traffic>>

\* by Schedule, which looks at all processes but its own
Reap(z) == AtSchedule /\ z # cpu /\ Destroy(z, "Schedule")

\* by the father, in wait4
Wait4(p, z) == InUser(p) /\ p = Maker /\ ~Closing(z) /\ Destroy(z, "syscall")

Resumed(p) ==
  IF calls[p] = <<>> THEN calls
  ELSE [calls EXCEPT ![p] = <<[Call0(p) EXCEPT !.at = "waited"]>> \o Tail(@)]

Switch(p) ==
  /\ AtSchedule
  /\ p = cpu => calls[p] # <<>>
  /\ p \notin asleep /\ life[p] = "live"
  /\ cpu' = p
  /\ calls' = Resumed(p)
  /\ UNCHANGED <<semaphores, ring, owners, broken, traffic>>

-----------------------------------------------------------------------------
Kernel(p) ==
  \/ ReadReturns(p) \/ ReadWaits(p) \/ ReadTakes(p) \/ ReadEnds(p)
  \/ WriteReturns(p) \/ WriteWaits(p) \/ WritePuts(p) \/ MarkReturns(p)

Program(p) ==
  \/ \E size \in ReadSizes : Read(p, size)
  \/ \E size \in WriteSizes : Write(p, size)
  \/ \E c \in Child : Clone(p, c) \/ Wait4(p, c)
  \/ Dup(p) \/ Close(p) \/ Exit(p)

Next == \E p \in Proc : Kernel(p) \/ Program(p) \/ Reap(p) \/ Switch(p)

Spec == Init /\ [][Next]_vars

(***************************************************************************)
(* The kernel runs on to its next reschedule, and the scheduler's rounds   *)
(* pass over every process: a Ready one gets its turn, a zombie is reaped. *)
(***************************************************************************)
Fairness ==
  /\ WF_vars(\E p \in Proc : Kernel(p))
  /\ \A p \in Proc : SF_vars(Switch(p))
  /\ SF_vars(\E p \in Proc : Reap(p))

FairSpec == Spec /\ Fairness

-----------------------------------------------------------------------------
(***************************************************************************)
(* What is in the ring, and which calls are past a wait for a byte of it   *)
(* or for room in it.                                                      *)
(***************************************************************************)
InRing == [k \in 1 .. (in - out) % FILESIZE |-> data[(out + k - 1) % FILESIZE]]

In(p, ops, where) ==
  \E k \in DOMAIN calls[p] : calls[p][k].op \in ops /\ calls[p][k].at \in where
Takers   == {p \in Proc : In(p, {"read"}, {"slept", "waited"})}
Putters  == {p \in Proc : In(p, {"write", "mark"}, {"slept", "waited"})}
Sleepers(ops) == {p \in asleep : In(p, ops, {"slept"})}
Spent   == IF ended THEN 1 ELSE 0   \* the marker stays in the ring when read

(***************************************************************************)
(* The two semaphores count the ring between them through every            *)
(* interleaving: full what is there and not claimed, empty the room that   *)
(* is not claimed; and a negative value has somebody queued to wake.       *)
(***************************************************************************)
CreditsMatch ==
  /\ full + Cardinality(Takers) = Len(InRing) - Spent
  /\ empty + Cardinality(Putters) = FILESIZE - 1 - Len(InRing) + Spent
  /\ full < 0 => fullQ # <<>>
  /\ empty < 0 => emptyQ # <<>>

(***************************************************************************)
(* No lost wakeup: nobody sleeps for a byte while one is in the ring that  *)
(* is nobody's, nor for room while there is some.                          *)
(***************************************************************************)
SleepIsNeeded ==
  /\ LET waiting == Sleepers({"read"}) IN
     waiting # {} => Len(InRing) - Spent <= Cardinality(Takers \ waiting)
  /\ LET waiting == Sleepers({"write", "mark"}) IN
     waiting # {} => FILESIZE - 1 - Len(InRing) <= Cardinality(Putters \ waiting)

(***************************************************************************)
(* The bytes written are, in their order, those that reads have returned,  *)
(* those a read had in its buffer when it met the marker, which it drops,  *)
(* those of the read that goes on, and those in the ring; with one reader. *)
(***************************************************************************)
InRead(p) == IF calls[p] # <<>> THEN Last(calls[p]).buf ELSE <<>>
DataInRing ==
  IF InRing # <<>> /\ Last(InRing) = Eof THEN Front(InRing) ELSE InRing

BytesConserved ==
  \A r \in Readers :
    got \o lost \o InRead(r) \o DataInRing = [n \in 1 .. sent |-> n]

(***************************************************************************)
(* writeRef, which decides when the pipe ends, is the number of write      *)
(* descriptors, zombies' included, but not those being closed; until a     *)
(* zombie is destroyed again while the write of its marker sleeps, which   *)
(* counts below 0.                                                         *)
(***************************************************************************)
OpenEnds == [z \in Proc |-> IF Closing(z) THEN ends[z] - 1 ELSE ends[z]]
ClosedTwice == \E z \in Proc : Closing(z) /\ life[z] = "gone"

WriteRefCounts ==
  writeRef = IF ClosedTwice THEN RefWidth - 1 ELSE Total(OpenEnds, MaxEnds)

(***************************************************************************)
(* The ring with its semaphores, descriptors and marker is a bounded queue *)
(* of bytes that nobody writes behind its end.                             *)
(***************************************************************************)
Queue == INSTANCE ByteQueue WITH bytes <- InRing, Capacity <- FILESIZE - 1
ImplementsByteQueue == Queue!Spec

(***************************************************************************)
(* A reader is not left behind: when no living process has a write         *)
(* descriptor any more, the read that goes on returns, unless the kernel   *)
(* breaks first.  (A read that comes after one that met the marker sleeps  *)
(* for ever.)                                                              *)
(***************************************************************************)
Reading(r) == calls[r] # <<>> /\ Last(calls[r]).op = "read"
NoWriterLeft == \A p \in Proc : life[p] = "live" => OpenEnds[p] <= 0

ReadersAreReleased ==
  \A r \in Readers : (Reading(r) /\ NoWriterLeft /\ ~ended) ~> (~Reading(r) \/ broken)
=============================================================================
