----------------------------- MODULE Pipe_proofs -----------------------------
(***************************************************************************)
(* Proofs about Pipe, for every size of the ring, every number of          *)
(* processes and writers, and one reader: the semaphores count the ring    *)
(* through every interleaving, writeRef counts the write descriptors until *)
(* a zombie is destroyed twice, and nobody sleeps in vain.                 *)
(***************************************************************************)
EXTENDS Pipe, FiniteSetTheorems, SequenceTheorems, TLAPS

(***************************************************************************)
(* What the theorems assume of the programs: one process reads.  With two, *)
(* a byte may wake nobody (see SleepIsNeeded).                             *)
(***************************************************************************)
OneReader == \A p \in Readers, q \in Readers : p = q

(***************************************************************************)
(* The ring: how much is in it, its k-th byte from out on, and whether the *)
(* marker is in it.                                                        *)
(***************************************************************************)
Size    == (in - out) % FILESIZE
Cell(k) == data[(out + k - 1) % FILESIZE]
Marked  == \E k \in 1 .. Size : Cell(k) = Eof

(***************************************************************************)
(* The calls a process is in: none; one; or, in a process that fell asleep *)
(* in a read and reaps the last writer on its way through Schedule, the    *)
(* write of the marker on top of the read.                                 *)
(***************************************************************************)
CallOK(c) ==
  /\ c.op # "read" => c.i <= c.size /\ c.buf = <<>>
  /\ c.op # "read" /\ c.at # "head" => c.i < c.size
  /\ c.op = "mark" => c.size = 1

StackOK(s) ==
  /\ Len(s) <= 2
  /\ \A k \in 1 .. Len(s) : CallOK(s[k])
  /\ Len(s) = 2 => /\ s[1].op = "mark" /\ s[1].at # "slept"
                   /\ s[2].op = "read" /\ s[2].at = "slept"

Outer(p) == calls[p][Len(calls[p])]

(***************************************************************************)
(* Only the process on the CPU is in a call and not in the reschedule      *)
(* behind a wait, and a zombie on the CPU only in the write of a marker    *)
(* that did not have to sleep; who writes has a write descriptor and keeps *)
(* it.                                                                     *)
(***************************************************************************)
Shape(p) ==
  /\ StackOK(calls[p])
  /\ p = cpu => life[p] \in {"live", "zombie"}
  /\ Len(calls[p]) > 0 =>
       /\ life[p] = "live" \/ (p = cpu /\ Outer(p).op = "mark" /\ Outer(p).at # "slept")
       /\ p # cpu => Len(calls[p]) = 1 /\ calls[p][1].at = "slept"
       /\ Outer(p).op = "read" => p \in Readers
       /\ Outer(p).op = "write" => p \in Writers /\ ends[p] > 0
  /\ life[p] \in {"unborn", "gone"} => ends[p] = 0

ShapeInv == \A p \in Proc : Shape(p)

BoundInv ==
  /\ \A p \in Proc : Promised[p] \in 0 .. MaxBytes
  /\ sent + Total(Promised, MaxBytes) <= MaxBytes

(***************************************************************************)
(* The end of the pipe: one process writes the marker, once, when nobody   *)
(* has a write descriptor any more but z, whose last one is being closed:  *)
(* by z itself, or by the one that destroys the zombie z, or destroyed it  *)
(* twice.  Nobody writes behind the marker.                                *)
(***************************************************************************)
Marking(p) == Len(calls[p]) > 0 /\ calls[p][1].op = "mark"

MarkOK(p, z) ==
  /\ z \in Proc
  /\ \A q \in Proc \ {z} : ends[q] = 0
  /\ \/ z = p /\ life[z] = "live" /\ ends[z] = 1 /\ writeRef = 0
     \/ /\ z # p /\ z # cpu
        /\ \/ life[z] = "zombie" /\ ends[z] = 1 /\ writeRef = 0
           \/ life[z] = "gone" /\ ends[z] = 0 /\ writeRef = RefWidth - 1

RefInv ==
  /\ (\A p \in Proc : ~Marking(p)) =>
       /\ writeRef = Total(ends, MaxEnds)
       /\ Marked => \A q \in Proc : ends[q] = 0
  /\ \A p \in Proc : Marking(p) => MarkOK(p, calls[p][1].of)

EndInv ==
  /\ \A p, q \in Proc : Marking(p) /\ Marking(q) => p = q
  /\ \A p \in Proc : Marking(p) => (calls[p][1].i = 0 <=> ~Marked)
  /\ \A k \in 1 .. Size : Cell(k) = Eof => k = Size
  /\ ended => Marked /\ Size = 1

(***************************************************************************)
(* The queues hold the processes that sleep, each in the queue of what it  *)
(* waits for; a reader that has just gone to sleep finds nothing to read,  *)
(* unless it has put the marker itself.                                    *)
(***************************************************************************)
FullSleepers  == Sleepers({"read"})
EmptySleepers == Sleepers({"write", "mark"})

QueueInv ==
  /\ ToSet(fullQ) = FullSleepers /\ ToSet(emptyQ) = EmptySleepers
  /\ asleep = FullSleepers \cup EmptySleepers
  /\ Len(fullQ) <= 1 /\ (full < 0 <=> fullQ # <<>>)
  /\ IsInjective(emptyQ) /\ Len(emptyQ) = Cardinality(EmptySleepers)
  /\ empty + Len(emptyQ) >= 0
  /\ Len(calls[cpu]) > 0 /\ Outer(cpu).op = "read" /\ Outer(cpu).at = "slept"
       /\ ~Marked => full < 0

(***************************************************************************)
(* The two semaphores count the ring.                                      *)
(***************************************************************************)
CreditInv ==
  /\ full + Cardinality(Takers) = Size - Spent
  /\ empty + Cardinality(Putters) = FILESIZE - 1 - Size + Spent

PipeInv ==
  /\ TypeOK /\ ShapeInv /\ RefInv /\ BoundInv /\ EndInv /\ QueueInv /\ CreditInv

-----------------------------------------------------------------------------
(***************************************************************************)
(* Arithmetic of the ring.                                                 *)
(***************************************************************************)
LEMMA Remainder ==
  ASSUME NEW a \in Int
  PROVE  /\ a \in 0 .. FILESIZE - 1 => a % FILESIZE = a
         /\ a \in FILESIZE .. 2 * FILESIZE - 1 => a % FILESIZE = a - FILESIZE
         /\ a \in -FILESIZE .. -1 => a % FILESIZE = a + FILESIZE
BY BoundAssumption

LEMMA SizeIs ==
  ASSUME in \in Index, out \in Index
  PROVE  /\ Size \in 0 .. FILESIZE - 1
         /\ Size = IF in >= out THEN in - out ELSE in - out + FILESIZE
BY BoundAssumption, Remainder DEF Size, Index

(***************************************************************************)
(* Where the k-th byte from position o on is.                              *)
(***************************************************************************)
LEMMA PlaceIs ==
  ASSUME NEW o \in Index, NEW k \in 1 .. FILESIZE
  PROVE  /\ (o + k - 1) % FILESIZE \in Index
         /\ (o + k - 1) % FILESIZE = IF o + k - 1 < FILESIZE THEN o + k - 1
                                     ELSE o + k - 1 - FILESIZE
BY BoundAssumption, Remainder DEF Index

LEMMA FollowingIs ==
  ASSUME NEW i \in Index
  PROVE  /\ Following(i) \in Index
         /\ Following(i) = IF i + 1 < FILESIZE THEN i + 1 ELSE 0
BY BoundAssumption, Remainder DEF Index, Following

(***************************************************************************)
(* A byte is put into the ring, or taken from it.                          *)
(***************************************************************************)
LEMMA RingPut ==
  ASSUME in \in Index, out \in Index, data \in [Index -> Byte \cup {Eof}],
         Size < FILESIZE - 1, NEW b,
         data' = [data EXCEPT ![in] = b], in' = Following(in), UNCHANGED out
  PROVE  /\ Size' = Size + 1
         /\ \A k \in 1 .. Size : Cell(k)' = Cell(k)
         /\ \A k \in 1 .. FILESIZE : k = Size + 1 => Cell(k)' = b
<1>1. in' \in Index /\ in' = IF in + 1 < FILESIZE THEN in + 1 ELSE 0
  BY FollowingIs
<1>2. FILESIZE \in Nat /\ FILESIZE >= 2
  BY BoundAssumption
<1>3. Size \in 0 .. FILESIZE - 2
  BY <1>2, SizeIs
<1>4. Size = IF in >= out THEN in - out ELSE in - out + FILESIZE
  BY SizeIs
<1>5. Size' = IF in' >= out THEN in' - out ELSE in' - out + FILESIZE
  <2>1. Size' = (in' - out) % FILESIZE
    BY DEF Size
  <2> QED  BY <1>1, <1>2, <2>1, Remainder DEF Index
<1>6. Size' = Size + 1
  BY <1>1, <1>2, <1>3, <1>4, <1>5 DEF Index
<1>7. ASSUME NEW k \in 1 .. Size
      PROVE  Cell(k)' = Cell(k)
  <2> DEFINE a == (out + k - 1) % FILESIZE
  <2>1. a \in Index
        /\ a = IF out + k - 1 < FILESIZE THEN out + k - 1
               ELSE out + k - 1 - FILESIZE
    BY <1>2, <1>3, PlaceIs
  <2>2. a # in
    BY <1>2, <1>3, <1>4, <2>1 DEF Index
  <2>3. Cell(k) = data[a] /\ Cell(k)' = data'[a]
    BY DEF Cell
  <2> HIDE DEF a
  <2> QED  BY <2>1, <2>2, <2>3
<1>8. ASSUME NEW k \in 1 .. FILESIZE, k = Size + 1
      PROVE  Cell(k)' = b
  <2> DEFINE a == (out + k - 1) % FILESIZE
  <2>1. a = IF out + k - 1 < FILESIZE THEN out + k - 1 ELSE out + k - 1 - FILESIZE
    BY PlaceIs
  <2>2. a = in
    BY <1>2, <1>3, <1>4, <1>8, <2>1 DEF Index
  <2>3. Cell(k)' = data'[a]
    BY DEF Cell
  <2> HIDE DEF a
  <2> QED  BY <2>2, <2>3
<1> QED  BY <1>6, <1>7, <1>8

LEMMA RingTake ==
  ASSUME in \in Index, out \in Index, Size >= 1,
         out' = Following(out), UNCHANGED <<in, data>>
  PROVE  /\ Size' = Size - 1
         /\ \A k \in 1 .. FILESIZE - 1 : Cell(k)' = Cell(k + 1)
         /\ Cell(1) = data[out]
<1>1. out' \in Index /\ out' = IF out + 1 < FILESIZE THEN out + 1 ELSE 0
  BY FollowingIs
<1>2. FILESIZE \in Nat /\ FILESIZE >= 2
  BY BoundAssumption
<1>3. Size \in 1 .. FILESIZE - 1
  BY <1>2, SizeIs
<1>4. Size = IF in >= out THEN in - out ELSE in - out + FILESIZE
  BY SizeIs
<1>5. Size' = IF in >= out' THEN in - out' ELSE in - out' + FILESIZE
  <2>1. Size' = (in - out') % FILESIZE
    BY DEF Size
  <2> QED  BY <1>1, <1>2, <2>1, Remainder DEF Index
<1>6. Size' = Size - 1
  BY <1>1, <1>2, <1>3, <1>4, <1>5 DEF Index
<1>7. ASSUME NEW k \in 1 .. FILESIZE - 1
      PROVE  Cell(k)' = Cell(k + 1)
  <2> DEFINE a == (out' + k - 1) % FILESIZE
             c == (out + (k + 1) - 1) % FILESIZE
  <2>1. a = IF out' + k - 1 < FILESIZE THEN out' + k - 1
            ELSE out' + k - 1 - FILESIZE
    BY <1>1, <1>2, PlaceIs
  <2>2. c = IF out + k < FILESIZE THEN out + k ELSE out + k - FILESIZE
    <3> DEFINE n == k + 1
    <3>1. n \in 1 .. FILESIZE
      BY <1>2
    <3> HIDE DEF n
    <3>2. (out + n - 1) % FILESIZE = IF out + n - 1 < FILESIZE THEN out + n - 1
                                     ELSE out + n - 1 - FILESIZE
      BY <3>1, PlaceIs
    <3> QED  BY <1>2, <3>2 DEF n, Index
  <2>3. a = c
    BY <1>1, <1>2, <2>1, <2>2 DEF Index
  <2>4. Cell(k)' = data[a] /\ Cell(k + 1) = data[c]
    BY DEF Cell
  <2> HIDE DEF a, c
  <2> QED  BY <2>3, <2>4
<1>8. Cell(1) = data[out]
  <2>1. (out + 1 - 1) % FILESIZE = out
    BY <1>2, Remainder DEF Index
  <2> QED  BY <2>1 DEF Cell
<1> QED  BY <1>6, <1>7, <1>8

(***************************************************************************)
(* InRing as a sequence.                                                   *)
(***************************************************************************)
LEMMA InRingIs ==
  ASSUME in \in Index, out \in Index, data \in [Index -> Byte \cup {Eof}]
  PROVE  /\ InRing \in Seq(Byte \cup {Eof})
         /\ Len(InRing) = Size
         /\ \A k \in 1 .. Size : InRing[k] = Cell(k) /\ Cell(k) \in Byte \cup {Eof}
<1>1. Size \in Nat /\ Size <= FILESIZE /\ FILESIZE \in Nat
  BY SizeIs, BoundAssumption
<1>2. InRing = [k \in 1 .. Size |-> Cell(k)]
  BY DEF InRing, Size, Cell
<1>3. ASSUME NEW k \in 1 .. Size
      PROVE  Cell(k) \in Byte \cup {Eof}
  <2>1. (out + k - 1) % FILESIZE \in Index
    BY <1>1, PlaceIs
  <2> QED  BY <2>1 DEF Cell
<1>4. InRing \in [1 .. Size -> Byte \cup {Eof}]
  BY <1>2, <1>3
<1>5. InRing \in Seq(Byte \cup {Eof})
  BY <1>1, <1>4, SeqDef
<1>6. Len(InRing) = Size
  BY <1>1, <1>4, <1>5, LenProperties
<1> QED  BY <1>2, <1>3, <1>5, <1>6

-----------------------------------------------------------------------------
(***************************************************************************)
(* Sums, as Total counts them.                                             *)
(***************************************************************************)
Counted(f, bound) == {e \in Proc \X (1 .. bound) : e[2] <= f[e[1]]}

LEMMA CountedFinite ==
  ASSUME NEW M \in Nat, NEW f
  PROVE  IsFiniteSet(Counted(f, M)) /\ Cardinality(Counted(f, M)) \in Nat
<1>1. IsFiniteSet(Proc \X (1 .. M))
  <2>1. IsFiniteSet(1 .. M) /\ IsFiniteSet(Proc)
    BY FS_Interval, ProcAssumption
  <2> QED  BY <2>1, FS_Product
<1>2. Counted(f, M) \in SUBSET (Proc \X (1 .. M))
  BY DEF Counted
<1> QED  BY <1>1, <1>2, FS_Subset, FS_CardinalityType

LEMMA TotalType ==
  ASSUME NEW M \in Nat, NEW f
  PROVE  Total(f, M) \in Nat
BY CountedFinite DEF Total, Counted

LEMMA TotalSame ==
  ASSUME NEW M \in Nat, NEW f, NEW g, \A q \in Proc : g[q] = f[q]
  PROVE  Total(g, M) = Total(f, M)
<1>1. Counted(g, M) = Counted(f, M)
  BY DEF Counted
<1> QED  BY <1>1 DEF Total, Counted

LEMMA TotalZero ==
  ASSUME NEW M \in Nat, NEW f, \A q \in Proc : f[q] = 0
  PROVE  Total(f, M) = 0
<1>1. Counted(f, M) = {}
  BY DEF Counted
<1>2. Cardinality(Counted(f, M)) = 0
  BY <1>1, FS_EmptySet
<1> QED  BY <1>2 DEF Total, Counted

Adds(f, g, p, n, bound) ==
  /\ f[p] \in Nat /\ n \in Nat /\ g[p] = f[p] + n /\ g[p] <= bound
  /\ \A q \in Proc \ {p} : g[q] = f[q]

LEMMA TotalGrows ==
  ASSUME NEW M \in Nat, NEW f, NEW g, NEW p \in Proc, NEW n, Adds(f, g, p, n, M)
  PROVE  Total(g, M) = Total(f, M) + n
<1> USE DEF Adds
<1> DEFINE a == f[p] + 1
           b == f[p] + n
           More == {p} \X (a .. b)
<1>0. a \in Int /\ b \in Int /\ b <= M /\ a >= 1 /\ b = g[p] /\ f[p] \in Nat
      /\ b = f[p] + n /\ a = f[p] + 1
  OBVIOUS
<1>1. IsFiniteSet(More) /\ Cardinality(More) = n
  <2>1. IsFiniteSet(a .. b) /\ Cardinality(a .. b) = IF a > b THEN 0 ELSE b - a + 1
    BY <1>0, FS_Interval
  <2>2. IsFiniteSet({p}) /\ Cardinality({p}) = 1
    BY FS_Singleton
  <2>3. Cardinality(a .. b) = n
    BY <1>0, <2>1
  <2> HIDE DEF a, b
  <2>4. IsFiniteSet(More) /\ Cardinality(More) = Cardinality({p}) * Cardinality(a .. b)
    BY <2>1, <2>2, FS_Product
  <2> QED  BY <2>2, <2>3, <2>4
<1>2. Counted(g, M) = Counted(f, M) \cup More
  <2> HIDE DEF a, b
  <2>1. ASSUME NEW e \in Counted(g, M) PROVE e \in Counted(f, M) \cup More
    <3>1. e \in Proc \X (1 .. M) /\ e = <<e[1], e[2]>> /\ e[2] <= g[e[1]] /\ e[1] \in Proc /\ e[2] \in 1 .. M
      BY <2>1 DEF Counted
    <3>2. CASE e[1] = p
      <4>1. e[2] <= f[p] \/ e[2] \in a .. b
        BY <1>0, <3>1, <3>2
      <4> QED  BY <3>1, <3>2, <4>1 DEF Counted
    <3>3. CASE e[1] # p
      BY <3>1, <3>3 DEF Counted
    <3> QED  BY <3>2, <3>3
  <2>2. ASSUME NEW e \in Counted(f, M) PROVE e \in Counted(g, M)
    <3>1. e \in Proc \X (1 .. M) /\ e[2] <= f[e[1]] /\ e[1] \in Proc /\ e[2] \in 1 .. M
      BY <2>2 DEF Counted
    <3>2. e[2] <= g[e[1]]
      BY <1>0, <3>1
    <3> QED  BY <3>1, <3>2 DEF Counted
  <2>3. ASSUME NEW e \in More PROVE e \in Counted(g, M)
    <3>1. e[1] = p /\ e[2] \in a .. b /\ e = <<e[1], e[2]>>
      BY <2>3
    <3>2. e[2] \in 1 .. M /\ e[2] <= g[p]
      BY <1>0, <3>1
    <3> QED  BY <3>1, <3>2 DEF Counted
  <2> QED  BY <2>1, <2>2, <2>3
<1>3. Counted(f, M) \cap More = {}
  <2> SUFFICES ASSUME NEW e \in Counted(f, M), e \in More PROVE FALSE
    OBVIOUS
  <2>1. e[1] = p /\ e[2] \in a .. b /\ e[2] <= f[p]
    BY DEF Counted
  <2> QED  BY <1>0, <2>1
<1>4. IsFiniteSet(Counted(f, M)) /\ Cardinality(Counted(f, M)) \in Nat
  BY CountedFinite
<1>5. Cardinality({}) = 0
  BY FS_EmptySet
<1> HIDE DEF More
<1>6. Cardinality(Counted(f, M) \cup More)
        = Cardinality(Counted(f, M)) + n - Cardinality(Counted(f, M) \cap More)
  BY <1>1, <1>4, FS_Union
<1>7. Cardinality(Counted(f, M) \cap More) = 0
  BY <1>3, <1>5
<1>8. Cardinality(Counted(g, M)) = Cardinality(Counted(f, M) \cup More)
  BY <1>2
<1>9. Cardinality(Counted(g, M)) = Cardinality(Counted(f, M)) + n
  BY <1>4, <1>6, <1>7, <1>8
<1> QED  BY <1>9 DEF Total, Counted

(***************************************************************************)
(* A sum is no smaller than one of its terms, or two.                      *)
(***************************************************************************)
LEMMA TotalAtLeast ==
  ASSUME NEW M \in Nat, NEW f \in [Proc -> 0 .. M], NEW p \in Proc
  PROVE  /\ Total(f, M) >= f[p]
         /\ \A q \in Proc \ {p} : Total(f, M) >= f[p] + f[q]
<1> DEFINE g == [f EXCEPT ![p] = 0]
<1>1. g \in [Proc -> 0 .. M] /\ g[p] = 0 /\ \A q \in Proc \ {p} : g[q] = f[q]
  OBVIOUS
<1> HIDE DEF g
<1>2. Total(f, M) = Total(g, M) + f[p]
  <2>1. Adds(g, f, p, f[p], M)
    BY <1>1 DEF Adds
  <2> QED  BY <2>1, TotalGrows
<1>3. Total(g, M) \in Nat
  BY TotalType
<1>4. ASSUME NEW q \in Proc \ {p}
      PROVE  Total(g, M) >= f[q]
  <2> DEFINE h == [g EXCEPT ![q] = 0]
  <2>1. h \in [Proc -> 0 .. M] /\ h[q] = 0 /\ g[q] = f[q]
        /\ \A r \in Proc \ {q} : h[r] = g[r]
    BY <1>1
  <2> HIDE DEF h
  <2>2. Total(g, M) = Total(h, M) + f[q]
    <3>1. Adds(h, g, q, f[q], M)
      BY <1>1, <2>1 DEF Adds
    <3> QED  BY <3>1, TotalGrows
  <2>3. Total(h, M) \in Nat
    BY TotalType
  <2> QED  BY <1>1, <2>1, <2>2, <2>3
<1>5. f[p] \in Nat /\ \A q \in Proc : f[q] \in Nat
  OBVIOUS
<1> QED  BY <1>2, <1>3, <1>4, <1>5

-----------------------------------------------------------------------------
(***************************************************************************)
(* The stacks of calls: entering a call, going on in it, leaving it.       *)
(***************************************************************************)
LEMMA StackFacts ==
  ASSUME NEW s \in Seq(Call)
  PROVE  /\ Len(s) \in Nat /\ (s = <<>> <=> Len(s) = 0)
         /\ \A k \in 1 .. Len(s) : s[k] \in Call
         /\ s # <<>> => /\ Head(s) = s[1]
                        /\ Tail(s) \in Seq(Call) /\ Len(Tail(s)) = Len(s) - 1
                        /\ \A k \in 1 .. Len(s) - 1 : Tail(s)[k] = s[k + 1]
OBVIOUS

LEMMA StackPush ==
  ASSUME NEW s \in Seq(Call), NEW c \in Call
  PROVE  /\ <<c>> \o s \in Seq(Call) /\ Len(<<c>> \o s) = Len(s) + 1
         /\ (<<c>> \o s)[1] = c
         /\ \A k \in 1 .. Len(s) : (<<c>> \o s)[k + 1] = s[k]
<1> DEFINE o == <<c>>
<1>1. o \in Seq(Call) /\ Len(o) = 1 /\ o[1] = c
  OBVIOUS
<1> HIDE DEF o
<1>2. /\ o \o s \in Seq(Call) /\ Len(o \o s) = Len(o) + Len(s)
      /\ \A i \in 1 .. Len(o) + Len(s) :
           (o \o s)[i] = IF i <= Len(o) THEN o[i] ELSE s[i - Len(o)]
  BY <1>1, ConcatProperties
<1>3. Len(s) \in Nat
  OBVIOUS
<1>4. ASSUME NEW k \in 1 .. Len(s) PROVE (o \o s)[k + 1] = s[k]
  <2>1. k + 1 \in 1 .. Len(o) + Len(s) /\ ~(k + 1 <= Len(o)) /\ k + 1 - Len(o) = k
    BY <1>1, <1>3
  <2> QED  BY <1>2, <2>1
<1>5. (o \o s)[1] = c
  BY <1>1, <1>2, <1>3
<1>6. Len(o \o s) = Len(s) + 1
  BY <1>1, <1>2, <1>3
<1> QED  BY <1>2, <1>4, <1>5, <1>6 DEF o

LEMMA EnterEffect ==
  ASSUME calls \in [Proc -> Seq(Call)], NEW p \in Proc, NEW c \in Call, Enter(p, c)
  PROVE  /\ calls' \in [Proc -> Seq(Call)]
         /\ \A q \in Proc \ {p} : calls'[q] = calls[q]
         /\ Len(calls'[p]) = Len(calls[p]) + 1
         /\ calls'[p][1] = c
         /\ \A k \in 1 .. Len(calls[p]) : calls'[p][k + 1] = calls[p][k]
<1>1. calls' = [calls EXCEPT ![p] = <<c>> \o calls[p]]
  BY DEF Enter
<1>2. calls[p] \in Seq(Call)
  OBVIOUS
<1> QED  BY <1>1, <1>2, StackPush

LEMMA GoEffect ==
  ASSUME calls \in [Proc -> Seq(Call)], NEW p \in Proc, NEW c \in Call, Go(p, c),
         Len(calls[p]) > 0
  PROVE  /\ calls' \in [Proc -> Seq(Call)]
         /\ \A q \in Proc \ {p} : calls'[q] = calls[q]
         /\ Len(calls'[p]) = Len(calls[p])
         /\ calls'[p][1] = c
         /\ \A k \in 2 .. Len(calls[p]) : calls'[p][k] = calls[p][k]
<1> DEFINE s == calls[p]
           t == Tail(s)
<1>1. calls' = [calls EXCEPT ![p] = <<c>> \o t]
  BY DEF Go
<1>2. s \in Seq(Call) /\ s # <<>>
  BY StackFacts
<1>3. /\ t \in Seq(Call) /\ Len(t) = Len(s) - 1 /\ Len(s) \in Nat
      /\ \A k \in 1 .. Len(s) - 1 : t[k] = s[k + 1]
  BY <1>2, StackFacts
<1> HIDE DEF t
<1>4. /\ <<c>> \o t \in Seq(Call) /\ Len(<<c>> \o t) = Len(t) + 1
      /\ (<<c>> \o t)[1] = c
      /\ \A k \in 1 .. Len(t) : (<<c>> \o t)[k + 1] = t[k]
  BY <1>3, StackPush
<1>5. calls'[p] = <<c>> \o t
  BY <1>1
<1>6. ASSUME NEW k \in 2 .. Len(s) PROVE calls'[p][k] = s[k]
  <2> DEFINE i == k - 1
  <2>1. i \in 1 .. Len(t) /\ k = i + 1
    BY <1>3
  <2> HIDE DEF i
  <2>2. calls'[p][i + 1] = t[i]
    BY <1>4, <1>5, <2>1
  <2>3. t[i] = s[i + 1]
    BY <1>3, <2>1
  <2> QED  BY <2>1, <2>2, <2>3
<1> QED  BY <1>1, <1>3, <1>4, <1>5, <1>6

LEMMA LeaveEffect ==
  ASSUME calls \in [Proc -> Seq(Call)], NEW p \in Proc, Leave(p), Len(calls[p]) > 0
  PROVE  /\ calls' \in [Proc -> Seq(Call)]
         /\ \A q \in Proc \ {p} : calls'[q] = calls[q]
         /\ Len(calls'[p]) = Len(calls[p]) - 1
         /\ \A k \in 1 .. Len(calls[p]) - 1 : calls'[p][k] = calls[p][k + 1]
<1>1. calls' = [calls EXCEPT ![p] = Tail(calls[p])]
  BY DEF Leave
<1>2. calls[p] \in Seq(Call) /\ calls[p] # <<>>
  BY StackFacts
<1> QED  BY <1>1, <1>2, StackFacts

(***************************************************************************)
(* Whether a process is in a call of a kind, with at most two calls.       *)
(***************************************************************************)
Within(s, ops, where) == \E k \in DOMAIN s : s[k].op \in ops /\ s[k].at \in where

LEMMA WithinIs ==
  ASSUME NEW s \in Seq(Call), NEW ops, NEW where
  PROVE  /\ Len(s) = 0 => ~Within(s, ops, where)
         /\ Len(s) = 1 => (Within(s, ops, where) <=> s[1].op \in ops /\ s[1].at \in where)
         /\ Len(s) = 2 => (Within(s, ops, where) <=>
                             \/ s[1].op \in ops /\ s[1].at \in where
                             \/ s[2].op \in ops /\ s[2].at \in where)
<1>1. DOMAIN s = 1 .. Len(s)
  OBVIOUS
<1>2. /\ Len(s) = 0 => DOMAIN s = {}
      /\ Len(s) = 1 => DOMAIN s = {1}
      /\ Len(s) = 2 => DOMAIN s = {1, 2}
  BY <1>1
<1> QED  BY <1>2 DEF Within

LEMMA InIs == \A p, ops, where : In(p, ops, where) <=> Within(calls[p], ops, where)
BY DEF In, Within

-----------------------------------------------------------------------------
(***************************************************************************)
(* What a step does to the counts: it moves at most one process into one   *)
(* of the sets or out of it.                                               *)
(***************************************************************************)
LEMMA CardOneMoves ==
  ASSUME NEW S \in SUBSET Proc, NEW T \in SUBSET Proc, NEW p \in Proc,
         \A q \in Proc \ {p} : q \in T <=> q \in S
  PROVE  /\ IsFiniteSet(S) /\ Cardinality(S) \in Nat /\ Cardinality(T) \in Nat
         /\ Cardinality(T) = Cardinality(S) + (IF p \in T THEN 1 ELSE 0)
                                            - (IF p \in S THEN 1 ELSE 0)
<1>1. IsFiniteSet(S) /\ IsFiniteSet(T)
  BY ProcAssumption, FS_Subset
<1>2. Cardinality(S) \in Nat /\ Cardinality(T) \in Nat
  BY <1>1, FS_CardinalityType
<1>3. CASE p \in S <=> p \in T
  <2>1. S = T
    BY <1>3
  <2> QED  BY <1>1, <1>2, <2>1
<1>4. CASE p \in T /\ p \notin S
  <2>1. T = S \cup {p}
    BY <1>4
  <2>2. Cardinality(T) = Cardinality(S) + 1
    BY <1>1, <1>4, <2>1, FS_AddElement
  <2> QED  BY <1>1, <1>2, <1>4, <2>2
<1>5. CASE p \in S /\ p \notin T
  <2>1. S = T \cup {p}
    BY <1>5
  <2>2. Cardinality(S) = Cardinality(T) + 1
    BY <1>1, <1>5, <2>1, FS_AddElement
  <2> QED  BY <1>1, <1>2, <1>5, <2>2
<1> QED  BY <1>3, <1>4, <1>5

(***************************************************************************)
(* The process on the CPU, in the call it is in.                           *)
(***************************************************************************)
LEMMA DoingIs ==
  ASSUME calls \in [Proc -> Seq(Call)], NEW p \in Proc, NEW ops, NEW at,
         Doing(p, ops, at)
  PROVE  /\ p = cpu /\ Len(calls[p]) \in Nat /\ Len(calls[p]) > 0
         /\ Call0(p) = calls[p][1] /\ calls[p][1] \in Call
         /\ calls[p][1].op \in ops /\ calls[p][1].at = at
<1>1. calls[p] \in Seq(Call) /\ calls[p] # <<>>
  BY DEF Doing
<1> QED  BY <1>1, StackFacts DEF Doing, Call0

LEMMA IdleIs ==
  ASSUME calls \in [Proc -> Seq(Call)], NEW p \in Proc
  PROVE  calls[p] = <<>> <=> Len(calls[p]) = 0
BY StackFacts

(***************************************************************************)
(* A step that enters or leaves a call at the head of its loop, or no      *)
(* call, changes nobody's claims.                                          *)
(***************************************************************************)
Claims == <<Takers, Putters, FullSleepers, EmptySleepers>>

LEMMA ClaimsSame ==
  ASSUME asleep \subseteq Proc, UNCHANGED asleep,
         \A q \in Proc : \A ops, where :
            "head" \notin where =>
              (Within(calls'[q], ops, where) <=> Within(calls[q], ops, where))
  PROVE  UNCHANGED Claims
<1>1. \A q \in Proc : \A ops, where :
        "head" \notin where => (In(q, ops, where)' <=> In(q, ops, where))
  BY DEF In, Within
<1>2. "head" \notin {"slept", "waited"} /\ "head" \notin {"slept"}
  OBVIOUS
<1>3. Takers' = Takers /\ Putters' = Putters
  BY <1>1, <1>2 DEF Takers, Putters
<1>4. FullSleepers' = FullSleepers /\ EmptySleepers' = EmptySleepers
  BY <1>1, <1>2 DEF FullSleepers, EmptySleepers, Sleepers
<1> QED  BY <1>3, <1>4 DEF Claims

LEMMA EnterClaims ==
  ASSUME calls \in [Proc -> Seq(Call)], asleep \subseteq Proc, UNCHANGED asleep,
         NEW p \in Proc, NEW c \in Call, c.at = "head", Enter(p, c)
  PROVE  UNCHANGED Claims
<1>1. ASSUME NEW q \in Proc, NEW ops, NEW where, "head" \notin where
      PROVE  Within(calls'[q], ops, where) <=> Within(calls[q], ops, where)
  <2>1. CASE q # p
    BY <2>1, EnterEffect
  <2>2. CASE q = p
    <3> DEFINE s == calls[p]
               t == calls'[p]
    <3>1. /\ s \in Seq(Call) /\ t \in Seq(Call) /\ Len(t) = Len(s) + 1 /\ t[1] = c
          /\ \A k \in 1 .. Len(s) : t[k + 1] = s[k]
      BY EnterEffect
    <3> HIDE DEF s, t
    <3>2. DOMAIN s = 1 .. Len(s) /\ DOMAIN t = 1 .. Len(s) + 1 /\ Len(s) \in Nat
      BY <3>1
    <3>3. ASSUME Within(t, ops, where) PROVE Within(s, ops, where)
      <4>1. PICK k \in DOMAIN t : t[k].op \in ops /\ t[k].at \in where
        BY <3>3 DEF Within
      <4>2. k # 1
        BY <1>1, <3>1, <4>1
      <4> DEFINE j == k - 1
      <4>3. j \in 1 .. Len(s) /\ k = j + 1
        BY <3>2, <4>1, <4>2
      <4> HIDE DEF j
      <4>4. t[j + 1] = s[j]
        BY <3>1, <4>3
      <4> QED  BY <3>2, <4>1, <4>3, <4>4 DEF Within
    <3>4. ASSUME Within(s, ops, where) PROVE Within(t, ops, where)
      <4>1. PICK k \in DOMAIN s : s[k].op \in ops /\ s[k].at \in where
        BY <3>4 DEF Within
      <4>2. k + 1 \in DOMAIN t /\ t[k + 1] = s[k]
        BY <3>1, <3>2, <4>1
      <4> QED  BY <4>1, <4>2 DEF Within
    <3> QED  BY <2>2, <3>3, <3>4 DEF s, t
  <2> QED  BY <2>1, <2>2
<1> QED  BY <1>1, ClaimsSame

LEMMA LeaveClaims ==
  ASSUME calls \in [Proc -> Seq(Call)], asleep \subseteq Proc, UNCHANGED asleep,
         NEW p \in Proc, Len(calls[p]) > 0, calls[p][1].at = "head", Leave(p)
  PROVE  UNCHANGED Claims
<1>1. ASSUME NEW q \in Proc, NEW ops, NEW where, "head" \notin where
      PROVE  Within(calls'[q], ops, where) <=> Within(calls[q], ops, where)
  <2>1. CASE q # p
    BY <2>1, LeaveEffect
  <2>2. CASE q = p
    <3> DEFINE s == calls[p]
               t == calls'[p]
    <3>1. /\ s \in Seq(Call) /\ t \in Seq(Call) /\ Len(t) = Len(s) - 1
          /\ Len(s) > 0 /\ s[1].at = "head"
          /\ \A k \in 1 .. Len(s) - 1 : t[k] = s[k + 1]
      BY LeaveEffect
    <3> HIDE DEF s, t
    <3>2. DOMAIN s = 1 .. Len(s) /\ DOMAIN t = 1 .. Len(s) - 1 /\ Len(s) \in Nat
      BY <3>1
    <3>3. ASSUME Within(s, ops, where) PROVE Within(t, ops, where)
      <4>1. PICK k \in DOMAIN s : s[k].op \in ops /\ s[k].at \in where
        BY <3>3 DEF Within
      <4>2. k # 1
        BY <1>1, <3>1, <4>1
      <4> DEFINE j == k - 1
      <4>3. j \in 1 .. Len(s) - 1 /\ k = j + 1
        BY <3>2, <4>1, <4>2
      <4> HIDE DEF j
      <4>4. t[j] = s[j + 1]
        BY <3>1, <4>3
      <4> QED  BY <3>2, <4>1, <4>3, <4>4 DEF Within
    <3>4. ASSUME Within(t, ops, where) PROVE Within(s, ops, where)
      <4>1. PICK k \in DOMAIN t : t[k].op \in ops /\ t[k].at \in where
        BY <3>4 DEF Within
      <4>2. k + 1 \in DOMAIN s /\ t[k] = s[k + 1]
        BY <3>1, <3>2, <4>1
      <4> QED  BY <4>1, <4>2 DEF Within
    <3> QED  BY <2>2, <3>3, <3>4 DEF s, t
  <2> QED  BY <2>1, <2>2
<1> QED  BY <1>1, ClaimsSame

(***************************************************************************)
(* Such a step, when it leaves the semaphores and the ring alone, keeps    *)
(* the credits and the queues.                                             *)
(***************************************************************************)
LEMMA QuietStep ==
  ASSUME CreditInv, QueueInv, cpu \in Proc,
         UNCHANGED <<semaphores, data, in, out, ended>>, UNCHANGED Claims,
         Len(calls'[cpu']) > 0 /\ calls'[cpu'][Len(calls'[cpu'])].op = "read"
             /\ calls'[cpu'][Len(calls'[cpu'])].at = "slept" =>
               Len(calls[cpu]) > 0 /\ Outer(cpu).op = "read"
                 /\ Outer(cpu).at = "slept"
  PROVE  CreditInv' /\ QueueInv'
<1>1. Size' = Size /\ (Marked' <=> Marked) /\ Spent' = Spent
  BY DEF Size, Marked, Cell, Spent
<1>2. Takers' = Takers /\ Putters' = Putters
  BY DEF Claims
<1>3. FullSleepers' = FullSleepers /\ EmptySleepers' = EmptySleepers
  BY DEF Claims
<1>4. CreditInv'
  BY <1>1, <1>2 DEF CreditInv, semaphores
<1>5. Len(calls[cpu])' > 0 /\ Outer(cpu)'.op = "read" /\ Outer(cpu)'.at = "slept"
        /\ ~Marked' => full' < 0
  BY <1>1 DEF QueueInv, Outer, semaphores
<1>6. QueueInv'
  BY <1>3, <1>5 DEF QueueInv, semaphores
<1> QED  BY <1>4, <1>6

-----------------------------------------------------------------------------
(***************************************************************************)
(* The bytes still to come, and the end of the pipe, over steps that leave *)
(* them alone.                                                             *)
(***************************************************************************)
PromisedBy(s) ==
  IF s # <<>> /\ Last(s).op = "write" THEN Last(s).size - Last(s).i ELSE 0

LEMMA PromisedIs ==
  ASSUME NEW p \in Proc
  PROVE  /\ Promised[p] = PromisedBy(calls[p])
         /\ Promised'[p] = PromisedBy(calls'[p])
BY DEF Promised, PromisedBy

LEMMA PromisedByIs ==
  ASSUME NEW s \in Seq(Call)
  PROVE  /\ Len(s) = 0 => PromisedBy(s) = 0
         /\ Len(s) > 0 => PromisedBy(s) = IF s[Len(s)].op = "write"
                                          THEN s[Len(s)].size - s[Len(s)].i ELSE 0
BY StackFacts DEF PromisedBy, Last

LEMMA PromisedByTop ==
  ASSUME NEW s \in Seq(Call), Len(s) = 1
  PROVE  PromisedBy(s) = IF s[1].op = "write" THEN s[1].size - s[1].i ELSE 0
<1>1. Len(s) > 0 /\ s[Len(s)] = s[1]
  OBVIOUS
<1> QED  BY <1>1, PromisedByIs

LEMMA BoundSame ==
  ASSUME BoundInv, UNCHANGED sent,
         \A q \in Proc : PromisedBy(calls'[q]) = PromisedBy(calls[q])
  PROVE  BoundInv'
<1>1. \A q \in Proc : Promised'[q] = Promised[q]
  BY PromisedIs
<1>2. MaxBytes \in Nat
  BY BoundAssumption
<1>3. Total(Promised', MaxBytes) = Total(Promised, MaxBytes)
  BY <1>1, <1>2, TotalSame
<1>4. Total(Promised, MaxBytes)' = Total(Promised', MaxBytes)
  BY DEF Total
<1> QED  BY <1>1, <1>3, <1>4 DEF BoundInv

LEMMA EndSame ==
  ASSUME EndInv, UNCHANGED <<data, in, out, ended>>,
         \A q \in Proc : Marking(q)' => Marking(q) /\ calls'[q][1].i = calls[q][1].i
  PROVE  EndInv'
<1>1. Size' = Size /\ (Marked' <=> Marked) /\ \A k : Cell(k)' = Cell(k)
  BY DEF Size, Marked, Cell
<1> QED  BY <1>1 DEF EndInv

(***************************************************************************)
(* Steps that leave the descriptors and the markers' calls alone.          *)
(***************************************************************************)
MarksSame ==
  \A q \in Proc : /\ Marking(q)' <=> Marking(q)
                  /\ Marking(q) => calls'[q][1].of = calls[q][1].of

LivesSame ==
  \A q \in Proc : \/ life'[q] = life[q]
                  \/ life[q] = "unborn" /\ life'[q] = "live"
                  \/ life[q] = "zombie" /\ ends[q] = 0
                  \/ q = cpu /\ (life'[q] = "live" \/ ~Marking(q))

LEMMA RefSame ==
  ASSUME RefInv, UNCHANGED writeRef, \A q \in Proc : ends'[q] = ends[q],
         MarksSame, LivesSame, cpu' = cpu \/ life[cpu'] = "live",
         (\A q \in Proc : ~Marking(q)) /\ Marked' => Marked
  PROVE  RefInv'
<1>1. ASSUME \A q \in Proc : ~Marking(q)'
      PROVE  writeRef' = Total(ends, MaxEnds)' /\ (Marked' => \A q \in Proc : ends'[q] = 0)
  <2>1. \A q \in Proc : ~Marking(q)
    BY <1>1 DEF MarksSame
  <2>2. MaxEnds \in Nat
    BY BoundAssumption
  <2>3. Total(ends', MaxEnds) = Total(ends, MaxEnds)
    BY <2>2, TotalSame
  <2>4. Total(ends, MaxEnds)' = Total(ends', MaxEnds)
    BY DEF Total
  <2> QED  BY <2>1, <2>3, <2>4 DEF RefInv
<1>2. ASSUME NEW p \in Proc, Marking(p)'
      PROVE  MarkOK(p, calls[p][1].of)'
  <2>1. PICK z : z = calls[p][1].of
    OBVIOUS
  <2>2. Marking(p) /\ calls'[p][1].of = z /\ MarkOK(p, z)
    BY <1>2, <2>1 DEF MarksSame, RefInv
  <2>3. MarkOK(p, z)'
    BY <2>2 DEF MarkOK, LivesSame
  <2> QED  BY <2>2, <2>3 DEF MarkOK
<1> QED  BY <1>1, <1>2 DEF RefInv

(***************************************************************************)
(* Who has a write descriptor, and does not write a marker, knows that     *)
(* nobody does, and that there is none in the ring.                        *)
(***************************************************************************)
LEMMA EndHeld ==
  ASSUME RefInv, NEW p \in Proc, ends[p] > 0, life[p] = "live", ~Marking(p)
  PROVE  /\ \A q \in Proc : ~Marking(q)
         /\ ~Marked /\ writeRef = Total(ends, MaxEnds)
<1>1. ASSUME NEW q \in Proc, Marking(q) PROVE FALSE
  <2> DEFINE z == calls[q][1].of
  <2>1. MarkOK(q, z)
    BY <1>1 DEF RefInv
  <2> HIDE DEF z
  <2>2. z = p
    BY <2>1 DEF MarkOK
  <2> QED  BY <1>1, <2>1, <2>2 DEF MarkOK
<1>2. ends[p] # 0
  OBVIOUS
<1> QED  BY <1>1, <1>2 DEF RefInv

LEMMA StackShape ==
  ASSUME NEW s \in Seq(Call), NEW t \in Seq(Call), NEW c \in Call, CallOK(c),
         t[1] = c, c.at = "head",
         \/ Len(s) = 0
         \/ Len(s) = 1 /\ c.op = "mark" /\ s[1].op = "read" /\ s[1].at = "slept",
         StackOK(s), Len(t) = Len(s) + 1, \A k \in 1 .. Len(s) : t[k + 1] = s[k]
  PROVE  /\ StackOK(t) /\ t[Len(t)] = IF Len(s) = 0 THEN c ELSE s[Len(s)]
         /\ PromisedBy(t) = IF Len(s) = 0 /\ c.op = "write" THEN c.size - c.i
                            ELSE PromisedBy(s)
<1>1. CASE Len(s) = 0
  <2>1. Len(t) = 1 /\ t[1] = c
    BY <1>1
  <2>2. StackOK(t)
    BY <2>1 DEF StackOK
  <2>3. PromisedBy(s) = 0
    BY <1>1, PromisedByIs
  <2>4. PromisedBy(t) = IF c.op = "write" THEN c.size - c.i ELSE 0
    BY <2>1, PromisedByIs
  <2> QED  BY <1>1, <2>1, <2>2, <2>3, <2>4
<1>2. CASE Len(s) = 1 /\ c.op = "mark" /\ s[1].op = "read" /\ s[1].at = "slept"
  <2>1. Len(t) = 2 /\ t[1] = c /\ t[1 + 1] = s[1] /\ CallOK(s[1])
    BY <1>2 DEF StackOK
  <2>2. t[2] = s[1]
    BY <2>1
  <2>3. StackOK(t)
    BY <1>2, <2>1, <2>2 DEF StackOK
  <2>4. PromisedBy(t) = 0 /\ PromisedBy(s) = 0
    BY <1>2, <2>1, <2>2, PromisedByIs
  <2> QED  BY <1>2, <2>1, <2>2, <2>3, <2>4
<1> QED  BY <1>1, <1>2

(***************************************************************************)
(* Entering a call: from user code, or the write of the marker from the    *)
(* reschedule of a read.                                                   *)
(***************************************************************************)
MayEnter(p, c) ==
  \/ Len(calls[p]) = 0
  \/ Len(calls[p]) = 1 /\ c.op = "mark" /\ calls[p][1].op = "read"
       /\ calls[p][1].at = "slept"

LEMMA EnterShape ==
  ASSUME TypeOK, ShapeInv, NEW p \in Proc, NEW c \in Call, CallOK(c), c.at = "head",
         Enter(p, c), MayEnter(p, c), p = cpu, UNCHANGED cpu, life'[p] = life[p],
         life[p] = "live" \/ c.op = "mark",
         c.op = "read" => p \in Readers,
         c.op = "write" => p \in Writers /\ ends'[p] > 0,
         \A q \in Proc : Len(calls[q]) > 0 =>
             life'[q] = life[q] /\ (Outer(q).op = "write" => ends'[q] > 0),
         \A q \in Proc : life'[q] \in {"unborn", "gone"} => ends'[q] = 0
  PROVE  ShapeInv'
<1>1. calls \in [Proc -> Seq(Call)]
  BY DEF TypeOK
<1>2. /\ calls' \in [Proc -> Seq(Call)] /\ \A q \in Proc \ {p} : calls'[q] = calls[q]
      /\ Len(calls'[p]) = Len(calls[p]) + 1 /\ calls'[p][1] = c
      /\ \A k \in 1 .. Len(calls[p]) : calls'[p][k + 1] = calls[p][k]
  BY <1>1, EnterEffect
<1>3. ASSUME NEW q \in Proc, q # p
      PROVE  Shape(q)'
  BY <1>2, <1>3 DEF ShapeInv, Shape, Outer
<1>4. StackOK(calls'[p]) /\ calls'[p][Len(calls'[p])] =
        IF Len(calls[p]) = 0 THEN c ELSE calls[p][Len(calls[p])]
  BY <1>1, <1>2, StackShape DEF MayEnter, ShapeInv, Shape
<1>5. Len(calls[p]) = 0 \/ (Len(calls[p]) = 1 /\ life[p] = "live")
  BY DEF ShapeInv, Shape, Outer, MayEnter
<1>6. Shape(p)'
  BY <1>1, <1>2, <1>4, <1>5 DEF ShapeInv, Shape, Outer, MayEnter
<1> QED  BY <1>3, <1>6 DEF ShapeInv

LEMMA EnterBound ==
  ASSUME TypeOK, ShapeInv, BoundInv, NEW p \in Proc, NEW c \in Call, CallOK(c),
         c.at = "head", Enter(p, c), MayEnter(p, c), c.op # "write", UNCHANGED sent
  PROVE  BoundInv'
<1>1. calls \in [Proc -> Seq(Call)]
  BY DEF TypeOK
<1>2. /\ calls' \in [Proc -> Seq(Call)] /\ \A q \in Proc \ {p} : calls'[q] = calls[q]
      /\ Len(calls'[p]) = Len(calls[p]) + 1 /\ calls'[p][1] = c
      /\ \A k \in 1 .. Len(calls[p]) : calls'[p][k + 1] = calls[p][k]
  BY <1>1, EnterEffect
<1>3. PromisedBy(calls'[p]) = PromisedBy(calls[p])
  <2>1. calls[p] \in Seq(Call) /\ calls'[p] \in Seq(Call) /\ StackOK(calls[p])
    BY <1>1, <1>2 DEF ShapeInv, Shape
  <2> QED  BY <1>2, <2>1, StackShape DEF MayEnter
<1> QED  BY <1>2, <1>3, BoundSame

(***************************************************************************)
(* Who the process on the CPU is when it enters a call.                    *)
(***************************************************************************)
LEMMA EnterQuiet ==
  ASSUME TypeOK, CreditInv, QueueInv, NEW p \in Proc, NEW c \in Call, c.at = "head",
         Enter(p, c), p = cpu,
         UNCHANGED <<semaphores, data, in, out, ended, cpu>>
  PROVE  CreditInv' /\ QueueInv'
<1>1. calls \in [Proc -> Seq(Call)] /\ asleep \subseteq Proc /\ UNCHANGED asleep
  BY DEF TypeOK, semaphores
<1>2. UNCHANGED Claims
  BY <1>1, EnterClaims
<1>3. /\ calls' \in [Proc -> Seq(Call)] /\ Len(calls'[p]) = Len(calls[p]) + 1
      /\ calls'[p][1] = c
      /\ \A k \in 1 .. Len(calls[p]) : calls'[p][k + 1] = calls[p][k]
      /\ Len(calls[p]) \in Nat
  BY <1>1, EnterEffect, StackFacts
<1>4. CASE Len(calls[p]) = 0
  BY <1>2, <1>3, <1>4, QuietStep
<1>5. CASE Len(calls[p]) > 0
  <2>1. calls'[p][Len(calls'[p])] = Outer(p)
    <3>1. Len(calls[p]) \in 1 .. Len(calls[p]) /\ Len(calls'[p]) = Len(calls[p]) + 1
      BY <1>3, <1>5
    <3> QED  BY <1>3, <3>1 DEF Outer
  <2> QED  BY <1>2, <1>5, <2>1, QuietStep
<1> QED  BY <1>3, <1>4, <1>5

-----------------------------------------------------------------------------
(***************************************************************************)
(* The steps of the programs and of the scheduler.                         *)
(***************************************************************************)
LEMMA UserIs ==
  ASSUME TypeOK, NEW p \in Proc, InUser(p)
  PROVE  p = cpu /\ life[p] = "live" /\ Len(calls[p]) = 0 /\ calls[p] \in Seq(Call)
BY StackFacts DEF InUser, TypeOK

LEMMA EnterMarks ==
  ASSUME EndInv, RefInv, calls \in [Proc -> Seq(Call)], NEW p \in Proc, NEW c \in Call,
         Enter(p, c), c.op # "mark", Len(calls[p]) = 0,
         UNCHANGED <<data, in, out, ended, writeRef, ends, life, cpu>>
  PROVE  EndInv' /\ RefInv'
<1>1. \A q \in Proc \ {p} : calls'[q] = calls[q]
  BY EnterEffect
<1>2. calls'[p][1] = c
  BY EnterEffect
<1>3. \A q \in Proc : Marking(q)' => Marking(q) /\ calls'[q][1].i = calls[q][1].i
  BY <1>1, <1>2 DEF Marking
<1>4. MarksSame
  BY <1>1, <1>2 DEF MarksSame, Marking
<1>5. LivesSame
  BY DEF LivesSame
<1>6. Marked' <=> Marked
  BY DEF Marked, Size, Cell
<1>7. RefInv'
  BY <1>4, <1>5, <1>6, RefSame
<1> QED  BY <1>3, <1>7, EndSame

LEMMA ReadStep ==
  ASSUME PipeInv, NEW p \in Proc, NEW size \in ReadSizes, Read(p, size)
  PROVE  PipeInv'
<1> DEFINE c == NewCall("read", size, p, "syscall")
<1>0. /\ TypeOK /\ ShapeInv /\ RefInv /\ BoundInv /\ EndInv /\ QueueInv
      /\ CreditInv
  BY DEF PipeInv
<1>1. /\ c \in Call /\ CallOK(c) /\ c.at = "head" /\ c.op = "read"
  BY SizeAssumption DEF NewCall, Call, CallOK
<1>2. /\ Enter(p, c) /\ p \in Readers /\ InUser(p)
      /\ UNCHANGED <<semaphores, ring, owners, cpu, broken, traffic>>
  BY DEF Read
<1>3. /\ UNCHANGED <<semaphores, data, in, out, ended, cpu, writeRef, sent, ends, life>>
      /\ UNCHANGED <<PipeSize, flag, broken, got, lost>>
  BY <1>2 DEF ring, owners, traffic
<1> HIDE DEF c
<1>4. p = cpu /\ life[p] = "live" /\ Len(calls[p]) = 0 /\ calls \in [Proc -> Seq(Call)]
  BY <1>0, <1>2, UserIs DEF TypeOK
<1>5. MayEnter(p, c)
  BY <1>4 DEF MayEnter
<1>6. TypeOK'
  <2>1. calls' \in [Proc -> Seq(Call)]
    BY <1>1, <1>2, <1>4, EnterEffect
  <2> QED  BY <1>0, <1>3, <2>1 DEF TypeOK, semaphores
<1>7. ShapeInv'
  BY <1>0, <1>1, <1>2, <1>3, <1>4, <1>5, EnterShape DEF ShapeInv, Shape
<1>8. BoundInv'
  BY <1>0, <1>1, <1>2, <1>3, <1>5, EnterBound
<1>9. EndInv' /\ RefInv'
  BY <1>0, <1>1, <1>2, <1>3, <1>4, EnterMarks
<1>10. CreditInv' /\ QueueInv'
  BY <1>0, <1>1, <1>2, <1>3, <1>4, EnterQuiet
<1> QED  BY <1>6, <1>7, <1>8, <1>9, <1>10 DEF PipeInv

LEMMA WriteStep ==
  ASSUME PipeInv, NEW p \in Proc, NEW size \in WriteSizes, Write(p, size)
  PROVE  PipeInv'
<1> DEFINE c == NewCall("write", size, p, "syscall")
<1>0. /\ TypeOK /\ ShapeInv /\ RefInv /\ BoundInv /\ EndInv /\ QueueInv
      /\ CreditInv
  BY DEF PipeInv
<1>1. /\ c \in Call /\ CallOK(c) /\ c.at = "head" /\ c.op = "write" /\ c.i = 0
      /\ c.size = size /\ size \in Nat
  BY SizeAssumption DEF NewCall, Call, CallOK
<1>2. /\ Enter(p, c) /\ p \in Writers /\ ends[p] > 0 /\ InUser(p)
      /\ sent + size + Total(Promised, MaxBytes) <= MaxBytes
      /\ UNCHANGED <<semaphores, ring, owners, cpu, broken, traffic>>
  BY DEF Write
<1>3. /\ UNCHANGED <<semaphores, data, in, out, ended, cpu, writeRef, sent, ends, life>>
      /\ UNCHANGED <<PipeSize, flag, broken, got, lost>>
  BY <1>2 DEF ring, owners, traffic
<1> HIDE DEF c
<1>4. p = cpu /\ life[p] = "live" /\ Len(calls[p]) = 0 /\ calls \in [Proc -> Seq(Call)]
  BY <1>0, <1>2, UserIs DEF TypeOK
<1>5. MayEnter(p, c)
  BY <1>4 DEF MayEnter
<1>e. /\ calls' \in [Proc -> Seq(Call)] /\ \A q \in Proc \ {p} : calls'[q] = calls[q]
      /\ Len(calls'[p]) = Len(calls[p]) + 1 /\ calls'[p][1] = c
      /\ \A k \in 1 .. Len(calls[p]) : calls'[p][k + 1] = calls[p][k]
  BY <1>1, <1>2, <1>4, EnterEffect
<1>6. TypeOK'
  BY <1>0, <1>3, <1>e DEF TypeOK, semaphores
<1>7. ShapeInv'
  BY <1>0, <1>1, <1>2, <1>3, <1>4, <1>5, EnterShape DEF ShapeInv, Shape
<1>9. BoundInv'
  <2>1. MaxBytes \in Nat /\ sent \in Nat /\ Total(Promised, MaxBytes) \in Nat
    BY <1>0, BoundAssumption, TotalType DEF TypeOK
  <2>2. size <= MaxBytes
    BY <1>1, <1>2, <2>1
  <2>3. PromisedBy(calls'[p]) = size /\ PromisedBy(calls[p]) = 0
    <3>1. PromisedBy(calls[p]) = 0
      BY <1>4, PromisedByIs
    <3>2. Len(calls'[p]) = 1 /\ calls'[p] \in Seq(Call)
      BY <1>4, <1>e
    <3>3. PromisedBy(calls'[p]) = calls'[p][1].size - calls'[p][1].i
      <4> DEFINE t == calls'[p]
      <4>1. t \in Seq(Call) /\ Len(t) = 1 /\ t[1].op = "write"
        BY <1>1, <1>e, <3>2
      <4> HIDE DEF t
      <4>2. PromisedBy(t) = t[1].size - t[1].i
        BY <4>1, PromisedByIs
      <4> QED  BY <4>2 DEF t
    <3> QED  BY <1>1, <1>e, <3>1, <3>3
  <2>4. /\ Promised'[p] = size /\ Promised[p] = 0
        /\ \A q \in Proc \ {p} : Promised'[q] = Promised[q]
    BY <1>e, <2>3, PromisedIs
  <2>5. /\ Promised'[p] = Promised[p] + size /\ Promised[p] \in Nat
        /\ Promised'[p] <= MaxBytes /\ size \in Nat
    BY <1>1, <2>2, <2>4
  <2>6. Total(Promised', MaxBytes) = Total(Promised, MaxBytes) + size
    <3>1. MaxBytes \in Nat
      BY <2>1
    <3>2. Adds(Promised, Promised', p, size, MaxBytes)
      BY <2>4, <2>5 DEF Adds
    <3> QED  BY <3>1, <3>2, TotalGrows
  <2>7. Total(Promised, MaxBytes)' = Total(Promised', MaxBytes)
    BY DEF Total
  <2>8. \A q \in Proc : Promised'[q] \in 0 .. MaxBytes
    BY <1>0, <1>1, <2>1, <2>2, <2>4 DEF BoundInv
  <2>9. sent' + Total(Promised, MaxBytes)' <= MaxBytes
    BY <1>1, <1>2, <1>3, <2>1, <2>6, <2>7
  <2> QED  BY <2>8, <2>9 DEF BoundInv
<1>10. EndInv' /\ RefInv'
  BY <1>0, <1>1, <1>2, <1>3, <1>4, EnterMarks
<1>11. CreditInv' /\ QueueInv'
  BY <1>0, <1>1, <1>2, <1>3, <1>4, EnterQuiet
<1> QED  BY <1>6, <1>7, <1>9, <1>10, <1>11 DEF PipeInv

(***************************************************************************)
(* Steps that enter and leave no call: the descriptors are counted as they *)
(* are made, and while there is one to copy the pipe has not ended.        *)
(***************************************************************************)
LEMMA CallsSame ==
  ASSUME PipeInv,
         UNCHANGED <<semaphores, data, in, out, ended, cpu, calls, sent>>
  PROVE  /\ BoundInv' /\ EndInv' /\ CreditInv' /\ QueueInv'
         /\ MarksSame /\ (Marked' <=> Marked) /\ \A q \in Proc : Marking(q)' <=> Marking(q)
<1>0. /\ TypeOK /\ BoundInv /\ EndInv /\ QueueInv /\ CreditInv
  BY DEF PipeInv
<1>1. UNCHANGED Claims
  BY <1>0, ClaimsSame DEF TypeOK, semaphores
<1>2. CreditInv' /\ QueueInv'
  BY <1>0, <1>1, QuietStep DEF TypeOK, Outer
<1>3. BoundInv'
  BY <1>0, BoundSame
<1>4. EndInv'
  BY <1>0, EndSame DEF Marking
<1>5. MarksSame /\ \A q \in Proc : Marking(q)' <=> Marking(q)
  BY DEF MarksSame, Marking
<1>6. Marked' <=> Marked
  BY DEF Marked, Size, Cell
<1> QED  BY <1>2, <1>3, <1>4, <1>5, <1>6

LEMMA DupStep ==
  ASSUME PipeInv, NEW p \in Proc, Dup(p)
  PROVE  PipeInv'
<1>0. TypeOK /\ ShapeInv /\ RefInv
  BY DEF PipeInv
<1>1. /\ InUser(p) /\ ends[p] \in 1 .. MaxEnds - 1 /\ writeRef' = writeRef + 1
      /\ ends' = [ends EXCEPT ![p] = @ + 1]
      /\ UNCHANGED <<semaphores, data, in, out, ended, cpu, calls, sent>>
      /\ UNCHANGED <<PipeSize, flag, broken, life, got, lost>>
  BY DEF Dup, WriteRefAfterDup, ring, traffic
<1>2. MaxEnds \in Nat /\ ends \in [Proc -> 0 .. MaxEnds] /\ writeRef \in Nat
  BY <1>0, BoundAssumption DEF TypeOK
<1>3. ends' \in [Proc -> 0 .. MaxEnds]
  BY <1>1, <1>2
<1>4. Total(ends', MaxEnds) = Total(ends, MaxEnds) + 1
  <2>1. /\ ends[p] \in Nat /\ ends'[p] = ends[p] + 1 /\ ends'[p] <= MaxEnds
        /\ \A q \in Proc \ {p} : ends'[q] = ends[q]
    BY <1>1, <1>2
  <2>2. Adds(ends, ends', p, 1, MaxEnds)
    BY <2>1 DEF Adds
  <2> QED  BY <1>2, <2>2, TotalGrows
<1>5. BoundInv' /\ EndInv' /\ CreditInv' /\ QueueInv'
      /\ (Marked' <=> Marked) /\ \A q \in Proc : Marking(q)' <=> Marking(q)
  BY <1>1, CallsSame
<1>6. RefInv'
  <2>1. life[p] = "live" /\ ~Marking(p) /\ ends[p] > 0
    BY <1>0, <1>1, <1>2, UserIs DEF Marking
  <2>2. ~Marked /\ writeRef = Total(ends, MaxEnds) /\ \A q \in Proc : ~Marking(q)
    BY <1>0, <2>1, EndHeld
  <2>3. Total(ends, MaxEnds)' = Total(ends', MaxEnds)
    BY DEF Total
  <2>4. writeRef' = Total(ends, MaxEnds)'
    BY <1>1, <1>4, <2>2, <2>3
  <2> QED  BY <1>5, <2>2, <2>4 DEF RefInv
<1>7. TypeOK'
  <2>1. writeRef' \in Nat
    BY <1>1, <1>2
  <2> QED  BY <1>0, <1>1, <1>3, <2>1 DEF TypeOK, semaphores
<1>8. ShapeInv'
  <2> SUFFICES ASSUME NEW q \in Proc PROVE Shape(q)'
    BY DEF ShapeInv
  <2>1. life[p] = "live"
    BY <1>1 DEF InUser
  <2>2. ends'[q] = IF q = p THEN ends[q] + 1 ELSE ends[q]
    BY <1>1, <1>2
  <2>3. ends[q] \in Nat
    BY <1>2
  <2>4. Shape(q)
    BY <1>0 DEF ShapeInv
  <2> QED  BY <1>1, <2>1, <2>2, <2>3, <2>4 DEF Shape, Outer
<1> QED  BY <1>5, <1>6, <1>7, <1>8 DEF PipeInv

LEMMA CloneStep ==
  ASSUME PipeInv, NEW p \in Proc, NEW c \in Child, Clone(p, c)
  PROVE  PipeInv'
<1>0. TypeOK /\ ShapeInv /\ RefInv
  BY DEF PipeInv
<1>1. /\ InUser(p) /\ life[c] = "unborn" /\ writeRef' = writeRef + ends[p]
      /\ life' = [life EXCEPT ![c] = "live"]
      /\ ends' = [ends EXCEPT ![c] = ends[p]]
      /\ UNCHANGED <<semaphores, data, in, out, ended, cpu, calls, sent>>
      /\ UNCHANGED <<PipeSize, flag, broken, got, lost>>
  BY DEF Clone, WriteRefAfterDup, ring, traffic
<1>2. /\ MaxEnds \in Nat /\ ends \in [Proc -> 0 .. MaxEnds] /\ writeRef \in Nat
      /\ c \in Proc /\ life \in [Proc -> {"unborn", "live", "zombie", "gone"}]
  BY <1>0, BoundAssumption, ProcAssumption DEF TypeOK
<1>3. ends' \in [Proc -> 0 .. MaxEnds] /\ writeRef' \in Nat
  BY <1>1, <1>2
<1>4. ends[c] = 0
  BY <1>0, <1>1, <1>2 DEF ShapeInv, Shape
<1>5. Total(ends', MaxEnds) = Total(ends, MaxEnds) + ends[p]
  <2>1. /\ ends[c] \in Nat /\ ends[p] \in Nat /\ ends'[c] = ends[c] + ends[p]
        /\ ends'[c] <= MaxEnds /\ \A q \in Proc \ {c} : ends'[q] = ends[q]
    BY <1>1, <1>2, <1>4
  <2>2. Adds(ends, ends', c, ends[p], MaxEnds)
    BY <2>1 DEF Adds
  <2> QED  BY <1>2, <2>2, TotalGrows
<1>6. BoundInv' /\ EndInv' /\ CreditInv' /\ QueueInv' /\ MarksSame
      /\ (Marked' <=> Marked) /\ \A q \in Proc : Marking(q)' <=> Marking(q)
  BY <1>1, CallsSame
<1>7. RefInv'
  <2>1. CASE ends[p] > 0
    <3>1. life[p] = "live" /\ ~Marking(p)
      BY <1>0, <1>1, UserIs DEF Marking
    <3>2. ~Marked /\ writeRef = Total(ends, MaxEnds) /\ \A q \in Proc : ~Marking(q)
      BY <1>0, <2>1, <3>1, EndHeld
    <3>3. Total(ends, MaxEnds)' = Total(ends', MaxEnds)
      BY DEF Total
    <3>4. writeRef' = Total(ends, MaxEnds)'
      BY <1>1, <1>5, <3>2, <3>3
    <3> QED  BY <1>6, <3>2, <3>4 DEF RefInv
  <2>2. CASE ends[p] = 0
    <3>1. writeRef' = writeRef
      BY <1>1, <1>2, <2>2
    <3>2. \A q \in Proc : ends'[q] = ends[q]
      BY <1>1, <1>2, <1>4, <2>2
    <3>3. LivesSame
      BY <1>1, <1>2 DEF LivesSame
    <3> QED  BY <1>0, <1>1, <1>6, <3>1, <3>2, <3>3, RefSame
  <2>3. ends[p] \in Nat
    BY <1>2
  <2> QED  BY <2>1, <2>2, <2>3
<1>8. TypeOK'
  BY <1>0, <1>1, <1>2, <1>3 DEF TypeOK, semaphores
<1>9. ShapeInv'
  <2> SUFFICES ASSUME NEW q \in Proc PROVE Shape(q)'
    BY DEF ShapeInv
  <2>1. Shape(q) /\ (q # c => ends'[q] = ends[q] /\ life'[q] = life[q])
        /\ (q = c => life'[q] = "live" /\ life[q] = "unborn")
    BY <1>0, <1>1, <1>2 DEF ShapeInv
  <2> QED  BY <1>1, <2>1 DEF Shape, Outer
<1> QED  BY <1>6, <1>7, <1>8, <1>9 DEF PipeInv

LEMMA ExitStep ==
  ASSUME PipeInv, NEW p \in Proc, Exit(p)
  PROVE  PipeInv'
<1>0. TypeOK /\ ShapeInv /\ RefInv
  BY DEF PipeInv
<1>1. /\ InUser(p) /\ life' = [life EXCEPT ![p] = "zombie"]
      /\ UNCHANGED <<semaphores, data, in, out, ended, cpu, calls, sent>>
      /\ UNCHANGED <<PipeSize, flag, broken, writeRef, ends, got, lost>>
  BY DEF Exit, ring, traffic
<1>2. Len(calls[p]) = 0
  BY <1>0, <1>1, UserIs
<1>3. BoundInv' /\ EndInv' /\ CreditInv' /\ QueueInv' /\ MarksSame /\ (Marked' <=> Marked)
  BY <1>1, CallsSame
<1>4. TypeOK'
  BY <1>0, <1>1 DEF TypeOK, semaphores
<1>6. RefInv'
  <2>1. ~Marking(p) /\ p = cpu
    BY <1>0, <1>1, <1>2, UserIs DEF Marking
  <2>2. LivesSame
    BY <1>0, <1>1, <2>1 DEF LivesSame, TypeOK
  <2> QED  BY <1>0, <1>1, <1>3, <2>2, RefSame
<1>5. ShapeInv'
  <2> SUFFICES ASSUME NEW q \in Proc PROVE Shape(q)'
    BY DEF ShapeInv
  <2>1. Shape(q) /\ (q # p => life'[q] = life[q]) /\ (q = p => life'[q] = "zombie")
    BY <1>0, <1>1 DEF ShapeInv, TypeOK
  <2> QED  BY <1>1, <1>2, <2>1 DEF Shape, Outer
<1> QED  BY <1>3, <1>4, <1>5, <1>6 DEF PipeInv

(***************************************************************************)
(* Closing n descriptors of z: its own, or those of a zombie, all of them. *)
(***************************************************************************)
Closes(z, n, by) ==
  /\ n <= ends[z] /\ Len(calls[z]) = 0 /\ AtSchedule
  /\ CloseEnds(z, n, by)
  /\ \/ z = cpu /\ life[z] = "live" /\ UNCHANGED life
     \/ /\ z # cpu /\ life[z] = "zombie" /\ n = ends[z]
        /\ life' = IF ends'[z] = 0 THEN [life EXCEPT ![z] = "gone"] ELSE life
  /\ by \in {"syscall", "Schedule"}
  /\ UNCHANGED <<semaphores, ring, cpu, broken, traffic>>

LEMMA ClosesKeeps ==
  ASSUME TypeOK, ShapeInv, NEW z \in Proc, NEW n \in Nat, NEW by, Closes(z, n, by),
         ends'[z] \in Nat, \A q \in Proc \ {z} : ends'[q] = ends[q]
  PROVE  /\ life' \in [Proc -> {"unborn", "live", "zombie", "gone"}]
         /\ \A q \in Proc \ {z} : life'[q] = life[q]
         /\ life'[cpu] = life[cpu] /\ life[cpu] \in {"live", "zombie"} /\ cpu \in Proc
         /\ \A q \in Proc : Len(calls[q]) > 0 => life'[q] = life[q] /\ ends'[q] = ends[q]
         /\ \A q \in Proc : life'[q] \in {"unborn", "gone"} => ends'[q] = 0
         /\ life[z] = "zombie" /\ z # cpu =>
              life'[z] = IF ends'[z] = 0 THEN "gone" ELSE "zombie"
<1>1. /\ life \in [Proc -> {"unborn", "live", "zombie", "gone"}] /\ cpu \in Proc
      /\ Len(calls[z]) = 0
  BY DEF TypeOK, Closes
<1>2. life[cpu] \in {"live", "zombie"}
  BY <1>1 DEF ShapeInv, Shape
<1>3. \A q \in Proc : life[q] \in {"unborn", "gone"} => ends[q] = 0
  BY DEF ShapeInv, Shape
<1>4. CASE z = cpu /\ life[z] = "live" /\ UNCHANGED life
  BY <1>1, <1>2, <1>3, <1>4
<1>5. CASE /\ z # cpu /\ life[z] = "zombie"
           /\ life' = IF ends'[z] = 0 THEN [life EXCEPT ![z] = "gone"] ELSE life
  <2>1. CASE ends'[z] = 0
    <3>1. life' = [life EXCEPT ![z] = "gone"]
      BY <1>5, <2>1
    <3> QED  BY <1>1, <1>2, <1>3, <1>5, <2>1, <3>1
  <2>2. CASE ends'[z] # 0
    <3>1. life' = life
      BY <1>5, <2>2
    <3> QED  BY <1>1, <1>2, <1>3, <1>5, <2>2, <3>1
  <2> QED  BY <2>1, <2>2
<1> QED  BY <1>4, <1>5 DEF Closes

(***************************************************************************)
(* The one that takes writeRef to 0: nobody has another descriptor, and    *)
(* the process on the CPU can enter the write of the marker.               *)
(***************************************************************************)
LEMMA LastOnes ==
  ASSUME PipeInv, NEW z \in Proc, NEW n \in Nat, n > 0, n <= ends[z], writeRef = n
  PROVE  /\ \A q \in Proc : ~Marking(q)
         /\ ~Marked /\ ends[z] = n /\ \A q \in Proc \ {z} : ends[q] = 0
<1>0. TypeOK /\ RefInv
  BY DEF PipeInv
<1>1. ends \in [Proc -> 0 .. MaxEnds] /\ MaxEnds \in Nat /\ ends[z] \in Nat
  BY <1>0, BoundAssumption DEF TypeOK
<1>2. ASSUME NEW q \in Proc, Marking(q) PROVE FALSE
  <2> DEFINE w == calls[q][1].of
  <2>1. MarkOK(q, w)
    BY <1>0, <1>2 DEF RefInv
  <2> HIDE DEF w
  <2>2. ends[z] # 0 /\ writeRef # 0
    BY <1>1
  <2>3. w = z
    BY <2>1, <2>2 DEF MarkOK
  <2> QED  BY <2>1, <2>2, <2>3 DEF MarkOK
<1>3. writeRef = Total(ends, MaxEnds) /\ (Marked => \A q \in Proc : ends[q] = 0)
  BY <1>0, <1>2 DEF RefInv
<1>4. /\ Total(ends, MaxEnds) >= ends[z]
      /\ \A q \in Proc \ {z} : Total(ends, MaxEnds) >= ends[z] + ends[q]
  BY <1>1, TotalAtLeast
<1>5. ends[z] = n
  BY <1>1, <1>3, <1>4
<1>6. ASSUME NEW q \in Proc \ {z} PROVE ends[q] = 0
  <2>1. ends[q] \in Nat
    BY <1>1
  <2> QED  BY <1>1, <1>3, <1>4, <1>5, <2>1
<1>7. ~Marked
  BY <1>1, <1>3
<1> QED  BY <1>2, <1>5, <1>6, <1>7

LEMMA MarkMayEnter ==
  ASSUME PipeInv, AtSchedule, NEW z \in Proc, Len(calls[z]) = 0,
         \A q \in Proc : ~Marking(q), \A q \in Proc \ {z} : ends[q] = 0,
         NEW c, c.op = "mark"
  PROVE  MayEnter(cpu, c)
<1> DEFINE p == cpu
           s == calls[p]
<1>0. TypeOK /\ ShapeInv /\ p \in Proc
  BY DEF PipeInv, TypeOK
<1>1. s \in Seq(Call)
  BY <1>0 DEF TypeOK
<1>2. CASE Len(s) > 0
  <2>1. Len(s) \in Nat /\ s # <<>> /\ Call0(p) = s[1] /\ s[1] \in Call
    BY <1>1, <1>2, StackFacts DEF Call0
  <2>2. s[1].at = "slept" /\ s[1].op \in {"read", "write", "mark"}
    BY <2>1 DEF AtSchedule, Call
  <2>3. Len(s) = 1
    <3>1. StackOK(s)
      BY <1>0 DEF ShapeInv, Shape
    <3>2. Len(s) <= 2 /\ Len(s) # 2
      BY <2>2, <3>1 DEF StackOK
    <3> DEFINE l == Len(s)
    <3>3. l \in Nat /\ l > 0 /\ l # 2 /\ l <= 2
      BY <1>2, <2>1, <3>2
    <3> HIDE DEF l
    <3>4. l = 1
      BY <3>3
    <3> QED  BY <3>4 DEF l
  <2>4. s[1].op # "mark"
    BY <1>0, <1>2 DEF Marking
  <2>5. s[1].op # "write"
    <3>1. p # z
      BY <1>2
    <3>2. Outer(p) = s[1]
      BY <2>3 DEF Outer
    <3>3. s[1].op = "write" => ends[p] > 0
      BY <1>0, <1>2, <3>2 DEF ShapeInv, Shape
    <3>4. ends[p] = 0
      BY <1>0, <3>1
    <3> QED  BY <3>3, <3>4
  <2> QED  BY <2>2, <2>3, <2>4, <2>5 DEF MayEnter
<1>3. CASE ~(Len(s) > 0)
  <2>1. Len(s) \in Nat
    BY <1>1, StackFacts
  <2> QED  BY <1>3, <2>1 DEF MayEnter
<1> QED  BY <1>2, <1>3

LEMMA CloseLastStep ==
  ASSUME PipeInv, NEW z \in Proc, NEW n \in Nat, NEW by, Closes(z, n, by),
         n > 0, LastEnds(n)
  PROVE  PipeInv'
<1>p. PICK p \in Proc : p = cpu
  BY DEF PipeInv, TypeOK
<1> DEFINE c == NewCall("mark", 1, z, by)
<1>0. /\ TypeOK /\ ShapeInv /\ RefInv /\ BoundInv /\ EndInv /\ QueueInv /\ CreditInv
  BY DEF PipeInv
<1>1. /\ c \in Call /\ CallOK(c) /\ c.at = "head" /\ c.op = "mark" /\ c.i = 0 /\ c.of = z
  BY DEF NewCall, Call, CallOK, Closes
<1>2. /\ UNCHANGED <<semaphores, data, in, out, ended, cpu, sent>>
      /\ UNCHANGED <<PipeSize, flag, broken, got, lost>>
  BY DEF Closes, ring, traffic
<1>3. /\ writeRef = n /\ writeRef' = Less(writeRef, n) /\ Enter(p, c)
      /\ ends' = [ends EXCEPT ![z] = @ - n + 1]
      /\ n <= ends[z] /\ Len(calls[z]) = 0 /\ AtSchedule
  BY <1>p DEF Closes, CloseEnds, LastEnds
<1> HIDE DEF c
<1>4. /\ \A q \in Proc : ~Marking(q)
      /\ ~Marked /\ ends[z] = n /\ \A q \in Proc \ {z} : ends[q] = 0
  BY <1>3, LastOnes
<1>5. /\ ends \in [Proc -> 0 .. MaxEnds] /\ MaxEnds \in Nat /\ MaxEnds >= 1
      /\ calls \in [Proc -> Seq(Call)]
  BY <1>0, BoundAssumption DEF TypeOK
<1>6. /\ ends' \in [Proc -> 0 .. MaxEnds] /\ ends'[z] = 1
      /\ \A q \in Proc \ {z} : ends'[q] = ends[q] /\ ends'[q] = 0
  <2>1. ends[z] - n + 1 = 1
    BY <1>4
  <2> QED  BY <1>3, <1>4, <1>5, <2>1
<1>7. writeRef' = 0
  BY <1>3 DEF Less
<1>8. /\ life' \in [Proc -> {"unborn", "live", "zombie", "gone"}]
      /\ life'[p] = life[p]
      /\ \A q \in Proc : Len(calls[q]) > 0 => life'[q] = life[q] /\ ends'[q] = ends[q]
      /\ \A q \in Proc : life'[q] \in {"unborn", "gone"} => ends'[q] = 0
      /\ life[z] = "zombie" /\ z # cpu =>
              life'[z] = IF ends'[z] = 0 THEN "gone" ELSE "zombie"
      /\ \A q \in Proc \ {z} : life'[q] = life[q]
  <2>1. ends'[z] \in Nat /\ \A q \in Proc \ {z} : ends'[q] = ends[q]
    BY <1>6
  <2> QED  BY <1>p, <1>0, <2>1, ClosesKeeps
<1>9. MayEnter(p, c)
  BY <1>p, <1>1, <1>3, <1>4, MarkMayEnter
<1>10. /\ calls' \in [Proc -> Seq(Call)]
       /\ \A q \in Proc \ {p} : calls'[q] = calls[q]
       /\ Len(calls'[p]) = Len(calls[p]) + 1 /\ Len(calls[p]) \in Nat
       /\ calls'[p][1] = c
  BY <1>0, <1>1, <1>3, <1>5, EnterEffect, StackFacts
<1>11. TypeOK'
  BY <1>0, <1>2, <1>6, <1>7, <1>8, <1>10 DEF TypeOK, semaphores
<1>12. ShapeInv'
  <2>1. \A q \in Proc : Len(calls[q]) > 0 /\ Outer(q).op = "write" => ends'[q] > 0
    BY <1>0, <1>8 DEF ShapeInv, Shape
  <2>2. p = cpu /\ UNCHANGED cpu
    BY <1>p, <1>2
  <2> QED  BY <1>0, <1>1, <1>3, <1>8, <1>9, <2>1, <2>2, EnterShape
<1>13. BoundInv'
  BY <1>0, <1>1, <1>2, <1>3, <1>9, EnterBound
<1>14. \A q \in Proc : Marking(q)' <=> q = p
  BY <1>1, <1>4, <1>10 DEF Marking
<1>15. EndInv'
  <2>1. Size' = Size /\ (Marked' <=> Marked) /\ \A k : Cell(k)' = Cell(k)
    BY <1>2 DEF Size, Marked, Cell
  <2>2. ~ended
    BY <1>0, <1>4 DEF EndInv
  <2> QED  BY <1>0, <1>1, <1>2, <1>4, <1>10, <1>14, <2>1, <2>2 DEF EndInv
<1>16. RefInv'
  <2>1. \/ z = p /\ life'[z] = "live"
        \/ z # p /\ z # cpu' /\ life'[z] = "zombie"
    BY <1>p, <1>0, <1>2, <1>6, <1>8 DEF Closes
  <2>2. MarkOK(p, z)'
    <3>1. z \in Proc /\ \A q \in Proc \ {z} : ends'[q] = 0
      BY <1>6
    <3>2. CASE z = p /\ life'[z] = "live"
      BY <1>p, <1>6, <1>7, <3>1, <3>2 DEF MarkOK
    <3>3. CASE z # p /\ z # cpu' /\ life'[z] = "zombie"
      BY <1>p, <1>2, <1>6, <1>7, <3>1, <3>3 DEF MarkOK
    <3> QED  BY <2>1, <3>2, <3>3
  <2>3. ASSUME NEW q \in Proc, Marking(q)' PROVE MarkOK(q, calls[q][1].of)'
    <3>1. q = p /\ calls'[q][1].of = z
      BY <1>1, <1>10, <1>14, <2>3
    <3>2. cpu' = cpu
      BY <1>2
    <3> QED  BY <1>p, <2>2, <3>1, <3>2 DEF MarkOK
  <2>4. ~(\A q \in Proc : ~Marking(q)')
    BY <1>0, <1>14
  <2> QED  BY <2>3, <2>4 DEF RefInv
<1>17. CreditInv' /\ QueueInv'
  BY <1>p, <1>0, <1>1, <1>2, <1>3, EnterQuiet
<1> QED  BY <1>11, <1>12, <1>13, <1>15, <1>16, <1>17 DEF PipeInv

(***************************************************************************)
(* The others.  The one that closes the last descriptor of a zombie again, *)
(* while its marker is being written, counts below 0.                      *)
(***************************************************************************)
LEMMA CloseMoreStep ==
  ASSUME PipeInv, NEW z \in Proc, NEW n \in Nat, NEW by, Closes(z, n, by),
         ~(n > 0 /\ LastEnds(n))
  PROVE  PipeInv'
<1>0. TypeOK /\ ShapeInv /\ RefInv
  BY DEF PipeInv
<1>1. /\ UNCHANGED <<semaphores, data, in, out, ended, cpu, sent, calls>>
      /\ UNCHANGED <<PipeSize, flag, broken, got, lost>>
      /\ writeRef' = Less(writeRef, n) /\ ends' = [ends EXCEPT ![z] = @ - n]
      /\ n <= ends[z] /\ Len(calls[z]) = 0
  BY DEF Closes, CloseEnds, ring, traffic
<1>2. /\ ends \in [Proc -> 0 .. MaxEnds] /\ MaxEnds \in Nat /\ writeRef \in Nat
      /\ ends[z] \in Nat
  BY <1>0, BoundAssumption DEF TypeOK
<1>3. /\ ends' \in [Proc -> 0 .. MaxEnds] /\ ends'[z] = ends[z] - n /\ ends'[z] \in Nat
      /\ \A q \in Proc \ {z} : ends'[q] = ends[q]
  <2>1. ends[z] - n \in 0 .. MaxEnds
    BY <1>1, <1>2
  <2> QED  BY <1>1, <1>2, <2>1
<1>4. /\ life' \in [Proc -> {"unborn", "live", "zombie", "gone"}]
      /\ \A q \in Proc \ {z} : life'[q] = life[q]
      /\ life'[cpu] = life[cpu]
      /\ \A q \in Proc : Len(calls[q]) > 0 => life'[q] = life[q] /\ ends'[q] = ends[q]
      /\ \A q \in Proc : life'[q] \in {"unborn", "gone"} => ends'[q] = 0
      /\ life[z] = "zombie" /\ z # cpu =>
              life'[z] = IF ends'[z] = 0 THEN "gone" ELSE "zombie"
  BY <1>0, <1>3, ClosesKeeps
<1>5. /\ BoundInv' /\ EndInv' /\ CreditInv' /\ QueueInv' /\ MarksSame
      /\ (Marked' <=> Marked) /\ \A q \in Proc : Marking(q)' <=> Marking(q)
  BY <1>1, CallsSame
<1>6. ShapeInv'
  <2> SUFFICES ASSUME NEW q \in Proc PROVE Shape(q)'
    BY DEF ShapeInv
  <2>1. Shape(q)
    BY <1>0 DEF ShapeInv
  <2> QED  BY <1>1, <1>4, <2>1 DEF Shape, Outer
<1>7. writeRef' \in Nat /\ RefInv'
  <2>1. CASE n = 0
    <3>1. writeRef' = writeRef
      BY <1>1, <1>2, <2>1 DEF Less
    <3>2. \A q \in Proc : ends'[q] = ends[q]
      BY <1>2, <1>3, <2>1
    <3>3. LivesSame
      <4>1. life'[z] = life[z] \/ (life[z] = "zombie" /\ ends[z] = 0)
        BY <2>1 DEF Closes
      <4> QED  BY <1>4, <4>1 DEF LivesSame
    <3> QED  BY <1>0, <1>1, <1>2, <1>5, <3>1, <3>2, <3>3, RefSame
  <2>2. CASE n > 0 /\ \A q \in Proc : ~Marking(q)
    <3>1. writeRef = Total(ends, MaxEnds) /\ (Marked => \A q \in Proc : ends[q] = 0)
      BY <1>0, <2>2 DEF RefInv
    <3>2. ~Marked
      BY <1>1, <1>2, <2>2, <3>1
    <3>3. Total(ends, MaxEnds) = Total(ends', MaxEnds) + n
      <4>1. ends'[z] \in Nat /\ ends[z] = ends'[z] + n /\ ends[z] <= MaxEnds
        BY <1>1, <1>2, <1>3
      <4>2. Adds(ends', ends, z, n, MaxEnds)
        BY <1>3, <4>1 DEF Adds
      <4> QED  BY <1>2, <4>2, TotalGrows
    <3>4. Total(ends', MaxEnds) \in Nat
      BY <1>2, TotalType
    <3>5. writeRef' = Total(ends', MaxEnds)
      BY <1>1, <1>2, <3>1, <3>3, <3>4 DEF Less
    <3>6. Total(ends, MaxEnds)' = Total(ends', MaxEnds)
      BY DEF Total
    <3> QED  BY <1>5, <2>2, <3>2, <3>4, <3>5, <3>6 DEF RefInv
  <2>3. CASE n > 0 /\ \E q \in Proc : Marking(q)
    <3>1. PICK q \in Proc : Marking(q)
      BY <2>3
    <3> DEFINE w == calls[q][1].of
    <3>2. MarkOK(q, w)
      BY <1>0, <3>1 DEF RefInv
    <3>3. ends[z] # 0 /\ q # z
      BY <1>1, <1>2, <2>3, <3>1 DEF Marking
    <3>4. w = z /\ z # cpu /\ life[z] = "zombie" /\ ends[z] = 1 /\ writeRef = 0
          /\ \A r \in Proc \ {z} : ends[r] = 0
      <4> HIDE DEF w
      <4>1. w = z
        BY <3>2, <3>3 DEF MarkOK
      <4> QED  BY <3>2, <3>3, <4>1 DEF MarkOK
    <3>5. n = 1
      BY <1>1, <2>3, <3>4
    <3>6. writeRef' = RefWidth - 1 /\ writeRef' \in Nat
      <4>1. RefWidth \in Nat /\ RefWidth >= 1
        <5>1. Cardinality(Proc) \in Nat
          BY ProcAssumption, FS_CardinalityType
        <5>2. Cardinality(Proc) * MaxEnds \in Nat
          BY <1>2, <5>1
        <5> QED  BY <5>2, WidthAssumption
      <4>2. writeRef' = 0 - 1 + RefWidth
        BY <1>1, <3>4, <3>5 DEF Less
      <4> QED  BY <4>1, <4>2
    <3>7. ends'[z] = 0 /\ life'[z] = "gone" /\ \A r \in Proc \ {z} : ends'[r] = 0
      BY <1>3, <1>4, <3>4, <3>5
    <3>8. MarkOK(q, z)'
      BY <1>1, <3>3, <3>4, <3>6, <3>7 DEF MarkOK
    <3>9. ASSUME NEW r \in Proc, Marking(r)' PROVE MarkOK(r, calls[r][1].of)'
      <4>1. Marking(r)
        BY <1>5, <3>9
      <4>2. r = q
        BY <3>1, <4>1 DEF PipeInv, EndInv
      <4>3. calls'[r][1].of = z
        BY <1>1, <3>4, <4>2
      <4> HIDE DEF w
      <4> QED  BY <3>8, <4>2, <4>3 DEF MarkOK
    <3>10. ~(\A r \in Proc : ~Marking(r)')
      BY <1>5, <3>1
    <3> QED  BY <3>6, <3>9, <3>10 DEF RefInv
  <2> QED  BY <2>1, <2>2, <2>3
<1>8. TypeOK'
  BY <1>0, <1>1, <1>3, <1>4, <1>7 DEF TypeOK, semaphores
<1> QED  BY <1>5, <1>6, <1>7, <1>8 DEF PipeInv

LEMMA ClosesStep ==
  ASSUME PipeInv, NEW z \in Proc, NEW n \in Nat, NEW by, Closes(z, n, by)
  PROVE  PipeInv'
BY CloseLastStep, CloseMoreStep

LEMMA CloseStep ==
  ASSUME PipeInv, NEW p \in Proc, Close(p)
  PROVE  PipeInv'
<1>0. TypeOK
  BY DEF PipeInv
<1>1. /\ InUser(p) /\ ends[p] > 0 /\ CloseEnds(p, 1, "syscall")
      /\ UNCHANGED <<semaphores, ring, life, cpu, broken, traffic>>
  BY DEF Close
<1>2. p = cpu /\ life[p] = "live" /\ Len(calls[p]) = 0
  BY <1>0, <1>1, UserIs
<1>3. 1 <= ends[p] /\ 1 \in Nat
  BY <1>0, <1>1, BoundAssumption DEF TypeOK
<1>4. AtSchedule
  BY <1>1, <1>2 DEF AtSchedule, InUser
<1>5. Closes(p, 1, "syscall")
  BY <1>1, <1>2, <1>3, <1>4 DEF Closes
<1> QED  BY <1>3, <1>5, ClosesStep

LEMMA DestroyStep ==
  ASSUME PipeInv, NEW z \in Proc, NEW by \in {"syscall", "Schedule"},
         Destroy(z, by), AtSchedule, z # cpu
  PROVE  PipeInv'
<1>0. TypeOK /\ ShapeInv
  BY DEF PipeInv
<1>1. /\ life[z] = "zombie" /\ CloseEnds(z, ends[z], by)
      /\ life' = (IF ends'[z] = 0 THEN [life EXCEPT ![z] = "gone"] ELSE life)
      /\ UNCHANGED <<semaphores, ring, cpu, broken, traffic>>
  BY DEF Destroy
<1>2. ends[z] \in Nat /\ calls[z] \in Seq(Call)
  BY <1>0, BoundAssumption DEF TypeOK
<1>3. Len(calls[z]) = 0
  BY <1>0, <1>1, <1>2, StackFacts DEF ShapeInv, Shape
<1>4. Closes(z, ends[z], by)
  BY <1>1, <1>2, <1>3 DEF Closes
<1> QED  BY <1>2, <1>4, ClosesStep

LEMMA ReapStep ==
  ASSUME PipeInv, NEW z \in Proc, Reap(z)
  PROVE  PipeInv'
BY DestroyStep DEF Reap

LEMMA Wait4Step ==
  ASSUME PipeInv, NEW p \in Proc, NEW z \in Proc, Wait4(p, z)
  PROVE  PipeInv'
<1>1. /\ InUser(p) /\ Destroy(z, "syscall") /\ life[z] = "zombie"
  BY DEF Wait4, Destroy
<1>2. z # cpu /\ AtSchedule
  BY <1>1 DEF InUser, AtSchedule
<1> QED  BY <1>1, <1>2, DestroyStep

(***************************************************************************)
(* Switching to a process: of the calls on the stacks it only finds ones   *)
(* asleep behind a wait, and it wakes nobody.                              *)
(***************************************************************************)
LEMMA ScheduleIs ==
  ASSUME TypeOK, ShapeInv, AtSchedule, NEW p \in Proc, Len(calls[p]) > 0
  PROVE  Len(calls[p]) = 1 /\ calls[p][1].at = "slept"
<1> DEFINE s == calls[p]
<1>1. s \in Seq(Call) /\ Len(s) \in Nat /\ s # <<>> /\ Call0(p) = s[1]
  BY StackFacts DEF TypeOK, Call0
<1>2. CASE p = cpu
  <2>1. s[1].at = "slept"
    BY <1>1, <1>2 DEF AtSchedule
  <2>2. StackOK(s)
    BY DEF ShapeInv, Shape
  <2>3. Len(s) <= 2 /\ (Len(s) = 2 => s[1].at # "slept")
    BY <2>2 DEF StackOK
  <2> DEFINE l == Len(s)
  <2>4. l \in Nat /\ l > 0 /\ l # 2 /\ l <= 2
    BY <1>1, <2>1, <2>3
  <2> HIDE DEF l
  <2>5. l = 1
    BY <2>4
  <2> QED  BY <2>1, <2>5 DEF l
<1>3. CASE p # cpu
  BY <1>3 DEF ShapeInv, Shape
<1> QED  BY <1>2, <1>3

LEMMA SwitchStep ==
  ASSUME PipeInv, NEW p \in Proc, Switch(p)
  PROVE  PipeInv'
<1>0. /\ TypeOK /\ ShapeInv /\ RefInv /\ BoundInv /\ EndInv /\ QueueInv
      /\ CreditInv
  BY DEF PipeInv
<1>1. /\ AtSchedule /\ p \notin asleep /\ life[p] = "live" /\ cpu' = p
      /\ UNCHANGED <<semaphores, data, in, out, ended, sent, writeRef, ends, life>>
      /\ UNCHANGED <<PipeSize, flag, broken, got, lost>>
  BY DEF Switch, ring, owners, traffic
<1>2. calls \in [Proc -> Seq(Call)] /\ asleep \subseteq Proc
  BY <1>0 DEF TypeOK
<1>3. \A q \in Proc : Len(calls[q]) \in Nat /\ (calls[q] = <<>> <=> Len(calls[q]) = 0)
  BY <1>2, StackFacts
<1>4. \A q \in Proc : Len(calls[q]) > 0 => Len(calls[q]) = 1 /\ calls[q][1].at = "slept"
  BY <1>0, <1>1, ScheduleIs
<1> DEFINE c == [calls[p][1] EXCEPT !.at = "waited"]
<1>5. CASE Len(calls[p]) = 0
  <2>1. UNCHANGED calls
    BY <1>3, <1>5 DEF Switch, Resumed
  <2>2. TypeOK'
    BY <1>0, <1>1, <2>1 DEF TypeOK, semaphores
  <2>3. ShapeInv'
    BY <1>0, <1>1, <1>4, <2>1 DEF ShapeInv, Shape, Outer
  <2>4. RefInv'
    <3>1. MarksSame /\ LivesSame
      BY <1>1, <2>1 DEF MarksSame, Marking, LivesSame
    <3>2. Marked' <=> Marked
      BY <1>1 DEF Marked, Size, Cell
    <3> QED  BY <1>0, <1>1, <3>1, <3>2, RefSame
  <2>5. BoundInv'
    BY <1>0, <1>1, <2>1, BoundSame
  <2>6. EndInv'
    BY <1>0, <1>1, <2>1, EndSame DEF Marking
  <2>7. UNCHANGED Claims
    BY <1>1, <1>2, <2>1, ClaimsSame DEF semaphores
  <2>8. CreditInv' /\ QueueInv'
    <3>1. cpu \in Proc
      BY <1>0 DEF TypeOK
    <3> QED  BY <1>0, <1>1, <1>5, <2>1, <2>7, <3>1, QuietStep
  <2> QED  BY <2>2, <2>3, <2>4, <2>5, <2>6, <2>8 DEF PipeInv
<1>6. CASE Len(calls[p]) > 0
  <2>1. /\ Len(calls[p]) = 1 /\ calls[p][1] \in Call /\ calls[p][1].at = "slept"
        /\ Call0(p) = calls[p][1]
    BY <1>2, <1>4, <1>6, StackFacts DEF Call0
  <2>2. /\ c \in Call /\ c.at = "waited" /\ c.op = calls[p][1].op
        /\ c.i = calls[p][1].i /\ c.size = calls[p][1].size /\ c.buf = calls[p][1].buf
        /\ c.of = calls[p][1].of
    BY <2>1 DEF Call
  <2>3. Go(p, c)
    BY <1>3, <1>6, <2>1 DEF Switch, Resumed, Go
  <2> HIDE DEF c
  <2>4. /\ calls' \in [Proc -> Seq(Call)] /\ \A q \in Proc \ {p} : calls'[q] = calls[q]
        /\ Len(calls'[p]) = 1 /\ calls'[p][1] = c
    BY <1>2, <1>6, <2>1, <2>2, <2>3, GoEffect
  <2>5. TypeOK'
    BY <1>0, <1>1, <2>4 DEF TypeOK, semaphores
  <2>6. ShapeInv'
    <3>1. Shape(p) /\ StackOK(calls[p]) /\ CallOK(calls[p][1])
      BY <1>0, <2>1 DEF ShapeInv, Shape, StackOK
    <3>2. CallOK(c)
      <4>1. c.op # "read" => c.i < c.size
        BY <2>1, <2>2, <3>1 DEF CallOK
      <4> QED  BY <2>2, <3>1, <4>1 DEF CallOK
    <3>3. StackOK(calls'[p])
      BY <2>4, <3>2 DEF StackOK
    <3>4. Shape(p)'
      BY <1>1, <2>1, <2>2, <2>4, <3>1, <3>3 DEF Shape, Outer
    <3>5. ASSUME NEW q \in Proc, q # p PROVE Shape(q)'
      BY <1>0, <1>1, <1>4, <2>4, <3>5 DEF ShapeInv, Shape, Outer
    <3> QED  BY <3>4, <3>5 DEF ShapeInv
  <2>7. RefInv'
    <3>1. MarksSame
      <4>1. /\ Marking(p)' <=> Marking(p)
            /\ calls'[p][1].of = calls[p][1].of
        BY <2>1, <2>2, <2>4 DEF Marking
      <4> QED  BY <2>4, <4>1 DEF MarksSame, Marking
    <3>2. LivesSame
      BY <1>1 DEF LivesSame
    <3>3. Marked' <=> Marked
      BY <1>1 DEF Marked, Size, Cell
    <3> QED  BY <1>0, <1>1, <3>1, <3>2, <3>3, RefSame
  <2>8. BoundInv'
    <3>1. PromisedBy(calls'[p]) = IF c.op = "write" THEN c.size - c.i ELSE 0
      <4> DEFINE t == calls'[p]
      <4>1. t \in Seq(Call) /\ Len(t) = 1 /\ t[1] = c
        BY <2>4
      <4> HIDE DEF t
      <4>2. PromisedBy(t) = IF t[1].op = "write" THEN t[1].size - t[1].i ELSE 0
        BY <4>1, PromisedByTop
      <4> QED  BY <4>1, <4>2 DEF t
    <3>2. PromisedBy(calls[p]) = PromisedBy(calls'[p])
      <4>1. calls[p] \in Seq(Call)
        BY <1>2
      <4> QED  BY <2>1, <2>2, <3>1, <4>1, PromisedByIs
    <3> QED  BY <1>0, <1>1, <2>4, <3>2, BoundSame
  <2>9. EndInv'
    <3>1. \A q \in Proc : Marking(q)' => Marking(q) /\ calls'[q][1].i = calls[q][1].i
      BY <2>1, <2>2, <2>4 DEF Marking
    <3> QED  BY <1>0, <1>1, <3>1, EndSame
  <2>10. UNCHANGED Claims
    <3>1. UNCHANGED asleep
      BY <1>1 DEF semaphores
    <3>2. /\ \A q \in Proc \ {p} : \A ops, where : In(q, ops, where)' <=> In(q, ops, where)
          /\ \A ops : In(p, ops, {"slept", "waited"})' <=> In(p, ops, {"slept", "waited"})
      <4>1. calls[p] \in Seq(Call) /\ calls'[p] \in Seq(Call)
        BY <1>2, <2>4
      <4>2. \A ops : Within(calls'[p], ops, {"slept", "waited"})
                       <=> Within(calls[p], ops, {"slept", "waited"})
        BY <2>1, <2>2, <2>4, <4>1, WithinIs
      <4> QED  BY <2>4, <4>2 DEF In, Within
    <3>3. Takers' = Takers /\ Putters' = Putters
      BY <3>2 DEF Takers, Putters
    <3>4. FullSleepers' = FullSleepers /\ EmptySleepers' = EmptySleepers
      BY <1>1, <1>2, <3>1, <3>2 DEF FullSleepers, EmptySleepers, Sleepers
    <3> QED  BY <3>3, <3>4 DEF Claims
  <2>11. CreditInv' /\ QueueInv'
    <3>1. cpu \in Proc
      BY <1>0 DEF TypeOK
    <3> QED  BY <1>0, <1>1, <2>2, <2>4, <2>10, <3>1, QuietStep
  <2> QED  BY <2>5, <2>6, <2>7, <2>8, <2>9, <2>11 DEF PipeInv
<1> QED  BY <1>3, <1>5, <1>6

(***************************************************************************)
(* Returning from a call.                                                  *)
(***************************************************************************)
LEMMA LeaveStep ==
  ASSUME PipeInv, NEW p \in Proc, NEW ops, Doing(p, ops, "head"), Leave(p),
         Call0(p).op = "write" => Call0(p).i = Call0(p).size,
         UNCHANGED <<semaphores, data, in, out, ended, cpu, sent>>,
         \A q \in Proc : Len(calls[q]) > 0 =>
             life'[q] = life[q] /\ (Outer(q).op = "write" => ends'[q] > 0),
         \A q \in Proc : life'[q] \in {"unborn", "gone"} => ends'[q] = 0
  PROVE  /\ calls' \in [Proc -> Seq(Call)]
         /\ ShapeInv' /\ BoundInv' /\ EndInv' /\ QueueInv' /\ CreditInv'
         /\ ~Marking(p)' /\ \A q \in Proc \ {p} : calls'[q] = calls[q]
<1>0. /\ TypeOK /\ ShapeInv /\ BoundInv /\ EndInv /\ QueueInv /\ CreditInv
  BY DEF PipeInv
<1> DEFINE s == calls[p]
           t == calls'[p]
<1>1. calls \in [Proc -> Seq(Call)] /\ asleep \subseteq Proc /\ UNCHANGED asleep
  BY <1>0 DEF TypeOK, semaphores
<1>2. p = cpu /\ Len(s) \in Nat /\ Len(s) > 0 /\ Call0(p) = s[1] /\ s[1].at = "head"
      /\ s[1] \in Call
  BY <1>1, DoingIs
<1>3. /\ calls' \in [Proc -> Seq(Call)] /\ \A q \in Proc \ {p} : calls'[q] = calls[q]
      /\ Len(t) = Len(s) - 1 /\ \A k \in 1 .. Len(s) - 1 : t[k] = s[k + 1]
  BY <1>1, <1>2, LeaveEffect
<1>4. StackOK(s) /\ Len(s) <= 2
  BY <1>0 DEF ShapeInv, Shape, StackOK
<1>5. s \in Seq(Call) /\ t \in Seq(Call)
  BY <1>1, <1>3
<1>6. \/ Len(s) = 1 /\ Len(t) = 0
      \/ Len(s) = 2 /\ Len(t) = 1 /\ t[1] = s[2] /\ s[2].op = "read"
  <2> HIDE DEF s, t
  <2>1. Len(s) = 1 \/ Len(s) = 2
    <3> DEFINE l == Len(s)
    <3>1. l \in Nat /\ l > 0 /\ l <= 2
      BY <1>2, <1>4
    <3> HIDE DEF l
    <3>2. l = 1 \/ l = 2
      BY <3>1
    <3> QED  BY <3>2 DEF l
  <2>2. Len(s) = 2 => s[2].op = "read"
    BY <1>4 DEF StackOK
  <2> QED  BY <1>3, <2>1, <2>2
<1>7. Shape(p)'
  <2>1. Shape(p) /\ life'[p] = life[p] /\ UNCHANGED cpu
    BY <1>0, <1>2 DEF ShapeInv
  <2>2. CASE Len(t) = 0
    <3>1. StackOK(t)
      BY <2>2 DEF StackOK
    <3> QED  BY <2>1, <2>2, <3>1 DEF Shape
  <2>3. CASE Len(s) = 2 /\ Len(t) = 1 /\ t[1] = s[2] /\ s[2].op = "read"
    <3>1. CallOK(s[2])
      BY <1>4, <2>3 DEF StackOK
    <3>2. StackOK(t)
      BY <2>3, <3>1 DEF StackOK
    <3>3. t[Len(t)] = s[Len(s)] /\ s[Len(s)].op = "read"
      BY <2>3
    <3> QED  BY <1>2, <2>1, <2>3, <3>2, <3>3 DEF Shape, Outer
  <2> QED  BY <1>6, <2>2, <2>3
<1>8. ShapeInv'
  <2>1. ASSUME NEW q \in Proc, q # p PROVE Shape(q)'
    BY <1>0, <1>2, <1>3, <2>1 DEF ShapeInv, Shape, Outer
  <2> QED  BY <1>7, <2>1 DEF ShapeInv
<1>10. BoundInv'
  <2>1. PromisedBy(t) = 0
    BY <1>5, <1>6, PromisedByIs
  <2>2. PromisedBy(s) = 0
    <3>1. CASE Len(s) = 1
      <4>1. s[1] \in Call
        BY <1>2
      <4>2. s[1].op = "write" => s[1].size - s[1].i = 0
        BY <1>2, <4>1 DEF Call
      <4> QED  BY <1>5, <3>1, <4>2, PromisedByIs
    <3>2. CASE Len(s) = 2 /\ s[2].op = "read"
      BY <1>5, <3>2, PromisedByIs
    <3> QED  BY <1>6, <3>1, <3>2
  <2> QED  BY <1>0, <1>3, <2>1, <2>2, BoundSame
<1>11. ~Marking(p)'
  BY <1>6 DEF Marking
<1>12. EndInv'
  <2>1. \A q \in Proc : Marking(q)' => Marking(q) /\ calls'[q][1].i = calls[q][1].i
    BY <1>3, <1>11 DEF Marking
  <2> QED  BY <1>0, <2>1, EndSame
<1>13. CreditInv' /\ QueueInv'
  <2>1. UNCHANGED Claims
    BY <1>1, <1>2, LeaveClaims
  <2>2. Len(t) > 0 => Len(s) > 0 /\ t[Len(t)] = s[Len(s)]
    BY <1>6
  <2> QED  BY <1>0, <1>2, <2>1, <2>2, QuietStep DEF Outer
<1> QED  BY <1>3, <1>8, <1>10, <1>11, <1>12, <1>13

LEMMA LeaveCallStep ==
  ASSUME PipeInv, NEW p \in Proc, NEW ops, Doing(p, ops, "head"), Leave(p),
         "mark" \notin ops, Call0(p).op = "write" => Call0(p).i = Call0(p).size,
         UNCHANGED <<semaphores, data, in, out, ended, cpu, sent, writeRef, ends, life>>
  PROVE  /\ calls' \in [Proc -> Seq(Call)]
         /\ ShapeInv' /\ RefInv' /\ BoundInv' /\ EndInv' /\ QueueInv' /\ CreditInv'
<1>0. TypeOK /\ ShapeInv /\ RefInv
  BY DEF PipeInv
<1>1. /\ \A q \in Proc : Len(calls[q]) > 0 =>
             life'[q] = life[q] /\ (Outer(q).op = "write" => ends'[q] > 0)
      /\ \A q \in Proc : life'[q] \in {"unborn", "gone"} => ends'[q] = 0
  BY <1>0 DEF ShapeInv, Shape
<1>2. /\ calls' \in [Proc -> Seq(Call)]
      /\ ShapeInv' /\ BoundInv' /\ EndInv' /\ QueueInv' /\ CreditInv'
      /\ ~Marking(p)' /\ \A q \in Proc \ {p} : calls'[q] = calls[q]
  BY <1>1, LeaveStep
<1>3. calls[p][1].op # "mark"
  BY <1>0, DoingIs DEF TypeOK
<1>4. MarksSame /\ LivesSame
  BY <1>2, <1>3 DEF MarksSame, LivesSame, Marking
<1>5. Marked' <=> Marked
  BY DEF Marked, Size, Cell
<1>6. RefInv'
  BY <1>0, <1>4, <1>5, RefSame
<1> QED  BY <1>2, <1>6

LEMMA ReadReturnsStep ==
  ASSUME PipeInv, NEW p \in Proc, ReadReturns(p)
  PROVE  PipeInv'
<1>0. TypeOK
  BY DEF PipeInv
<1>1. /\ Doing(p, {"read"}, "head") /\ Leave(p) /\ got' = got \o Call0(p).buf
      /\ UNCHANGED <<semaphores, data, in, out, ended, cpu, sent, writeRef, ends, life>>
      /\ UNCHANGED <<PipeSize, flag, broken, lost>>
  BY DEF ReadReturns, ring, owners
<1>2. calls[p][1].op = "read" /\ calls[p][1] \in Call /\ Call0(p) = calls[p][1]
  BY <1>0, <1>1, DoingIs DEF TypeOK
<1>3. /\ calls' \in [Proc -> Seq(Call)]
      /\ ShapeInv' /\ RefInv' /\ BoundInv' /\ EndInv' /\ QueueInv' /\ CreditInv'
  <2>1. "mark" \notin {"read"}
    OBVIOUS
  <2> QED  BY <1>1, <1>2, <2>1, LeaveCallStep
<1>4. got' \in Seq(Byte)
  <2>1. got \in Seq(Byte) /\ Call0(p).buf \in Seq(Byte)
    BY <1>0, <1>2 DEF TypeOK, Call
  <2> QED  BY <1>1, <2>1
<1>5. TypeOK'
  BY <1>0, <1>1, <1>3, <1>4 DEF TypeOK, semaphores
<1> QED  BY <1>3, <1>5 DEF PipeInv

LEMMA WriteReturnsStep ==
  ASSUME PipeInv, NEW p \in Proc, WriteReturns(p)
  PROVE  PipeInv'
<1>0. TypeOK
  BY DEF PipeInv
<1>1. /\ Doing(p, {"write"}, "head") /\ Leave(p)
      /\ Call0(p).i = Call0(p).size /\ PipeSize' = Call0(p).size /\ flag' = TRUE
      /\ UNCHANGED <<semaphores, data, in, out, ended, cpu, sent, writeRef, ends, life>>
      /\ UNCHANGED <<broken, got, lost>>
  BY DEF WriteReturns, WriteDone, owners, traffic
<1>2. calls[p][1] \in Call /\ Call0(p) = calls[p][1]
  BY <1>0, <1>1, DoingIs DEF TypeOK
<1>3. /\ calls' \in [Proc -> Seq(Call)]
      /\ ShapeInv' /\ RefInv' /\ BoundInv' /\ EndInv' /\ QueueInv' /\ CreditInv'
  <2>1. "mark" \notin {"write"}
    OBVIOUS
  <2> QED  BY <1>1, <2>1, LeaveCallStep
<1>4. PipeSize' \in Nat
  BY <1>1, <1>2 DEF Call
<1>5. TypeOK'
  BY <1>0, <1>1, <1>3, <1>4 DEF TypeOK, semaphores
<1> QED  BY <1>3, <1>5 DEF PipeInv

(***************************************************************************)
(* Behind the marker the descriptor goes, and with it the zombie that had  *)
(* it; unless the zombie has been destroyed again, and the kernel stops.   *)
(***************************************************************************)
LEMMA MarkReturnsStep ==
  ASSUME PipeInv, NEW p \in Proc, MarkReturns(p)
  PROVE  PipeInv'
<1> DEFINE z == calls[p][1].of
<1>0. TypeOK /\ ShapeInv /\ RefInv /\ calls \in [Proc -> Seq(Call)]
  BY DEF PipeInv, TypeOK
<1>1. /\ Doing(p, {"mark"}, "head") /\ Call0(p).i = Call0(p).size
      /\ PipeSize' = 1 /\ flag' = TRUE
      /\ broken' = (Call0(p).by = "nested" \/ life[Call0(p).of] = "gone")
      /\ UNCHANGED <<semaphores, data, in, out, ended, cpu, sent>>
      /\ UNCHANGED <<got, lost, writeRef>>
  BY DEF MarkReturns, WriteDone, traffic
<1>2. /\ p = cpu /\ Len(calls[p]) \in Nat /\ Len(calls[p]) > 0
      /\ Call0(p) = calls[p][1] /\ calls[p][1] \in Call /\ calls[p][1].op = "mark"
  BY <1>0, <1>1, DoingIs
<1>3. Marking(p) /\ MarkOK(p, z)
  BY <1>0, <1>2 DEF Marking, RefInv
<1>4. broken' \in BOOLEAN
  BY <1>1
<1>5. ASSUME life[z] = "gone" PROVE PipeInv'
  <2>1. UNCHANGED <<calls, ends, life>>
    BY <1>2, <1>5 DEF MarkReturns
  <2>2. TypeOK'
    BY <1>0, <1>1, <1>4, <2>1 DEF TypeOK, semaphores
  <2>3. ShapeInv'
    BY <1>0, <1>1, <2>1 DEF ShapeInv, Shape, Outer
  <2>4. BoundInv' /\ EndInv' /\ CreditInv' /\ QueueInv' /\ MarksSame /\ (Marked' <=> Marked)
    BY <1>1, <2>1, CallsSame
  <2>5. RefInv'
    <3>1. LivesSame
      BY <2>1 DEF LivesSame
    <3> QED  BY <1>0, <1>1, <2>1, <2>4, <3>1, RefSame
  <2> QED  BY <2>2, <2>3, <2>4, <2>5 DEF PipeInv
<1>6. ASSUME life[z] # "gone" PROVE PipeInv'
  <2>1. /\ Leave(p) /\ ends' = [ends EXCEPT ![z] = @ - 1]
        /\ life' = [life EXCEPT ![z] = IF @ = "zombie" THEN "gone" ELSE @]
    BY <1>2, <1>6 DEF MarkReturns
  <2>2. /\ z \in Proc /\ ends[z] = 1 /\ writeRef = 0 /\ \A q \in Proc \ {z} : ends[q] = 0
        /\ \/ z = p /\ life[z] = "live"
           \/ z # p /\ z # cpu /\ life[z] = "zombie"
    BY <1>3, <1>6 DEF MarkOK
  <2> HIDE DEF z
  <2>3. /\ ends \in [Proc -> 0 .. MaxEnds] /\ MaxEnds \in Nat
        /\ life \in [Proc -> {"unborn", "live", "zombie", "gone"}]
    BY <1>0, BoundAssumption DEF TypeOK
  <2>4. ends' \in [Proc -> 0 .. MaxEnds] /\ \A q \in Proc : ends'[q] = 0
    <3>1. ends[z] - 1 = 0 /\ 0 \in 0 .. MaxEnds
      BY <2>2, <2>3
    <3> QED  BY <2>1, <2>2, <2>3, <3>1
  <2>5. /\ life' \in [Proc -> {"unborn", "live", "zombie", "gone"}]
        /\ \A q \in Proc : life'[q] = life[q] \/ (q = z /\ z # cpu /\ life[z] = "zombie")
    BY <2>1, <2>2, <2>3
  <2>6. ASSUME NEW q \in Proc, Len(calls[q]) > 0
        PROVE  life'[q] = life[q] /\ Outer(q).op # "write"
    <3>1. Shape(q)
      BY <1>0 DEF ShapeInv
    <3>2. q # cpu => life[q] = "live"
      BY <2>6, <3>1 DEF Shape
    <3>3. life'[q] = life[q]
      BY <2>5, <3>2
    <3>4. CASE q = p
      <4>1. StackOK(calls[p])
        BY <3>1, <3>4 DEF Shape
      <4>2. Outer(p).op \in {"mark", "read"}
        <5> DEFINE l == Len(calls[p])
        <5>1. l \in Nat /\ l > 0 /\ l <= 2
          BY <1>2, <4>1 DEF StackOK
        <5> HIDE DEF l
        <5>2. l = 1 \/ l = 2
          BY <5>1
        <5>3. CASE l = 1
          BY <1>2, <5>3 DEF Outer, l
        <5>4. CASE l = 2
          BY <4>1, <5>4 DEF Outer, StackOK, l
        <5> QED  BY <5>2, <5>3, <5>4
      <4> QED  BY <3>3, <3>4, <4>2
    <3>5. CASE q # p
      <4>1. life[q] = "live"
        BY <1>2, <3>2, <3>5
      <4>2. q # z
        BY <2>2, <3>5, <4>1
      <4>3. ends[q] = 0
        BY <2>2, <4>2
      <4>4. ~(ends[q] > 0)
        BY <4>3
      <4> QED  BY <2>6, <3>1, <3>3, <4>4 DEF Shape
    <3> QED  BY <3>4, <3>5
  <2>7. /\ calls' \in [Proc -> Seq(Call)]
        /\ ShapeInv' /\ BoundInv' /\ EndInv' /\ QueueInv' /\ CreditInv'
        /\ ~Marking(p)' /\ \A q \in Proc \ {p} : calls'[q] = calls[q]
    <3>1. Call0(p).op # "write"
      BY <1>2
    <3> QED  BY <1>1, <2>1, <2>4, <2>6, <3>1, LeaveStep
  <2>8. RefInv'
    <3>1. \A q \in Proc : ~Marking(q)'
      <4>1. \A q \in Proc \ {p} : ~Marking(q)
        BY <1>3 DEF PipeInv, EndInv
      <4> QED  BY <2>7, <4>1 DEF Marking
    <3>2. Total(ends', MaxEnds) = 0
      BY <2>3, <2>4, TotalZero
    <3>3. Total(ends, MaxEnds)' = Total(ends', MaxEnds)
      BY DEF Total
    <3> QED  BY <1>1, <2>2, <2>4, <3>1, <3>2, <3>3 DEF RefInv
  <2>9. TypeOK'
    BY <1>0, <1>1, <1>4, <2>4, <2>5, <2>7 DEF TypeOK, semaphores
  <2> QED  BY <2>7, <2>8, <2>9 DEF PipeInv
<1> QED  BY <1>5, <1>6

-----------------------------------------------------------------------------
(***************************************************************************)
(* The queues of the semaphores, as sequences without repetition.          *)
(***************************************************************************)
LEMMA QueueAppend ==
  ASSUME NEW s \in Seq(Proc), NEW p \in Proc, p \notin ToSet(s), IsInjective(s)
  PROVE  /\ Append(s, p) \in Seq(Proc) /\ Len(Append(s, p)) = Len(s) + 1
         /\ ToSet(Append(s, p)) = ToSet(s) \cup {p} /\ IsInjective(Append(s, p))
<1> DEFINE t == Append(s, p)
           n == Len(s)
<1>1. /\ t \in Seq(Proc) /\ Len(t) = n + 1 /\ n \in Nat /\ t[n + 1] = p
      /\ \A k \in 1 .. n : t[k] = s[k]
  OBVIOUS
<1>2. DOMAIN t = 1 .. n + 1 /\ DOMAIN s = 1 .. n
  BY <1>1
<1> HIDE DEF t, n
<1>3. ToSet(t) = ToSet(s) \cup {p}
  <2>1. ASSUME NEW k \in 1 .. n + 1 PROVE t[k] \in ToSet(s) \cup {p}
    <3>1. k = n + 1 \/ k \in 1 .. n
      BY <1>1
    <3> QED  BY <1>1, <1>2, <3>1 DEF ToSet
  <2>2. ASSUME NEW k \in 1 .. n PROVE s[k] \in ToSet(t)
    BY <1>1, <1>2 DEF ToSet
  <2>3. p \in ToSet(t)
    <3>1. n + 1 \in 1 .. n + 1
      BY <1>1
    <3> QED  BY <1>1, <1>2, <3>1 DEF ToSet
  <2> QED  BY <1>2, <2>1, <2>2, <2>3 DEF ToSet
<1>4. IsInjective(t)
  <2>1. \A k \in 1 .. n : s[k] # p
    BY <1>2 DEF ToSet
  <2>2. \A i, j \in 1 .. n : s[i] = s[j] => i = j
    BY <1>2 DEF IsInjective
  <2>3. ASSUME NEW i \in 1 .. n + 1, NEW j \in 1 .. n + 1, t[i] = t[j] PROVE i = j
    <3>1. (i = n + 1 \/ i \in 1 .. n) /\ (j = n + 1 \/ j \in 1 .. n)
      BY <1>1
    <3> QED  BY <1>1, <2>1, <2>2, <2>3, <3>1
  <2> QED  BY <1>2, <2>3 DEF IsInjective
<1> QED  BY <1>1, <1>3, <1>4 DEF t, n

LEMMA QueueTail ==
  ASSUME NEW s \in Seq(Proc), s # <<>>, IsInjective(s)
  PROVE  /\ Head(s) \in Proc /\ Head(s) \in ToSet(s)
         /\ Tail(s) \in Seq(Proc) /\ Len(Tail(s)) = Len(s) - 1
         /\ ToSet(Tail(s)) = ToSet(s) \ {Head(s)} /\ IsInjective(Tail(s))
<1> DEFINE t == Tail(s)
           n == Len(s)
           h == Head(s)
<1>1. /\ t \in Seq(Proc) /\ Len(t) = n - 1 /\ n \in Nat /\ n >= 1 /\ h = s[1]
      /\ \A k \in 1 .. n - 1 : t[k] = s[k + 1]
  OBVIOUS
<1>2. DOMAIN t = 1 .. n - 1 /\ DOMAIN s = 1 .. n /\ h \in Proc
  BY <1>1
<1> HIDE DEF t, n, h
<1>3. \A i, j \in 1 .. n : s[i] = s[j] => i = j
  BY <1>2 DEF IsInjective
<1>4. ToSet(t) = ToSet(s) \ {h}
  <2>1. ASSUME NEW k \in 1 .. n - 1 PROVE t[k] \in ToSet(s) \ {h}
    <3>1. k + 1 \in 1 .. n /\ 1 \in 1 .. n /\ k + 1 # 1 /\ t[k] = s[k + 1]
      BY <1>1
    <3>2. s[k + 1] # s[1]
      BY <1>3, <3>1
    <3> QED  BY <1>1, <1>2, <3>1, <3>2 DEF ToSet
  <2>2. ASSUME NEW k \in 1 .. n, s[k] # h PROVE s[k] \in ToSet(t)
    <3> DEFINE j == k - 1
    <3>1. j \in 1 .. n - 1 /\ k = j + 1
      BY <1>1, <2>2
    <3> HIDE DEF j
    <3>2. t[j] = s[j + 1]
      BY <1>1, <3>1
    <3> QED  BY <1>2, <3>1, <3>2 DEF ToSet
  <2> QED  BY <1>2, <2>1, <2>2 DEF ToSet
<1>5. IsInjective(t)
  <2>1. ASSUME NEW i \in 1 .. n - 1, NEW j \in 1 .. n - 1, t[i] = t[j] PROVE i = j
    <3>1. i + 1 \in 1 .. n /\ j + 1 \in 1 .. n /\ s[i + 1] = s[j + 1]
      BY <1>1, <2>1
    <3>2. i + 1 = j + 1
      BY <1>3, <3>1
    <3> QED  BY <1>1, <3>2
  <2> QED  BY <1>2, <2>1 DEF IsInjective
<1>6. h \in ToSet(s)
  <2>1. 1 \in 1 .. n
    BY <1>1
  <2> QED  BY <1>1, <1>2, <2>1 DEF ToSet
<1> QED  BY <1>1, <1>2, <1>4, <1>5, <1>6 DEF t, n, h

(***************************************************************************)
(* In the stacks that occur, the read is the outermost call and the write  *)
(* the innermost one.                                                      *)
(***************************************************************************)
LEMMA StackIn ==
  ASSUME NEW s \in Seq(Call), StackOK(s), NEW where
  PROVE  /\ Within(s, {"read"}, where) <=>
              Len(s) > 0 /\ s[Len(s)].op = "read" /\ s[Len(s)].at \in where
         /\ Within(s, {"write", "mark"}, where) <=>
              Len(s) > 0 /\ s[1].op \in {"write", "mark"} /\ s[1].at \in where
<1>1. Len(s) = 0 \/ Len(s) = 1 \/ Len(s) = 2
  <2> DEFINE l == Len(s)
  <2>1. l \in Nat /\ l <= 2
    BY DEF StackOK
  <2> HIDE DEF l
  <2>2. l = 0 \/ l = 1 \/ l = 2
    BY <2>1
  <2> QED  BY <2>2 DEF l
<1>2. CASE Len(s) = 0
  <2>1. \A ops : ~Within(s, ops, where)
    BY <1>2, WithinIs
  <2>2. ~(Len(s) > 0)
    BY <1>2
  <2> QED  BY <2>1, <2>2
<1>3. CASE Len(s) = 1
  <2>1. \A ops : Within(s, ops, where) <=> s[1].op \in ops /\ s[1].at \in where
    BY <1>3, WithinIs
  <2>2. Len(s) > 0 /\ s[Len(s)] = s[1]
    BY <1>3
  <2>3. /\ Within(s, {"read"}, where) <=> s[1].op \in {"read"} /\ s[1].at \in where
        /\ Within(s, {"write", "mark"}, where) <=>
             s[1].op \in {"write", "mark"} /\ s[1].at \in where
    BY <2>1
  <2> QED  BY <2>2, <2>3
<1>4. CASE Len(s) = 2
  <2>1. s[1].op = "mark" /\ s[2].op = "read"
    BY <1>4 DEF StackOK
  <2>2. \A ops : Within(s, ops, where) <=> \/ s[1].op \in ops /\ s[1].at \in where
                                           \/ s[2].op \in ops /\ s[2].at \in where
    BY <1>4, WithinIs
  <2>3. Within(s, {"read"}, where) <=> s[2].at \in where
    BY <2>1, <2>2
  <2>4. Within(s, {"write", "mark"}, where) <=> s[1].at \in where
    BY <2>1, <2>2
  <2>5. Len(s) > 0 /\ s[Len(s)] = s[2]
    BY <1>4
  <2> QED  BY <2>1, <2>3, <2>4, <2>5
<1> QED  BY <1>1, <1>2, <1>3, <1>4

LEMMA MembersAre ==
  ASSUME TypeOK, ShapeInv, NEW q \in Proc, NEW where
  PROVE  /\ In(q, {"read"}, where) <=>
              Len(calls[q]) > 0 /\ Outer(q).op = "read" /\ Outer(q).at \in where
         /\ In(q, {"write", "mark"}, where) <=>
              Len(calls[q]) > 0 /\ calls[q][1].op \in {"write", "mark"}
                /\ calls[q][1].at \in where
<1>1. calls[q] \in Seq(Call) /\ StackOK(calls[q])
  BY DEF TypeOK, ShapeInv, Shape
<1> QED  BY <1>1, StackIn DEF In, Within, Outer

LEMMA MembersAreNext ==
  ASSUME calls' \in [Proc -> Seq(Call)], ShapeInv', NEW q \in Proc, NEW where
  PROVE  /\ In(q, {"read"}, where)' <=>
              Len(calls'[q]) > 0 /\ calls'[q][Len(calls'[q])].op = "read"
                /\ calls'[q][Len(calls'[q])].at \in where
         /\ In(q, {"write", "mark"}, where)' <=>
              Len(calls'[q]) > 0 /\ calls'[q][1].op \in {"write", "mark"}
                /\ calls'[q][1].at \in where
<1>1. calls'[q] \in Seq(Call) /\ StackOK(calls'[q])
  BY DEF ShapeInv, Shape
<1> QED  BY <1>1, StackIn DEF In, Within

(***************************************************************************)
(* The call on top goes on.                                                *)
(***************************************************************************)
Moved(p, c) ==
  /\ calls' \in [Proc -> Seq(Call)]
  /\ \A q \in Proc \ {p} : calls'[q] = calls[q]
  /\ Len(calls'[p]) = Len(calls[p]) /\ calls'[p][1] = c
  /\ Len(calls[p]) = 1 \/ (Len(calls[p]) = 2 /\ calls'[p][2] = calls[p][2])

LEMMA GoStep ==
  ASSUME TypeOK, ShapeInv, NEW p \in Proc, p = cpu, NEW c \in Call, Go(p, c),
         Len(calls[p]) > 0, c.op = calls[p][1].op, CallOK(c),
         Len(calls[p]) = 2 => c.at # "slept",
         UNCHANGED <<cpu, ends>>, \A q \in Proc \ {p} : life'[q] = life[q],
         life'[p] = "live" \/ (life'[p] = life[p] /\ c.at # "slept")
  PROVE  Moved(p, c) /\ ShapeInv'
<1> DEFINE s == calls[p]
           t == calls'[p]
<1>1. calls \in [Proc -> Seq(Call)]
  BY DEF TypeOK
<1>2. /\ calls' \in [Proc -> Seq(Call)] /\ \A q \in Proc \ {p} : calls'[q] = calls[q]
      /\ Len(t) = Len(s) /\ t[1] = c /\ \A k \in 2 .. Len(s) : t[k] = s[k]
  BY <1>1, GoEffect
<1>3. StackOK(s) /\ Shape(p)
  BY DEF ShapeInv, Shape
<1>4. Len(s) = 1 \/ Len(s) = 2
  <2> DEFINE l == Len(s)
  <2>1. l \in Nat /\ l > 0 /\ l <= 2
    BY <1>1, <1>3, StackFacts DEF StackOK
  <2> HIDE DEF l
  <2>2. l = 1 \/ l = 2
    BY <2>1
  <2> QED  BY <2>2 DEF l
<1>5. Len(s) = 2 => t[2] = s[2]
  BY <1>2
<1>6. StackOK(t)
  <2>1. CASE Len(s) = 1
    BY <1>2, <2>1 DEF StackOK
  <2>2. CASE Len(s) = 2
    BY <1>2, <1>3, <1>5, <2>2 DEF StackOK
  <2> QED  BY <1>4, <2>1, <2>2
<1>7. t[Len(t)].op = s[Len(s)].op
  BY <1>2, <1>4, <1>5
<1>8. Shape(p)'
  <2>1. /\ Len(t) > 0 /\ Len(s) > 0 /\ p = cpu /\ UNCHANGED cpu /\ ends'[p] = ends[p]
        /\ Outer(p) = s[Len(s)] /\ Outer(p)' = t[Len(t)]
    BY <1>2 DEF Outer
  <2>2. life'[p] = "live" \/ (Outer(p)'.op = "mark" /\ Outer(p)'.at # "slept")
    <3>1. CASE life'[p] = life[p] /\ c.at # "slept" /\ life[p] # "live"
      <4>1. Outer(p).op = "mark"
        BY <1>3, <2>1, <3>1 DEF Shape
      <4>2. Len(s) # 2
        BY <1>3, <2>1, <4>1 DEF StackOK
      <4>3. Outer(p)' = c
        BY <1>2, <1>4, <2>1, <4>2
      <4> QED  BY <1>2, <1>4, <2>1, <3>1, <4>1, <4>2, <4>3
    <3> QED  BY <3>1
  <2>3. life'[p] \in {"live", "zombie"}
    BY <1>3 DEF Shape
  <2> HIDE DEF s, t
  <2> QED  BY <1>3, <1>6, <1>7, <2>1, <2>2, <2>3 DEF Shape, s, t
<1>9. ASSUME NEW q \in Proc, q # p PROVE Shape(q)'
  BY <1>2, <1>9 DEF ShapeInv, Shape, Outer
<1>10. ShapeInv'
  BY <1>8, <1>9 DEF ShapeInv
<1> QED  BY <1>2, <1>4, <1>5, <1>10 DEF Moved

(***************************************************************************)
(* What asks for no new byte leaves the bound alone.                       *)
(***************************************************************************)
LEMMA GoBound ==
  ASSUME TypeOK, BoundInv, NEW p \in Proc, NEW c \in Call, Moved(p, c),
         c.op = calls[p][1].op,
         c.op = "write" => c.size - c.i = calls[p][1].size - calls[p][1].i,
         UNCHANGED sent
  PROVE  BoundInv'
<1> DEFINE s == calls[p]
           t == calls'[p]
<1>1. s \in Seq(Call) /\ t \in Seq(Call) /\ \A q \in Proc \ {p} : calls'[q] = calls[q]
  BY DEF TypeOK, Moved
<1>2. \/ Len(s) = 1 /\ Len(t) = 1 /\ t[1] = c
      \/ Len(s) = 2 /\ Len(t) = 2 /\ t[2] = s[2]
  BY DEF Moved
<1>3. CASE Len(s) = 1 /\ Len(t) = 1 /\ t[1] = c
  <2>1. /\ PromisedBy(t) = IF t[1].op = "write" THEN t[1].size - t[1].i ELSE 0
        /\ PromisedBy(s) = IF s[1].op = "write" THEN s[1].size - s[1].i ELSE 0
    BY <1>1, <1>3, PromisedByTop
  <2>2. PromisedBy(t) = PromisedBy(s)
    BY <1>3, <2>1
  <2> QED  BY <1>1, <2>2, BoundSame
<1>4. CASE Len(s) = 2 /\ Len(t) = 2 /\ t[2] = s[2]
  <2>1. t[Len(t)] = s[Len(s)] /\ Len(t) > 0 /\ Len(s) > 0
    BY <1>4
  <2> HIDE DEF s, t
  <2>2. PromisedBy(t) = PromisedBy(s)
    BY <1>1, <2>1, PromisedByIs
  <2> QED  BY <1>1, <2>2, BoundSame DEF s, t
<1> QED  BY <1>2, <1>3, <1>4

-----------------------------------------------------------------------------
(***************************************************************************)
(* What the invariant says to a process that is running in its call.       *)
(***************************************************************************)
LEMMA InvParts ==
  ASSUME PipeInv
  PROVE  /\ TypeOK /\ ShapeInv /\ RefInv /\ BoundInv /\ EndInv /\ QueueInv
         /\ CreditInv
         /\ calls \in [Proc -> Seq(Call)] /\ asleep \subseteq Proc /\ cpu \in Proc
         /\ \A q \in Proc : StackOK(calls[q]) /\ Shape(q)
BY DEF PipeInv, TypeOK, ShapeInv, Shape

LEMMA TopIsOuter ==
  ASSUME PipeInv, NEW p \in Proc, Len(calls[p]) > 0,
         calls[p][1].op # "mark" \/ (Outer(p).op = "read" /\ Outer(p).at # "slept")
  PROVE  Len(calls[p]) = 1 /\ Outer(p) = calls[p][1]
<1> DEFINE l == Len(calls[p])
<1>1. l \in Nat /\ l > 0 /\ l <= 2
  BY InvParts, StackFacts DEF StackOK
<1>2. l # 2
  BY InvParts DEF StackOK, Outer
<1> HIDE DEF l
<1>3. l = 1
  BY <1>1, <1>2
<1> QED  BY <1>3 DEF l, Outer

LEMMA ReaderAwake ==
  ASSUME PipeInv, OneReader, NEW p \in Proc, Len(calls[p]) > 0,
         calls[p][1].op = "read", calls[p][1].at # "slept"
  PROVE  /\ FullSleepers = {} /\ fullQ = <<>> /\ ~(full < 0) /\ p \notin asleep
         /\ Len(calls[p]) = 1 /\ Outer(p) = calls[p][1] /\ p \in Readers
<1>1. Len(calls[p]) = 1 /\ Outer(p) = calls[p][1]
  BY TopIsOuter
<1>2. p \in Readers
  BY <1>1, InvParts DEF Shape
<1>3. FullSleepers = {}
  <2> SUFFICES ASSUME NEW q \in FullSleepers PROVE FALSE
    OBVIOUS
  <2>1. q \in Proc /\ In(q, {"read"}, {"slept"})
    BY InvParts DEF FullSleepers, Sleepers
  <2>2. Len(calls[q]) > 0 /\ Outer(q).op = "read" /\ Outer(q).at \in {"slept"}
    BY <2>1, InvParts, MembersAre
  <2>3. q \in Readers
    BY <2>1, <2>2, InvParts DEF Shape
  <2>4. q = p
    BY <1>2, <2>3 DEF OneReader
  <2> QED  BY <1>1, <2>2, <2>4
<1>4. p \notin asleep
  <2>1. p \notin EmptySleepers
    <3> SUFFICES ASSUME In(p, {"write", "mark"}, {"slept"}) PROVE FALSE
      BY DEF EmptySleepers, Sleepers
    <3>1. calls[p][1].op \in {"write", "mark"}
      BY InvParts, MembersAre
    <3> QED  BY <3>1
  <2> QED  BY <1>3, <2>1, InvParts DEF QueueInv
<1>5. fullQ = <<>>
  <2>1. fullQ \in Seq(Proc) /\ ToSet(fullQ) = {}
    BY <1>3, InvParts DEF TypeOK, QueueInv
  <2>2. ASSUME fullQ # <<>> PROVE FALSE
    <3>1. 1 \in DOMAIN fullQ
      BY <2>1, <2>2
    <3> QED  BY <2>1, <3>1 DEF ToSet
  <2> QED  BY <2>2
<1> QED  BY <1>1, <1>2, <1>3, <1>4, <1>5, InvParts DEF QueueInv

LEMMA WriterAwake ==
  ASSUME PipeInv, NEW p \in Proc, Len(calls[p]) > 0,
         calls[p][1].op \in {"write", "mark"}, calls[p][1].at # "slept"
  PROVE  p \notin EmptySleepers
<1> SUFFICES ASSUME In(p, {"write", "mark"}, {"slept"}) PROVE FALSE
  BY DEF EmptySleepers, Sleepers
<1>1. calls[p][1].at \in {"slept"}
  BY InvParts, MembersAre
<1> QED  BY <1>1

LEMMA WriterHolds ==
  ASSUME PipeInv, NEW p \in Proc, Len(calls[p]) > 0, calls[p][1].op = "write"
  PROVE  /\ \A q \in Proc : ~Marking(q)
         /\ ~Marked /\ Len(calls[p]) = 1
<1>1. Len(calls[p]) = 1 /\ Outer(p) = calls[p][1]
  BY TopIsOuter
<1>2. ends[p] > 0 /\ life[p] = "live"
  BY <1>1, InvParts DEF Shape
<1>3. ~Marking(p)
  BY DEF Marking
<1> QED  BY <1>1, <1>2, <1>3, EndHeld, InvParts

LEMMA NotEnded ==
  ASSUME PipeInv, NEW p \in Proc, Len(calls[p]) > 0,
         calls[p][1].op \in {"write", "mark"}, calls[p][1].i < calls[p][1].size
  PROVE  ~Marked /\ ~ended /\ Spent = 0
<1>1. CASE calls[p][1].op = "write"
  BY <1>1, WriterHolds, InvParts DEF EndInv, Spent
<1>2. CASE calls[p][1].op = "mark"
  <2>1. calls[p][1] \in Call /\ CallOK(calls[p][1])
    BY InvParts, StackFacts DEF StackOK
  <2>2. calls[p][1].i = 0
    BY <1>2, <2>1 DEF CallOK, Call
  <2> QED  BY <1>2, <2>2, InvParts DEF EndInv, Marking, Spent
<1> QED  BY <1>1, <1>2

LEMMA TakersAtMostOne ==
  ASSUME PipeInv, OneReader, NEW q \in Takers
  PROVE  Takers = {q}
<1>1. \A r \in Takers : r \in Readers
  <2> TAKE r \in Takers
  <2>1. r \in Proc /\ In(r, {"read"}, {"slept", "waited"})
    BY DEF Takers
  <2>2. Len(calls[r]) > 0 /\ Outer(r).op = "read"
    BY <2>1, InvParts, MembersAre
  <2> QED  BY <2>1, <2>2, InvParts DEF Shape
<1> QED  BY <1>1 DEF OneReader

LEMMA TakersCount ==
  ASSUME PipeInv, OneReader
  PROVE  Cardinality(Takers) = 0 \/ Cardinality(Takers) = 1
<1>1. CASE Takers = {}
  <2>1. Cardinality(Takers) = 0
    BY <1>1, FS_EmptySet
  <2> QED  BY <2>1
<1>2. CASE Takers # {}
  <2>1. PICK q \in Takers : TRUE
    BY <1>2
  <2>2. Takers = {q}
    BY TakersAtMostOne
  <2>3. Cardinality(Takers) = 1
    BY <2>2, FS_Singleton
  <2> QED  BY <2>3
<1> QED  BY <1>1, <1>2

LEMMA ClaimsFinite ==
  ASSUME PipeInv
  PROVE  /\ IsFiniteSet(Putters) /\ Cardinality(Putters) \in Nat
         /\ Cardinality(Takers) \in Nat
         /\ IsFiniteSet(EmptySleepers) /\ Cardinality(EmptySleepers) \in Nat
         /\ Putters \in SUBSET Proc /\ Takers \in SUBSET Proc
         /\ EmptySleepers \in SUBSET Proc
<1>1. /\ Putters \in SUBSET Proc /\ Takers \in SUBSET Proc
      /\ EmptySleepers \in SUBSET Proc
  BY InvParts DEF Putters, Takers, EmptySleepers, Sleepers
<1> QED  BY <1>1, ProcAssumption, FS_Subset, FS_CardinalityType

(***************************************************************************)
(* The claims after a step of p, the others' calls being as before.        *)
(***************************************************************************)
Others(p) == \A q \in Proc \ {p} : calls'[q] = calls[q]

LEMMA OthersClaims ==
  ASSUME NEW p \in Proc, Others(p)
  PROVE  /\ \A q \in Proc \ {p} : /\ q \in Takers' <=> q \in Takers
                                  /\ q \in Putters' <=> q \in Putters
         /\ \A q \in Proc \ {p} : (q \in asleep' <=> q \in asleep) =>
              /\ q \in FullSleepers' <=> q \in FullSleepers
              /\ q \in EmptySleepers' <=> q \in EmptySleepers
<1>1. \A q \in Proc \ {p} : \A ops, where : In(q, ops, where)' <=> In(q, ops, where)
  BY DEF Others, In
<1> QED  BY <1>1 DEF Takers, Putters, FullSleepers, EmptySleepers, Sleepers

(***************************************************************************)
(* What p claims itself, by its stack.                                     *)
(***************************************************************************)
LEMMA OwnClaims ==
  ASSUME TypeOK, ShapeInv, NEW p \in Proc, Len(calls[p]) > 0
  PROVE  /\ p \in Takers <=> Outer(p).op = "read" /\ Outer(p).at \in {"slept", "waited"}
         /\ p \in Putters <=> calls[p][1].op \in {"write", "mark"}
                                /\ calls[p][1].at \in {"slept", "waited"}
         /\ p \in FullSleepers <=> p \in asleep /\ Outer(p).op = "read"
                                     /\ Outer(p).at = "slept"
         /\ p \in EmptySleepers <=> p \in asleep /\ calls[p][1].op \in {"write", "mark"}
                                      /\ calls[p][1].at = "slept"
BY MembersAre DEF Takers, Putters, FullSleepers, EmptySleepers, Sleepers

LEMMA OwnClaimsNext ==
  ASSUME calls' \in [Proc -> Seq(Call)], ShapeInv', NEW p \in Proc,
         Len(calls'[p]) > 0
  PROVE  /\ p \in Takers' <=> calls'[p][Len(calls'[p])].op = "read"
                         /\ calls'[p][Len(calls'[p])].at \in {"slept", "waited"}
         /\ p \in Putters' <=> calls'[p][1].op \in {"write", "mark"}
                                 /\ calls'[p][1].at \in {"slept", "waited"}
         /\ p \in FullSleepers' <=> p \in asleep' /\ calls'[p][Len(calls'[p])].op = "read"
                                      /\ calls'[p][Len(calls'[p])].at = "slept"
         /\ p \in EmptySleepers' <=> p \in asleep'
                                       /\ calls'[p][1].op \in {"write", "mark"}
                                       /\ calls'[p][1].at = "slept"
BY MembersAreNext DEF Takers, Putters, FullSleepers, EmptySleepers, Sleepers

LEMMA ReadWaitsStep ==
  ASSUME PipeInv, OneReader, NEW p \in Proc, ReadWaits(p)
  PROVE  PipeInv'
<1> DEFINE f == calls[p][1]
           c == [f EXCEPT !.at = AfterWait(full')]
<1>0. /\ TypeOK /\ ShapeInv /\ RefInv /\ BoundInv /\ EndInv /\ QueueInv
      /\ CreditInv /\ calls \in [Proc -> Seq(Call)] /\ asleep \subseteq Proc
  BY InvParts
<1>1. /\ Doing(p, {"read"}, "head") /\ Full!Wait(p)
      /\ Go(p, [Call0(p) EXCEPT !.at = AfterWait(full')])
      /\ UNCHANGED <<data, in, out, ended, cpu, sent, writeRef, ends, life>>
      /\ UNCHANGED <<empty, emptyQ, PipeSize, flag, broken, got, lost>>
  BY DEF ReadWaits, ring, owners, traffic
<1>2. /\ p = cpu /\ Len(calls[p]) > 0 /\ f \in Call /\ f.op = "read" /\ f.at = "head"
      /\ Go(p, c)
  BY <1>0, <1>1, DoingIs
<1>3. /\ FullSleepers = {} /\ fullQ = <<>> /\ ~(full < 0) /\ p \notin asleep
      /\ Len(calls[p]) = 1 /\ Outer(p) = f
  BY <1>2, ReaderAwake
<1>4. /\ c \in Call /\ c.at = AfterWait(full') /\ c.op = f.op /\ c.i = f.i
      /\ c.size = f.size /\ c.at # "head" /\ CallOK(c)
  BY <1>2 DEF Call, CallOK, AfterWait
<1> HIDE DEF f, c
<1>5. Moved(p, c) /\ ShapeInv'
  <2>1. c.op = calls[p][1].op /\ Len(calls[p]) # 2
    BY <1>3, <1>4 DEF f
  <2>2. life'[p] = "live"
    BY <1>1, <1>2, <1>3, InvParts DEF Shape
  <2> QED  BY <1>0, <1>1, <1>2, <1>4, <2>1, <2>2, GoStep
<1>6. /\ calls' \in [Proc -> Seq(Call)] /\ Others(p)
      /\ Len(calls'[p]) = 1 /\ calls'[p][1] = c
  BY <1>3, <1>5 DEF Moved, Others
<1>7. calls'[p][Len(calls'[p])] = c /\ Len(calls'[p]) > 0
  BY <1>6
<1>8. full \in Int /\ full' = full - 1
  BY <1>0, <1>1 DEF TypeOK, Full!Wait
<1>9. \/ /\ full = 0 /\ full' < 0 /\ c.at = "slept" /\ fullQ' = <<p>>
         /\ asleep' = asleep \cup {p}
         /\ SemRef' = [SemRef EXCEPT ![p] = @ + 1]
      \/ /\ ~(full' < 0) /\ c.at = "waited"
         /\ UNCHANGED <<fullQ, SemRef, asleep>>
  <2>1. CASE full - 1 < 0
    <3>1. fullQ' = Append(<<>>, p)
      <4>1. p \notin Full!ToSet(fullQ)
        BY <1>0, <1>3 DEF QueueInv, ToSet, Full!ToSet
      <4> QED  BY <1>1, <1>3, <2>1, <4>1 DEF Full!Wait, Full!Blocks, Full!Queued
    <3> QED  BY <1>1, <1>3, <1>4, <1>8, <2>1, <3>1 DEF Full!Wait, Full!Blocks, AfterWait
  <2>2. CASE ~(full - 1 < 0)
    BY <1>1, <1>4, <1>8, <2>2 DEF Full!Wait, Full!Blocks, AfterWait
  <2> QED  BY <2>1, <2>2
<1>10. RefInv'
  <2>1. MarksSame
    <3>1. ~Marking(p) /\ ~Marking(p)'
      BY <1>2, <1>4, <1>6 DEF Marking, f
    <3> QED  BY <1>6, <3>1 DEF MarksSame, Marking, Others
  <2>2. LivesSame /\ (Marked' <=> Marked)
    BY <1>1 DEF LivesSame, Marked, Size, Cell
  <2> QED  BY <1>0, <1>1, <2>1, <2>2, RefSame
<1>11. BoundInv'
  BY <1>0, <1>1, <1>2, <1>4, <1>5, GoBound DEF f
<1>12. EndInv'
  <2>1. ~Marking(p)'
    BY <1>2, <1>4, <1>6 DEF Marking
  <2>2. \A q \in Proc : Marking(q)' => Marking(q) /\ calls'[q][1].i = calls[q][1].i
    BY <1>6, <2>1 DEF Marking, Others
  <2> QED  BY <1>0, <1>1, <2>2, EndSame
<1>13. TypeOK'
  <2>1. /\ SemRef \in [Proc -> 0 .. 1] /\ asleep = {q \in Proc : SemRef[q] = 1}
    BY <1>0 DEF TypeOK
  <2>2. SemRef[p] = 0
    BY <1>3, <2>1
  <2>3. /\ SemRef' \in [Proc -> 0 .. 1] /\ asleep' = {q \in Proc : SemRef'[q] = 1}
        /\ fullQ' \in Seq(Proc)
    <3>1. CASE UNCHANGED <<fullQ, SemRef, asleep>>
      BY <1>0, <2>1, <3>1 DEF TypeOK
    <3>2. CASE fullQ' = <<p>> /\ asleep' = asleep \cup {p}
               /\ SemRef' = [SemRef EXCEPT ![p] = @ + 1]
      <4>1. SemRef' \in [Proc -> 0 .. 1] /\ SemRef'[p] = 1
            /\ \A q \in Proc \ {p} : SemRef'[q] = SemRef[q]
        BY <2>1, <2>2, <3>2
      <4>2. asleep' = {q \in Proc : SemRef'[q] = 1}
        BY <2>1, <3>2, <4>1
      <4> QED  BY <3>2, <4>1, <4>2
    <3> QED  BY <1>9, <3>1, <3>2
  <2>4. full' \in Int
    BY <1>8
  <2> QED  BY <1>0, <1>1, <1>6, <2>3, <2>4 DEF TypeOK
<1>14. /\ p \notin Takers /\ p \notin Putters /\ p \notin EmptySleepers
  BY <1>0, <1>2, <1>3, OwnClaims DEF f
<1>15. /\ p \in Takers' /\ p \notin Putters' /\ p \notin EmptySleepers'
       /\ p \in FullSleepers' <=> p \in asleep' /\ c.at = "slept"
  <2>1. c.op = "read" /\ c.at \in {"slept", "waited"}
    BY <1>2, <1>4, <1>9
  <2> QED  BY <1>5, <1>6, <1>7, <2>1, OwnClaimsNext
<1>16. \A q \in Proc \ {p} : q \in asleep' <=> q \in asleep
  BY <1>9
<1>17. CreditInv'
  <2>1. Size' = Size /\ Spent' = Spent
    BY <1>1 DEF Size, Spent
  <2>2. Cardinality(Takers') = Cardinality(Takers) + 1 /\ Cardinality(Takers) \in Nat
    <3>1. \A q \in Proc \ {p} : q \in Takers' <=> q \in Takers
      BY <1>6, OthersClaims
    <3>2. Takers \in SUBSET Proc /\ Takers' \in SUBSET Proc
      BY DEF Takers
    <3>3. p \in Takers' /\ p \notin Takers
      BY <1>14, <1>15
    <3> HIDE DEF Takers
    <3> QED  BY <3>1, <3>2, <3>3, CardOneMoves
  <2>3. Putters' = Putters
    <3>1. Putters \in SUBSET Proc /\ Putters' \in SUBSET Proc
      BY DEF Putters
    <3>2. \A q \in Proc \ {p} : q \in Putters' <=> q \in Putters
      BY <1>6, OthersClaims
    <3> QED  BY <1>14, <1>15, <3>1, <3>2
  <2>4. full' + Cardinality(Takers') = full + Cardinality(Takers)
    BY <1>8, <2>2
  <2> QED  BY <1>0, <1>1, <2>1, <2>3, <2>4 DEF CreditInv
<1>18. QueueInv'
  <2>1. EmptySleepers' = EmptySleepers
    <3>1. /\ EmptySleepers \in SUBSET Proc /\ EmptySleepers' \in SUBSET asleep'
          /\ asleep' \subseteq Proc
      BY <1>0, <1>9 DEF EmptySleepers, Sleepers
    <3>2. \A q \in Proc \ {p} : q \in EmptySleepers' <=> q \in EmptySleepers
      BY <1>6, <1>16, OthersClaims
    <3> QED  BY <1>14, <1>15, <3>1, <3>2
  <2>2. FullSleepers' \subseteq {p} /\ (p \in FullSleepers' <=> c.at = "slept")
    <3>1. FullSleepers' \in SUBSET asleep' /\ asleep' \subseteq Proc
      BY <1>0, <1>9 DEF FullSleepers, Sleepers
    <3>2. c.at = "slept" => p \in asleep'
      BY <1>9
    <3> QED  BY <1>3, <1>6, <1>15, <1>16, <3>1, <3>2, OthersClaims
  <2>3. /\ ToSet(fullQ') = FullSleepers' /\ Len(fullQ') <= 1
        /\ (full' < 0 <=> fullQ' # <<>>)
    <3>1. CASE c.at = "slept" /\ fullQ' = <<p>> /\ full' < 0
      <4>1. ToSet(<<p>>) = {p} /\ Len(<<p>>) = 1 /\ <<p>> # <<>>
        BY DEF ToSet
      <4> QED  BY <2>2, <3>1, <4>1
    <3>2. CASE c.at = "waited" /\ fullQ' = <<>> /\ ~(full' < 0)
      <4>1. FullSleepers' = {}
        BY <2>2, <3>2
      <4>2. ToSet(<<>>) = {} /\ Len(<<>>) <= 1
        BY DEF ToSet
      <4> QED  BY <3>2, <4>1, <4>2
    <3> QED  BY <1>3, <1>9, <3>1, <3>2
  <2>4. asleep' = FullSleepers' \cup EmptySleepers'
    <3>1. asleep = EmptySleepers
      BY <1>0, <1>3 DEF QueueInv
    <3>2. CASE c.at = "slept" /\ asleep' = asleep \cup {p}
      BY <2>1, <2>2, <3>1, <3>2
    <3>3. CASE c.at = "waited" /\ asleep' = asleep
      BY <2>1, <2>2, <3>1, <3>3
    <3> QED  BY <1>9, <3>2, <3>3
  <2>5. Outer(cpu)' = c
    BY <1>1, <1>2, <1>7 DEF Outer
  <2>6. Outer(cpu)'.at = "slept" => full' < 0
    BY <1>9, <2>5
  <2> QED  BY <1>0, <1>1, <2>1, <2>3, <2>4, <2>6 DEF QueueInv
<1> QED  BY <1>5, <1>10, <1>11, <1>12, <1>13, <1>17, <1>18 DEF PipeInv

LEMMA OwnNothingNext ==
  ASSUME calls' \in [Proc -> Seq(Call)], ShapeInv', NEW p \in Proc,
         Len(calls'[p]) = 0 \/ (Len(calls'[p]) = 1 /\ calls'[p][1].at = "head")
  PROVE  p \notin Takers' /\ p \notin Putters' /\ p \notin FullSleepers'
         /\ p \notin EmptySleepers'
<1>1. \A where : "head" \notin where =>
        ~In(p, {"read"}, where)' /\ ~In(p, {"write", "mark"}, where)'
  <2> TAKE where
  <2> HAVE "head" \notin where
  <2>1. CASE Len(calls'[p]) = 0
    <3>1. ~(Len(calls'[p]) > 0)
      BY <2>1
    <3> QED  BY <3>1, MembersAreNext
  <2>2. CASE Len(calls'[p]) = 1 /\ calls'[p][1].at = "head"
    <3>1. calls'[p][Len(calls'[p])].at = "head"
      BY <2>2
    <3> QED  BY <2>2, <3>1, MembersAreNext
  <2> QED  BY <2>1, <2>2
<1>2. "head" \notin {"slept", "waited"} /\ "head" \notin {"slept"}
  OBVIOUS
<1> QED  BY <1>1, <1>2 DEF Takers, Putters, FullSleepers, EmptySleepers, Sleepers

(***************************************************************************)
(* A signal on empty, by a reader: nobody else sleeps on full, and the     *)
(* writer at the head of the queue, if one is woken, is asleep there.      *)
(***************************************************************************)
LEMMA EmptySignalStep ==
  ASSUME PipeInv, NEW p \in Proc, FullSleepers = {}, p \notin EmptySleepers,
         Empty!Signal, Others(p), p \notin FullSleepers', p \notin EmptySleepers'
  PROVE  /\ empty' = empty + 1 /\ emptyQ' \in Seq(Proc)
         /\ SemRef' \in [Proc -> 0 .. 1] /\ asleep' = {q \in Proc : SemRef'[q] = 1}
         /\ FullSleepers' = {} /\ asleep' = EmptySleepers'
         /\ ToSet(emptyQ') = EmptySleepers' /\ IsInjective(emptyQ')
         /\ Len(emptyQ') = Cardinality(EmptySleepers') /\ empty' + Len(emptyQ') >= 0
<1>0. /\ TypeOK /\ QueueInv /\ asleep \subseteq Proc /\ asleep = EmptySleepers
      /\ emptyQ \in Seq(Proc) /\ SemRef \in [Proc -> 0 .. 1] /\ empty \in Int
      /\ asleep = {q \in Proc : SemRef[q] = 1} /\ Len(emptyQ) \in Nat
  <2>1. TypeOK /\ QueueInv
    BY InvParts
  <2>2. /\ emptyQ \in Seq(Proc) /\ SemRef \in [Proc -> 0 .. 1] /\ empty \in Int
        /\ asleep = {q \in Proc : SemRef[q] = 1}
    BY <2>1 DEF TypeOK
  <2>3. asleep = FullSleepers \cup EmptySleepers
    BY <2>1 DEF QueueInv
  <2>4. asleep \subseteq Proc /\ Len(emptyQ) \in Nat
    BY <2>2
  <2> QED  BY <2>1, <2>2, <2>3, <2>4
<1>1. /\ ToSet(emptyQ) = EmptySleepers /\ IsInjective(emptyQ)
      /\ Len(emptyQ) = Cardinality(EmptySleepers) /\ empty + Len(emptyQ) >= 0
  BY <1>0 DEF QueueInv
<1>2. empty' = empty + 1
  BY DEF Empty!Signal
<1>3. CASE empty + 1 # 0
  <2>1. UNCHANGED <<emptyQ, SemRef, asleep>>
    BY <1>3 DEF Empty!Signal, Empty!WakesAt
  <2>2. \A q \in Proc \ {p} : /\ q \in FullSleepers' <=> q \in FullSleepers
                              /\ q \in EmptySleepers' <=> q \in EmptySleepers
    BY <2>1, OthersClaims
  <2>3. /\ FullSleepers' \in SUBSET Proc /\ EmptySleepers' \in SUBSET Proc
        /\ EmptySleepers \in SUBSET Proc
    BY <1>0, <2>1 DEF FullSleepers, EmptySleepers, Sleepers
  <2>4. FullSleepers' = {} /\ EmptySleepers' = EmptySleepers
    BY <2>2, <2>3
  <2>5. empty' + Len(emptyQ) >= 0
    BY <1>0, <1>1, <1>2
  <2> QED  BY <1>0, <1>1, <1>2, <2>1, <2>4, <2>5
<1>4. CASE empty + 1 = 0
  <2> DEFINE h == Head(emptyQ)
  <2>1. /\ emptyQ # <<>> /\ SemRef' = [SemRef EXCEPT ![h] = @ - 1]
        /\ SemRef[h] = 1 => emptyQ' = Tail(emptyQ) /\ asleep' = asleep \ {h}
    BY <1>4 DEF Empty!Signal, Empty!WakesAt, Empty!Wake
  <2>2. /\ h \in Proc /\ h \in ToSet(emptyQ) /\ Tail(emptyQ) \in Seq(Proc)
        /\ Len(Tail(emptyQ)) = Len(emptyQ) - 1
        /\ ToSet(Tail(emptyQ)) = ToSet(emptyQ) \ {h} /\ IsInjective(Tail(emptyQ))
    BY <1>0, <1>1, <2>1, QueueTail
  <2> HIDE DEF h
  <2>3. h \in EmptySleepers /\ SemRef[h] = 1 /\ h # p
    BY <1>0, <1>1, <2>2
  <2>4. emptyQ' = Tail(emptyQ) /\ asleep' = asleep \ {h}
    BY <2>1, <2>3
  <2>5. SemRef' \in [Proc -> 0 .. 1] /\ asleep' = {q \in Proc : SemRef'[q] = 1}
    <3>1. /\ SemRef' \in [Proc -> 0 .. 1] /\ SemRef'[h] = 0
          /\ \A q \in Proc \ {h} : SemRef'[q] = SemRef[q]
      BY <1>0, <2>1, <2>2, <2>3
    <3> QED  BY <1>0, <2>2, <2>4, <3>1
  <2>6. /\ FullSleepers' \in SUBSET asleep' /\ EmptySleepers' \in SUBSET asleep'
        /\ EmptySleepers \in SUBSET Proc
    BY <1>0 DEF FullSleepers, EmptySleepers, Sleepers
  <2>7. \A q \in Proc \ {p, h} : /\ q \in FullSleepers' <=> q \in FullSleepers
                                 /\ q \in EmptySleepers' <=> q \in EmptySleepers
    <3>1. \A q \in Proc \ {p, h} : q \in asleep' <=> q \in asleep
      BY <2>4
    <3> QED  BY <3>1, OthersClaims
  <2>8. h \notin asleep' /\ asleep' \subseteq Proc
    BY <1>0, <2>4
  <2>9. FullSleepers' = {} /\ EmptySleepers' = EmptySleepers \ {h}
    BY <2>2, <2>3, <2>6, <2>7, <2>8
  <2>10. Cardinality(EmptySleepers') = Cardinality(EmptySleepers) - 1
    <3>1. IsFiniteSet(EmptySleepers)
      BY ClaimsFinite
    <3>2. Cardinality(EmptySleepers \ {h}) = Cardinality(EmptySleepers) - 1
      BY <2>3, <3>1, FS_RemoveElement
    <3> QED  BY <2>9, <3>2
  <2>11. Len(emptyQ') = Cardinality(EmptySleepers')
    BY <1>1, <2>2, <2>4, <2>10
  <2>12. empty' + Len(emptyQ') >= 0
    <3>1. empty' = 0 /\ Len(emptyQ') = Len(emptyQ) - 1 /\ Len(emptyQ) \in Nat
          /\ empty = -1
      BY <1>0, <1>2, <1>4, <2>2, <2>4
    <3> QED  BY <1>1, <3>1
  <2>13. asleep' = EmptySleepers' /\ ToSet(emptyQ') = EmptySleepers'
    BY <1>0, <1>1, <2>2, <2>4, <2>9
  <2> QED  BY <1>2, <2>2, <2>4, <2>5, <2>9, <2>11, <2>12, <2>13
<1> QED  BY <1>3, <1>4

(***************************************************************************)
(* Behind the wait on full there is something in the ring for the reader,  *)
(* and it has not met the marker before.                                   *)
(***************************************************************************)
LEMMA ReadFinds ==
  ASSUME PipeInv, OneReader, NEW p \in Proc, Doing(p, {"read"}, "waited")
  PROVE  /\ p = cpu /\ calls[p][1] \in Call /\ Call0(p) = calls[p][1]
         /\ calls[p][1].op = "read" /\ calls[p][1].at = "waited"
         /\ Len(calls[p]) = 1 /\ Outer(p) = calls[p][1]
         /\ FullSleepers = {} /\ fullQ = <<>> /\ ~(full < 0)
         /\ p \notin EmptySleepers /\ p \in Takers /\ p \notin Putters
         /\ Size \in 1 .. FILESIZE - 1 /\ ~ended /\ Cell(1) = data[out]
<1>1. /\ p = cpu /\ calls[p][1] \in Call /\ Call0(p) = calls[p][1] /\ Len(calls[p]) > 0
      /\ calls[p][1].op = "read" /\ calls[p][1].at = "waited"
  BY InvParts, DoingIs
<1>2. /\ Len(calls[p]) = 1 /\ Outer(p) = calls[p][1]
      /\ FullSleepers = {} /\ fullQ = <<>> /\ ~(full < 0)
  BY <1>1, ReaderAwake
<1>3. p \notin EmptySleepers /\ p \in Takers /\ p \notin Putters
  BY <1>1, <1>2, InvParts, OwnClaims
<1>4. Cardinality(Takers) = 1
  <2>1. Takers = {p}
    BY <1>3, TakersAtMostOne
  <2> QED  BY <2>1, FS_Singleton
<1>5. Size \in 0 .. FILESIZE - 1 /\ Spent \in {0, 1} /\ full \in Int /\ FILESIZE \in Nat
      /\ in \in Index /\ out \in Index
  BY InvParts, SizeIs, BoundAssumption DEF TypeOK, Spent
<1>6. full + 1 = Size - Spent
  BY <1>4, InvParts DEF CreditInv
<1>7. Size >= 1 /\ (Size = 1 => Spent = 0)
  BY <1>2, <1>5, <1>6
<1>8. ~ended
  <2>1. ended => Size = 1 /\ Spent = 1
    BY InvParts DEF EndInv, Spent
  <2> QED  BY <1>7, <2>1
<1>9. Cell(1) = data[out]
  <2>1. (out + 1 - 1) % FILESIZE = out
    BY <1>5, Remainder DEF Index
  <2> QED  BY <2>1 DEF Cell
<1> QED  BY <1>1, <1>2, <1>3, <1>5, <1>7, <1>8, <1>9

LEMMA ReadTakesStep ==
  ASSUME PipeInv, OneReader, NEW p \in Proc, ReadTakes(p)
  PROVE  PipeInv'
<1> DEFINE f == calls[p][1]
           c == [f EXCEPT !.at = "head", !.i = @ + 1, !.buf = Append(@, data[out])]
<1>0. /\ TypeOK /\ ShapeInv /\ RefInv /\ BoundInv /\ EndInv /\ QueueInv
      /\ CreditInv /\ calls \in [Proc -> Seq(Call)] /\ asleep \subseteq Proc
  BY InvParts
<1>1. /\ Doing(p, {"read"}, "waited") /\ data[out] # Eof /\ out' = Following(out)
      /\ Empty!Signal
      /\ Go(p, [Call0(p) EXCEPT !.at = "head", !.i = @ + 1,
                                !.buf = Append(@, data[out])])
      /\ UNCHANGED <<data, in, ended, cpu, sent, writeRef, ends, life>>
      /\ UNCHANGED <<full, fullQ, PipeSize, flag, broken, got, lost>>
  BY DEF ReadTakes, OutAfterRead, owners, traffic
<1>2. /\ p = cpu /\ f \in Call /\ Call0(p) = f /\ f.op = "read" /\ f.at = "waited"
      /\ Len(calls[p]) = 1 /\ Outer(p) = f
      /\ FullSleepers = {} /\ fullQ = <<>> /\ ~(full < 0)
      /\ p \notin EmptySleepers /\ p \in Takers /\ p \notin Putters
      /\ Size \in 1 .. FILESIZE - 1 /\ ~ended /\ Cell(1) = data[out]
  BY <1>1, ReadFinds
<1>3. Go(p, c) /\ data[out] \in Byte
  BY <1>0, <1>1, <1>2 DEF TypeOK
<1>4. /\ c \in Call /\ c.at = "head" /\ c.op = "read" /\ CallOK(c)
  <2>1. f.buf \in Seq(Byte) /\ f.i \in Nat /\ Append(f.buf, data[out]) \in Seq(Byte)
    BY <1>2, <1>3 DEF Call
  <2> DEFINE b == Append(f.buf, data[out])
  <2>2. f \in Call /\ f.i + 1 \in Nat /\ b \in Seq(Byte) /\ f.op = "read"
        /\ c = [f EXCEPT !.at = "head", !.i = f.i + 1, !.buf = b]
    BY <1>2, <2>1
  <2> HIDE DEF f, b, c
  <2>3. c \in Call /\ c.at = "head" /\ c.op = f.op
    BY <2>2 DEF Call
  <2> QED  BY <2>2, <2>3 DEF CallOK
<1> HIDE DEF f, c
<1>5. Moved(p, c) /\ ShapeInv'
  <2>1. c.op = calls[p][1].op /\ Len(calls[p]) # 2 /\ Len(calls[p]) > 0
    BY <1>2, <1>4 DEF f
  <2>2. life'[p] = "live"
    <3>1. Shape(p) /\ Len(calls[p]) > 0 /\ Outer(p).op = "read"
      BY <1>2, InvParts
    <3>2. life[p] = "live"
      BY <3>1 DEF Shape
    <3> QED  BY <1>1, <3>2
  <2> QED  BY <1>0, <1>1, <1>2, <1>3, <1>4, <2>1, <2>2, GoStep
<1>6. /\ calls' \in [Proc -> Seq(Call)] /\ Others(p)
      /\ Len(calls'[p]) = 1 /\ calls'[p][1] = c
  BY <1>2, <1>5 DEF Moved, Others
<1>7. p \notin Takers' /\ p \notin Putters' /\ p \notin FullSleepers'
      /\ p \notin EmptySleepers'
  BY <1>4, <1>5, <1>6, OwnNothingNext
<1>8. /\ empty' = empty + 1 /\ emptyQ' \in Seq(Proc)
      /\ SemRef' \in [Proc -> 0 .. 1] /\ asleep' = {q \in Proc : SemRef'[q] = 1}
      /\ FullSleepers' = {} /\ asleep' = EmptySleepers'
      /\ ToSet(emptyQ') = EmptySleepers' /\ IsInjective(emptyQ')
      /\ Len(emptyQ') = Cardinality(EmptySleepers') /\ empty' + Len(emptyQ') >= 0
  BY <1>1, <1>2, <1>6, <1>7, EmptySignalStep
<1>9. in \in Index /\ out \in Index /\ FILESIZE \in Nat /\ Size \in Nat /\ Size >= 1
      /\ Size <= FILESIZE - 1
  BY <1>0, <1>2, BoundAssumption DEF TypeOK
<1>10. /\ Size' = Size - 1 /\ \A k \in 1 .. FILESIZE - 1 : Cell(k)' = Cell(k + 1)
  BY <1>1, <1>9, RingTake
<1>12. BoundInv'
  <2>1. c.op = calls[p][1].op /\ c.op # "write"
    BY <1>2, <1>4 DEF f
  <2> QED  BY <1>0, <1>1, <1>4, <1>5, <2>1, GoBound
<1>13. TypeOK'
  <2>1. out' \in Index
    BY <1>1, <1>9, FollowingIs
  <2>2. empty' \in Int
    BY <1>0, <1>8 DEF TypeOK
  <2> QED  BY <1>0, <1>1, <1>6, <1>8, <2>1, <2>2 DEF TypeOK
<1>11. Marked' => Marked
  <2>1. \A k \in 1 .. Size' : Cell(k)' = Cell(k + 1) /\ k + 1 \in 1 .. Size
    BY <1>9, <1>10
  <2> SUFFICES ASSUME Marked' PROVE Marked
    OBVIOUS
  <2>2. PICK k \in 1 .. Size' : Cell(k)' = Eof
    BY DEF Marked
  <2>3. k + 1 \in 1 .. Size /\ Cell(k + 1) = Eof
    BY <2>1, <2>2
  <2> QED  BY <2>3 DEF Marked
<1>17. RefInv'
  <2>1. MarksSame
    <3>1. ~Marking(p) /\ ~Marking(p)'
      BY <1>2, <1>4, <1>6 DEF Marking, f
    <3> QED  BY <1>6, <3>1 DEF MarksSame, Marking, Others
  <2>2. LivesSame
    BY <1>1 DEF LivesSame
  <2> QED  BY <1>0, <1>1, <1>11, <2>1, <2>2, RefSame
<1>14. EndInv'
  <2>1. \A q \in Proc : (Marking(q)' <=> Marking(q))
                         /\ (Marking(q) => calls'[q][1].i = calls[q][1].i)
    BY <1>2, <1>4, <1>6 DEF Marking, Others, f
  <2>2. \A k \in 1 .. Size' : Cell(k)' = Cell(k + 1) /\ k + 1 \in 1 .. Size
    BY <1>9, <1>10
  <2>3. \A k \in 1 .. Size' : Cell(k)' = Eof => k = Size'
    <3> TAKE k \in 1 .. Size'
    <3>1. k + 1 \in 1 .. Size /\ Cell(k)' = Cell(k + 1)
      BY <2>2
    <3>2. \A j \in 1 .. Size : Cell(j) = Eof => j = Size
      BY <1>0 DEF EndInv
    <3>3. Cell(k + 1) = Eof => k + 1 = Size
      BY <3>1, <3>2
    <3> QED  BY <1>9, <1>10, <3>1, <3>3
  <2>4. Marked' <=> Marked
    <3>1. ASSUME Marked PROVE Marked'
      <4>1. PICK j \in 1 .. Size : Cell(j) = Eof
        BY <3>1 DEF Marked
      <4>2. j # 1
        BY <1>1, <1>2, <4>1
      <4> DEFINE k == j - 1
      <4>3. k \in 1 .. Size' /\ j = k + 1
        BY <1>9, <1>10, <4>2
      <4> HIDE DEF k
      <4>4. Cell(k)' = Cell(k + 1)
        BY <2>2, <4>3
      <4>5. Cell(k)' = Eof
        BY <4>1, <4>3, <4>4
      <4> QED  BY <4>3, <4>5 DEF Marked
    <3> QED  BY <1>11, <3>1
  <2> QED  BY <1>0, <1>1, <1>2, <2>1, <2>3, <2>4 DEF EndInv
<1>15. CreditInv'
  <2>1. Spent' = 0 /\ Spent = 0
    BY <1>1, <1>2 DEF Spent
  <2>2. Cardinality(Takers') = Cardinality(Takers) - 1 /\ Cardinality(Takers) \in Nat
    <3>1. \A q \in Proc \ {p} : q \in Takers' <=> q \in Takers
      BY <1>6, OthersClaims
    <3>2. Takers \in SUBSET Proc /\ Takers' \in SUBSET Proc
      BY DEF Takers
    <3> QED  BY <1>2, <1>7, <3>1, <3>2, CardOneMoves
  <2>3. Putters' = Putters
    <3>1. Putters \in SUBSET Proc /\ Putters' \in SUBSET Proc
      BY DEF Putters
    <3>2. \A q \in Proc \ {p} : q \in Putters' <=> q \in Putters
      BY <1>6, OthersClaims
    <3>3. p \notin Putters /\ p \notin Putters'
      BY <1>2, <1>7
    <3> QED  BY <3>1, <3>2, <3>3
  <2>4. Cardinality(Putters) \in Nat /\ empty \in Int /\ full \in Int
    BY <1>0, ClaimsFinite DEF TypeOK
  <2>5. /\ full + Cardinality(Takers) = Size
        /\ empty + Cardinality(Putters) = FILESIZE - 1 - Size
    BY <1>0, <1>9, <2>1 DEF CreditInv
  <2>6. /\ full' + Cardinality(Takers') = Size' - Spent'
        /\ empty' + Cardinality(Putters') = FILESIZE - 1 - Size' + Spent'
    <3>1. full' = full /\ empty' = empty + 1 /\ Size' = Size - 1
      BY <1>1, <1>8, <1>10
    <3>2. Size \in Nat /\ FILESIZE \in Nat
      BY <1>9
    <3>3. full' + Cardinality(Takers') = Size' - Spent'
      BY <2>1, <2>2, <2>4, <2>5, <3>1, <3>2
    <3>4. empty' + Cardinality(Putters') = FILESIZE - 1 - Size' + Spent'
      BY <2>1, <2>3, <2>4, <2>5, <3>1, <3>2
    <3> QED  BY <3>3, <3>4
  <2> QED  BY <2>6 DEF CreditInv
<1>16. QueueInv'
  <2>1. Outer(cpu)' = c
    BY <1>1, <1>2, <1>6 DEF Outer
  <2>2. Outer(cpu)'.at # "slept"
    BY <1>4, <2>1
  <2>3. ToSet(fullQ') = {} /\ Len(fullQ') <= 1 /\ (full' < 0 <=> fullQ' # <<>>)
    <3>1. ToSet(<<>>) = {} /\ Len(<<>>) <= 1
      BY DEF ToSet
    <3> QED  BY <1>1, <1>2, <3>1
  <2> QED  BY <1>8, <2>2, <2>3 DEF QueueInv
<1> QED  BY <1>5, <1>12, <1>13, <1>14, <1>15, <1>16, <1>17 DEF PipeInv

LEMMA ReadEndsStep ==
  ASSUME PipeInv, OneReader, NEW p \in Proc, ReadEnds(p)
  PROVE  PipeInv'
<1>0. /\ TypeOK /\ ShapeInv /\ RefInv /\ BoundInv /\ EndInv /\ QueueInv
      /\ CreditInv /\ calls \in [Proc -> Seq(Call)] /\ asleep \subseteq Proc
  BY InvParts
<1>1. /\ Doing(p, {"read"}, "waited") /\ data[out] = Eof /\ Empty!Signal
      /\ lost' = lost \o Call0(p).buf /\ ended' = TRUE /\ Leave(p)
      /\ UNCHANGED <<data, in, out, cpu, sent, writeRef, ends, life>>
      /\ UNCHANGED <<full, fullQ, PipeSize, flag, broken, got>>
  BY DEF ReadEnds, ring, owners
<1>2. /\ p = cpu /\ calls[p][1] \in Call /\ Call0(p) = calls[p][1]
      /\ calls[p][1].op = "read" /\ calls[p][1].at = "waited"
      /\ Len(calls[p]) = 1 /\ Outer(p) = calls[p][1]
      /\ FullSleepers = {} /\ fullQ = <<>> /\ ~(full < 0)
      /\ p \notin EmptySleepers /\ p \in Takers /\ p \notin Putters
      /\ Size \in 1 .. FILESIZE - 1 /\ ~ended /\ Cell(1) = data[out]
  BY <1>1, ReadFinds
<1>3. FILESIZE \in Nat /\ Size \in Nat /\ Size >= 1
  BY <1>2, BoundAssumption
<1>4. /\ calls' \in [Proc -> Seq(Call)] /\ Others(p) /\ Len(calls'[p]) = 0
  <2>1. Len(calls[p]) > 0
    BY <1>2
  <2>2. /\ calls' \in [Proc -> Seq(Call)] /\ \A q \in Proc \ {p} : calls'[q] = calls[q]
        /\ Len(calls'[p]) = Len(calls[p]) - 1
    BY <1>0, <1>1, <2>1, LeaveEffect
  <2> QED  BY <1>2, <2>2 DEF Others
<1>5. ShapeInv'
  <2>1. ~(Len(calls'[p]) > 0)
    BY <1>4
  <2>2. StackOK(calls'[p])
    BY <1>4 DEF StackOK
  <2>3. Shape(p)'
    BY <1>0, <1>1, <2>1, <2>2 DEF ShapeInv, Shape
  <2>4. ASSUME NEW q \in Proc, q # p PROVE Shape(q)'
    BY <1>0, <1>1, <1>4, <2>4 DEF ShapeInv, Shape, Outer, Others
  <2> QED  BY <2>3, <2>4 DEF ShapeInv
<1>6. p \notin Takers' /\ p \notin Putters' /\ p \notin FullSleepers'
      /\ p \notin EmptySleepers'
  BY <1>4, <1>5, OwnNothingNext
<1>7. /\ empty' = empty + 1 /\ emptyQ' \in Seq(Proc)
      /\ SemRef' \in [Proc -> 0 .. 1] /\ asleep' = {q \in Proc : SemRef'[q] = 1}
      /\ FullSleepers' = {} /\ asleep' = EmptySleepers'
      /\ ToSet(emptyQ') = EmptySleepers' /\ IsInjective(emptyQ')
      /\ Len(emptyQ') = Cardinality(EmptySleepers') /\ empty' + Len(emptyQ') >= 0
  BY <1>1, <1>2, <1>4, <1>6, EmptySignalStep
<1>8. Size' = Size /\ (Marked' <=> Marked) /\ \A k : Cell(k)' = Cell(k)
  BY <1>1 DEF Size, Marked, Cell
<1>9. Size = 1 /\ Marked
  <2>1. 1 \in 1 .. Size
    BY <1>3
  <2> QED  BY <1>0, <1>1, <1>2, <2>1 DEF EndInv, Marked
<1>10. RefInv'
  <2>1. MarksSame
    <3>1. ~Marking(p) /\ ~Marking(p)'
      BY <1>2, <1>4 DEF Marking
    <3> QED  BY <1>4, <3>1 DEF MarksSame, Marking, Others
  <2>2. LivesSame
    BY <1>1 DEF LivesSame
  <2> QED  BY <1>0, <1>1, <1>8, <2>1, <2>2, RefSame
<1>11. BoundInv'
  <2>1. PromisedBy(calls'[p]) = 0
    <3>1. calls'[p] \in Seq(Call)
      BY <1>4
    <3> QED  BY <1>4, <3>1, PromisedByIs
  <2>2. PromisedBy(calls[p]) = 0
    <3>1. calls[p] \in Seq(Call)
      BY <1>0
    <3> QED  BY <1>2, <3>1, PromisedByTop
  <2> QED  BY <1>0, <1>1, <1>4, <2>1, <2>2, BoundSame DEF Others
<1>12. TypeOK'
  <2>1. lost' \in Seq(Byte)
    <3>1. lost \in Seq(Byte) /\ Call0(p).buf \in Seq(Byte)
      BY <1>0, <1>2 DEF TypeOK, Call
    <3> QED  BY <1>1, <3>1
  <2>2. empty' \in Int
    BY <1>0, <1>7 DEF TypeOK
  <2> QED  BY <1>0, <1>1, <1>4, <1>7, <2>1, <2>2 DEF TypeOK
<1>13. EndInv'
  <2>1. \A q \in Proc : (Marking(q)' <=> Marking(q))
                         /\ (Marking(q) => calls'[q][1].i = calls[q][1].i)
    <3>1. ~Marking(p)' /\ ~Marking(p)
      BY <1>2, <1>4 DEF Marking
    <3> QED  BY <1>4, <3>1 DEF Marking, Others
  <2> QED  BY <1>0, <1>1, <1>8, <1>9, <2>1 DEF EndInv
<1>14. CreditInv'
  <2>1. Spent' = 1 /\ Spent = 0
    BY <1>1, <1>2 DEF Spent
  <2>2. Cardinality(Takers') = Cardinality(Takers) - 1 /\ Cardinality(Takers) \in Nat
    <3>1. \A q \in Proc \ {p} : q \in Takers' <=> q \in Takers
      BY <1>4, OthersClaims
    <3>2. Takers \in SUBSET Proc /\ Takers' \in SUBSET Proc
      BY DEF Takers
    <3> QED  BY <1>2, <1>6, <3>1, <3>2, CardOneMoves
  <2>3. Putters' = Putters
    <3>1. Putters \in SUBSET Proc /\ Putters' \in SUBSET Proc
      BY DEF Putters
    <3>2. \A q \in Proc \ {p} : q \in Putters' <=> q \in Putters
      BY <1>4, OthersClaims
    <3>3. p \notin Putters /\ p \notin Putters'
      BY <1>2, <1>6
    <3> QED  BY <3>1, <3>2, <3>3
  <2>4. Cardinality(Putters) \in Nat /\ empty \in Int /\ full \in Int
    BY <1>0, ClaimsFinite DEF TypeOK
  <2>5. /\ full + Cardinality(Takers) = Size
        /\ empty + Cardinality(Putters) = FILESIZE - 1 - Size
    BY <1>0, <1>3, <2>1 DEF CreditInv
  <2>6. full' + Cardinality(Takers') = Size' - Spent'
    <3>1. /\ full' = full /\ Cardinality(Takers') = Cardinality(Takers) - 1
          /\ Size' = Size /\ Spent = 0 /\ Spent' = 1
      BY <1>1, <1>8, <2>1, <2>2
    <3> QED  BY <1>3, <2>2, <2>4, <2>5, <3>1
  <2>7. empty' + Cardinality(Putters') = FILESIZE - 1 - Size' + Spent'
    <3>1. /\ empty' = empty + 1 /\ Cardinality(Putters') = Cardinality(Putters)
          /\ Size' = Size /\ Spent = 0 /\ Spent' = 1
      BY <1>7, <1>8, <2>1, <2>3
    <3> QED  BY <1>3, <2>4, <2>5, <3>1
  <2> QED  BY <2>6, <2>7 DEF CreditInv
<1>15. QueueInv'
  <2>1. ~(Len(calls[cpu])' > 0)
    BY <1>1, <1>2, <1>4
  <2>2. ToSet(fullQ') = {} /\ Len(fullQ') <= 1 /\ (full' < 0 <=> fullQ' # <<>>)
    <3>1. ToSet(<<>>) = {} /\ Len(<<>>) <= 1
      BY DEF ToSet
    <3> QED  BY <1>1, <1>2, <3>1
  <2> QED  BY <1>7, <2>1, <2>2 DEF QueueInv
<1> QED  BY <1>5, <1>10, <1>11, <1>12, <1>13, <1>14, <1>15 DEF PipeInv

(***************************************************************************)
(* A write waits for room.  The marker on top of a sleeping read does not  *)
(* block: the reader sleeps because the ring is empty.                     *)
(***************************************************************************)
LEMMA MarkDoesNotBlock ==
  ASSUME PipeInv, OneReader, NEW p \in Proc, p = cpu, Len(calls[p]) = 2,
         calls[p][1].op = "mark", calls[p][1].at = "head",
         calls[p][1].i < calls[p][1].size
  PROVE  empty >= 1
<1>0. /\ TypeOK /\ EndInv /\ QueueInv /\ CreditInv /\ StackOK(calls[p])
  BY InvParts
<1>1. Len(calls[p]) > 0 /\ Outer(p).op = "read" /\ Outer(p).at = "slept"
  BY <1>0 DEF StackOK, Outer
<1>2. ~Marked /\ Spent = 0
  BY <1>1, NotEnded
<1>3. full < 0 /\ full \in Int
  BY <1>0, <1>1, <1>2 DEF QueueInv, TypeOK
<1>4. Size \in Nat /\ FILESIZE \in Nat /\ FILESIZE >= 2 /\ empty \in Int
  BY <1>0, SizeIs, BoundAssumption DEF TypeOK
<1>5. Size = 0
  <2>1. full + Cardinality(Takers) = Size
    BY <1>0, <1>2, <1>4 DEF CreditInv
  <2>2. Cardinality(Takers) = 0 \/ Cardinality(Takers) = 1
    BY TakersCount
  <2> QED  BY <1>3, <1>4, <2>1, <2>2
<1>6. Putters = {}
  <2> SUFFICES ASSUME NEW q \in Putters PROVE FALSE
    OBVIOUS
  <2>1. q \in Proc /\ In(q, {"write", "mark"}, {"slept", "waited"})
    BY DEF Putters
  <2>2. Len(calls[q]) > 0 /\ calls[q][1].op \in {"write", "mark"}
        /\ calls[q][1].at \in {"slept", "waited"}
    BY <2>1, InvParts, MembersAre
  <2>3. Marking(p)
    BY <1>1 DEF Marking
  <2>5. calls[q][1].op # "write"
    BY <2>1, <2>2, <2>3, WriterHolds
  <2>6. Marking(q)
    BY <2>2, <2>5 DEF Marking
  <2>7. q = p
    BY <1>0, <2>1, <2>3, <2>6 DEF EndInv
  <2> QED  BY <2>2, <2>7
<1>7. Cardinality(Putters) = 0
  BY <1>6, FS_EmptySet
<1>8. empty = FILESIZE - 1
  BY <1>0, <1>2, <1>4, <1>5, <1>7 DEF CreditInv
<1> QED  BY <1>4, <1>8

LEMMA WriteWaitsStep ==
  ASSUME PipeInv, OneReader, NEW p \in Proc, WriteWaits(p)
  PROVE  PipeInv'
<1> DEFINE f == calls[p][1]
           c == IF empty' < 0 THEN [f EXCEPT !.at = "slept", !.by = Nested(@)]
                ELSE [f EXCEPT !.at = "waited"]
<1>0. /\ TypeOK /\ ShapeInv /\ RefInv /\ BoundInv /\ EndInv /\ QueueInv
      /\ CreditInv /\ calls \in [Proc -> Seq(Call)] /\ asleep \subseteq Proc
  BY InvParts
<1>1. /\ Doing(p, {"write", "mark"}, "head") /\ Call0(p).i < Call0(p).size
      /\ Empty!Wait(p)
      /\ IF empty' < 0
         THEN /\ Go(p, [Call0(p) EXCEPT !.at = "slept", !.by = Nested(@)])
              /\ life' = [life EXCEPT ![p] = "live"]
         ELSE Go(p, [Call0(p) EXCEPT !.at = "waited"]) /\ UNCHANGED life
      /\ UNCHANGED <<data, in, out, ended, cpu, sent, writeRef, ends>>
      /\ UNCHANGED <<full, fullQ, PipeSize, flag, broken, got, lost>>
  BY DEF WriteWaits, WaitForRoom, ring, traffic
<1>2. /\ p = cpu /\ Len(calls[p]) > 0 /\ f \in Call /\ f.op \in {"write", "mark"}
      /\ f.at = "head" /\ Call0(p) = f /\ f.i < f.size /\ Go(p, c)
  BY <1>0, <1>1, DoingIs
<1>3. /\ c \in Call /\ c.at = AfterWait(empty') /\ c.op = f.op /\ c.i = f.i
      /\ c.size = f.size /\ c.buf = f.buf /\ c.at \in {"slept", "waited"}
      /\ c.of = f.of
  <2>1. Nested(f.by) \in {"syscall", "Schedule", "nested"}
    BY <1>2 DEF Nested, Call
  <2> QED  BY <1>2, <2>1 DEF Call, AfterWait
<1>l. /\ life' \in [Proc -> {"unborn", "live", "zombie", "gone"}]
      /\ \A q \in Proc \ {p} : life'[q] = life[q]
      /\ life'[p] = "live" \/ (life'[p] = life[p] /\ c.at # "slept")
      /\ life'[p] = life[p] \/ life'[p] = "live"
  <2>1. life \in [Proc -> {"unborn", "live", "zombie", "gone"}]
    BY <1>0 DEF TypeOK
  <2>2. empty' < 0 \/ c.at = "waited"
    BY <1>3 DEF AfterWait
  <2>3. IF empty' < 0 THEN life' = [life EXCEPT ![p] = "live"] ELSE UNCHANGED life
    BY <1>1
  <2> HIDE DEF c
  <2> QED  BY <2>1, <2>2, <2>3
<1>4. CallOK(c)
  <2>1. CallOK(f)
    BY <1>0, <1>2, InvParts, StackFacts DEF StackOK
  <2> HIDE DEF f, c
  <2> QED  BY <1>2, <1>3, <2>1 DEF CallOK
<1>5. empty \in Int /\ empty' = empty - 1
  BY <1>0, <1>1 DEF TypeOK, Empty!Wait
<1>6. p \notin EmptySleepers /\ p \notin ToSet(emptyQ) /\ p \notin Putters
  <2>1. p \notin EmptySleepers
    BY <1>2, WriterAwake
  <2>2. p \notin Putters
    BY <1>0, <1>2, OwnClaims
  <2> QED  BY <1>0, <2>1, <2>2 DEF QueueInv
<1>7. Len(calls[p]) = 2 => ~(empty - 1 < 0)
  <2>1. ASSUME Len(calls[p]) = 2 PROVE empty >= 1
    <3>1. f.op = "mark"
      BY <1>0, <2>1, InvParts DEF StackOK
    <3> QED  BY <1>2, <2>1, <3>1, MarkDoesNotBlock
  <2> QED  BY <1>5, <2>1
<1>8. \/ /\ empty - 1 < 0 /\ c.at = "slept" /\ emptyQ' = Append(emptyQ, p)
         /\ asleep' = asleep \cup {p}
         /\ SemRef' = [SemRef EXCEPT ![p] = @ + 1]
      \/ /\ ~(empty - 1 < 0) /\ c.at = "waited"
         /\ UNCHANGED <<emptyQ, SemRef, asleep>>
  <2>1. CASE empty - 1 < 0
    <3>1. p \notin Empty!ToSet(emptyQ)
      BY <1>6 DEF ToSet, Empty!ToSet
    <3>2. emptyQ' = Append(emptyQ, p)
      BY <1>1, <2>1, <3>1 DEF Empty!Wait, Empty!Blocks, Empty!Queued
    <3> QED  BY <1>1, <1>3, <1>5, <2>1, <3>2 DEF Empty!Wait, Empty!Blocks, AfterWait
  <2>2. CASE ~(empty - 1 < 0)
    BY <1>1, <1>3, <1>5, <2>2 DEF Empty!Wait, Empty!Blocks, AfterWait
  <2> QED  BY <2>1, <2>2
<1> HIDE DEF f, c
<1>9. Moved(p, c) /\ ShapeInv'
  <2>1. c.op = calls[p][1].op
    BY <1>3 DEF f
  <2>2. Len(calls[p]) = 2 => c.at # "slept"
    BY <1>7, <1>8
  <2> QED  BY <1>0, <1>1, <1>2, <1>3, <1>4, <1>l, <2>1, <2>2, GoStep
<1>10. /\ calls' \in [Proc -> Seq(Call)] /\ Others(p) /\ calls'[p][1] = c
       /\ Len(calls'[p]) = Len(calls[p]) /\ Len(calls'[p]) > 0
       /\ Len(calls[p]) = 1 \/ (Len(calls[p]) = 2 /\ calls'[p][2] = calls[p][2])
  BY <1>2, <1>9 DEF Moved, Others
<1>11. RefInv'
  <2>1. MarksSame
    <3>1. (Marking(p)' <=> Marking(p)) /\ calls'[p][1].of = calls[p][1].of
      BY <1>2, <1>3, <1>10 DEF Marking, f
    <3> QED  BY <1>10, <3>1 DEF MarksSame, Marking, Others
  <2>2. LivesSame /\ (Marked' <=> Marked)
    BY <1>1, <1>2, <1>l DEF LivesSame, Marked, Size, Cell
  <2> QED  BY <1>0, <1>1, <2>1, <2>2, RefSame
<1>12. BoundInv'
  <2>1. c.op = calls[p][1].op /\ c.size - c.i = calls[p][1].size - calls[p][1].i
    BY <1>3 DEF f
  <2> QED  BY <1>0, <1>1, <1>3, <1>9, <2>1, GoBound
<1>13. EndInv'
  <2>1. \A q \in Proc : Marking(q)' => Marking(q) /\ calls'[q][1].i = calls[q][1].i
    <3>1. Marking(p)' => Marking(p) /\ calls'[p][1].i = calls[p][1].i
      BY <1>2, <1>3, <1>10 DEF Marking, f
    <3> QED  BY <1>10, <3>1 DEF Marking, Others
  <2> QED  BY <1>0, <1>1, <2>1, EndSame
<1>14. c.at = "slept" => Len(calls[p]) = 1 /\ p \notin asleep
  <2> HAVE c.at = "slept"
  <2>1. Len(calls[p]) = 1
    BY <1>7, <1>8, <1>10
  <2>2. p \notin FullSleepers
    <3>1. Outer(p).op # "read"
      BY <1>2, <2>1 DEF Outer, f
    <3> QED  BY <1>0, <1>2, <3>1, OwnClaims
  <2> QED  BY <1>0, <1>6, <2>1, <2>2 DEF QueueInv
<1>15. TypeOK'
  <2>1. /\ SemRef \in [Proc -> 0 .. 1] /\ asleep = {q \in Proc : SemRef[q] = 1}
        /\ emptyQ \in Seq(Proc)
    BY <1>0 DEF TypeOK
  <2>2. /\ SemRef' \in [Proc -> 0 .. 1] /\ asleep' = {q \in Proc : SemRef'[q] = 1}
        /\ emptyQ' \in Seq(Proc)
    <3>1. CASE UNCHANGED <<emptyQ, SemRef, asleep>>
      BY <2>1, <3>1
    <3>2. CASE /\ c.at = "slept" /\ emptyQ' = Append(emptyQ, p)
               /\ asleep' = asleep \cup {p}
               /\ SemRef' = [SemRef EXCEPT ![p] = @ + 1]
      <4>1. SemRef[p] = 0
        BY <1>14, <2>1, <3>2
      <4>2. SemRef' \in [Proc -> 0 .. 1] /\ SemRef'[p] = 1
            /\ \A q \in Proc \ {p} : SemRef'[q] = SemRef[q]
        BY <2>1, <3>2, <4>1
      <4>3. asleep' = {q \in Proc : SemRef'[q] = 1}
        BY <2>1, <3>2, <4>2
      <4>4. emptyQ' \in Seq(Proc)
        BY <2>1, <3>2
      <4> QED  BY <4>2, <4>3, <4>4
    <3> QED  BY <1>8, <3>1, <3>2
  <2>3. empty' \in Int
    BY <1>5
  <2> QED  BY <1>0, <1>1, <1>10, <1>l, <2>2, <2>3 DEF TypeOK
<1>16. /\ p \in Putters' /\ (p \in EmptySleepers' <=> p \in asleep' /\ c.at = "slept")
       /\ (p \in Takers' <=> p \in Takers)
       /\ ((p \in asleep' <=> p \in asleep) => (p \in FullSleepers' <=> p \in FullSleepers))
       /\ (c.at = "slept" => p \notin FullSleepers' /\ p \notin FullSleepers)
  <2>1. c.op \in {"write", "mark"}
    BY <1>2, <1>3
  <2>2. p \in Putters' /\ (p \in EmptySleepers' <=> p \in asleep' /\ c.at = "slept")
    BY <1>3, <1>9, <1>10, <2>1, OwnClaimsNext
  <2>3. CASE Len(calls[p]) = 1
    <3>1. Outer(p).op # "read" /\ calls'[p][Len(calls'[p])].op # "read"
      BY <1>2, <1>10, <2>1, <2>3 DEF Outer, f
    <3>2. p \notin Takers /\ p \notin Takers' /\ p \notin FullSleepers /\ p \notin FullSleepers'
      BY <1>0, <1>2, <1>9, <1>10, <3>1, OwnClaims, OwnClaimsNext
    <3> QED  BY <2>2, <3>2
  <2>4. CASE Len(calls[p]) = 2 /\ calls'[p][2] = calls[p][2]
    <3>1. calls'[p][Len(calls'[p])] = Outer(p) /\ Outer(p).op = "read"
      BY <1>0, <1>10, <2>4, InvParts DEF Outer, StackOK
    <3>2. p \in Takers' <=> p \in Takers
      BY <1>0, <1>2, <1>9, <1>10, <3>1, OwnClaims, OwnClaimsNext
    <3>3. (p \in asleep' <=> p \in asleep) => (p \in FullSleepers' <=> p \in FullSleepers)
      BY <1>0, <1>2, <1>9, <1>10, <3>1, OwnClaims, OwnClaimsNext
    <3>4. c.at # "slept"
      BY <1>14, <2>4
    <3> QED  BY <2>2, <3>2, <3>3, <3>4
  <2> QED  BY <1>10, <2>3, <2>4
<1>17. \A q \in Proc \ {p} : q \in asleep' <=> q \in asleep
  BY <1>8
<1>18. FullSleepers' = FullSleepers
  <2>1. FullSleepers \in SUBSET Proc /\ FullSleepers' \in SUBSET Proc
    BY <1>0, <1>8 DEF FullSleepers, Sleepers
  <2>2. \A q \in Proc \ {p} : q \in FullSleepers' <=> q \in FullSleepers
    BY <1>10, <1>17, OthersClaims
  <2>3. p \in FullSleepers' <=> p \in FullSleepers
    BY <1>8, <1>16
  <2> QED  BY <2>1, <2>2, <2>3
<1>19. CreditInv'
  <2>1. Size' = Size /\ Spent' = Spent
    BY <1>1 DEF Size, Spent
  <2>2. Cardinality(Putters') = Cardinality(Putters) + 1 /\ Cardinality(Putters) \in Nat
    <3>1. \A q \in Proc \ {p} : q \in Putters' <=> q \in Putters
      BY <1>10, OthersClaims
    <3>2. Putters \in SUBSET Proc /\ Putters' \in SUBSET Proc
      BY DEF Putters
    <3>3. p \in Putters' /\ p \notin Putters
      BY <1>6, <1>16
    <3> QED  BY <3>1, <3>2, <3>3, CardOneMoves
  <2>3. Takers' = Takers
    <3>1. Takers \in SUBSET Proc /\ Takers' \in SUBSET Proc
      BY DEF Takers
    <3>2. \A q \in Proc \ {p} : q \in Takers' <=> q \in Takers
      BY <1>10, OthersClaims
    <3>3. p \in Takers' <=> p \in Takers
      BY <1>16
    <3> QED  BY <3>1, <3>2, <3>3
  <2>4. empty' + Cardinality(Putters') = empty + Cardinality(Putters)
    BY <1>5, <2>2
  <2> QED  BY <1>0, <1>1, <2>1, <2>3, <2>4 DEF CreditInv
<1>20. QueueInv'
  <2>1. /\ ToSet(emptyQ) = EmptySleepers /\ IsInjective(emptyQ) /\ emptyQ \in Seq(Proc)
        /\ Len(emptyQ) = Cardinality(EmptySleepers) /\ empty + Len(emptyQ) >= 0
        /\ asleep = FullSleepers \cup EmptySleepers /\ Len(emptyQ) \in Nat
    BY <1>0 DEF QueueInv, TypeOK
  <2>2. \A q \in Proc \ {p} : q \in EmptySleepers' <=> q \in EmptySleepers
    BY <1>10, <1>17, OthersClaims
  <2>3. EmptySleepers \in SUBSET Proc /\ EmptySleepers' \in SUBSET Proc
    BY <1>0, <1>8 DEF EmptySleepers, Sleepers
  <2>4. /\ ToSet(emptyQ') = EmptySleepers' /\ IsInjective(emptyQ')
        /\ Len(emptyQ') = Cardinality(EmptySleepers') /\ empty' + Len(emptyQ') >= 0
        /\ asleep' = FullSleepers \cup EmptySleepers'
    <3>1. CASE /\ empty - 1 < 0 /\ c.at = "slept" /\ emptyQ' = Append(emptyQ, p)
               /\ asleep' = asleep \cup {p}
      <4>1. EmptySleepers' = EmptySleepers \cup {p}
        BY <1>16, <2>2, <2>3, <3>1
      <4>2. /\ Len(Append(emptyQ, p)) = Len(emptyQ) + 1
            /\ ToSet(Append(emptyQ, p)) = ToSet(emptyQ) \cup {p}
            /\ IsInjective(Append(emptyQ, p))
        BY <1>6, <2>1, QueueAppend
      <4>3. Cardinality(EmptySleepers') = Cardinality(EmptySleepers) + 1
        <5>1. IsFiniteSet(EmptySleepers)
          BY ClaimsFinite
        <5> QED  BY <1>6, <4>1, <5>1, FS_AddElement
      <4>4. Len(emptyQ') = Len(emptyQ) + 1
        BY <3>1, <4>2
      <4>5. empty' + Len(emptyQ') >= 0
        BY <1>5, <2>1, <4>4
      <4>6. asleep' = FullSleepers \cup EmptySleepers'
        BY <2>1, <3>1, <4>1
      <4>7. Len(emptyQ') = Cardinality(EmptySleepers')
        BY <2>1, <4>3, <4>4
      <4> QED  BY <2>1, <3>1, <4>1, <4>2, <4>5, <4>6, <4>7
    <3>2. CASE ~(empty - 1 < 0) /\ c.at = "waited" /\ UNCHANGED <<emptyQ, asleep>>
      <4>1. p \notin EmptySleepers'
        BY <1>16, <3>2
      <4>2. EmptySleepers' = EmptySleepers
        BY <1>6, <2>2, <2>3, <4>1
      <4>3. empty' + Len(emptyQ) >= 0
        BY <1>5, <2>1, <3>2
      <4> QED  BY <2>1, <3>2, <4>2, <4>3
    <3> QED  BY <1>8, <3>1, <3>2
  <2>5. Marked' <=> Marked
    BY <1>1 DEF Marked, Size, Cell
  <2>6. Len(calls[cpu])' > 0 /\ Outer(cpu)'.op = "read" /\ Outer(cpu)'.at = "slept"
          /\ ~Marked' => full' < 0
    <3>1. CASE Len(calls[p]) = 1
      <4>1. Outer(cpu)' = c
        BY <1>1, <1>2, <1>10, <3>1 DEF Outer
      <4>2. Outer(cpu)'.op # "read"
        BY <1>2, <1>3, <4>1
      <4> QED  BY <4>2
    <3>2. CASE Len(calls[p]) = 2 /\ calls'[p][2] = calls[p][2]
      <4>1. Outer(cpu)' = Outer(cpu) /\ Len(calls[cpu]) > 0
        BY <1>1, <1>2, <1>10, <3>2 DEF Outer
      <4> QED  BY <1>0, <1>1, <2>5, <4>1 DEF QueueInv
    <3> QED  BY <1>10, <3>1, <3>2
  <2> QED  BY <1>0, <1>1, <1>18, <2>4, <2>6 DEF QueueInv
<1> QED  BY <1>9, <1>11, <1>12, <1>13, <1>15, <1>19, <1>20 DEF PipeInv

(***************************************************************************)
(* A signal on full, by a writer: the only one it can wake is the reader.  *)
(***************************************************************************)
LEMMA SleepersDisjoint ==
  ASSUME PipeInv, NEW q \in FullSleepers
  PROVE  q \notin EmptySleepers
<1>1. q \in Proc /\ In(q, {"read"}, {"slept"})
  BY InvParts DEF FullSleepers, Sleepers
<1>2. Len(calls[q]) > 0 /\ Outer(q).op = "read" /\ Outer(q).at \in {"slept"}
  BY <1>1, InvParts, MembersAre
<1>3. SUFFICES ASSUME In(q, {"write", "mark"}, {"slept"}) PROVE FALSE
  BY DEF EmptySleepers, Sleepers
<1>4. calls[q][1].op \in {"write", "mark"} /\ calls[q][1].at \in {"slept"}
  BY <1>1, <1>3, InvParts, MembersAre
<1>5. StackOK(calls[q]) /\ Len(calls[q]) \in Nat
  BY <1>1, InvParts, StackFacts
<1> DEFINE l == Len(calls[q])
<1>6. l \in Nat /\ l > 0 /\ l <= 2
  BY <1>2, <1>5 DEF StackOK
<1>7. l # 1 /\ l # 2
  BY <1>2, <1>4, <1>5 DEF StackOK, Outer
<1> HIDE DEF l
<1> QED  BY <1>6, <1>7

LEMMA FullAtLeast ==
  ASSUME PipeInv, OneReader
  PROVE  full \in Int /\ full >= -1
<1>1. full \in Int /\ Size \in Nat /\ Spent \in {0, 1}
  BY InvParts, SizeIs, BoundAssumption DEF TypeOK, Spent
<1>2. Size - Spent >= 0
  <2>1. Spent = 1 => Size = 1
    BY InvParts DEF Spent, EndInv
  <2> QED  BY <1>1, <2>1
<1>3. full + Cardinality(Takers) = Size - Spent
  BY InvParts DEF CreditInv
<1> QED  BY <1>1, <1>2, <1>3, TakersCount

LEMMA FullSignalStep ==
  ASSUME PipeInv, OneReader, Full!Signal,
         \A q \in Proc : /\ In(q, {"read"}, {"slept"})' <=> In(q, {"read"}, {"slept"})
                         /\ In(q, {"write", "mark"}, {"slept"})'
                              <=> In(q, {"write", "mark"}, {"slept"})
  PROVE  /\ full' = full + 1 /\ fullQ' \in Seq(Proc)
         /\ SemRef' \in [Proc -> 0 .. 1] /\ asleep' = {q \in Proc : SemRef'[q] = 1}
         /\ EmptySleepers' = EmptySleepers
         /\ asleep' = FullSleepers' \cup EmptySleepers'
         /\ ToSet(fullQ') = FullSleepers' /\ Len(fullQ') <= 1
         /\ (full' < 0 <=> fullQ' # <<>>)
<1>0. /\ TypeOK /\ QueueInv /\ asleep \subseteq Proc /\ full \in Int
      /\ fullQ \in Seq(Proc) /\ SemRef \in [Proc -> 0 .. 1]
      /\ asleep = {q \in Proc : SemRef[q] = 1}
  BY InvParts DEF TypeOK
<1>1. /\ ToSet(fullQ) = FullSleepers /\ Len(fullQ) <= 1 /\ (full < 0 <=> fullQ # <<>>)
      /\ asleep = FullSleepers \cup EmptySleepers
  BY <1>0 DEF QueueInv
<1>2. full' = full + 1
  BY DEF Full!Signal
<1>3. /\ FullSleepers = {q \in asleep : In(q, {"read"}, {"slept"})}
      /\ EmptySleepers = {q \in asleep : In(q, {"write", "mark"}, {"slept"})}
      /\ FullSleepers' = {q \in asleep' : In(q, {"read"}, {"slept"})'}
      /\ EmptySleepers' = {q \in asleep' : In(q, {"write", "mark"}, {"slept"})'}
  BY DEF FullSleepers, EmptySleepers, Sleepers
<1>4. CASE full + 1 # 0
  <2>1. UNCHANGED <<fullQ, SemRef, asleep>>
    BY <1>4 DEF Full!Signal, Full!WakesAt
  <2>2. ~(full < 0) /\ ~(full' < 0)
    BY <1>2, <1>4, FullAtLeast
  <2>3. FullSleepers' = FullSleepers /\ EmptySleepers' = EmptySleepers
    BY <1>0, <1>3, <2>1
  <2> QED  BY <1>0, <1>1, <1>2, <2>1, <2>2, <2>3
<1>5. CASE full + 1 = 0
  <2> DEFINE h == Head(fullQ)
  <2>1. /\ fullQ # <<>> /\ SemRef' = [SemRef EXCEPT ![h] = @ - 1]
        /\ SemRef[h] = 1 => fullQ' = Tail(fullQ) /\ asleep' = asleep \ {h}
    BY <1>5 DEF Full!Signal, Full!WakesAt, Full!Wake
  <2>2. IsInjective(fullQ)
    <3>1. DOMAIN fullQ = 1 .. Len(fullQ) /\ Len(fullQ) \in Nat
      BY <1>0
    <3>2. \A i, j \in 1 .. Len(fullQ) : i = j
      BY <1>1, <3>1
    <3> QED  BY <3>1, <3>2 DEF IsInjective
  <2>3. /\ h \in Proc /\ h \in ToSet(fullQ) /\ Tail(fullQ) \in Seq(Proc)
        /\ Len(Tail(fullQ)) = Len(fullQ) - 1
        /\ ToSet(Tail(fullQ)) = ToSet(fullQ) \ {h}
    BY <1>0, <2>1, <2>2, QueueTail
  <2> HIDE DEF h
  <2>4. h \in FullSleepers /\ SemRef[h] = 1 /\ h \notin EmptySleepers
    BY <1>0, <1>1, <2>3, SleepersDisjoint
  <2>5. fullQ' = Tail(fullQ) /\ asleep' = asleep \ {h}
    BY <2>1, <2>4
  <2>6. SemRef' \in [Proc -> 0 .. 1] /\ asleep' = {q \in Proc : SemRef'[q] = 1}
    <3>1. /\ SemRef' \in [Proc -> 0 .. 1] /\ SemRef'[h] = 0
          /\ \A q \in Proc \ {h} : SemRef'[q] = SemRef[q]
      BY <1>0, <2>1, <2>3, <2>4
    <3> QED  BY <1>0, <2>3, <2>5, <3>1
  <2>7. EmptySleepers' = EmptySleepers /\ FullSleepers' = FullSleepers \ {h}
    BY <1>0, <1>3, <2>4, <2>5
  <2>8. fullQ' = <<>>
    <3>1. Len(fullQ) \in Nat /\ Len(fullQ) # 0
      BY <1>0, <2>1
    <3>2. Len(fullQ) = 1
      BY <1>1, <3>1
    <3>3. fullQ' \in Seq(Proc) /\ Len(fullQ') = 0
      BY <2>3, <2>5, <3>2
    <3> QED  BY <3>3
  <2>9. asleep' = FullSleepers' \cup EmptySleepers'
    BY <1>1, <2>4, <2>5, <2>7
  <2>10. Len(fullQ') <= 1 /\ ~(full' < 0)
    <3>1. Len(<<>>) <= 1
      OBVIOUS
    <3> QED  BY <1>2, <1>5, <2>8, <3>1
  <2>11. ToSet(fullQ') = FullSleepers'
    BY <1>1, <2>3, <2>5, <2>7
  <2> QED  BY <1>2, <2>3, <2>5, <2>6, <2>7, <2>8, <2>9, <2>10, <2>11
<1> QED  BY <1>4, <1>5

(***************************************************************************)
(* Behind the wait on empty there is room in the ring for the writer.      *)
(***************************************************************************)
LEMMA WriteFinds ==
  ASSUME PipeInv, NEW p \in Proc, Doing(p, {"write", "mark"}, "waited")
  PROVE  /\ p = cpu /\ calls[p][1] \in Call /\ Call0(p) = calls[p][1]
         /\ Len(calls[p]) > 0 /\ CallOK(calls[p][1])
         /\ calls[p][1].op \in {"write", "mark"} /\ calls[p][1].at = "waited"
         /\ calls[p][1].i < calls[p][1].size
         /\ p \in Putters /\ ~Marked /\ ~ended /\ Spent = 0
         /\ Size \in Nat /\ Size < FILESIZE - 1
<1>1. /\ p = cpu /\ calls[p][1] \in Call /\ Call0(p) = calls[p][1] /\ Len(calls[p]) > 0
      /\ calls[p][1].op \in {"write", "mark"} /\ calls[p][1].at = "waited"
  BY InvParts, DoingIs
<1>2. CallOK(calls[p][1])
  BY <1>1, InvParts, StackFacts DEF StackOK
<1>3. calls[p][1].i < calls[p][1].size
  BY <1>1, <1>2 DEF CallOK
<1>4. ~Marked /\ ~ended /\ Spent = 0
  BY <1>1, <1>3, NotEnded
<1>5. p \in Putters /\ p \notin EmptySleepers
  BY <1>1, InvParts, OwnClaims, WriterAwake
<1>6. EmptySleepers \subseteq Putters \ {p}
  BY <1>5, InvParts DEF EmptySleepers, Putters, Sleepers, In
<1>7. Cardinality(EmptySleepers) <= Cardinality(Putters) - 1
  <2>1. IsFiniteSet(Putters)
    BY ClaimsFinite
  <2>2. Cardinality(Putters \ {p}) = Cardinality(Putters) - 1 /\ IsFiniteSet(Putters \ {p})
    BY <1>5, <2>1, FS_RemoveElement
  <2>3. Cardinality(EmptySleepers) <= Cardinality(Putters \ {p})
    BY <1>6, <2>2, FS_Subset
  <2> QED  BY <2>2, <2>3
<1>8. Size \in Nat /\ empty \in Int /\ FILESIZE \in Nat
  BY InvParts, SizeIs, BoundAssumption DEF TypeOK
<1>9. /\ empty + Cardinality(Putters) = FILESIZE - 1 - Size
      /\ empty + Cardinality(EmptySleepers) >= 0
  BY <1>4, <1>8, InvParts DEF CreditInv, QueueInv
<1>10. Cardinality(Putters) \in Nat /\ Cardinality(EmptySleepers) \in Nat
  BY ClaimsFinite
<1>11. Size < FILESIZE - 1
  BY <1>7, <1>8, <1>9, <1>10
<1> QED  BY <1>1, <1>2, <1>3, <1>4, <1>5, <1>8, <1>11

LEMMA WritePutsStep ==
  ASSUME PipeInv, OneReader, NEW p \in Proc, WritePuts(p)
  PROVE  PipeInv'
<1> DEFINE f == calls[p][1]
           c == [f EXCEPT !.at = "head", !.i = @ + 1]
           b == IF f.op = "mark" THEN Eof ELSE sent + 1
<1>0. /\ TypeOK /\ ShapeInv /\ RefInv /\ BoundInv /\ EndInv /\ QueueInv
      /\ CreditInv /\ calls \in [Proc -> Seq(Call)] /\ asleep \subseteq Proc
  BY InvParts
<1>1. Doing(p, {"write", "mark"}, "waited")
  BY DEF WritePuts
<1>2. /\ p = cpu /\ f \in Call /\ Call0(p) = f /\ Len(calls[p]) > 0 /\ CallOK(f)
      /\ f.op \in {"write", "mark"} /\ f.at = "waited" /\ f.i < f.size
      /\ p \in Putters /\ ~Marked /\ ~ended /\ Spent = 0
      /\ Size \in Nat /\ Size < FILESIZE - 1
  BY <1>1, WriteFinds
<1>3. /\ data' = [data EXCEPT ![in] = b] /\ in' = Following(in) /\ Full!Signal
      /\ sent' = (IF f.op = "mark" THEN sent ELSE sent + 1) /\ Go(p, c)
      /\ UNCHANGED <<empty, emptyQ, out, PipeSize, flag, broken, got, lost, ended>>
      /\ UNCHANGED <<cpu, writeRef, ends, life>>
  BY <1>2 DEF WritePuts, owners
<1>4. /\ c \in Call /\ c.at = "head" /\ c.op = f.op /\ c.i = f.i + 1 /\ c.size = f.size
      /\ c.buf = f.buf /\ f.i \in Nat /\ f.size \in Nat
  <2>1. f \in Call /\ f.i + 1 \in Nat /\ f.i \in Nat /\ f.size \in Nat
        /\ c = [f EXCEPT !.at = "head", !.i = f.i + 1]
    BY <1>2 DEF Call
  <2> HIDE DEF f, c
  <2> QED  BY <2>1 DEF Call
<1>5. CallOK(c)
  <2> HIDE DEF f, c
  <2>1. c.i <= c.size
    BY <1>2, <1>4
  <2> QED  BY <1>2, <1>4, <2>1 DEF CallOK
<1> HIDE DEF f, c
<1>6. Moved(p, c) /\ ShapeInv'
  <2>1. c.op = calls[p][1].op /\ c.at # "slept"
    BY <1>4 DEF f
  <2>2. life'[p] = life[p] /\ \A q \in Proc \ {p} : life'[q] = life[q]
    BY <1>3
  <2> QED  BY <1>0, <1>2, <1>3, <1>4, <1>5, <2>1, <2>2, GoStep
<1>7. /\ calls' \in [Proc -> Seq(Call)] /\ Others(p) /\ calls'[p][1] = c
      /\ Len(calls'[p]) = Len(calls[p]) /\ Len(calls'[p]) > 0
      /\ Len(calls[p]) = 1 \/ (Len(calls[p]) = 2 /\ calls'[p][2] = calls[p][2])
  BY <1>2, <1>6 DEF Moved, Others
<1>9. MaxBytes \in Nat /\ sent \in 0 .. MaxBytes
  BY <1>0, BoundAssumption DEF TypeOK
<1>10. BoundInv' /\ sent' \in 0 .. MaxBytes
  <2>1. CASE f.op = "mark"
    <3>1. c.op = calls[p][1].op /\ c.op # "write" /\ UNCHANGED sent
      BY <1>3, <1>4, <2>1 DEF f
    <3> QED  BY <1>0, <1>4, <1>6, <1>9, <3>1, GoBound
  <2>2. CASE f.op = "write"
    <3>1. Len(calls[p]) = 1 /\ Len(calls'[p]) = 1
      BY <1>2, <1>7, <2>2, WriterHolds DEF f
    <3>2. PromisedBy(calls[p]) = f.size - f.i
      <4>1. calls[p] \in Seq(Call) /\ calls[p][1] = f
        BY <1>0 DEF f
      <4> QED  BY <2>2, <3>1, <4>1, PromisedByTop
    <3>3. PromisedBy(calls'[p]) = f.size - (f.i + 1)
      <4>1. calls'[p] \in Seq(Call) /\ calls'[p][1] = c
        BY <1>7
      <4>2. PromisedBy(calls'[p]) = c.size - c.i
        BY <1>4, <2>2, <3>1, <4>1, PromisedByTop
      <4> QED  BY <1>4, <4>2
    <3> DEFINE n == 1
    <3>4. /\ Promised'[p] \in Nat /\ Promised[p] = Promised'[p] + n /\ n \in Nat
          /\ \A q \in Proc \ {p} : Promised'[q] = Promised[q]
      <4>1. Promised[p] = f.size - f.i /\ Promised'[p] = f.size - (f.i + 1)
        BY <3>2, <3>3, PromisedIs
      <4>2. f.i \in Nat /\ f.size \in Nat /\ f.i < f.size
        BY <1>2, <1>4
      <4>3. \A q \in Proc \ {p} : calls'[q] = calls[q]
        BY <1>7 DEF Others
      <4>4. \A q \in Proc \ {p} : Promised'[q] = Promised[q]
        BY <4>3, PromisedIs
      <4> QED  BY <4>1, <4>2, <4>4
    <3>5. \A q \in Proc : Promised[q] \in 0 .. MaxBytes
      BY <1>0 DEF BoundInv
    <3> HIDE DEF n
    <3>6. Total(Promised, MaxBytes) = Total(Promised', MaxBytes) + n
      <4>1. MaxBytes \in Nat /\ Promised[p] <= MaxBytes
        BY <1>9, <3>5
      <4>2. \A q \in Proc \ {p} : Promised[q] = Promised'[q]
        BY <3>4
      <4>3. Adds(Promised', Promised, p, n, MaxBytes)
        BY <3>4, <4>1, <4>2 DEF Adds
      <4> QED  BY <4>1, <4>3, TotalGrows
    <3>7. Total(Promised', MaxBytes) \in Nat /\ Total(Promised, MaxBytes) \in Nat
      BY <1>9, TotalType
    <3>8. sent + Total(Promised, MaxBytes) <= MaxBytes
      BY <1>0 DEF BoundInv
    <3>9. sent' = sent + 1
      BY <1>3, <2>2
    <3>10. Total(Promised, MaxBytes)' = Total(Promised', MaxBytes)
      BY DEF Total
    <3>11. sent' + Total(Promised', MaxBytes) <= MaxBytes /\ sent' \in 0 .. MaxBytes
      BY <1>9, <3>6, <3>7, <3>8, <3>9 DEF n
    <3>12. \A q \in Proc : Promised'[q] \in 0 .. MaxBytes
      <4>1. Promised'[p] \in 0 .. MaxBytes
        BY <1>9, <3>4, <3>5 DEF n
      <4> QED  BY <3>4, <3>5, <4>1
    <3> QED  BY <3>10, <3>11, <3>12 DEF BoundInv
  <2> QED  BY <1>2, <2>1, <2>2
<1>11. b \in Byte \cup {Eof} /\ (b = Eof <=> f.op = "mark")
  BY <1>2, <1>3, <1>9, <1>10 DEF Byte, Eof
<1> HIDE DEF b
<1>12. /\ in \in Index /\ out \in Index /\ data \in [Index -> Byte \cup {Eof}]
       /\ FILESIZE \in Nat
  BY <1>0, BoundAssumption DEF TypeOK
<1>13. /\ Size' = Size + 1 /\ \A k \in 1 .. Size : Cell(k)' = Cell(k)
       /\ \A k \in 1 .. FILESIZE : k = Size + 1 => Cell(k)' = b
  BY <1>2, <1>3, <1>12, RingPut
<1>14. \A k \in 1 .. Size' : \/ k \in 1 .. Size /\ Cell(k)' = Cell(k) /\ Cell(k)' # Eof
                             \/ k = Size' /\ Cell(k)' = b
  <2> TAKE k \in 1 .. Size'
  <2>1. CASE k = Size + 1
    <3>1. k \in 1 .. FILESIZE
      BY <1>2, <1>12, <2>1
    <3> QED  BY <1>13, <2>1, <3>1
  <2>2. CASE k # Size + 1
    <3>1. k \in 1 .. Size
      BY <1>2, <1>13, <2>2
    <3> QED  BY <1>2, <1>13, <3>1 DEF Marked
  <2> QED  BY <2>1, <2>2
<1>15. Marked' <=> f.op = "mark"
  <2>1. ASSUME f.op = "mark" PROVE Marked'
    <3>1. \A k : k = Size' => k \in 1 .. Size' /\ k \in 1 .. FILESIZE /\ k = Size + 1
      BY <1>2, <1>12, <1>13
    <3>2. \A k : k = Size' => k \in 1 .. Size' /\ Cell(k)' = Eof
      BY <1>11, <1>13, <2>1, <3>1
    <3> QED  BY <3>2 DEF Marked
  <2>2. ASSUME Marked' PROVE f.op = "mark"
    <3>1. PICK k \in 1 .. Size' : Cell(k)' = Eof
      BY <2>2 DEF Marked
    <3> QED  BY <1>11, <1>14, <3>1
  <2> QED  BY <2>1, <2>2
<1>m. (\A q \in Proc : Marking(q)' <=> Marking(q)) /\ MarksSame
  <2>1. (Marking(p)' <=> Marking(p)) /\ calls'[p][1].of = calls[p][1].of
    <3>1. c.of = f.of
      BY <1>2 DEF c, f, Call
    <3> QED  BY <1>2, <1>4, <1>7, <3>1 DEF Marking, f
  <2> QED  BY <1>7, <2>1 DEF Marking, MarksSame, Others
<1>8. RefInv'
  <2>1. LivesSame
    BY <1>3 DEF LivesSame
  <2>2. (\A q \in Proc : ~Marking(q)) => ~Marked'
    BY <1>2, <1>15 DEF Marking, f
  <2> QED  BY <1>0, <1>3, <1>m, <2>1, <2>2, RefSame
<1>16. EndInv'
  <2>1. \A q \in Proc : Marking(q)' <=> Marking(q)
    BY <1>m
  <2>2. CASE f.op = "mark"
    <3>1. Marking(p)
      BY <1>2, <2>2 DEF Marking, f
    <3>2. \A q \in Proc : Marking(q) => q = p
      BY <1>0, <3>1 DEF EndInv
    <3>3. calls'[p][1].i # 0
      BY <1>4, <1>7
    <3>4. \A q \in Proc : Marking(q)' => (calls'[q][1].i = 0 <=> ~Marked')
      BY <1>15, <2>1, <2>2, <3>2, <3>3
    <3>5. \A k \in 1 .. Size' : Cell(k)' = Eof => k = Size'
      BY <1>14
    <3> QED  BY <1>0, <1>2, <1>3, <2>1, <3>2, <3>4, <3>5 DEF EndInv
  <2>3. CASE f.op = "write"
    <3>2. \A q \in Proc : ~Marking(q)
      BY <1>2, <2>3, WriterHolds DEF f
    <3>3. \A k \in 1 .. Size' : Cell(k)' = Eof => k = Size'
      BY <1>14
    <3>4. ~Marked'
      BY <1>15, <2>3
    <3> QED  BY <1>0, <1>2, <1>3, <2>1, <3>2, <3>3, <3>4 DEF EndInv
  <2> QED  BY <1>2, <2>2, <2>3
<1>17. \A q \in Proc : /\ In(q, {"read"}, {"slept"})' <=> In(q, {"read"}, {"slept"})
                       /\ In(q, {"write", "mark"}, {"slept"})'
                            <=> In(q, {"write", "mark"}, {"slept"})
  <2>1. \A q \in Proc \ {p} : /\ In(q, {"read"}, {"slept"})' <=> In(q, {"read"}, {"slept"})
                              /\ In(q, {"write", "mark"}, {"slept"})'
                                   <=> In(q, {"write", "mark"}, {"slept"})
    BY <1>7 DEF In, Others
  <2>2. ~In(p, {"write", "mark"}, {"slept"})
    <3>1. calls[p][1].at \notin {"slept"}
      BY <1>2 DEF f
    <3> QED  BY <1>0, <3>1, MembersAre
  <2>3. ~In(p, {"write", "mark"}, {"slept"})'
    <3>1. calls'[p][1].at \notin {"slept"}
      BY <1>4, <1>7
    <3> QED  BY <1>6, <1>7, <3>1, MembersAreNext
  <2>4. In(p, {"read"}, {"slept"})' <=> In(p, {"read"}, {"slept"})
    <3>1. CASE Len(calls[p]) = 1
      <4>1. Outer(p).op # "read" /\ calls'[p][Len(calls'[p])].op # "read"
        BY <1>2, <1>4, <1>7, <3>1 DEF Outer, f
      <4> QED  BY <1>0, <1>6, <1>7, <4>1, MembersAre, MembersAreNext
    <3>2. CASE Len(calls[p]) = 2 /\ calls'[p][2] = calls[p][2]
      <4>1. Outer(p) = calls'[p][Len(calls'[p])]
        BY <1>7, <3>2 DEF Outer
      <4> QED  BY <1>0, <1>2, <1>6, <1>7, <4>1, MembersAre, MembersAreNext
    <3> QED  BY <1>7, <3>1, <3>2
  <2> QED  BY <2>1, <2>2, <2>3, <2>4
<1>18. /\ full' = full + 1 /\ fullQ' \in Seq(Proc)
       /\ SemRef' \in [Proc -> 0 .. 1] /\ asleep' = {q \in Proc : SemRef'[q] = 1}
       /\ EmptySleepers' = EmptySleepers
       /\ asleep' = FullSleepers' \cup EmptySleepers'
       /\ ToSet(fullQ') = FullSleepers' /\ Len(fullQ') <= 1
       /\ (full' < 0 <=> fullQ' # <<>>)
  BY <1>3, <1>17, FullSignalStep
<1>19. TypeOK'
  <2>1. data' \in [Index -> Byte \cup {Eof}] /\ in' \in Index
    BY <1>3, <1>11, <1>12, FollowingIs
  <2>2. full' \in Int
    BY <1>0, <1>18 DEF TypeOK
  <2> QED  BY <1>0, <1>3, <1>7, <1>10, <1>18, <2>1, <2>2 DEF TypeOK
<1>20. /\ p \notin Putters' /\ (p \in Takers' <=> p \in Takers)
  <2>1. p \notin Putters'
    <3>1. calls'[p][1].at \notin {"slept", "waited"}
      BY <1>4, <1>7
    <3> QED  BY <1>6, <1>7, <3>1, OwnClaimsNext
  <2>2. CASE Len(calls[p]) = 1
    <3>1. Outer(p).op # "read" /\ calls'[p][Len(calls'[p])].op # "read"
      BY <1>2, <1>4, <1>7, <2>2 DEF Outer, f
    <3>2. p \notin Takers
      BY <1>0, <1>2, <3>1, OwnClaims
    <3>3. p \notin Takers'
      BY <1>6, <1>7, <3>1, OwnClaimsNext
    <3> QED  BY <2>1, <3>2, <3>3
  <2>3. CASE Len(calls[p]) = 2 /\ calls'[p][2] = calls[p][2]
    <3>1. Outer(p) = calls'[p][Len(calls'[p])]
      BY <1>7, <2>3 DEF Outer
    <3>2. p \in Takers <=> /\ Outer(p).op = "read"
                           /\ Outer(p).at \in {"slept", "waited"}
      BY <1>0, <1>2, OwnClaims
    <3>3. p \in Takers' <=> /\ calls'[p][Len(calls'[p])].op = "read"
                            /\ calls'[p][Len(calls'[p])].at \in {"slept", "waited"}
      BY <1>6, <1>7, OwnClaimsNext
    <3> QED  BY <2>1, <3>1, <3>2, <3>3
  <2> QED  BY <1>7, <2>2, <2>3
<1>21. CreditInv'
  <2>1. Spent' = 0
    BY <1>2, <1>3 DEF Spent
  <2>2. Cardinality(Putters') = Cardinality(Putters) - 1 /\ Cardinality(Putters) \in Nat
    <3>1. \A q \in Proc \ {p} : q \in Putters' <=> q \in Putters
      BY <1>7, OthersClaims
    <3>2. Putters \in SUBSET Proc /\ Putters' \in SUBSET Proc
      BY DEF Putters
    <3>3. p \notin Putters' /\ p \in Putters
      BY <1>2, <1>20
    <3> QED  BY <3>1, <3>2, <3>3, CardOneMoves
  <2>3. Takers' = Takers
    <3>1. Takers \in SUBSET Proc /\ Takers' \in SUBSET Proc
      BY DEF Takers
    <3>2. \A q \in Proc \ {p} : q \in Takers' <=> q \in Takers
      BY <1>7, OthersClaims
    <3>3. p \in Takers' <=> p \in Takers
      BY <1>20
    <3> QED  BY <3>1, <3>2, <3>3
  <2>4. Cardinality(Takers) \in Nat /\ empty \in Int /\ full \in Int
    BY <1>0, ClaimsFinite DEF TypeOK
  <2>5. Size \in Nat /\ FILESIZE \in Nat
    BY <1>2, <1>12
  <2>6. /\ full + Cardinality(Takers) = Size
        /\ empty + Cardinality(Putters) = FILESIZE - 1 - Size
    BY <1>0, <1>2, <2>5 DEF CreditInv
  <2>7. full' + Cardinality(Takers') = Size' - Spent'
    BY <1>13, <1>18, <2>1, <2>3, <2>4, <2>5, <2>6
  <2>8. empty' + Cardinality(Putters') = FILESIZE - 1 - Size' + Spent'
    <3>1. empty' = empty
      BY <1>3
    <3> QED  BY <1>13, <2>1, <2>2, <2>4, <2>5, <2>6, <3>1
  <2> QED  BY <2>7, <2>8 DEF CreditInv
<1>22. QueueInv'
  <2>1. Len(calls[cpu])' > 0 /\ Outer(cpu)'.op = "read" /\ Outer(cpu)'.at = "slept"
          /\ ~Marked' => full' < 0
    <3>1. CASE f.op = "mark"
      BY <1>15, <3>1
    <3>2. CASE f.op = "write"
      <4>1. Len(calls[p]) = 1
        BY <1>2, <3>2, WriterHolds DEF f
      <4>2. Outer(cpu)' = c
        BY <1>2, <1>3, <1>7, <4>1 DEF Outer
      <4>3. Outer(cpu)'.op # "read"
        BY <1>4, <3>2, <4>2
      <4> QED  BY <4>3
    <3> QED  BY <1>2, <3>1, <3>2
  <2>2. /\ ToSet(emptyQ') = EmptySleepers' /\ IsInjective(emptyQ')
        /\ Len(emptyQ') = Cardinality(EmptySleepers') /\ empty' + Len(emptyQ') >= 0
    BY <1>0, <1>3, <1>18 DEF QueueInv
  <2> QED  BY <1>18, <2>1, <2>2 DEF QueueInv
<1> QED  BY <1>6, <1>8, <1>10, <1>16, <1>19, <1>21, <1>22 DEF PipeInv

-----------------------------------------------------------------------------
(***************************************************************************)
(* The invariant holds from the beginning and through every step.          *)
(***************************************************************************)
LEMMA InitInv == Init => PipeInv
<1> SUFFICES ASSUME Init PROVE PipeInv
  OBVIOUS
<1>1. /\ FILESIZE \in Nat /\ FILESIZE >= 2 /\ MaxBytes \in Nat /\ MaxEnds \in Nat
      /\ MaxEnds >= 1 /\ Maker \in Proc /\ Maker \notin Child
  BY BoundAssumption, ProcAssumption
<1>2. TypeOK
  <2>1. 0 \in Index /\ 0 \in 0 .. MaxBytes /\ 1 \in 0 .. MaxEnds /\ 0 \in 0 .. MaxEnds
    BY <1>1 DEF Index
  <2>2. <<>> \in Seq(Byte) /\ <<>> \in Seq(Proc) /\ <<>> \in Seq(Call)
    OBVIOUS
  <2>3. ends \in [Proc -> 0 .. MaxEnds] /\ empty \in Int /\ full \in Int
    BY <1>1, <2>1 DEF Init
  <2> QED  BY <1>1, <2>1, <2>2, <2>3 DEF Init, TypeOK
<1>3. \A q \in Proc : calls[q] = <<>> /\ Len(calls[q]) = 0 /\ ~(Len(calls[q]) > 0)
  BY DEF Init
<1>4. ShapeInv
  <2> SUFFICES ASSUME NEW q \in Proc PROVE Shape(q)
    BY DEF ShapeInv
  <2>1. StackOK(calls[q])
    BY <1>3 DEF StackOK
  <2>2. life[q] \in {"unborn", "gone"} => ends[q] = 0
    BY <1>1 DEF Init
  <2>3. q = cpu => life[q] = "live"
    BY <1>1 DEF Init
  <2> QED  BY <1>3, <2>1, <2>2, <2>3 DEF Shape
<1>6. BoundInv
  <2>1. \A q \in Proc : Promised[q] = 0
    BY <1>3 DEF Promised
  <2>2. Total(Promised, MaxBytes) = 0
    BY <1>1, <2>1, TotalZero
  <2>3. sent = 0
    BY DEF Init
  <2> QED  BY <1>1, <2>1, <2>2, <2>3 DEF BoundInv
<1>7. Size = 0 /\ ~Marked
  <2>1. in = 0 /\ out = 0 /\ 0 \in Index
    BY <1>1 DEF Init, Index
  <2>2. Size = 0
    BY <2>1, SizeIs
  <2>3. 1 .. Size = {}
    BY <2>2
  <2> QED  BY <2>2, <2>3 DEF Marked
<1>5. RefInv
  <2> DEFINE z == [q \in Proc |-> 0]
             n == 1
  <2>1. /\ z[Maker] \in Nat /\ ends[Maker] = z[Maker] + n /\ ends[Maker] <= MaxEnds
        /\ \A q \in Proc \ {Maker} : ends[q] = z[q]
    BY <1>1 DEF Init
  <2>2. \A q \in Proc : z[q] = 0
    OBVIOUS
  <2>3. n \in Nat
    OBVIOUS
  <2> HIDE DEF z, n
  <2>4. Total(ends, MaxEnds) = Total(z, MaxEnds) + n
    <3>1. Adds(z, ends, Maker, n, MaxEnds)
      BY <2>1, <2>3 DEF Adds
    <3>2. MaxEnds \in Nat /\ Maker \in Proc
      BY <1>1
    <3> QED  BY <3>1, <3>2, TotalGrows
  <2>5. Total(z, MaxEnds) = 0
    BY <1>1, <2>2, TotalZero
  <2>6. Total(ends, MaxEnds) = 1
    BY <2>4, <2>5 DEF n
  <2>7. \A q \in Proc : ~Marking(q)
    BY <1>3 DEF Marking
  <2> QED  BY <1>7, <2>6, <2>7 DEF RefInv, Init
<1>8. EndInv
  <2>1. \A q \in Proc : ~Marking(q)
    BY <1>3 DEF Marking
  <2>2. 1 .. Size = {} /\ ~ended
    BY <1>7 DEF Init
  <2> QED  BY <1>7, <2>1, <2>2 DEF EndInv
<1>9. \A q \in Proc : \A ops, where : ~In(q, ops, where)
  BY <1>3 DEF In
<1>10. Takers = {} /\ Putters = {} /\ FullSleepers = {} /\ EmptySleepers = {}
       /\ asleep = {}
  BY <1>9 DEF Init, Takers, Putters, FullSleepers, EmptySleepers, Sleepers
<1>11. Cardinality({}) = 0
  BY FS_EmptySet
<1>12. QueueInv
  <2>1. fullQ = <<>> /\ emptyQ = <<>> /\ full = 0 /\ empty = FILESIZE - 1 /\ cpu \in Proc
    BY <1>1 DEF Init
  <2>2. ToSet(<<>>) = {} /\ Len(<<>>) = 0 /\ IsInjective(<<>>)
    BY DEF ToSet, IsInjective
  <2>3. ~(full < 0) /\ empty + Len(emptyQ) >= 0
    BY <1>1, <2>1, <2>2
  <2>4. ~(Len(calls[cpu]) > 0)
    BY <1>3, <2>1
  <2>5. Len(fullQ) <= 1 /\ (full < 0 <=> fullQ # <<>>)
    BY <2>1, <2>2, <2>3
  <2>6. /\ ToSet(emptyQ) = EmptySleepers /\ IsInjective(emptyQ)
        /\ Len(emptyQ) = Cardinality(EmptySleepers) /\ ToSet(fullQ) = FullSleepers
    BY <1>10, <1>11, <2>1, <2>2
  <2> QED  BY <1>10, <2>3, <2>4, <2>5, <2>6 DEF QueueInv
<1>13. CreditInv
  <2>1. full = 0 /\ empty = FILESIZE - 1 /\ Spent = 0
    BY DEF Init, Spent
  <2> QED  BY <1>1, <1>7, <1>10, <1>11, <2>1 DEF CreditInv
<1> QED  BY <1>2, <1>4, <1>5, <1>6, <1>8, <1>12, <1>13 DEF PipeInv

LEMMA StutterInv ==
  ASSUME PipeInv, UNCHANGED vars
  PROVE  PipeInv'
<1>1. /\ UNCHANGED <<semaphores, data, in, out, ended, cpu, calls, sent>>
      /\ UNCHANGED <<PipeSize, flag, broken, writeRef, ends, life, got, lost>>
  BY DEF vars, ring, owners, traffic
<1>2. TypeOK /\ ShapeInv /\ RefInv
  BY InvParts
<1>3. TypeOK'
  BY <1>1, <1>2 DEF TypeOK, semaphores
<1>4. ShapeInv'
  BY <1>1, <1>2 DEF ShapeInv, Shape, Outer
<1>6. BoundInv' /\ EndInv' /\ CreditInv' /\ QueueInv' /\ MarksSame /\ (Marked' <=> Marked)
  BY <1>1, CallsSame
<1>5. RefInv'
  <2>1. LivesSame
    BY <1>1 DEF LivesSame
  <2> QED  BY <1>1, <1>2, <1>6, <2>1, RefSame
<1> QED  BY <1>3, <1>4, <1>5, <1>6 DEF PipeInv

LEMMA NextInv ==
  ASSUME OneReader, PipeInv, [Next]_vars
  PROVE  PipeInv'
<1>1. ASSUME NEW p \in Proc, Kernel(p) PROVE PipeInv'
  BY <1>1, ReadReturnsStep, ReadWaitsStep, ReadTakesStep, ReadEndsStep,
     WriteReturnsStep, WriteWaitsStep, WritePutsStep, MarkReturnsStep DEF Kernel
<1>2. ASSUME NEW p \in Proc, Program(p) PROVE PipeInv'
  <2>1. ASSUME NEW size \in ReadSizes, Read(p, size) PROVE PipeInv'
    BY <2>1, ReadStep
  <2>2. ASSUME NEW size \in WriteSizes, Write(p, size) PROVE PipeInv'
    BY <2>2, WriteStep
  <2>3. ASSUME NEW c \in Child, Clone(p, c) PROVE PipeInv'
    BY <2>3, CloneStep
  <2>4. CASE Dup(p) \/ Close(p) \/ Exit(p)
    BY <2>4, DupStep, CloseStep, ExitStep
  <2>5. ASSUME NEW c \in Child, Wait4(p, c) PROVE PipeInv'
    BY <2>5, Wait4Step, ProcAssumption
  <2> QED  BY <1>2, <2>1, <2>2, <2>3, <2>4, <2>5 DEF Program
<1>3. ASSUME NEW p \in Proc, Reap(p) \/ Switch(p) PROVE PipeInv'
  BY <1>3, ReapStep, SwitchStep
<1>4. CASE UNCHANGED vars
  BY <1>4, StutterInv
<1> QED  BY <1>1, <1>2, <1>3, <1>4 DEF Next

(***************************************************************************)
(* A descriptor is being closed where a marker is the innermost call.      *)
(***************************************************************************)
LEMMA ClosingIs ==
  ASSUME PipeInv, NEW z \in Proc
  PROVE  Closing(z) <=> \E p \in Proc : Marking(p) /\ calls[p][1].of = z
<1>1. ASSUME NEW p \in Proc, NEW k \in DOMAIN calls[p], calls[p][k].op = "mark"
      PROVE  k = 1 /\ Marking(p)
  <2>1. calls[p] \in Seq(Call) /\ StackOK(calls[p])
    BY InvParts
  <2> DEFINE n == Len(calls[p])
  <2>2. k \in 1 .. n /\ n \in Nat /\ n <= 2 /\ (n = 2 => calls[p][2].op = "read")
    BY <2>1 DEF StackOK
  <2> HIDE DEF n
  <2>3. k # 2
    <3>1. k = 2 => n = 2
      BY <2>2
    <3> QED  BY <1>1, <2>2, <3>1
  <2>4. k = 1 /\ n > 0
    BY <2>2, <2>3
  <2> QED  BY <1>1, <2>4 DEF Marking, n
<1>2. ASSUME NEW p \in Proc, Marking(p)
      PROVE  1 \in DOMAIN calls[p] /\ calls[p][1].op = "mark"
  <2>1. calls[p] \in Seq(Call)
    BY InvParts
  <2> QED  BY <1>2, <2>1 DEF Marking
<1> QED  BY <1>1, <1>2 DEF Closing

LEMMA RefCountsIs == PipeInv => WriteRefCounts
<1> SUFFICES ASSUME PipeInv PROVE WriteRefCounts
  OBVIOUS
<1>1. TypeOK /\ RefInv /\ MaxEnds \in Nat
  BY InvParts, BoundAssumption
<1>2. CASE \A p \in Proc : ~Marking(p)
  <2>1. \A z \in Proc : ~Closing(z)
    BY <1>2, ClosingIs
  <2>2. ~ClosedTwice
    BY <2>1 DEF ClosedTwice
  <2>3. \A z \in Proc : OpenEnds[z] = ends[z]
    BY <2>1 DEF OpenEnds
  <2>4. Total(OpenEnds, MaxEnds) = Total(ends, MaxEnds)
    BY <1>1, <2>3, TotalSame
  <2> QED  BY <1>1, <1>2, <2>2, <2>4 DEF WriteRefCounts, RefInv
<1>3. CASE \E p \in Proc : Marking(p)
  <2>1. PICK p \in Proc : Marking(p)
    BY <1>3
  <2>2. PICK z : z = calls[p][1].of
    OBVIOUS
  <2>3. MarkOK(p, z)
    BY <1>1, <2>1, <2>2 DEF RefInv
  <2>4. \A w \in Proc : Closing(w) <=> w = z
    <3>1. \A q \in Proc : Marking(q) => q = p
      BY <2>1, InvParts DEF EndInv
    <3> QED  BY <2>1, <2>2, <3>1, ClosingIs
  <2>5. CASE life[z] = "gone"
    <3>1. ClosedTwice
      BY <2>3, <2>4, <2>5 DEF ClosedTwice, MarkOK
    <3> QED  BY <2>3, <2>5, <3>1 DEF WriteRefCounts, MarkOK
  <2>6. CASE life[z] # "gone"
    <3>1. ~ClosedTwice
      BY <2>4, <2>6 DEF ClosedTwice
    <3>2. ends[z] = 1 /\ writeRef = 0 /\ \A q \in Proc \ {z} : ends[q] = 0
      BY <2>3, <2>6 DEF MarkOK
    <3>3. \A w \in Proc : OpenEnds[w] = 0
      BY <2>4, <3>2 DEF OpenEnds
    <3>4. Total(OpenEnds, MaxEnds) = 0
      BY <1>1, <3>3, TotalZero
    <3> QED  BY <3>1, <3>2, <3>4 DEF WriteRefCounts
  <2> QED  BY <2>5, <2>6
<1> QED  BY <1>2, <1>3

LEMMA PipeInvariant == OneReader => (Spec => []PipeInv)
<1> SUFFICES ASSUME OneReader PROVE Spec => []PipeInv
  OBVIOUS
<1>1. Init => PipeInv
  BY InitInv
<1>2. PipeInv /\ [Next]_vars => PipeInv'
  BY NextInv
<1> QED  BY <1>1, <1>2, PTL DEF Spec

(***************************************************************************)
(* Every variable of the pipe stays what it is declared to be: the ring's  *)
(* positions inside the ring, nobody in two waits.                         *)
(***************************************************************************)
THEOREM PipeTyped == OneReader => (Spec => []TypeOK)
<1> SUFFICES ASSUME OneReader PROVE Spec => []TypeOK
  OBVIOUS
<1>1. PipeInv => TypeOK
  BY DEF PipeInv
<1> QED  BY <1>1, PipeInvariant, PTL

(***************************************************************************)
(* writeRef, by which close_fo decides that it closes the last write       *)
(* descriptor, counts those that are not being closed, zombies' with them; *)
(* until Schedule destroys a zombie again whose marker's write sleeps, and *)
(* from then on it is one below 0.                                         *)
(***************************************************************************)
THEOREM WritersAreCounted == OneReader => (Spec => []WriteRefCounts)
<1> SUFFICES ASSUME OneReader PROVE Spec => []WriteRefCounts
  OBVIOUS
<1>1. PipeInv => WriteRefCounts
  BY RefCountsIs
<1> QED  BY <1>1, PipeInvariant, PTL

(***************************************************************************)
(* The semaphores full and empty count the ring through every interleaving *)
(* of the reader with any number of writers, and one below 0 has somebody  *)
(* in its queue to wake.                                                   *)
(***************************************************************************)
THEOREM SemaphoresCountTheRing == OneReader => (Spec => []CreditsMatch)
<1> SUFFICES ASSUME OneReader PROVE Spec => []CreditsMatch
  OBVIOUS
<1>1. PipeInv => CreditsMatch
  <2> SUFFICES ASSUME PipeInv PROVE CreditsMatch
    OBVIOUS
  <2>1. TypeOK /\ QueueInv /\ CreditInv
    BY InvParts
  <2>2. Len(InRing) = Size
    BY <2>1, InRingIs DEF TypeOK
  <2>3. empty < 0 => emptyQ # <<>>
    <3>1. empty + Len(emptyQ) >= 0 /\ empty \in Int /\ Len(emptyQ) \in Nat
      BY <2>1 DEF QueueInv, TypeOK
    <3>2. empty < 0 => Len(emptyQ) # 0
      BY <3>1
    <3>3. Len(<<>>) = 0
      OBVIOUS
    <3> QED  BY <3>2, <3>3
  <2> QED  BY <2>1, <2>2, <2>3 DEF CreditsMatch, CreditInv, QueueInv
<1> QED  BY <1>1, PipeInvariant, PTL

-----------------------------------------------------------------------------
(***************************************************************************)
(* With one writer, too, at most one process sleeps for room, because the  *)
(* marker is written when nobody is in a write any more: then empty is     *)
(* below 0 as long as its queue holds somebody, and a signal that finds    *)
(* room for it brings empty back to 0.                                     *)
(***************************************************************************)
OneWriter == \A p \in Writers, q \in Writers : p = q

WakeInv == emptyQ # <<>> => empty < 0

LEMMA EmptySleepersAtMostOne ==
  ASSUME PipeInv, OneWriter
  PROVE  \A p, q \in EmptySleepers : p = q
<1>1. \A q \in EmptySleepers : /\ q \in Proc /\ Len(calls[q]) > 0
                               /\ calls[q][1].op \in {"write", "mark"}
  <2> TAKE q \in EmptySleepers
  <2>1. q \in Proc /\ In(q, {"write", "mark"}, {"slept"})
    BY InvParts DEF EmptySleepers, Sleepers
  <2> QED  BY <2>1, InvParts, MembersAre
<1>2. \A q \in EmptySleepers :
         calls[q][1].op = "write" => q \in Writers /\ \A r \in Proc : ~Marking(r)
  <2> TAKE q \in EmptySleepers
  <2> HAVE calls[q][1].op = "write"
  <2>1. Len(calls[q]) = 1 /\ \A r \in Proc : ~Marking(r)
    BY <1>1, WriterHolds
  <2>2. Outer(q) = calls[q][1]
    BY <2>1 DEF Outer
  <2> QED  BY <1>1, <2>1, <2>2, InvParts DEF Shape
<1>3. \A q \in EmptySleepers : calls[q][1].op = "mark" => Marking(q)
  BY <1>1 DEF Marking
<1> SUFFICES ASSUME NEW p \in EmptySleepers, NEW q \in EmptySleepers PROVE p = q
  OBVIOUS
<1>4. CASE calls[p][1].op = "write"
  <2>1. calls[q][1].op = "write"
    BY <1>1, <1>2, <1>3, <1>4
  <2> QED  BY <1>2, <1>4, <2>1 DEF OneWriter
<1>5. CASE calls[p][1].op = "mark"
  <2>1. calls[q][1].op = "mark"
    BY <1>1, <1>2, <1>3, <1>5
  <2> QED  BY <1>1, <1>3, <1>5, <2>1, InvParts DEF EndInv
<1> QED  BY <1>1, <1>4, <1>5

LEMMA EmptyQueueAtMostOne ==
  ASSUME PipeInv, OneWriter
  PROVE  /\ Len(emptyQ) = 0 \/ Len(emptyQ) = 1
         /\ empty \in Int /\ empty + Len(emptyQ) >= 0 /\ emptyQ \in Seq(Proc)
<1>1. /\ emptyQ \in Seq(Proc) /\ ToSet(emptyQ) = EmptySleepers /\ IsInjective(emptyQ)
      /\ empty \in Int /\ empty + Len(emptyQ) >= 0
  BY InvParts DEF TypeOK, QueueInv
<1> DEFINE n == Len(emptyQ)
<1>2. DOMAIN emptyQ = 1 .. n /\ n \in Nat
  BY <1>1
<1>3. ~(n >= 2)
  <2> SUFFICES ASSUME n >= 2 PROVE FALSE
    OBVIOUS
  <2>1. 1 \in DOMAIN emptyQ /\ 2 \in DOMAIN emptyQ
    BY <1>2
  <2>2. emptyQ[1] \in EmptySleepers /\ emptyQ[2] \in EmptySleepers
    BY <1>1, <2>1 DEF ToSet
  <2>3. emptyQ[1] = emptyQ[2]
    BY <2>2, EmptySleepersAtMostOne
  <2>4. 1 = 2
    BY <1>1, <2>1, <2>3 DEF IsInjective
  <2> QED  BY <2>4
<1> HIDE DEF n
<1>4. n = 0 \/ n = 1
  BY <1>2, <1>3
<1> QED  BY <1>1, <1>4 DEF n

LEMMA WakeNext ==
  ASSUME PipeInv, OneWriter, WakeInv, [Next]_vars
  PROVE  WakeInv'
<1>0. /\ Len(emptyQ) = 0 \/ Len(emptyQ) = 1
      /\ empty \in Int /\ empty + Len(emptyQ) >= 0 /\ emptyQ \in Seq(Proc)
  BY EmptyQueueAtMostOne
<1>1. CASE UNCHANGED <<empty, emptyQ>>
  BY <1>1 DEF WakeInv
<1>2. ASSUME Empty!Signal PROVE WakeInv'
  <2>1. empty' = empty + 1
    BY <1>2 DEF Empty!Signal
  <2>2. CASE empty + 1 = 0
    <3> DEFINE h == Head(emptyQ)
    <3>1. /\ emptyQ # <<>>
          /\ SemRef[h] = 1 => emptyQ' = Tail(emptyQ)
      BY <1>2, <2>2 DEF Empty!Signal, Empty!WakesAt, Empty!Wake
    <3>2. SemRef[h] = 1
      <4>1. IsInjective(emptyQ) /\ ToSet(emptyQ) = EmptySleepers
        BY InvParts DEF QueueInv
      <4>2. h \in EmptySleepers
        BY <1>0, <3>1, <4>1, QueueTail
      <4> QED  BY <4>2, InvParts DEF EmptySleepers, Sleepers, TypeOK
    <3>3. Len(emptyQ) = 1
      <4>1. Len(emptyQ) # 0
        BY <1>0, <3>1
      <4> QED  BY <1>0, <4>1
    <3>4. emptyQ' = <<>>
      <4>1. Tail(emptyQ) \in Seq(Proc) /\ Len(Tail(emptyQ)) = 0
        BY <1>0, <3>1, <3>3
      <4>2. emptyQ' = Tail(emptyQ)
        BY <3>1, <3>2
      <4> QED  BY <4>1, <4>2
    <3> QED  BY <3>4 DEF WakeInv
  <2>3. CASE empty + 1 # 0
    <3>1. UNCHANGED emptyQ
      BY <1>2, <2>3 DEF Empty!Signal, Empty!WakesAt
    <3> QED  BY <1>0, <2>1, <2>3, <3>1 DEF WakeInv
  <2> QED  BY <2>2, <2>3
<1>3. ASSUME NEW p \in Proc, Empty!Wait(p) PROVE WakeInv'
  <2>1. CASE empty - 1 < 0
    BY <1>3, <2>1 DEF Empty!Wait, WakeInv
  <2>2. CASE ~(empty - 1 < 0)
    <3>1. ~(empty < 0) /\ UNCHANGED emptyQ
      BY <1>0, <1>3, <2>2 DEF Empty!Wait, Empty!Blocks
    <3> QED  BY <3>1 DEF WakeInv
  <2> QED  BY <2>1, <2>2
<1>4. \/ UNCHANGED <<empty, emptyQ>>
      \/ Empty!Signal
      \/ \E p \in Proc : Empty!Wait(p)
  <2>1. CASE UNCHANGED vars
    BY <2>1 DEF vars, semaphores
  <2>2. ASSUME NEW p \in Proc, Kernel(p)
        PROVE  \/ UNCHANGED <<empty, emptyQ>>
               \/ Empty!Signal
               \/ \E q \in Proc : Empty!Wait(q)
    <3>1. CASE ReadReturns(p) \/ WriteReturns(p) \/ MarkReturns(p)
      BY <3>1 DEF ReadReturns, WriteReturns, MarkReturns, semaphores
    <3>2. CASE ReadWaits(p)
      BY <3>2 DEF ReadWaits
    <3>3. CASE ReadTakes(p)
      BY <3>3 DEF ReadTakes
    <3>4. CASE ReadEnds(p)
      BY <3>4 DEF ReadEnds
    <3>5. CASE WriteWaits(p)
      BY <3>5 DEF WriteWaits, WaitForRoom
    <3>6. CASE WritePuts(p)
      BY <3>6 DEF WritePuts
    <3> QED  BY <2>2, <3>1, <3>2, <3>3, <3>4, <3>5, <3>6 DEF Kernel
  <2>3. ASSUME NEW p \in Proc, Program(p)
        PROVE  UNCHANGED <<empty, emptyQ>>
    BY <2>3 DEF Program, Read, Write, Clone, Wait4, Destroy, Dup, Close, Exit, semaphores
  <2>4. ASSUME NEW p \in Proc, Reap(p) \/ Switch(p)
        PROVE  UNCHANGED <<empty, emptyQ>>
    BY <2>4 DEF Reap, Destroy, Switch, semaphores
  <2> QED  BY <2>1, <2>2, <2>3, <2>4 DEF Next
<1> QED  BY <1>1, <1>2, <1>3, <1>4

LEMMA WakeInvariant == OneReader /\ OneWriter => (Spec => [](PipeInv /\ WakeInv))
<1> SUFFICES ASSUME OneReader, OneWriter PROVE Spec => [](PipeInv /\ WakeInv)
  OBVIOUS
<1>1. Init => PipeInv /\ WakeInv
  BY InitInv DEF Init, WakeInv
<1>2. (PipeInv /\ WakeInv) /\ [Next]_vars => (PipeInv /\ WakeInv)'
  BY NextInv, WakeNext
<1> QED  BY <1>1, <1>2, PTL DEF Spec

(***************************************************************************)
(* No lost wakeup, with one reader and one writer: nobody sleeps for a     *)
(* byte that is in the ring, nor for room that is there.                   *)
(***************************************************************************)
THEOREM NobodySleepsInVain ==
  OneReader /\ OneWriter => (Spec => []SleepIsNeeded)
<1> SUFFICES ASSUME OneReader, OneWriter PROVE Spec => []SleepIsNeeded
  OBVIOUS
<1>1. PipeInv /\ WakeInv => SleepIsNeeded
  <2> SUFFICES ASSUME PipeInv, WakeInv PROVE SleepIsNeeded
    OBVIOUS
  <2>1. /\ TypeOK /\ QueueInv /\ CreditInv /\ full \in Int /\ empty \in Int
        /\ fullQ \in Seq(Proc) /\ emptyQ \in Seq(Proc)
    BY InvParts DEF TypeOK
  <2>2. /\ Len(InRing) = Size /\ Size \in Nat /\ Spent \in {0, 1} /\ FILESIZE \in Nat
    BY <2>1, InRingIs, SizeIs, BoundAssumption DEF TypeOK, Spent
  <2>3. ASSUME FullSleepers # {}
        PROVE  Size - Spent <= Cardinality(Takers \ FullSleepers)
    <3>1. PICK q : q \in FullSleepers
      BY <2>3
    <3>2. FullSleepers \subseteq Takers
      BY <2>1, InvParts DEF FullSleepers, Takers, Sleepers, In
    <3>3. Takers = {q} /\ Takers \ FullSleepers = {}
      BY <3>1, <3>2, TakersAtMostOne
    <3>4. Cardinality(Takers) = 1 /\ Cardinality(Takers \ FullSleepers) = 0
      BY <3>3, FS_Singleton, FS_EmptySet
    <3>5. full < 0
      <4>1. ToSet(fullQ) # {}
        BY <2>1, <3>1 DEF QueueInv
      <4>2. fullQ # <<>>
        BY <4>1 DEF ToSet
      <4> QED  BY <2>1, <4>2 DEF QueueInv
    <3>6. full + 1 = Size - Spent
      BY <2>1, <3>4 DEF CreditInv
    <3> QED  BY <2>1, <2>2, <3>4, <3>5, <3>6
  <2>4. ASSUME EmptySleepers # {}
        PROVE  FILESIZE - 1 - Size <= Cardinality(Putters \ EmptySleepers)
    <3>1. PICK q : q \in EmptySleepers
      BY <2>4
    <3>2. EmptySleepers = {q}
      BY <3>1, EmptySleepersAtMostOne
    <3>3. q \in Putters
      BY <3>1, InvParts DEF EmptySleepers, Putters, Sleepers, In
    <3>4. /\ Cardinality(Putters \ EmptySleepers) = Cardinality(Putters) - 1
          /\ Cardinality(Putters) \in Nat
      BY <3>2, <3>3, ClaimsFinite, FS_RemoveElement
    <3>5. empty < 0
      <4>1. ToSet(emptyQ) # {}
        BY <2>1, <3>1 DEF QueueInv
      <4>2. emptyQ # <<>>
        BY <4>1 DEF ToSet
      <4> QED  BY <4>2 DEF WakeInv
    <3>6. empty + Cardinality(Putters) = FILESIZE - 1 - Size + Spent
      BY <2>1 DEF CreditInv
    <3> QED  BY <2>1, <2>2, <3>4, <3>5, <3>6
  <2> QED  BY <2>2, <2>3, <2>4 DEF SleepIsNeeded, FullSleepers, EmptySleepers
<1> QED  BY <1>1, WakeInvariant, PTL
=============================================================================
