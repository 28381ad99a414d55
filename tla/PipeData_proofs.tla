--------------------------- MODULE PipeData_proofs ---------------------------
(***************************************************************************)
(* Proofs about the bytes that go through a Pipe with one reader: they     *)
(* stay in their order, only a read that meets the marker drops some, and  *)
(* the pipe implements ByteQueue.                                          *)
(***************************************************************************)
EXTENDS Pipe_proofs

(***************************************************************************)
(* What the process with these calls has read so far.                      *)
(***************************************************************************)
ReadOf(s) == IF s # <<>> THEN Last(s).buf ELSE <<>>

LEMMA ReadOfIs ==
  ASSUME NEW s \in Seq(Call)
  PROVE  /\ Len(s) = 0 => ReadOf(s) = <<>>
         /\ Len(s) > 0 => ReadOf(s) = s[Len(s)].buf
         /\ ReadOf(s) \in Seq(Byte)
<1>1. Len(s) \in Nat /\ (s = <<>> <=> Len(s) = 0)
  BY StackFacts
<1>2. CASE Len(s) = 0
  BY <1>1, <1>2 DEF ReadOf
<1>3. CASE Len(s) > 0
  <2>1. ReadOf(s) = s[Len(s)].buf
    BY <1>1, <1>3 DEF ReadOf, Last
  <2>2. s[Len(s)] \in Call
    BY <1>1, <1>3
  <2> QED  BY <1>1, <1>3, <2>1, <2>2 DEF Call
<1> QED  BY <1>1, <1>2, <1>3

LEMMA InReadIs ==
  \A q : InRead(q) = ReadOf(calls[q]) /\ InRead(q)' = ReadOf(calls'[q])
BY DEF InRead, ReadOf

ReadsKept == \A q \in Proc : InRead(q)' = InRead(q)

LEMMA EnterKeeps ==
  ASSUME PipeInv, NEW p \in Proc, NEW c \in Call, Enter(p, c), c.buf = <<>>
  PROVE  ReadsKept
<1> DEFINE s == calls[p]
           t == calls'[p]
           l == Len(s)
<1>1. /\ calls \in [Proc -> Seq(Call)] /\ calls' \in [Proc -> Seq(Call)]
      /\ Others(p) /\ Len(s) = l /\ Len(t) = l + 1 /\ t[1] = c
      /\ \A k \in 1 .. l : t[k + 1] = s[k]
  BY InvParts, EnterEffect DEF Others
<1>2. l \in Nat /\ s \in Seq(Call) /\ t \in Seq(Call)
  BY <1>1
<1> HIDE DEF s, t, l
<1>3. ReadOf(t) = ReadOf(s)
  <2>1. ReadOf(t) = t[l + 1].buf
    <3>1. Len(t) > 0
      BY <1>1, <1>2
    <3>2. ReadOf(t) = t[Len(t)].buf
      BY <1>2, <3>1, ReadOfIs
    <3> QED  BY <1>1, <3>2
  <2>2. CASE l = 0
    <3>1. ReadOf(s) = <<>>
      BY <1>1, <1>2, <2>2, ReadOfIs
    <3>2. l + 1 = 1
      BY <2>2
    <3> QED  BY <1>1, <2>1, <3>1, <3>2
  <2>3. CASE l > 0
    <3>1. ReadOf(s) = s[l].buf
      BY <1>1, <1>2, <2>3, ReadOfIs
    <3>2. l \in 1 .. l
      BY <1>2, <2>3
    <3>3. t[l + 1] = s[l]
      BY <1>1, <3>2
    <3> QED  BY <2>1, <3>1, <3>3
  <2> QED  BY <1>2, <2>2, <2>3
<1> QED  BY <1>1, <1>3, InReadIs DEF ReadsKept, Others, s, t

LEMMA GoKeeps ==
  ASSUME PipeInv, NEW p \in Proc, NEW c \in Call, Go(p, c), Len(calls[p]) > 0,
         c.buf = calls[p][1].buf
  PROVE  ReadsKept
<1> DEFINE s == calls[p]
           t == calls'[p]
           l == Len(s)
<1>1. /\ calls \in [Proc -> Seq(Call)] /\ calls' \in [Proc -> Seq(Call)]
      /\ Others(p) /\ Len(s) = l /\ Len(t) = l /\ t[1] = c
      /\ \A k \in 2 .. l : t[k] = s[k]
  BY InvParts, GoEffect DEF Others
<1>2. l \in Nat /\ l > 0 /\ s \in Seq(Call) /\ t \in Seq(Call) /\ c.buf = s[1].buf
  BY <1>1
<1> HIDE DEF s, t, l
<1>3. ReadOf(t) = t[l].buf /\ ReadOf(s) = s[l].buf
  <2>1. Len(t) > 0
    BY <1>1, <1>2
  <2>2. ReadOf(t) = t[Len(t)].buf
    BY <1>2, <2>1, ReadOfIs
  <2> QED  BY <1>1, <1>2, <2>2, ReadOfIs
<1>4. t[l].buf = s[l].buf
  <2>1. CASE l = 1
    BY <1>1, <1>2, <2>1
  <2>2. CASE l # 1
    <3>1. l \in 2 .. l
      BY <1>2, <2>2
    <3> QED  BY <1>1, <3>1
  <2> QED  BY <2>1, <2>2
<1> QED  BY <1>1, <1>3, <1>4, InReadIs DEF ReadsKept, Others, s, t

LEMMA LeaveKeeps ==
  ASSUME PipeInv, NEW p \in Proc, Leave(p), Len(calls[p]) > 0,
         calls[p][1].buf = <<>>
  PROVE  ReadsKept
<1> DEFINE s == calls[p]
           t == calls'[p]
           l == Len(s)
<1>1. /\ calls \in [Proc -> Seq(Call)] /\ calls' \in [Proc -> Seq(Call)]
      /\ Others(p) /\ Len(s) = l /\ Len(t) = l - 1
      /\ \A k \in 1 .. l - 1 : t[k] = s[k + 1]
  BY InvParts, LeaveEffect DEF Others
<1>2. l \in Nat /\ l > 0 /\ s \in Seq(Call) /\ t \in Seq(Call) /\ s[1].buf = <<>>
  BY <1>1
<1> HIDE DEF s, t, l
<1>3. ReadOf(s) = s[l].buf
  BY <1>1, <1>2, ReadOfIs
<1>4. ReadOf(t) = ReadOf(s)
  <2>1. CASE l = 1
    <3>1. Len(t) = 0
      BY <1>1, <2>1
    <3>2. ReadOf(t) = <<>>
      BY <1>2, <3>1, ReadOfIs
    <3> QED  BY <1>2, <1>3, <2>1, <3>2
  <2>2. CASE l # 1
    <3>1. Len(t) > 0
      BY <1>1, <1>2, <2>2
    <3>2. ReadOf(t) = t[l - 1].buf
      BY <1>1, <1>2, <3>1, ReadOfIs
    <3>3. l - 1 \in 1 .. l - 1 /\ (l - 1) + 1 = l
      BY <1>2, <2>2
    <3>4. t[l - 1] = s[l]
      BY <1>1, <3>3
    <3> QED  BY <1>3, <3>2, <3>4
  <2> QED  BY <2>1, <2>2
<1> QED  BY <1>1, <1>4, InReadIs DEF ReadsKept, Others, s, t

-----------------------------------------------------------------------------
(***************************************************************************)
(* What a step does to the ring and to the bytes: nothing; the reader      *)
(* returns with what it has read, takes a byte, or meets the marker; a     *)
(* writer puts a byte or the marker.                                       *)
(***************************************************************************)
Quiet == UNCHANGED <<data, in, out, sent, got, lost, ended>> /\ ReadsKept

Returns(p) ==
  /\ p \in Readers
  /\ got' = got \o InRead(p) /\ InRead(p)' = <<>>
  /\ UNCHANGED <<data, in, out, sent, lost, ended>>

Takes(p) ==
  /\ p \in Readers /\ ~ended /\ Size >= 1 /\ data[out] # Eof
  /\ out' = Following(out)
  /\ InRead(p)' = Append(InRead(p), data[out])
  /\ UNCHANGED <<data, in, sent, got, lost, ended>>

Ends(p) ==
  /\ p \in Readers /\ ~ended
  /\ ended' = TRUE
  /\ lost' = lost \o InRead(p) /\ InRead(p)' = <<>>
  /\ UNCHANGED <<data, in, out, sent, got>>

Puts(b) ==
  /\ ~Marked /\ ~ended /\ Size < FILESIZE - 1
  /\ \/ b = Eof /\ sent' = sent
     \/ b = sent + 1 /\ sent' = b
  /\ data' = [data EXCEPT ![in] = b] /\ in' = Following(in)
  /\ UNCHANGED <<out, got, lost, ended>>
  /\ ReadsKept

LEMMA ReaderIs ==
  ASSUME PipeInv, NEW p \in Proc, Len(calls[p]) > 0, calls[p][1].op = "read"
  PROVE  /\ Len(calls[p]) = 1 /\ p \in Readers /\ InRead(p) = calls[p][1].buf
<1>1. Len(calls[p]) = 1 /\ Outer(p) = calls[p][1]
  BY TopIsOuter
<1>2. p \in Readers
  BY <1>1, InvParts DEF Shape
<1>3. ReadOf(calls[p]) = calls[p][1].buf
  <2>1. calls[p] \in Seq(Call) /\ Len(calls[p]) > 0
    BY <1>1, InvParts
  <2>2. ReadOf(calls[p]) = calls[p][Len(calls[p])].buf
    BY <2>1, ReadOfIs
  <2> QED  BY <1>1, <2>2
<1> QED  BY <1>1, <1>2, <1>3, InReadIs

LEMMA ReaderLeaves ==
  ASSUME PipeInv, NEW p \in Proc, Len(calls[p]) = 1, Leave(p)
  PROVE  InRead(p)' = <<>>
<1>1. calls' \in [Proc -> Seq(Call)] /\ Len(calls'[p]) = 0
  <2>1. calls \in [Proc -> Seq(Call)] /\ Len(calls[p]) > 0
    BY InvParts
  <2>2. /\ calls' \in [Proc -> Seq(Call)]
        /\ Len(calls'[p]) = Len(calls[p]) - 1
    BY <2>1, LeaveEffect
  <2> QED  BY <2>2
<1>2. ReadOf(calls'[p]) = <<>>
  BY <1>1, ReadOfIs
<1> QED  BY <1>2, InReadIs

LEMMA ReadReturnsEffect ==
  ASSUME PipeInv, NEW p \in Proc, ReadReturns(p)
  PROVE  Returns(p)
<1>1. /\ Len(calls[p]) > 0 /\ calls[p][1].op = "read" /\ Call0(p) = calls[p][1]
  BY InvParts, DoingIs DEF ReadReturns
<1>2. Len(calls[p]) = 1 /\ p \in Readers /\ InRead(p) = Call0(p).buf
  BY <1>1, ReaderIs
<1>3. InRead(p)' = <<>>
  BY <1>2, ReaderLeaves DEF ReadReturns
<1> QED  BY <1>2, <1>3 DEF ReadReturns, Returns, ring

LEMMA ReadEndsEffect ==
  ASSUME PipeInv, OneReader, NEW p \in Proc, ReadEnds(p)
  PROVE  Ends(p)
<1>1. /\ Len(calls[p]) = 1 /\ calls[p][1].op = "read" /\ Call0(p) = calls[p][1] /\ ~ended
  BY ReadFinds DEF ReadEnds
<1>2. p \in Readers /\ InRead(p) = Call0(p).buf
  BY <1>1, ReaderIs
<1>3. InRead(p)' = <<>>
  BY <1>1, ReaderLeaves DEF ReadEnds
<1> QED  BY <1>1, <1>2, <1>3 DEF ReadEnds, Ends, ring

LEMMA ReadTakesEffect ==
  ASSUME PipeInv, OneReader, NEW p \in Proc, ReadTakes(p)
  PROVE  Takes(p)
<1> DEFINE f == calls[p][1]
           c == [f EXCEPT !.at = "head", !.i = @ + 1, !.buf = Append(@, data[out])]
<1>1. /\ Len(calls[p]) = 1 /\ f.op = "read" /\ Call0(p) = f /\ ~ended
      /\ f \in Call /\ Size \in 1 .. FILESIZE - 1 /\ data[out] # Eof
  BY ReadFinds DEF ReadTakes
<1>2. p \in Readers /\ InRead(p) = f.buf
  BY <1>1, ReaderIs
<1>3. data[out] \in Byte
  BY <1>1, InvParts DEF TypeOK
<1>4. c \in Call /\ c.buf = Append(f.buf, data[out])
  <2>1. Append(f.buf, data[out]) \in Seq(Byte) /\ f.i + 1 \in Nat
    BY <1>1, <1>3 DEF Call
  <2> DEFINE m == Append(f.buf, data[out])
             n == f.i + 1
             h == f
  <2>2. c = [h EXCEPT !.at = "head", !.i = n, !.buf = m]
    OBVIOUS
  <2>3. h \in Call
    BY <1>1
  <2> HIDE DEF h, m, n
  <2>4. [h EXCEPT !.at = "head", !.i = n, !.buf = m] \in Call
        /\ [h EXCEPT !.at = "head", !.i = n, !.buf = m].buf = m
    BY <2>1, <2>3 DEF Call, m, n
  <2> QED  BY <2>2, <2>4 DEF m
<1>5. Go(p, c)
  BY <1>1 DEF ReadTakes
<1> HIDE DEF c
<1>6. InRead(p)' = c.buf
  <2>1. calls' \in [Proc -> Seq(Call)] /\ Len(calls'[p]) = 1 /\ calls'[p][1] = c
    <3>1. calls \in [Proc -> Seq(Call)] /\ Len(calls[p]) > 0
      BY <1>1, InvParts
    <3> QED  BY <1>1, <1>4, <1>5, <3>1, GoEffect
  <2>2. ReadOf(calls'[p]) = calls'[p][1].buf
    <3>1. Len(calls'[p]) > 0 /\ calls'[p] \in Seq(Call)
      BY <2>1
    <3>2. ReadOf(calls'[p]) = calls'[p][Len(calls'[p])].buf
      BY <3>1, ReadOfIs
    <3> QED  BY <2>1, <3>2
  <2> QED  BY <2>1, <2>2, InReadIs
<1>7. /\ out' = Following(out)
      /\ UNCHANGED <<data, in, sent, got, lost, ended>>
  BY DEF ReadTakes, OutAfterRead, traffic
<1> QED  BY <1>1, <1>2, <1>4, <1>6, <1>7 DEF Takes

LEMMA WritePutsEffect ==
  ASSUME PipeInv, OneReader, NEW p \in Proc, WritePuts(p)
  PROVE  \E b \in Byte \cup {Eof} : Puts(b)
<1> DEFINE f == calls[p][1]
           c == [f EXCEPT !.at = "head", !.i = @ + 1]
           b == IF f.op = "mark" THEN Eof ELSE sent + 1
<1>1. /\ Len(calls[p]) > 0 /\ f \in Call /\ Call0(p) = f
      /\ ~Marked /\ ~ended /\ Size < FILESIZE - 1
  BY WriteFinds DEF WritePuts
<1>2. c \in Call /\ c.buf = f.buf
  <2> DEFINE n == f.i + 1
             h == f
  <2>1. n \in Nat /\ h \in Call
    BY <1>1 DEF Call
  <2>2. c = [h EXCEPT !.at = "head", !.i = n]
    OBVIOUS
  <2> HIDE DEF h, n
  <2>3. /\ [h EXCEPT !.at = "head", !.i = n] \in Call
        /\ [h EXCEPT !.at = "head", !.i = n].buf = h.buf
    BY <2>1 DEF Call
  <2> QED  BY <2>2, <2>3 DEF h
<1>3. Go(p, c)
  BY <1>1 DEF WritePuts
<1> HIDE DEF c
<1>4. ReadsKept
  BY <1>1, <1>2, <1>3, GoKeeps
<1>5. /\ data' = [data EXCEPT ![in] = b] /\ in' = Following(in)
      /\ sent' = IF f.op = "mark" THEN sent ELSE sent + 1
      /\ UNCHANGED <<out, got, lost, ended>>
  BY <1>1 DEF WritePuts
<1>6. Puts(b)
  <2>1. \/ b = Eof /\ sent' = sent
        \/ b = sent + 1 /\ sent' = b
    BY <1>5
  <2> HIDE DEF b
  <2> QED  BY <1>1, <1>4, <1>5, <2>1 DEF Puts
<1>7. b \in Byte \cup {Eof}
  <2>1. sent' \in 0 .. MaxBytes /\ sent \in 0 .. MaxBytes
    <3>1. PipeInv'
      BY WritePutsStep
    <3> QED  BY <3>1, InvParts DEF PipeInv, TypeOK
  <2> QED  BY <1>5, <2>1 DEF Byte
<1> QED  BY <1>6, <1>7

LEMMA CallsKept ==
  ASSUME UNCHANGED calls
  PROVE  ReadsKept
BY DEF ReadsKept, InRead

(***************************************************************************)
(* The calls programs and the kernel make are new ones; and a call keeps   *)
(* what it has read when it falls asleep or wakes.                         *)
(***************************************************************************)
LEMMA NewCallIs ==
  ASSUME NEW op \in {"read", "write", "mark"}, NEW size \in Nat,
         NEW of \in Proc, NEW by \in {"syscall", "Schedule", "nested"}
  PROVE  NewCall(op, size, of, by) \in Call /\ NewCall(op, size, of, by).buf = <<>>
BY DEF NewCall, Call

LEMMA CallMoves ==
  ASSUME NEW c \in Call, NEW at \in {"head", "slept", "waited"}
  PROVE  [c EXCEPT !.at = at] \in Call /\ [c EXCEPT !.at = at].buf = c.buf
BY DEF Call

LEMMA CallNests ==
  ASSUME NEW c \in Call
  PROVE  /\ [c EXCEPT !.at = "slept", !.by = Nested(@)] \in Call
         /\ [c EXCEPT !.at = "slept", !.by = Nested(@)].buf = c.buf
<1>1. Nested(c.by) \in {"syscall", "Schedule", "nested"}
  BY DEF Nested, Call
<1> DEFINE b == Nested(c.by)
<1>2. [c EXCEPT !.at = "slept", !.by = Nested(@)] = [c EXCEPT !.at = "slept", !.by = b]
  OBVIOUS
<1> HIDE DEF b
<1>3. /\ [c EXCEPT !.at = "slept", !.by = b] \in Call
      /\ [c EXCEPT !.at = "slept", !.by = b].buf = c.buf
  BY <1>1 DEF Call, b
<1> QED  BY <1>2, <1>3

LEMMA MovedKeeps ==
  ASSUME PipeInv, NEW p \in Proc, NEW ops, NEW at, Doing(p, ops, at),
         NEW c \in Call, c.buf = Call0(p).buf, Go(p, c)
  PROVE  ReadsKept
<1>1. Len(calls[p]) > 0 /\ Call0(p) = calls[p][1]
  BY InvParts, DoingIs
<1> QED  BY <1>1, GoKeeps

LEMMA WaitKeeps ==
  ASSUME PipeInv, NEW p \in Proc, NEW ops, NEW at, Doing(p, ops, at),
         NEW to \in {"head", "slept", "waited"},
         Go(p, [Call0(p) EXCEPT !.at = to])
  PROVE  ReadsKept
<1>1. Call0(p) \in Call
  BY InvParts, DoingIs
<1> DEFINE c == [Call0(p) EXCEPT !.at = to]
<1>2. c \in Call /\ c.buf = Call0(p).buf /\ Go(p, c)
  BY <1>1, CallMoves
<1> HIDE DEF c
<1> QED  BY <1>2, MovedKeeps

LEMMA NestKeeps ==
  ASSUME PipeInv, NEW p \in Proc, NEW ops, NEW at, Doing(p, ops, at),
         Go(p, [Call0(p) EXCEPT !.at = "slept", !.by = Nested(@)])
  PROVE  ReadsKept
<1>1. Call0(p) \in Call
  BY InvParts, DoingIs
<1> DEFINE c == [Call0(p) EXCEPT !.at = "slept", !.by = Nested(@)]
<1>2. c \in Call /\ c.buf = Call0(p).buf /\ Go(p, c)
  BY <1>1, CallNests
<1> HIDE DEF c
<1> QED  BY <1>2, MovedKeeps

LEMMA AfterWaitIs == \A value : AfterWait(value) \in {"head", "slept", "waited"}
BY DEF AfterWait

LEMMA WriterLeaves ==
  ASSUME PipeInv, NEW p \in Proc, NEW ops \in SUBSET {"write", "mark"},
         WriteDone(p, ops), Leave(p)
  PROVE  ReadsKept
<1>1. Len(calls[p]) > 0 /\ calls[p][1].op \in {"write", "mark"}
  BY InvParts, DoingIs DEF WriteDone
<1>2. calls[p][1].buf = <<>>
  <2>1. StackOK(calls[p]) /\ calls[p] \in Seq(Call)
    BY InvParts
  <2>2. CallOK(calls[p][1])
    BY <1>1, <2>1 DEF StackOK
  <2> QED  BY <1>1, <2>2 DEF CallOK
<1> QED  BY <1>1, <1>2, LeaveKeeps

LEMMA KernelQuiet ==
  ASSUME PipeInv, NEW p \in Proc,
         ReadWaits(p) \/ WriteWaits(p) \/ WriteReturns(p) \/ MarkReturns(p)
  PROVE  Quiet
<1>1. CASE ReadWaits(p)
  <2>1. ReadsKept
    BY <1>1, WaitKeeps, AfterWaitIs DEF ReadWaits
  <2> QED  BY <1>1, <2>1 DEF ReadWaits, Quiet, ring, traffic
<1>2. CASE WriteWaits(p)
  <2>1. Doing(p, {"write", "mark"}, "head")
    BY <1>2 DEF WriteWaits
  <2>2. \/ Go(p, [Call0(p) EXCEPT !.at = "slept", !.by = Nested(@)])
        \/ Go(p, [Call0(p) EXCEPT !.at = "waited"])
    BY <1>2 DEF WriteWaits
  <2>3. ReadsKept
    BY <2>1, <2>2, WaitKeeps, NestKeeps
  <2> QED  BY <1>2, <2>3 DEF WriteWaits, Quiet, ring, traffic
<1>3. CASE WriteReturns(p)
  <2>1. ReadsKept
    BY <1>3, WriterLeaves DEF WriteReturns
  <2> QED  BY <1>3, <2>1 DEF WriteReturns, Quiet, traffic
<1>4. CASE MarkReturns(p)
  <2>1. ReadsKept
    BY <1>4, WriterLeaves, CallsKept DEF MarkReturns
  <2> QED  BY <1>4, <2>1 DEF MarkReturns, Quiet, traffic
<1> QED  BY <1>1, <1>2, <1>3, <1>4

LEMMA CloseEndsKeeps ==
  ASSUME PipeInv, NEW z \in Proc, NEW n, NEW by \in {"syscall", "Schedule"},
         CloseEnds(z, n, by)
  PROVE  ReadsKept
<1>1. CASE UNCHANGED calls
  BY <1>1, CallsKept
<1>2. CASE Enter(cpu, NewCall("mark", 1, z, by))
  <2>1. cpu \in Proc
    BY InvParts DEF TypeOK
  <2>2. NewCall("mark", 1, z, by) \in Call /\ NewCall("mark", 1, z, by).buf = <<>>
    BY NewCallIs
  <2> QED  BY <1>2, <2>1, <2>2, EnterKeeps
<1> QED  BY <1>1, <1>2 DEF CloseEnds

LEMMA DestroyQuiet ==
  ASSUME PipeInv, NEW z \in Proc, NEW by \in {"syscall", "Schedule"}, Destroy(z, by)
  PROVE  Quiet
BY CloseEndsKeeps DEF Destroy, Quiet, ring, traffic

LEMMA ProgramQuiet ==
  ASSUME PipeInv, NEW p \in Proc, Program(p)
  PROVE  Quiet
<1>1. ASSUME NEW size \in ReadSizes, Read(p, size) PROVE Quiet
  <2>1. ReadsKept
    BY <1>1, NewCallIs, EnterKeeps, SizeAssumption DEF Read
  <2> QED  BY <1>1, <2>1 DEF Read, Quiet, ring, traffic
<1>2. ASSUME NEW size \in WriteSizes, Write(p, size) PROVE Quiet
  <2>1. ReadsKept
    BY <1>2, NewCallIs, EnterKeeps, SizeAssumption DEF Write
  <2> QED  BY <1>2, <2>1 DEF Write, Quiet, ring, traffic
<1>3. ASSUME NEW c \in Child, Clone(p, c) PROVE Quiet
  BY <1>3, CallsKept DEF Clone, Quiet, ring, traffic
<1>4. ASSUME NEW c \in Child, Wait4(p, c) PROVE Quiet
  BY <1>4, DestroyQuiet, ProcAssumption DEF Wait4
<1>5. CASE Dup(p)
  BY <1>5, CallsKept DEF Dup, Quiet, ring, traffic
<1>6. CASE Close(p)
  BY <1>6, CloseEndsKeeps DEF Close, Quiet, ring, traffic
<1>7. CASE Exit(p)
  BY <1>7, CallsKept DEF Exit, Quiet, ring, traffic
<1> QED  BY <1>1, <1>2, <1>3, <1>4, <1>5, <1>6, <1>7 DEF Program

LEMMA SchedulerQuiet ==
  ASSUME PipeInv, NEW p \in Proc, Reap(p) \/ Switch(p)
  PROVE  Quiet
<1>1. CASE Reap(p)
  BY <1>1, DestroyQuiet DEF Reap
<1>2. CASE Switch(p)
  <2>1. CASE calls[p] = <<>>
    BY <1>2, <2>1, CallsKept DEF Switch, Resumed, Quiet, ring, traffic
  <2>2. CASE calls[p] # <<>>
    <3> DEFINE c == [Call0(p) EXCEPT !.at = "waited"]
    <3>1. Len(calls[p]) > 0 /\ Call0(p) = calls[p][1] /\ Call0(p) \in Call
      <4>1. calls[p] \in Seq(Call)
        BY InvParts
      <4> QED  BY <2>2, <4>1, StackFacts DEF Call0
    <3>2. c \in Call /\ c.buf = calls[p][1].buf
      BY <3>1, CallMoves
    <3>3. calls' = [calls EXCEPT ![p] = <<c>> \o Tail(calls[p])]
      BY <1>2, <2>2 DEF Switch, Resumed
    <3> HIDE DEF c
    <3>4. Go(p, c)
      BY <3>3 DEF Go
    <3>5. ReadsKept
      BY <3>1, <3>2, <3>4, GoKeeps
    <3> QED  BY <1>2, <3>5 DEF Switch, Quiet, ring, traffic
  <2> QED  BY <2>1, <2>2
<1> QED  BY <1>1, <1>2

LEMMA StepEffect ==
  ASSUME OneReader, PipeInv, [Next]_vars
  PROVE  \/ Quiet
         \/ \E p \in Proc : Returns(p) \/ Takes(p) \/ Ends(p)
         \/ \E b \in Byte \cup {Eof} : Puts(b)
<1>1. ASSUME NEW p \in Proc, Kernel(p)
      PROVE  \/ Quiet
             \/ Returns(p) \/ Takes(p) \/ Ends(p)
             \/ \E b \in Byte \cup {Eof} : Puts(b)
  BY <1>1, ReadReturnsEffect, ReadTakesEffect, ReadEndsEffect, WritePutsEffect,
     KernelQuiet DEF Kernel
<1>2. ASSUME NEW p \in Proc, Program(p) \/ Reap(p) \/ Switch(p)
      PROVE  Quiet
  BY <1>2, ProgramQuiet, SchedulerQuiet
<1>3. CASE UNCHANGED vars
  BY <1>3, CallsKept DEF vars, ring, traffic, Quiet
<1> QED  BY <1>1, <1>2, <1>3 DEF Next

-----------------------------------------------------------------------------
(***************************************************************************)
(* Byte n is the n-th written.  What reads have returned, what they have   *)
(* dropped, what the read that goes on has, and the ring up to the marker  *)
(* hold the bytes one after the other; reads drop bytes only when they     *)
(* meet the marker, and none is read after that.                           *)
(***************************************************************************)
Piece(s, n) == \A k \in 1 .. Len(s) : s[k] = n + k

Bytes == IF Marked THEN Size - 1 ELSE Size

BytesRead(r) == Len(got) + Len(lost) + Len(InRead(r))

DataOf(r) ==
  /\ Piece(got, 0) /\ Piece(lost, Len(got))
  /\ Piece(InRead(r), Len(got) + Len(lost))
  /\ \A k \in 1 .. Bytes : Cell(k) = BytesRead(r) + k
  /\ BytesRead(r) + Bytes = sent
  /\ ~ended => lost = <<>>
  /\ ended => InRead(r) = <<>>

DataInv == \A r \in Readers : DataOf(r)

LEMMA PieceAppend ==
  ASSUME NEW s \in Seq(Byte), NEW n \in Nat, NEW b, Piece(s, n), b = n + Len(s) + 1
  PROVE  Piece(Append(s, b), n) /\ Len(Append(s, b)) = Len(s) + 1
<1> DEFINE l == Len(s)
<1>1. /\ l \in Nat /\ Len(Append(s, b)) = l + 1 /\ Append(s, b)[l + 1] = b
      /\ \A k \in 1 .. l : Append(s, b)[k] = s[k]
      /\ \A k \in 1 .. l : s[k] = n + k
      /\ b = n + l + 1
  BY AppendProperties DEF Piece
<1> HIDE DEF l
<1>2. ASSUME NEW k \in 1 .. l + 1 PROVE Append(s, b)[k] = n + k
  <2>1. CASE k = l + 1
    BY <1>1, <2>1
  <2>2. CASE k # l + 1
    <3>1. k \in 1 .. l
      BY <1>1, <2>2
    <3> QED  BY <1>1, <3>1
  <2> QED  BY <2>1, <2>2
<1>3. Piece(Append(s, b), n)
  BY <1>1, <1>2 DEF Piece
<1> QED  BY <1>1, <1>3 DEF l

LEMMA PieceConcat ==
  ASSUME NEW s \in Seq(Byte), NEW t \in Seq(Byte), NEW n \in Nat,
         Piece(s, n), Piece(t, n + Len(s))
  PROVE  Piece(s \o t, n) /\ Len(s \o t) = Len(s) + Len(t) /\ s \o t \in Seq(Byte)
<1> DEFINE l == Len(s)
           m == Len(t)
           u == s \o t
<1>1. /\ l \in Nat /\ m \in Nat /\ u \in Seq(Byte) /\ Len(u) = l + m
      /\ \A k \in 1 .. l + m : u[k] = IF k <= l THEN s[k] ELSE t[k - l]
      /\ \A k \in 1 .. l : s[k] = n + k
      /\ \A k \in 1 .. m : t[k] = (n + l) + k
  <2>1. /\ l \in Nat /\ m \in Nat /\ u \in Seq(Byte) /\ Len(u) = l + m
        /\ \A k \in 1 .. l + m : u[k] = IF k <= l THEN s[k] ELSE t[k - l]
    BY ConcatProperties
  <2> QED  BY <2>1 DEF Piece
<1> HIDE DEF l, m, u
<1>2. ASSUME NEW k \in 1 .. l + m PROVE u[k] = n + k
  <2>1. CASE k <= l
    <3>1. k \in 1 .. l
      BY <1>1, <2>1
    <3> QED  BY <1>1, <2>1, <3>1
  <2>2. CASE ~(k <= l)
    <3> DEFINE j == k - l
    <3>1. j \in 1 .. m /\ k = l + j
      BY <1>1, <2>2
    <3>2. u[k] = t[j]
      BY <1>1, <2>2
    <3> HIDE DEF j
    <3>3. t[j] = (n + l) + j
      BY <1>1, <3>1
    <3> QED  BY <1>1, <3>1, <3>2, <3>3
  <2> QED  BY <2>1, <2>2
<1>3. Piece(u, n)
  BY <1>1, <1>2 DEF Piece
<1> QED  BY <1>1, <1>3 DEF u, l, m

(***************************************************************************)
(* What happens in the ring when its first byte is taken, and when a byte  *)
(* or the marker is put into it.                                           *)
(***************************************************************************)
LEMMA BytesType ==
  ASSUME PipeInv
  PROVE  /\ Size \in 0 .. FILESIZE - 1 /\ FILESIZE \in Nat
         /\ Bytes \in Nat /\ Bytes <= Size
         /\ ~Marked => Bytes = Size
         /\ Marked => Bytes = Size - 1 /\ Cell(Size) = Eof
         /\ \A k \in 1 .. Bytes : Cell(k) # Eof
<1>1. Size \in 0 .. FILESIZE - 1 /\ FILESIZE \in Nat
  BY SizeIs, InvParts, BoundAssumption DEF TypeOK
<1>2. CASE Marked
  <2>1. PICK k \in 1 .. Size : Cell(k) = Eof
    BY <1>2 DEF Marked
  <2>2. k = Size
    BY <2>1, InvParts DEF EndInv
  <2>3. ASSUME NEW j \in 1 .. Bytes PROVE Cell(j) # Eof
    <3>1. j \in 1 .. Size /\ j # Size
      BY <1>1, <1>2 DEF Bytes
    <3> QED  BY <3>1, InvParts DEF EndInv
  <2>4. Size >= 1
    BY <1>1, <2>1
  <2> QED  BY <1>1, <1>2, <2>1, <2>2, <2>3, <2>4 DEF Bytes
<1>3. CASE ~Marked
  BY <1>1, <1>3 DEF Bytes, Marked
<1> QED  BY <1>2, <1>3

LEMMA BytesTaken ==
  ASSUME PipeInv, NEW p, Takes(p)
  PROVE  /\ Bytes >= 1 /\ Bytes' = Bytes - 1
         /\ \A k \in 1 .. Bytes' : k + 1 \in 1 .. Bytes /\ Cell(k)' = Cell(k + 1)
         /\ Cell(1) = data[out]
<1>1. /\ Size \in 0 .. FILESIZE - 1 /\ FILESIZE \in Nat /\ Size >= 1 /\ Bytes \in Nat
      /\ Bytes <= Size
      /\ Marked => Bytes = Size - 1 /\ Cell(Size) = Eof
      /\ ~Marked => Bytes = Size
  BY BytesType DEF Takes
<1>2. /\ Size' = Size - 1
      /\ \A k \in 1 .. FILESIZE - 1 : Cell(k)' = Cell(k + 1)
      /\ Cell(1) = data[out]
  BY <1>1, RingTake, InvParts DEF Takes, TypeOK
<1>3. Cell(1) # Eof
  BY <1>2 DEF Takes
<1>4. Marked' <=> Marked
  <2>1. ASSUME Marked PROVE Marked'
    <3>1. PICK n \in Nat : n + 1 = Size
      BY <1>1
    <3>2. n \in 1 .. FILESIZE - 1 /\ n \in 1 .. Size'
      <4>1. n + 1 # 1
        BY <1>1, <1>3, <2>1, <3>1
      <4> QED  BY <1>1, <1>2, <3>1, <4>1
    <3>3. Cell(n)' = Cell(n + 1)
      BY <1>2, <3>2
    <3>4. Cell(n)' = Eof
      BY <1>1, <2>1, <3>1, <3>3
    <3> QED  BY <3>2, <3>4 DEF Marked
  <2>2. ASSUME Marked' PROVE Marked
    <3>1. PICK k \in 1 .. Size' : Cell(k)' = Eof
      BY <2>2 DEF Marked
    <3>2. k \in 1 .. FILESIZE - 1 /\ k + 1 \in 1 .. Size
      BY <1>1, <1>2
    <3>3. Cell(k + 1) = Eof
      BY <1>2, <3>1, <3>2
    <3> QED  BY <3>2, <3>3 DEF Marked
  <2> QED  BY <2>1, <2>2
<1>5. Bytes' = IF Marked' THEN Size' - 1 ELSE Size'
  BY DEF Bytes
<1>6. Bytes' = Bytes - 1 /\ Bytes >= 1
  <2>1. Marked => Size # 1
    BY <1>1, <1>3
  <2> QED  BY <1>1, <1>2, <1>4, <1>5, <2>1
<1>7. \A k \in 1 .. Bytes' : k + 1 \in 1 .. Bytes /\ k \in 1 .. FILESIZE - 1
  BY <1>1, <1>6
<1> QED  BY <1>2, <1>6, <1>7

LEMMA BytesPut ==
  ASSUME PipeInv, NEW b \in Byte \cup {Eof}, Puts(b)
  PROVE  /\ Bytes' = IF b = Eof THEN Bytes ELSE Bytes + 1
         /\ \A k \in 1 .. Bytes : Cell(k)' = Cell(k)
         /\ b # Eof => \A k \in 1 .. Bytes' : k = Bytes + 1 => Cell(k)' = b
<1>1. /\ Size \in 0 .. FILESIZE - 1 /\ FILESIZE \in Nat /\ Size < FILESIZE - 1
      /\ Bytes = Size /\ ~Marked
  BY BytesType DEF Puts
<1>2. /\ Size' = Size + 1
      /\ \A k \in 1 .. Size : Cell(k)' = Cell(k)
      /\ \A k \in 1 .. FILESIZE : k = Size + 1 => Cell(k)' = b
  BY <1>1, RingPut, InvParts DEF Puts, TypeOK
<1>3. Marked' <=> b = Eof
  <2>1. PICK n \in Nat : n = Size + 1
    BY <1>1
  <2>2. n \in 1 .. FILESIZE /\ n \in 1 .. Size'
    BY <1>1, <1>2, <2>1
  <2>3. \A k \in 1 .. Size' : k = n \/ k \in 1 .. Size
    BY <1>1, <1>2, <2>1
  <2>4. \A k \in 1 .. Size : Cell(k) # Eof
    BY <1>1 DEF Marked
  <2>5. Cell(n)' = b
    BY <1>2, <2>1, <2>2
  <2>6. ASSUME Marked' PROVE b = Eof
    <3>1. PICK k \in 1 .. Size' : Cell(k)' = Eof
      BY <2>6 DEF Marked
    <3>2. k = n
      BY <1>2, <2>3, <2>4, <3>1
    <3> QED  BY <2>5, <3>1, <3>2
  <2>7. ASSUME b = Eof PROVE Marked'
    BY <2>2, <2>5, <2>7 DEF Marked
  <2> QED  BY <2>6, <2>7
<1>4. Bytes' = IF Marked' THEN Size' - 1 ELSE Size'
  BY DEF Bytes
<1>5. Bytes' = IF b = Eof THEN Bytes ELSE Bytes + 1
  BY <1>1, <1>2, <1>3, <1>4
<1>6. \A k \in 1 .. Bytes' : k \in 1 .. FILESIZE
  BY <1>1, <1>5
<1> QED  BY <1>1, <1>2, <1>5, <1>6

LEMMA RingSame ==
  ASSUME UNCHANGED <<data, in, out>>
  PROVE  Size' = Size /\ Bytes' = Bytes /\ \A k : Cell(k)' = Cell(k)
<1>1. Size' = Size /\ \A k : Cell(k)' = Cell(k)
  BY DEF Size, Cell
<1>2. Marked' <=> Marked
  BY <1>1 DEF Marked
<1> QED  BY <1>1, <1>2 DEF Bytes

-----------------------------------------------------------------------------
(***************************************************************************)
(* DataInv is kept by every step.                                          *)
(***************************************************************************)
LEMMA DataTypes ==
  ASSUME PipeInv, NEW r \in Readers
  PROVE  /\ r \in Proc
         /\ got \in Seq(Byte) /\ lost \in Seq(Byte) /\ InRead(r) \in Seq(Byte)
         /\ Len(got) \in Nat /\ Len(lost) \in Nat /\ Len(InRead(r)) \in Nat
         /\ BytesRead(r) \in Nat /\ Bytes \in Nat /\ sent \in 0 .. MaxBytes
         /\ MaxBytes \in Nat
<1>1. got \in Seq(Byte) /\ lost \in Seq(Byte) /\ sent \in 0 .. MaxBytes
  BY InvParts DEF TypeOK
<1>2. r \in Proc
  BY ProcAssumption
<1>3. InRead(r) \in Seq(Byte)
  <2>1. calls[r] \in Seq(Call)
    BY <1>2, InvParts
  <2> QED  BY <2>1, ReadOfIs, InReadIs
<1>4. Len(got) \in Nat /\ Len(lost) \in Nat /\ Len(InRead(r)) \in Nat
  BY <1>1, <1>3
<1>5. BytesRead(r) \in Nat
  BY <1>4 DEF BytesRead
<1> QED  BY <1>1, <1>2, <1>3, <1>4, <1>5, BytesType, BoundAssumption

LEMMA DataQuiet ==
  ASSUME PipeInv, NEW r \in Readers, DataOf(r), Quiet
  PROVE  DataOf(r)'
<1>1. InRead(r)' = InRead(r) /\ UNCHANGED <<sent, got, lost, ended>>
  BY ProcAssumption DEF Quiet, ReadsKept
<1>2. Bytes' = Bytes /\ \A k : Cell(k)' = Cell(k)
  BY RingSame DEF Quiet
<1>3. BytesRead(r)' = BytesRead(r)
  BY <1>1 DEF BytesRead
<1>4. (Piece(got, 0) /\ Piece(lost, Len(got)))'
  BY <1>1 DEF DataOf, Piece
<1>5. Piece(InRead(r), Len(got) + Len(lost))'
  BY <1>1 DEF DataOf, Piece
<1> QED  BY <1>1, <1>2, <1>3, <1>4, <1>5 DEF DataOf

LEMMA DataReturns ==
  ASSUME PipeInv, NEW r \in Readers, DataOf(r), Returns(r)
  PROVE  DataOf(r)'
<1> DEFINE i == InRead(r)
           g == got
           l == lost
<1>1. /\ g \in Seq(Byte) /\ l \in Seq(Byte) /\ i \in Seq(Byte)
      /\ Len(g) \in Nat /\ Len(l) \in Nat /\ Len(i) \in Nat
  BY DataTypes
<1>2. got' = g \o i /\ InRead(r)' = <<>> /\ lost' = l /\ ended' = ended /\ sent' = sent
  BY DEF Returns
<1>3. Bytes' = Bytes /\ \A k : Cell(k)' = Cell(k)
  BY RingSame DEF Returns
<1>4. /\ Piece(g, 0) /\ Piece(l, Len(g)) /\ Piece(i, Len(g) + Len(l))
      /\ ~ended => l = <<>>
      /\ ended => i = <<>>
  BY DEF DataOf
<1>5. BytesRead(r) = Len(g) + Len(l) + Len(i)
  BY DEF BytesRead
<1>6. BytesRead(r)' = Len(g \o i) + Len(l) + Len(<<>>)
  BY <1>2 DEF BytesRead
<1> HIDE DEF g, l, i
<1>7. Len(<<>>) = 0
  OBVIOUS
<1>8. Piece(g \o i, 0) /\ Len(g \o i) = Len(g) + Len(i) /\ Piece(l, Len(g \o i))
  <2>1. CASE ended
    <3>1. i = <<>>
      BY <1>4, <2>1
    <3>2. g \o i = g
      BY <1>1, <3>1
    <3> QED  BY <1>1, <1>4, <1>7, <3>1, <3>2
  <2>2. CASE ~ended
    <3>1. l = <<>> /\ Len(l) = 0
      BY <1>4, <1>7, <2>2
    <3>2. Piece(i, 0 + Len(g))
      BY <1>1, <1>4, <3>1
    <3>3. Piece(g \o i, 0) /\ Len(g \o i) = Len(g) + Len(i)
      BY <1>1, <1>4, <3>2, PieceConcat
    <3>4. Piece(l, Len(g \o i))
      BY <3>1 DEF Piece
    <3> QED  BY <3>3, <3>4
  <2> QED  BY <2>1, <2>2
<1>9. BytesRead(r)' = BytesRead(r)
  BY <1>1, <1>5, <1>6, <1>7, <1>8
<1>10. Piece(got, 0)' /\ Piece(lost, Len(got))'
  <2>1. Piece(got', 0) /\ Piece(lost', Len(got'))
    BY <1>2, <1>8
  <2> QED  BY <2>1 DEF Piece
<1>11. Piece(InRead(r), Len(got) + Len(lost))'
  <2>1. 1 .. Len(InRead(r)') = {}
    BY <1>2, <1>7
  <2> QED  BY <2>1 DEF Piece
<1>12. /\ (\A k \in 1 .. Bytes : Cell(k) = BytesRead(r) + k)'
       /\ (BytesRead(r) + Bytes = sent)'
  BY <1>2, <1>3, <1>9 DEF DataOf
<1>13. (~ended => lost = <<>>)' /\ (ended => InRead(r) = <<>>)'
  BY <1>2, <1>4
<1> QED  BY <1>10, <1>11, <1>12, <1>13 DEF DataOf

LEMMA DataEnds ==
  ASSUME PipeInv, NEW r \in Readers, DataOf(r), Ends(r)
  PROVE  DataOf(r)'
<1> DEFINE i == InRead(r)
           g == got
           l == lost
<1>1. /\ g \in Seq(Byte) /\ l \in Seq(Byte) /\ i \in Seq(Byte)
      /\ Len(g) \in Nat /\ Len(l) \in Nat /\ Len(i) \in Nat
  BY DataTypes
<1>2. /\ lost' = l \o i /\ InRead(r)' = <<>> /\ got' = g /\ ended' = TRUE
      /\ sent' = sent
  BY DEF Ends
<1>3. Bytes' = Bytes /\ \A k : Cell(k)' = Cell(k)
  BY RingSame DEF Ends
<1>4. Piece(g, 0) /\ Piece(l, Len(g)) /\ Piece(i, Len(g) + Len(l))
  BY DEF DataOf
<1>5. BytesRead(r) = Len(g) + Len(l) + Len(i)
  BY DEF BytesRead
<1>6. BytesRead(r)' = Len(g) + Len(l \o i) + Len(<<>>)
  BY <1>2 DEF BytesRead
<1> HIDE DEF g, l, i
<1>7. Len(<<>>) = 0
  OBVIOUS
<1>8. Piece(l \o i, Len(g)) /\ Len(l \o i) = Len(l) + Len(i)
  BY <1>1, <1>4, PieceConcat
<1>9. BytesRead(r)' = BytesRead(r)
  BY <1>1, <1>5, <1>6, <1>7, <1>8
<1>10. Piece(got, 0)' /\ Piece(lost, Len(got))'
  <2>1. Piece(got', 0) /\ Piece(lost', Len(got'))
    BY <1>2, <1>4, <1>8
  <2> QED  BY <2>1 DEF Piece
<1>11. Piece(InRead(r), Len(got) + Len(lost))'
  <2>1. 1 .. Len(InRead(r)') = {}
    BY <1>2, <1>7
  <2> QED  BY <2>1 DEF Piece
<1>12. /\ (\A k \in 1 .. Bytes : Cell(k) = BytesRead(r) + k)'
       /\ (BytesRead(r) + Bytes = sent)'
  BY <1>2, <1>3, <1>9 DEF DataOf
<1>13. (~ended => lost = <<>>)' /\ (ended => InRead(r) = <<>>)'
  BY <1>2
<1> QED  BY <1>10, <1>11, <1>12, <1>13 DEF DataOf

LEMMA DataTakes ==
  ASSUME PipeInv, NEW r \in Readers, DataOf(r), Takes(r)
  PROVE  DataOf(r)'
<1> DEFINE i == InRead(r)
           g == Len(got)
           l == Len(lost)
           b == data[out]
           n == BytesRead(r)
           d == Bytes
<1>1. /\ i \in Seq(Byte) /\ g \in Nat /\ l \in Nat /\ Len(i) \in Nat
      /\ n \in Nat /\ d \in Nat /\ n = g + l + Len(i) /\ n + d = sent
      /\ Piece(i, g + l) /\ lost = <<>> /\ ~ended
      /\ \A k \in 1 .. d : Cell(k) = n + k
  BY DataTypes DEF DataOf, Takes, BytesRead
<1>2. /\ InRead(r)' = Append(i, b)
      /\ UNCHANGED <<sent, got, lost, ended>>
  BY DEF Takes
<1>3. /\ d >= 1 /\ Bytes' = d - 1 /\ Cell(1) = b
      /\ \A k \in 1 .. Bytes' : k + 1 \in 1 .. d /\ Cell(k)' = Cell(k + 1)
  BY BytesTaken
<1>4. BytesRead(r)' = g + l + Len(Append(i, b))
  BY <1>2 DEF BytesRead
<1> HIDE DEF i, g, l, b, n, d
<1>5. b = n + 1
  <2>1. 1 \in 1 .. d
    BY <1>1, <1>3
  <2> QED  BY <1>1, <1>3, <2>1
<1>6. Piece(Append(i, b), g + l) /\ Len(Append(i, b)) = Len(i) + 1
  <2>1. b = (g + l) + Len(i) + 1 /\ g + l \in Nat
    BY <1>1, <1>5
  <2> QED  BY <1>1, <2>1, PieceAppend
<1>7. BytesRead(r)' = n + 1
  BY <1>1, <1>4, <1>6
<1>8. (Piece(got, 0) /\ Piece(lost, Len(got)))'
  BY <1>2 DEF DataOf, Piece
<1>9. Piece(InRead(r), Len(got) + Len(lost))'
  <2>1. Piece(InRead(r)', g + l) /\ Len(got)' + Len(lost)' = g + l
    BY <1>2, <1>6 DEF g, l
  <2> QED  BY <2>1 DEF Piece
<1>10. ASSUME NEW k \in 1 .. Bytes' PROVE Cell(k)' = BytesRead(r)' + k
  <2>1. Cell(k)' = Cell(k + 1) /\ k + 1 \in 1 .. d
    BY <1>3
  <2>2. Cell(k + 1) = n + (k + 1)
    BY <1>1, <2>1
  <2>3. k \in Nat
    BY <1>1, <1>3
  <2> QED  BY <1>1, <1>7, <2>1, <2>2, <2>3
<1>11. BytesRead(r)' + Bytes' = sent'
  BY <1>1, <1>2, <1>3, <1>7
<1>12. (~ended => lost = <<>>)' /\ (ended => InRead(r) = <<>>)'
  BY <1>1, <1>2
<1> QED  BY <1>8, <1>9, <1>10, <1>11, <1>12 DEF DataOf

LEMMA DataPuts ==
  ASSUME PipeInv, NEW r \in Readers, DataOf(r),
         NEW b \in Byte \cup {Eof}, Puts(b)
  PROVE  DataOf(r)'
<1> DEFINE n == BytesRead(r)
           d == Bytes
<1>1. /\ n \in Nat /\ d \in Nat /\ n + d = sent
      /\ \A k \in 1 .. d : Cell(k) = n + k
  BY DataTypes DEF DataOf
<1>2. InRead(r)' = InRead(r) /\ UNCHANGED <<got, lost, ended>>
  BY ProcAssumption DEF Puts, ReadsKept
<1>3. /\ \/ b = Eof /\ sent' = sent
         \/ b = sent + 1 /\ sent' = b
      /\ Eof = 0
  BY DEF Puts, Eof
<1>4. /\ Bytes' = IF b = Eof THEN d ELSE d + 1
      /\ \A k \in 1 .. d : Cell(k)' = Cell(k)
      /\ b # Eof => \A k \in 1 .. Bytes' : k = d + 1 => Cell(k)' = b
  BY BytesPut
<1>5. BytesRead(r)' = n
  BY <1>2 DEF BytesRead
<1>6. (Piece(got, 0) /\ Piece(lost, Len(got)))'
  BY <1>2 DEF DataOf, Piece
<1>7. Piece(InRead(r), Len(got) + Len(lost))'
  BY <1>2 DEF DataOf, Piece
<1>8. (~ended => lost = <<>>)' /\ (ended => InRead(r) = <<>>)'
  BY <1>2 DEF DataOf
<1> HIDE DEF n, d
<1>9. ASSUME NEW k \in 1 .. Bytes' PROVE Cell(k)' = BytesRead(r)' + k
  <2>1. CASE k \in 1 .. d
    BY <1>1, <1>4, <1>5, <2>1
  <2>2. CASE k \notin 1 .. d
    <3>1. b # Eof /\ k = d + 1
      BY <1>1, <1>4, <2>2
    <3>2. Cell(k)' = b /\ b = sent + 1
      BY <1>3, <1>4, <3>1
    <3> QED  BY <1>1, <1>5, <3>1, <3>2
  <2> QED  BY <2>1, <2>2
<1>10. BytesRead(r)' + Bytes' = sent'
  BY <1>1, <1>3, <1>4, <1>5
<1> QED  BY <1>6, <1>7, <1>8, <1>9, <1>10 DEF DataOf

LEMMA DataNext ==
  ASSUME OneReader, PipeInv, DataInv, [Next]_vars
  PROVE  DataInv'
<1> SUFFICES ASSUME NEW r \in Readers PROVE DataOf(r)'
  BY DEF DataInv
<1>1. DataOf(r)
  BY DEF DataInv
<1>2. ASSUME NEW p \in Proc, Returns(p) \/ Takes(p) \/ Ends(p) PROVE DataOf(r)'
  <2>1. p = r
    BY <1>2 DEF Returns, Takes, Ends, OneReader
  <2> QED  BY <1>1, <1>2, <2>1, DataReturns, DataTakes, DataEnds
<1>3. ASSUME NEW b \in Byte \cup {Eof}, Puts(b) PROVE DataOf(r)'
  BY <1>1, <1>3, DataPuts
<1>4. CASE Quiet
  BY <1>1, <1>4, DataQuiet
<1> QED  BY <1>2, <1>3, <1>4, StepEffect

LEMMA DataInit == Init => DataInv
<1> SUFFICES ASSUME Init, NEW r \in Readers PROVE DataOf(r)
  BY DEF DataInv
<1>1. PipeInv
  BY InitInv
<1>2. got = <<>> /\ lost = <<>> /\ InRead(r) = <<>> /\ sent = 0 /\ ~ended /\ Len(<<>>) = 0
  <2>1. r \in Proc
    BY ProcAssumption
  <2> QED  BY <2>1 DEF Init, InRead
<1>3. Size = 0
  <2>1. in = 0 /\ out = 0 /\ 0 \in Index
    BY BoundAssumption DEF Init, Index
  <2> QED  BY <2>1, SizeIs
<1>4. Bytes = 0
  BY <1>1, <1>3, BytesType
<1>5. Piece(got, 0) /\ Piece(lost, Len(got)) /\ Piece(InRead(r), Len(got) + Len(lost))
  <2>1. 1 .. Len(<<>>) = {}
    BY <1>2
  <2> QED  BY <1>2, <2>1 DEF Piece
<1>6. BytesRead(r) = 0
  <2>1. BytesRead(r) = Len(<<>>) + Len(<<>>) + Len(<<>>)
    BY <1>2 DEF BytesRead
  <2> QED  BY <1>2, <2>1
<1> QED  BY <1>2, <1>4, <1>5, <1>6 DEF DataOf

LEMMA DataInvariant == OneReader => (Spec => [](PipeInv /\ DataInv))
<1> SUFFICES ASSUME OneReader PROVE Spec => [](PipeInv /\ DataInv)
  OBVIOUS
<1>1. Init => PipeInv /\ DataInv
  BY InitInv, DataInit
<1>2. (PipeInv /\ DataInv) /\ [Next]_vars => (PipeInv /\ DataInv)'
  BY NextInv, DataNext
<1> QED  BY <1>1, <1>2, PTL DEF Spec

LEMMA DataInRingIs ==
  ASSUME PipeInv
  PROVE  /\ DataInRing \in Seq(Byte) /\ Len(DataInRing) = Bytes
         /\ \A k \in 1 .. Bytes : DataInRing[k] = Cell(k)
<1> DEFINE s == InRing
<1>1. /\ s \in Seq(Byte \cup {Eof}) /\ Len(s) = Size
      /\ \A k \in 1 .. Size : s[k] = Cell(k) /\ Cell(k) \in Byte \cup {Eof}
  BY InRingIs, InvParts DEF TypeOK
<1>2. /\ Size \in Nat /\ Bytes \in Nat /\ Bytes <= Size
      /\ ~Marked => Bytes = Size
      /\ Marked => Bytes = Size - 1 /\ Cell(Size) = Eof
      /\ \A k \in 1 .. Bytes : Cell(k) # Eof
  BY BytesType
<1>3. DataInRing = IF s # <<>> /\ Last(s) = Eof THEN Front(s) ELSE s
  BY DEF DataInRing
<1> HIDE DEF s
<1>4. s # <<>> /\ Last(s) = Eof <=> Marked
  <2>1. ASSUME s # <<>>, Last(s) = Eof PROVE Marked
    <3>1. Len(s) # 0
      BY <1>1, <2>1
    <3>2. Size \in 1 .. Size /\ s[Size] = Eof
      BY <1>1, <1>2, <2>1, <3>1 DEF Last
    <3>3. Cell(Size) = Eof
      BY <1>1, <3>2
    <3> QED  BY <3>2, <3>3 DEF Marked
  <2>2. ASSUME Marked PROVE s # <<>> /\ Last(s) = Eof
    <3>1. Size \in 1 .. Size
      BY <1>2, <2>2
    <3>2. Last(s) = Cell(Size)
      BY <1>1, <3>1 DEF Last
    <3>3. Len(s) # 0 /\ Len(<<>>) = 0
      BY <1>1, <3>1
    <3> QED  BY <1>2, <2>2, <3>2, <3>3
  <2> QED  BY <2>1, <2>2
<1>5. DataInRing \in Seq(Byte \cup {Eof}) /\ Len(DataInRing) = Bytes
      /\ \A k \in 1 .. Bytes : DataInRing[k] = Cell(k)
  <2>1. CASE Marked
    <3>1. DataInRing = SubSeq(s, 1, Bytes)
      BY <1>1, <1>2, <1>3, <1>4, <2>1 DEF Front
    <3>2. \A k \in 1 .. Bytes : k \in 1 .. Size
      BY <1>2
    <3>3. /\ SubSeq(s, 1, Bytes) \in Seq(Byte \cup {Eof})
          /\ Len(SubSeq(s, 1, Bytes)) = Bytes
          /\ \A k \in 1 .. Bytes : SubSeq(s, 1, Bytes)[k] = s[k]
      BY <1>1, <1>2
    <3> QED  BY <1>1, <3>1, <3>2, <3>3
  <2>2. CASE ~Marked
    BY <1>1, <1>2, <1>3, <1>4, <2>2
  <2> QED  BY <2>1, <2>2
<1>6. DataInRing \in Seq(Byte)
  <2>1. \A k \in 1 .. Bytes : Cell(k) \in Byte
    <3> TAKE k \in 1 .. Bytes
    <3>1. k \in 1 .. Size
      BY <1>2
    <3> QED  BY <1>1, <1>2, <3>1
  <2> QED  BY <1>5, <2>1
<1> QED  BY <1>5, <1>6

(***************************************************************************)
(* Every byte written is, in its order, returned by a read, in the read    *)
(* that goes on, in the ring, or among those a read had in its buffer when *)
(* it met the marker, which it drops (FileEx.cpp:58-70); none is doubled   *)
(* or passed by another, whatever the interleaving of the reader with the  *)
(* writers and the closes.                                                 *)
(***************************************************************************)
THEOREM BytesStayInOrder == OneReader => (Spec => []BytesConserved)
<1> SUFFICES ASSUME OneReader PROVE Spec => []BytesConserved
  OBVIOUS
<1>1. PipeInv /\ DataInv => BytesConserved
  <2> SUFFICES ASSUME PipeInv, DataInv, NEW r \in Readers
               PROVE  got \o lost \o InRead(r) \o DataInRing = [n \in 1 .. sent |-> n]
    BY DEF BytesConserved
  <2> DEFINE g == got
             l == lost
             i == InRead(r)
             d == DataInRing
             a == g \o l
             b == a \o i
             c == b \o d
  <2>1. /\ g \in Seq(Byte) /\ l \in Seq(Byte) /\ i \in Seq(Byte) /\ d \in Seq(Byte)
        /\ Len(g) \in Nat /\ Len(l) \in Nat /\ Len(i) \in Nat /\ Len(d) = Bytes
        /\ sent \in Nat
    BY DataTypes, DataInRingIs
  <2>2. /\ Piece(g, 0) /\ Piece(l, Len(g)) /\ Piece(i, Len(g) + Len(l))
        /\ BytesRead(r) = Len(g) + Len(l) + Len(i)
        /\ BytesRead(r) + Bytes = sent
    BY DEF DataInv, DataOf, BytesRead
  <2>3. Piece(d, BytesRead(r))
    BY DataInRingIs DEF Piece, DataInv, DataOf
  <2> HIDE DEF g, l, i, d
  <2>4. Piece(a, 0) /\ Len(a) = Len(g) + Len(l) /\ a \in Seq(Byte)
    <3>1. 0 + Len(g) = Len(g)
      BY <2>1
    <3> QED  BY <2>1, <2>2, <3>1, PieceConcat
  <2> HIDE DEF a
  <2>5. Piece(b, 0) /\ Len(b) = BytesRead(r) /\ b \in Seq(Byte)
    <3>1. 0 + Len(a) = Len(g) + Len(l)
      BY <2>1, <2>4
    <3>2. Piece(i, 0 + Len(a))
      BY <2>2, <3>1
    <3>3. Piece(b, 0) /\ Len(b) = Len(a) + Len(i) /\ b \in Seq(Byte)
      BY <2>1, <2>4, <3>2, PieceConcat
    <3> QED  BY <2>2, <2>4, <3>3
  <2> HIDE DEF b
  <2>6. Piece(c, 0) /\ Len(c) = sent /\ c \in Seq(Byte)
    <3>1. 0 + Len(b) = BytesRead(r)
      BY <2>1, <2>2, <2>5
    <3>2. Piece(d, 0 + Len(b))
      BY <2>3, <3>1
    <3>3. Piece(c, 0) /\ Len(c) = Len(b) + Len(d) /\ c \in Seq(Byte)
      BY <2>1, <2>5, <3>2, PieceConcat
    <3> QED  BY <2>1, <2>2, <2>5, <3>3
  <2> HIDE DEF c
  <2>7. c = [n \in 1 .. sent |-> n]
    <3>1. c = [n \in 1 .. sent |-> c[n]]
      BY <2>6
    <3>2. \A n \in 1 .. sent : c[n] = n
      BY <2>1, <2>6 DEF Piece
    <3> QED  BY <3>1, <3>2
  <2> QED  BY <2>7 DEF a, b, c, g, l, i, d
<1> QED  BY <1>1, DataInvariant, PTL

-----------------------------------------------------------------------------
(***************************************************************************)
(* The steps of the pipe as steps of the queue.                            *)
(***************************************************************************)
LEMMA RingShape ==
  PipeInv => /\ InRing \in Seq(Byte \cup {Eof}) /\ Len(InRing) = Size
             /\ \A k \in 1 .. Size : InRing[k] = Cell(k)
<1> SUFFICES ASSUME PipeInv
             PROVE  /\ InRing \in Seq(Byte \cup {Eof}) /\ Len(InRing) = Size
                    /\ \A k \in 1 .. Size : InRing[k] = Cell(k)
  OBVIOUS
<1> QED  BY InRingIs, InvParts DEF TypeOK

LEMMA RingShapeNext ==
  ASSUME PipeInv'
  PROVE  /\ InRing' \in Seq(Byte \cup {Eof}) /\ Len(InRing') = Size'
         /\ \A k \in 1 .. Size' : InRing'[k] = Cell(k)'
<1>1. (/\ InRing \in Seq(Byte \cup {Eof}) /\ Len(InRing) = Size
       /\ \A k \in 1 .. Size : InRing[k] = Cell(k))'
  BY RingShape, PTL
<1> QED  BY <1>1

LEMMA TakesIsGet ==
  ASSUME PipeInv, PipeInv', NEW p, Takes(p)
  PROVE  Queue!Get
<1> DEFINE s == InRing
           t == InRing'
           S == Byte \cup {Eof}
<1>1. s \in Seq(S) /\ Len(s) = Size /\ \A k \in 1 .. Size : s[k] = Cell(k)
  BY RingShape
<1>2. t \in Seq(S) /\ Len(t) = Size' /\ \A k \in 1 .. Size' : t[k] = Cell(k)'
  BY RingShapeNext
<1>3. Size \in 1 .. FILESIZE - 1 /\ FILESIZE \in Nat
  BY BytesType DEF Takes
<1>4. /\ Size' = Size - 1
      /\ \A k \in 1 .. FILESIZE - 1 : Cell(k)' = Cell(k + 1)
      /\ Cell(1) = data[out] /\ Cell(1) # Eof
  <2>1. Size >= 1
    BY <1>3
  <2> QED  BY <2>1, RingTake, InvParts DEF Takes, TypeOK
<1> HIDE DEF s, t
<1>5. s # <<>> /\ Head(s) = Cell(1)
  <2>1. 1 \in 1 .. Size /\ Len(s) # 0 /\ Len(<<>>) = 0
    BY <1>1, <1>3
  <2>2. s # <<>>
    BY <2>1
  <2>3. Head(s) = s[1]
    BY <1>1, <2>2
  <2> QED  BY <1>1, <2>1, <2>2, <2>3
<1>6. t = Tail(s)
  <2>1. /\ Tail(s) \in Seq(S) /\ Len(Tail(s)) = Size - 1
        /\ \A k \in 1 .. Size - 1 : Tail(s)[k] = s[k + 1]
    BY <1>1, <1>5, HeadTailProperties
  <2>2. \A k \in 1 .. Size - 1 : t[k] = Tail(s)[k]
    <3> TAKE k \in 1 .. Size - 1
    <3>1. k \in 1 .. Size' /\ k \in 1 .. FILESIZE - 1 /\ k + 1 \in 1 .. Size
      BY <1>3, <1>4
    <3> QED  BY <1>1, <1>2, <1>4, <2>1, <3>1
  <2>3. Len(t) = Len(Tail(s)) /\ \A k \in 1 .. Len(t) : t[k] = Tail(s)[k]
    BY <1>2, <1>4, <2>1, <2>2
  <2> QED  BY <1>2, <2>1, <2>3, SeqEqual
<1> QED  BY <1>4, <1>5, <1>6 DEF Queue!Get, s, t

LEMMA PutsIsPut ==
  ASSUME PipeInv, PipeInv', NEW b \in Byte \cup {Eof}, Puts(b)
  PROVE  Queue!Put(b)
<1> DEFINE s == InRing
           t == InRing'
           S == Byte \cup {Eof}
<1>1. s \in Seq(S) /\ Len(s) = Size /\ \A k \in 1 .. Size : s[k] = Cell(k)
  BY RingShape
<1>2. t \in Seq(S) /\ Len(t) = Size' /\ \A k \in 1 .. Size' : t[k] = Cell(k)'
  BY RingShapeNext
<1>3. Size \in Nat /\ Size < FILESIZE - 1 /\ FILESIZE \in Nat /\ ~Marked
  BY BytesType DEF Puts
<1>4. /\ Size' = Size + 1
      /\ \A k \in 1 .. Size : Cell(k)' = Cell(k)
      /\ \A k \in 1 .. FILESIZE : k = Size + 1 => Cell(k)' = b
  BY <1>3, RingPut, InvParts DEF Puts, TypeOK
<1> HIDE DEF s, t
<1>5. Len(s) < FILESIZE - 1
  BY <1>1, <1>3
<1>6. ~(s # <<>> /\ s[Len(s)] = Eof)
  <2> SUFFICES ASSUME s # <<>>, s[Len(s)] = Eof PROVE FALSE
    OBVIOUS
  <2>1. Len(s) # 0
    BY <1>1
  <2>2. Size \in 1 .. Size
    BY <1>1, <1>3, <2>1
  <2>3. Cell(Size) = Eof
    BY <1>1, <2>2
  <2> QED  BY <1>3, <2>2, <2>3 DEF Marked
<1>7. t = Append(s, b)
  <2>1. /\ Append(s, b) \in Seq(S) /\ Len(Append(s, b)) = Size + 1
        /\ \A k \in 1 .. Size : Append(s, b)[k] = s[k]
        /\ Append(s, b)[Size + 1] = b
    BY <1>1, AppendProperties
  <2>2. \A k \in 1 .. Size + 1 : t[k] = Append(s, b)[k]
    <3> TAKE k \in 1 .. Size + 1
    <3>1. k \in 1 .. Size' /\ k \in 1 .. FILESIZE
      BY <1>3, <1>4
    <3>2. CASE k = Size + 1
      BY <1>2, <1>4, <2>1, <3>1, <3>2
    <3>3. CASE k # Size + 1
      <4>1. k \in 1 .. Size
        BY <1>3, <3>3
      <4> QED  BY <1>1, <1>2, <1>4, <2>1, <3>1, <4>1
    <3> QED  BY <3>2, <3>3
  <2>3. Len(t) = Len(Append(s, b)) /\ \A k \in 1 .. Len(t) : t[k] = Append(s, b)[k]
    BY <1>2, <1>4, <2>1, <2>2
  <2> QED  BY <1>2, <2>1, <2>3, SeqEqual
<1> QED  BY <1>5, <1>6, <1>7 DEF Queue!Put, Queue!Ended, s, t

LEMMA QueueStep ==
  ASSUME OneReader, PipeInv, [Next]_vars
  PROVE  [Queue!Next]_InRing
<1>1. PipeInv'
  BY NextInv
<1>2. CASE Quiet
  BY <1>2 DEF Quiet, InRing
<1>3. ASSUME NEW p \in Proc, Returns(p) \/ Takes(p) \/ Ends(p)
      PROVE  [Queue!Next]_InRing
  <2>1. CASE Returns(p) \/ Ends(p)
    BY <2>1 DEF Returns, Ends, InRing
  <2>2. CASE Takes(p)
    BY <1>1, <2>2, TakesIsGet DEF Queue!Next
  <2> QED  BY <1>3, <2>1, <2>2
<1>4. ASSUME NEW b \in Byte \cup {Eof}, Puts(b)
      PROVE  [Queue!Next]_InRing
  BY <1>1, <1>4, PutsIsPut DEF Queue!Next
<1> QED  BY <1>2, <1>3, <1>4, StepEffect

LEMMA QueueInit == Init => Queue!Init
<1> SUFFICES ASSUME Init PROVE Queue!Init
  OBVIOUS
<1>1. PipeInv
  BY InitInv
<1>2. Size = 0
  <2>1. in = 0 /\ out = 0 /\ 0 \in Index
    BY BoundAssumption DEF Init, Index
  <2> QED  BY <2>1, SizeIs
<1>3. InRing \in Seq(Byte \cup {Eof}) /\ Len(InRing) = 0
  BY <1>1, <1>2, RingShape
<1>4. InRing = <<>>
  BY <1>3
<1> QED  BY <1>4 DEF Queue!Init

(***************************************************************************)
(* The ring with its two semaphores, the count of its write descriptors    *)
(* and the marker of its last close is a bounded queue of bytes: it gives  *)
(* them out in the order they came in, never holds more than it has room   *)
(* for, and nobody writes behind its end or takes the end away.            *)
(***************************************************************************)
THEOREM PipeIsAByteQueue == OneReader => (Spec => ImplementsByteQueue)
<1> SUFFICES ASSUME OneReader PROVE Spec => ImplementsByteQueue
  OBVIOUS
<1>1. Init => Queue!Init
  BY QueueInit
<1>2. PipeInv /\ [Next]_vars => [Queue!Next]_InRing
  BY QueueStep
<1> QED  BY <1>1, <1>2, PipeInvariant, PTL DEF Spec, ImplementsByteQueue, Queue!Spec
=============================================================================
