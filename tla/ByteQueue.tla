------------------------------ MODULE ByteQueue ------------------------------
(***************************************************************************)
(* What a pipe promises its readers and writers: a bounded queue of bytes, *)
(* first in first out, whose end, once it is in the queue, comes last and  *)
(* stays there.                                                            *)
(***************************************************************************)
EXTENDS Naturals, Sequences

CONSTANTS
  Byte,       \* what programs write
  Eof,        \* the end of the pipe
  Capacity

VARIABLE bytes

Ended == bytes # <<>> /\ bytes[Len(bytes)] = Eof

Init == bytes = <<>>

Put(b) ==
  /\ Len(bytes) < Capacity
  /\ ~Ended
  /\ bytes' = Append(bytes, b)

Get ==
  /\ bytes # <<>>
  /\ Head(bytes) # Eof
  /\ bytes' = Tail(bytes)

Next == Get \/ \E b \in Byte \cup {Eof} : Put(b)

Spec == Init /\ [][Next]_bytes
=============================================================================
