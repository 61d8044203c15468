----------------------------- MODULE ByteQueue ------------------------------
(* What a pipe promises: a bounded queue of bytes with two ends.  Bytes    *)
(* come out in the order they went in, each once; a byte is added only     *)
(* while the read end is open; an end that is closed stays closed.         *)
EXTENDS Naturals, Sequences

CONSTANTS Bytes, Capacity

VARIABLES queue, readers, writers

Init == queue = <<>> /\ readers = TRUE /\ writers = TRUE

Put(b) ==
  /\ readers /\ Len(queue) < Capacity
  /\ queue' = Append(queue, b)
  /\ UNCHANGED <<readers, writers>>

Get ==
  /\ queue # <<>>
  /\ queue' = Tail(queue)
  /\ UNCHANGED <<readers, writers>>

CloseRead == readers /\ readers' = FALSE /\ UNCHANGED <<queue, writers>>
CloseWrite == writers /\ writers' = FALSE /\ UNCHANGED <<queue, readers>>

Next == (\E b \in Bytes : Put(b)) \/ Get \/ CloseRead \/ CloseWrite

Spec == Init /\ [][Next]_<<queue, readers, writers>>
=============================================================================
