----------------------------- MODULE ByteQueue -----------------------------
(***************************************************************************)
(* What a pipe promises: a bounded queue of bytes with two ends that can   *)
(* be closed.  Bytes come out in the order they went in, none is lost,     *)
(* duplicated or invented, and none goes in once either end is closed.     *)
(***************************************************************************)
EXTENDS Naturals, Sequences

CONSTANTS Byte, Size

VARIABLES queue, ropen, wopen

Init == queue = <<>> /\ ropen = TRUE /\ wopen = TRUE

Put(b) ==
  /\ ropen /\ wopen
  /\ Len(queue) < Size
  /\ queue' = Append(queue, b)
  /\ UNCHANGED <<ropen, wopen>>

Get ==
  /\ ropen
  /\ queue # <<>>
  /\ queue' = Tail(queue)
  /\ UNCHANGED <<ropen, wopen>>

CloseRead == ropen /\ ropen' = FALSE /\ UNCHANGED <<queue, wopen>>

CloseWrite == wopen /\ wopen' = FALSE /\ UNCHANGED <<queue, ropen>>

Next == (\E b \in Byte : Put(b)) \/ Get \/ CloseRead \/ CloseWrite

Spec == Init /\ [][Next]_<<queue, ropen, wopen>>
=============================================================================
