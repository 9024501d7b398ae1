----------------------------- MODULE ByteQueue -----------------------------
(***************************************************************************)
(* What a pipe promises: a bounded first-in first-out queue of bytes with  *)
(* two ends, each of which is closed once.                                 *)
(***************************************************************************)
EXTENDS Integers, Sequences

CONSTANTS Byte, Capacity

VARIABLES
  queue,
  taken,          \* the byte read last
  ropen, wopen    \* the ends are open

vars == <<queue, taken, ropen, wopen>>

Init == queue = <<>> /\ taken \in Byte /\ ropen = TRUE /\ wopen = TRUE

Put(v) == /\ ropen /\ wopen /\ Len(queue) < Capacity
          /\ queue' = Append(queue, v)
          /\ UNCHANGED <<taken, ropen, wopen>>

Get == /\ ropen /\ queue # <<>>
       /\ queue' = Tail(queue)
       /\ taken' = Head(queue)
       /\ UNCHANGED <<ropen, wopen>>

CloseRead == ropen /\ ropen' = FALSE /\ UNCHANGED <<queue, taken, wopen>>
CloseWrite == wopen /\ wopen' = FALSE /\ UNCHANGED <<queue, taken, ropen>>

Next == Get \/ CloseRead \/ CloseWrite \/ \E v \in Byte : Put(v)

Spec == Init /\ [][Next]_vars
=============================================================================
