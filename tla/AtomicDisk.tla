----------------------------- MODULE AtomicDisk -----------------------------
(***************************************************************************)
(* What kernel/log.c promises the file system: operations see one another's *)
(* writes at once, and after a crash the disk holds the effects of whole   *)
(* operations only, never of a part of one.                                *)
(***************************************************************************)
EXTENDS Integers

CONSTANTS Blocks, Data, Zero

VARIABLES
  mem,        \* what the file system reads
  durable,    \* what it would find after a crash
  open        \* operations between begin_op() and end_op()

vars == <<mem, durable, open>>

Init == /\ mem = [b \in Blocks |-> Zero]
        /\ durable = mem
        /\ open = 0

BeginOp == open' = open + 1 /\ UNCHANGED <<mem, durable>>

Write(b, v) == /\ open > 0
               /\ mem' = [mem EXCEPT ![b] = v]
               /\ UNCHANGED <<durable, open>>

EndOp == open > 0 /\ open' = open - 1 /\ UNCHANGED <<mem, durable>>

\* Everything written so far becomes durable in one step, while no operation
\* is under way.
Commit == /\ open = 0
          /\ durable' = mem
          /\ UNCHANGED <<mem, open>>

Crash == /\ mem' = durable
         /\ open' = 0
         /\ UNCHANGED durable

Next == \/ BeginOp \/ EndOp \/ Commit \/ Crash
        \/ \E b \in Blocks, v \in Data : Write(b, v)

Spec == Init /\ [][Next]_vars
=============================================================================
