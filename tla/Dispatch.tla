------------------------------ MODULE Dispatch ------------------------------
(***************************************************************************)
(* What any xv6 scheduler promises the rest of the kernel, whatever policy *)
(* picks the next process.  A process is in one of the six states of enum  *)
(* procstate (kernel/proc.h); on[c] is the process whose kernel stack CPU  *)
(* c is executing on, or NoProc while c is in its scheduler loop.  A       *)
(* process is RUNNING exactly from the moment a CPU switches to it until   *)
(* that CPU has left its stack: only then may it be picked again or freed. *)
(* scheduler_stride and scheduler_loteria are both shown to implement it.  *)
(***************************************************************************)
EXTENDS Integers

CONSTANTS
  Slots,      \* the indexes of proc[NPROC]
  Cpus,       \* the CPUs started by make CPUS=n
  NoProc      \* c->proc == 0

VARIABLES state, on

vars == <<state, on>>

ProcState == {"UNUSED", "USED", "SLEEPING", "RUNNABLE", "RUNNING", "ZOMBIE"}

\* The first process made by userinit() is the only one, and no CPU runs it yet.
Init == /\ \E p \in Slots :
             state = [q \in Slots |-> IF q = p THEN "RUNNABLE" ELSE "UNUSED"]
        /\ on = [c \in Cpus |-> NoProc]

\* A CPU in its scheduler switches to a RUNNABLE process.
Pick(c, p) == /\ on[c] = NoProc
              /\ state[p] = "RUNNABLE"
              /\ on' = [on EXCEPT ![c] = p]
              /\ state' = [state EXCEPT ![p] = "RUNNING"]

\* The CPU is back in its scheduler; the process yielded, slept or exited.
Leave(c, s) == /\ on[c] # NoProc
               /\ state[on[c]] = "RUNNING"
               /\ on' = [on EXCEPT ![c] = NoProc]
               /\ state' = [state EXCEPT ![on[c]] = s]

\* Steps that involve no context switch: allocation, start, wakeup and reaping.
Change(p, from, to) == /\ state[p] = from
                       /\ state' = [state EXCEPT ![p] = to]
                       /\ UNCHANGED on

Next == \/ \E c \in Cpus, p \in Slots : Pick(c, p)
        \/ \E c \in Cpus, s \in {"RUNNABLE", "SLEEPING", "ZOMBIE"} : Leave(c, s)
        \/ \E p \in Slots : \/ Change(p, "UNUSED", "USED")
                            \/ Change(p, "USED", "RUNNABLE")
                            \/ Change(p, "SLEEPING", "RUNNABLE")
                            \/ Change(p, "ZOMBIE", "UNUSED")

Spec == Init /\ [][Next]_vars
=============================================================================
