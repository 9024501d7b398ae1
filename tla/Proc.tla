-------------------------------- MODULE Proc --------------------------------
(***************************************************************************)
(* The process table of kernel/proc.c as a scheduler sees it: p->state and *)
(* p->pid under p->lock, the switch between a CPU's scheduler loop and a   *)
(* process, and what running processes and interrupts do to the table.     *)
(* The two schedulers extend this module with their own loop.              *)
(*                                                                         *)
(* A lock is owned by a CPU (lk->cpu).  A critical section that takes one  *)
(* p->lock and releases it again is one step, enabled when the lock is     *)
(* free; a lock that stays held between two steps is held in `lock'.       *)
(***************************************************************************)
EXTENDS Integers

CONSTANTS
  NPROC,      \* size of proc[] (64 in kernel/param.h)
  Cpus,       \* the CPUs that run scheduler()
  NoCpu,      \* lk->cpu of a free lock
  MaxPid      \* bound: pids handed out

Slots == 0 .. NPROC - 1
NoProc == -1

ASSUME TableAssumption ==
  /\ NPROC \in Nat \ {0}
  /\ NoCpu \notin Cpus
  /\ MaxPid \in Nat

VARIABLES
  state,      \* p->state
  pid,        \* p->pid
  lock,       \* the CPU that holds p->lock
  np,         \* the child of p's fork() that is not RUNNABLE yet
  nextpid,
  cproc,      \* c->proc
  pc          \* where CPU c is: "scan" in its scheduler, or on the stack of
              \* c->proc: "resume" (p->lock still held), "run", "sched"

tableVars == <<state, pid, lock, np, nextpid, cproc, pc>>

ProcState == {"UNUSED", "USED", "SLEEPING", "RUNNABLE", "RUNNING", "ZOMBIE"}

\* userinit() made proc[0]; every CPU is at the top of its scheduler loop.
TableInit ==
  /\ state = [p \in Slots |-> IF p = 0 THEN "RUNNABLE" ELSE "UNUSED"]
  /\ pid = [p \in Slots |-> IF p = 0 THEN 1 ELSE 0]
  /\ lock = [p \in Slots |-> NoCpu]
  /\ np = [p \in Slots |-> NoProc]
  /\ nextpid = 2
  /\ cproc = [c \in Cpus |-> NoProc]
  /\ pc = [c \in Cpus |-> "scan"]

TableType ==
  /\ state \in [Slots -> ProcState]
  /\ pid \in [Slots -> Nat]
  /\ lock \in [Slots -> Cpus \cup {NoCpu}]
  /\ np \in [Slots -> Slots \cup {NoProc}]
  /\ nextpid \in Nat
  /\ cproc \in [Cpus -> Slots \cup {NoProc}]
  /\ pc \in [Cpus -> {"scan", "resume", "run", "sched"}]

\* The p->locks CPU c holds.
Held(c) == {p \in Slots : lock[p] = c}

-----------------------------------------------------------------------------
(* The scheduler's side of the switch. *)

\* The scheduler, holding p->lock, switches to p.
swtch(c, p) ==
  /\ state' = [state EXCEPT ![p] = "RUNNING"]
  /\ cproc' = [cproc EXCEPT ![c] = p]
  /\ pc' = [pc EXCEPT ![c] = "resume"]
  /\ UNCHANGED <<pid, np, nextpid>>

\* swtch() returned to the scheduler, which drops the lock of p, the process
\* it had switched to.
swtched(c, p) ==
  /\ pc[c] = "sched"
  /\ cproc' = [cproc EXCEPT ![c] = NoProc]
  /\ lock' = [lock EXCEPT ![p] = NoCpu]
  /\ pc' = [pc EXCEPT ![c] = "scan"]
  /\ UNCHANGED <<state, pid, np, nextpid>>

-----------------------------------------------------------------------------
(* The process running on CPU c. *)

\* The end of yield() or sleep(), or the start of forkret(): release p->lock.
resume(c) ==
  /\ pc[c] = "resume"
  /\ lock' = [lock EXCEPT ![cproc[c]] = NoCpu]
  /\ pc' = [pc EXCEPT ![c] = "run"]
  /\ UNCHANGED <<state, pid, np, nextpid, cproc>>

\* Mutant: p->lock is released before swtch(), not held across it.
schedUnlocked(c, s) ==
  /\ lock[cproc[c]] = NoCpu
  /\ state' = [state EXCEPT ![cproc[c]] = s]
  /\ pc' = [pc EXCEPT ![c] = "sched"]
  /\ UNCHANGED <<lock, pid, np, nextpid, cproc>>

\* acquire(&p->lock), change p->state, call sched().
sched(c, s) ==
  /\ lock[cproc[c]] = NoCpu
  /\ lock' = [lock EXCEPT ![cproc[c]] = c]
  /\ state' = [state EXCEPT ![cproc[c]] = s]
  /\ pc' = [pc EXCEPT ![c] = "sched"]
  /\ UNCHANGED <<pid, np, nextpid, cproc>>

\* From a timer interrupt, in user code or in the kernel with interrupts on.
yield(c) == pc[c] = "run" /\ sched(c, "RUNNABLE")

\* fork() does not sleep between allocating the child and starting it.
sleep(c) == /\ pc[c] = "run" /\ np[cproc[c]] = NoProc
            /\ sched(c, "SLEEPING")

\* exit() panics for initproc, which is proc[0].
exit(c) == /\ pc[c] = "run" /\ cproc[c] # 0 /\ np[cproc[c]] = NoProc
           /\ sched(c, "ZOMBIE")

\* allocproc() and the copying in fork(): proc[q] was UNUSED, the copy
\* succeeded and np->lock is released again.  allocproc() takes the first
\* slot it finds UNUSED, but slots it has passed may become UNUSED meanwhile:
\* the model allows any of them.
allocproc(c, q) ==
  /\ pc[c] = "run" /\ np[cproc[c]] = NoProc
  /\ lock[q] = NoCpu /\ state[q] = "UNUSED" /\ nextpid <= MaxPid
  /\ state' = [state EXCEPT ![q] = "USED"]
  /\ pid' = [pid EXCEPT ![q] = nextpid]
  /\ nextpid' = nextpid + 1
  /\ np' = [np EXCEPT ![cproc[c]] = q]
  /\ UNCHANGED <<lock, cproc, pc>>

\* Memory ran out inside allocproc() or fork(): freeproc() gives the slot
\* back, the pid is gone.
allocfail(c, q) ==
  /\ pc[c] = "run" /\ np[cproc[c]] = NoProc
  /\ lock[q] = NoCpu /\ state[q] = "UNUSED" /\ nextpid <= MaxPid
  /\ nextpid' = nextpid + 1
  /\ UNCHANGED <<state, pid, lock, np, cproc, pc>>

\* The last step of fork() and forkprio(): np becomes RUNNABLE.
start(c) ==
  LET q == np[cproc[c]] IN
  /\ pc[c] = "run" /\ q # NoProc
  /\ lock[q] = NoCpu
  /\ state' = [state EXCEPT ![q] = "RUNNABLE"]
  /\ np' = [np EXCEPT ![cproc[c]] = NoProc]
  /\ UNCHANGED <<pid, lock, nextpid, cproc, pc>>

\* Mutant: wait() reads pp->state without taking pp->lock.
reapUnlocked(c, q) ==
  /\ pc[c] = "run" /\ np[cproc[c]] = NoProc
  /\ state[q] = "ZOMBIE"
  /\ state' = [state EXCEPT ![q] = "UNUSED"]
  /\ pid' = [pid EXCEPT ![q] = 0]
  /\ UNCHANGED <<lock, np, nextpid, cproc, pc>>

\* wait() frees a ZOMBIE child.
reap(c, q) ==
  /\ pc[c] = "run" /\ np[cproc[c]] = NoProc
  /\ lock[q] = NoCpu /\ state[q] = "ZOMBIE"
  /\ state' = [state EXCEPT ![q] = "UNUSED"]
  /\ pid' = [pid EXCEPT ![q] = 0]
  /\ UNCHANGED <<lock, np, nextpid, cproc, pc>>

\* One iteration of wakeup(), or kill(), that finds proc[q] asleep: called by
\* the running process, or by an interrupt handler, which a CPU enters only
\* while it holds no lock.
wakeup(c, q) ==
  /\ pc[c] \in {"run", "scan"} /\ Held(c) = {}
  /\ q # cproc[c]
  /\ lock[q] = NoCpu /\ state[q] = "SLEEPING"
  /\ state' = [state EXCEPT ![q] = "RUNNABLE"]
  /\ UNCHANGED <<pid, lock, np, nextpid, cproc, pc>>

\* The steps that no scheduler adds anything to.
ProcStep(c) ==
  \/ resume(c) \/ exit(c) \/ start(c)
  \/ \E q \in Slots : allocfail(c, q) \/ reap(c, q) \/ wakeup(c, q)

-----------------------------------------------------------------------------
(* What the table promises under either scheduler. *)

OnStack(c) == pc[c] \in {"resume", "run", "sched"}

\* Two CPUs never execute on the same process's kernel stack, not even while
\* one of them is between setting p->state in yield(), sleep() or exit() and
\* the scheduler's side of swtch().
NoSharedStack ==
  \A c, d \in Cpus : OnStack(c) /\ OnStack(d) /\ cproc[c] = cproc[d] => c = d

\* A process is RUNNING if and only if a CPU is running it: none is lost in
\* RUNNING with no CPU behind it (it would never be scheduled again), and
\* wakeup(), wait() or another CPU's scan never change a process being run.
RunningHasCpu ==
  \A p \in Slots : state[p] = "RUNNING" <=>
                     \E c \in Cpus : pc[c] \in {"resume", "run"} /\ cproc[c] = p

\* sched() finds what it checks for: the CPU holds p->lock and no other lock
\* (noff == 1), and p->state has been changed.
SchedDiscipline ==
  \A c \in Cpus : pc[c] = "sched" =>
     Held(c) = {cproc[c]} /\ state[cproc[c]] # "RUNNING"

\* A process counts as RUNNING until the CPU has left its stack.
visibleState ==
  [p \in Slots |-> IF \E c \in Cpus : pc[c] = "sched" /\ cproc[c] = p
                   THEN "RUNNING" ELSE state[p]]

D == INSTANCE Dispatch WITH state <- visibleState, on <- cproc

\* A scheduler, with the rest of proc.c, implements the abstract dispatcher:
\* a process is picked only when RUNNABLE and off every CPU, changes state
\* only along the edges Dispatch allows, and is freed only after the CPU it
\* exited on has left its stack.
Dispatches == D!Spec
=============================================================================
