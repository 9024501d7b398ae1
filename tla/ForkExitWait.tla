---------------------------- MODULE ForkExitWait ----------------------------
(***************************************************************************)
(* The life of processes in kernel/proc.c: fork(), forkprio(), exit(),     *)
(* wait(), kill(), and the sleep() and wakeup() they use, on NCPU CPUs,    *)
(* with wait_lock and every p->lock.                                       *)
(*                                                                         *)
(* Each process is a kernel thread; pc[p] is the next thing it does.  A    *)
(* step runs from one acquire() to the next: it waits for the lock it      *)
(* needs, and only locks that stay held after it appear in wlock and       *)
(* plock.  Choosing a process is left open, as in Dispatch.                *)
(***************************************************************************)
EXTENDS Integers, FiniteSets

CONSTANTS
  NPROC,
  NCPU,
  MemFail,    \* the calls, "fork" or "forkprio", whose uvmcopy() may fail
  Targets,    \* the arguments given to kill()
  MaxPid      \* bound: pids handed out

\* Nobody kills init, which would make it call exit(), and exit() panic.
ASSUME ForkAssumption ==
  /\ NPROC \in Nat \ {0} /\ NCPU \in Nat /\ MaxPid \in Nat
  /\ 1 \notin Targets

Procs == 0 .. NPROC - 1
Nobody == -1
initproc == 0

VARIABLES
  state,      \* p->state
  pid,        \* p->pid
  parent,     \* p->parent
  chan,       \* p->chan: the process whose address it is, or Nobody
  killed,     \* p->killed
  nextpid,
  plock,      \* the process that holds p->lock
  wlock,      \* the process that holds wait_lock
  pc,         \* what the kernel thread of p does next
  np,         \* local of fork()
  pp,         \* local of wait(): the loop's slot
  havekids,   \* local of wait()
  panicked    \* the kernel has called panic()

vars == <<state, pid, parent, chan, killed, nextpid, plock, wlock, pc, np, pp,
          havekids, panicked>>
locals == <<np, pp, havekids>>

Kernel == {"user", "ret", "fork", "parent", "start", "wait", "scan", "sleep",
           "sleep_sched", "asleep", "exit", "exit_init", "exit_wake",
           "exit_zombie", "exit_sched", "kill", "none"}

\* userinit() has made initproc.
Init ==
  /\ state = [p \in Procs |-> IF p = initproc THEN "RUNNABLE" ELSE "UNUSED"]
  /\ pid = [p \in Procs |-> IF p = initproc THEN 1 ELSE 0]
  /\ parent = [p \in Procs |-> Nobody]
  /\ chan = [p \in Procs |-> Nobody]
  /\ killed = [p \in Procs |-> FALSE]
  /\ nextpid = 2
  /\ plock = [p \in Procs |-> Nobody]
  /\ wlock = Nobody
  /\ pc = [p \in Procs |-> IF p = initproc THEN "user" ELSE "none"]
  /\ np = [p \in Procs |-> Nobody]
  /\ pp = [p \in Procs |-> 0]
  /\ havekids = [p \in Procs |-> FALSE]
  /\ panicked = FALSE

\* p's thread is on a CPU, in sched() included.
OnCpu(p) == state[p] = "RUNNING" \/ pc[p] \in {"sleep_sched", "exit_sched"}

\* The running thread p is at l.
At(p, l) == state[p] = "RUNNING" /\ pc[p] = l /\ ~ panicked

Go(p, l) == pc' = [pc EXCEPT ![p] = l]

-----------------------------------------------------------------------------
(* The scheduler, and the timer. *)

\* A scheduler takes p->lock, switches to p, and p releases the lock; a
\* process that slept clears p->chan first and then wants wait_lock again.
Dispatch(p) ==
  /\ ~ panicked
  /\ state[p] = "RUNNABLE" /\ plock[p] = Nobody
  /\ Cardinality({q \in Procs : OnCpu(q)}) < NCPU
  /\ state' = [state EXCEPT ![p] = "RUNNING"]
  /\ chan' = [chan EXCEPT ![p] = Nobody]
  /\ Go(p, IF pc[p] = "asleep" THEN "wait" ELSE pc[p])
  /\ UNCHANGED <<pid, parent, killed, nextpid, plock, wlock, locals, panicked>>

\* A timer interrupt, possible while p holds no spinlock.
Yield(p) ==
  /\ ~ panicked
  /\ state[p] = "RUNNING" /\ wlock # p /\ plock[p] = Nobody
  /\ state' = [state EXCEPT ![p] = "RUNNABLE"]
  /\ UNCHANGED <<pid, parent, chan, killed, nextpid, plock, wlock, pc, locals, panicked>>

\* The scheduler's side of sched(): it releases p->lock.
Switched(p) ==
  /\ ~ panicked
  /\ pc[p] \in {"sleep_sched", "exit_sched"}
  /\ plock' = [plock EXCEPT ![p] = Nobody]
  /\ Go(p, IF pc[p] = "sleep_sched" THEN "asleep" ELSE "none")
  /\ UNCHANGED <<state, pid, parent, chan, killed, nextpid, wlock, locals, panicked>>

-----------------------------------------------------------------------------
(* usertrap() *)

Calls == {"fork", "wait", "exit"} \cup {"kill" : n \in Targets}

\* A trap from user space: a killed process exits, otherwise a system call
\* starts.  init.c calls fork() and wait() only.
Syscall(p, call) ==
  /\ At(p, "user") /\ plock[p] = Nobody
  /\ p = initproc => call \in {"fork", "wait"}
  /\ Go(p, IF killed[p] THEN "exit" ELSE call)
  /\ UNCHANGED <<state, pid, parent, chan, killed, nextpid, plock, wlock, locals, panicked>>

\* The check before returning to user space.
Return(p) ==
  /\ At(p, "ret") /\ plock[p] = Nobody
  /\ Go(p, IF killed[p] THEN "exit" ELSE "user")
  /\ UNCHANGED <<state, pid, parent, chan, killed, nextpid, plock, wlock, locals, panicked>>

-----------------------------------------------------------------------------
(* fork() and forkprio() *)

\* allocproc() and the copy, all under np->lock.
Alloc(p, q) ==
  /\ At(p, "fork") /\ nextpid <= MaxPid
  /\ state[q] = "UNUSED" /\ plock[q] = Nobody
  /\ state' = [state EXCEPT ![q] = "USED"]
  /\ pid' = [pid EXCEPT ![q] = nextpid]
  /\ nextpid' = nextpid + 1
  /\ np' = [np EXCEPT ![p] = q]
  /\ pc' = [pc EXCEPT ![p] = "parent", ![q] = "user"]
  /\ UNCHANGED <<parent, chan, killed, plock, wlock, pp, havekids, panicked>>

\* uvmcopy() fails.  fork() frees np, whose lock it holds, and returns -1.
\* forkprio() calls acquire() on the lock it already holds.
CopyFails(p, q, call) ==
  /\ At(p, "fork") /\ nextpid <= MaxPid /\ call \in MemFail
  /\ p # initproc
  /\ state[q] = "UNUSED" /\ plock[q] = Nobody
  /\ nextpid' = nextpid + 1
  /\ IF call = "fork"
       THEN /\ killed' = [killed EXCEPT ![q] = FALSE]
            /\ Go(p, "ret")
            /\ UNCHANGED <<state, pid, plock, panicked>>
       ELSE /\ state' = [state EXCEPT ![q] = "USED"]
            /\ pid' = [pid EXCEPT ![q] = nextpid]
            /\ plock' = [plock EXCEPT ![q] = p]
            /\ panicked' = TRUE
            /\ UNCHANGED <<killed, pc>>
  /\ UNCHANGED <<parent, chan, wlock, locals>>

\* No UNUSED slot (or no pid left in the model): fork() returns -1.
NoSlot(p) ==
  /\ At(p, "fork")
  /\ nextpid > MaxPid \/ \A q \in Procs : state[q] # "UNUSED"
  /\ Go(p, "ret")
  /\ UNCHANGED <<state, pid, parent, chan, killed, nextpid, plock, wlock, locals, panicked>>

\* np->parent = p under wait_lock.
SetParent(p) ==
  /\ At(p, "parent") /\ wlock = Nobody
  /\ parent' = [parent EXCEPT ![np[p]] = p]
  /\ Go(p, "start")
  /\ UNCHANGED <<state, pid, chan, killed, nextpid, plock, wlock, locals, panicked>>

\* np->state = RUNNABLE under np->lock.
Start(p) ==
  /\ At(p, "start") /\ plock[np[p]] = Nobody
  /\ state' = [state EXCEPT ![np[p]] = "RUNNABLE"]
  /\ np' = [np EXCEPT ![p] = Nobody]
  /\ Go(p, "ret")
  /\ UNCHANGED <<pid, parent, chan, killed, nextpid, plock, wlock, pp, havekids, panicked>>

-----------------------------------------------------------------------------
(* wait() *)

\* wait() leaves its loop; the next one starts with fresh locals.
EndScan(p) == /\ pp' = [pp EXCEPT ![p] = 0]
              /\ havekids' = [havekids EXCEPT ![p] = FALSE]

WaitLock(p) ==
  /\ At(p, "wait") /\ wlock = Nobody
  /\ wlock' = p
  /\ Go(p, "scan")
  /\ UNCHANGED <<state, pid, parent, chan, killed, nextpid, plock, locals, panicked>>

\* Mutant: havekids is overwritten by every slot.
ScanForgets(p) ==
  LET q == pp[p] IN
  /\ At(p, "scan") /\ q < NPROC
  /\ parent[q] = p => plock[q] = Nobody /\ state[q] # "ZOMBIE"
  /\ havekids' = [havekids EXCEPT ![p] = parent[q] = p]
  /\ pp' = [pp EXCEPT ![p] = q + 1]
  /\ UNCHANGED <<state, pid, parent, chan, killed, nextpid, plock, wlock, pc, np, panicked>>

\* The loop's next slot is not a ZOMBIE child.
Scan(p) ==
  LET q == pp[p] IN
  /\ At(p, "scan") /\ q < NPROC
  /\ \/ parent[q] # p /\ UNCHANGED havekids
     \/ /\ parent[q] = p /\ plock[q] = Nobody /\ state[q] # "ZOMBIE"
        /\ havekids' = [havekids EXCEPT ![p] = TRUE]
  /\ pp' = [pp EXCEPT ![p] = q + 1]
  /\ UNCHANGED <<state, pid, parent, chan, killed, nextpid, plock, wlock, pc, np, panicked>>

\* Mutant: pp->state is read without pp->lock.
ReapUnlocked(p) ==
  LET q == pp[p] IN
  /\ At(p, "scan") /\ q < NPROC
  /\ parent[q] = p /\ state[q] = "ZOMBIE"
  /\ state' = [state EXCEPT ![q] = "UNUSED"]
  /\ pid' = [pid EXCEPT ![q] = 0]
  /\ parent' = [parent EXCEPT ![q] = Nobody]
  /\ chan' = [chan EXCEPT ![q] = Nobody]
  /\ killed' = [killed EXCEPT ![q] = FALSE]
  /\ wlock' = Nobody
  /\ Go(p, "ret") /\ EndScan(p)
  /\ UNCHANGED <<nextpid, plock, np, panicked>>

\* Mutant: the status is returned but the slot is not freed.
ReapKeeps(p) ==
  LET q == pp[p] IN
  /\ At(p, "scan") /\ q < NPROC
  /\ parent[q] = p /\ plock[q] = Nobody /\ state[q] = "ZOMBIE"
  /\ wlock' = Nobody
  /\ Go(p, "ret") /\ EndScan(p)
  /\ UNCHANGED <<state, pid, parent, chan, killed, nextpid, plock, np, panicked>>

\* A ZOMBIE child: freeproc(), drop both locks, return its pid.
Reap(p) ==
  LET q == pp[p] IN
  /\ At(p, "scan") /\ q < NPROC
  /\ parent[q] = p /\ plock[q] = Nobody /\ state[q] = "ZOMBIE"
  /\ state' = [state EXCEPT ![q] = "UNUSED"]
  /\ pid' = [pid EXCEPT ![q] = 0]
  /\ parent' = [parent EXCEPT ![q] = Nobody]
  /\ chan' = [chan EXCEPT ![q] = Nobody]
  /\ killed' = [killed EXCEPT ![q] = FALSE]
  /\ wlock' = Nobody
  /\ Go(p, "ret") /\ EndScan(p)
  /\ UNCHANGED <<nextpid, plock, np, panicked>>

\* A ZOMBIE child, but copyout() of its status fails: return -1, child kept.
\* init passes no address.
CopyoutFails(p) ==
  LET q == pp[p] IN
  /\ At(p, "scan") /\ q < NPROC /\ p # initproc
  /\ parent[q] = p /\ plock[q] = Nobody /\ state[q] = "ZOMBIE"
  /\ wlock' = Nobody
  /\ Go(p, "ret") /\ EndScan(p)
  /\ UNCHANGED <<state, pid, parent, chan, killed, nextpid, plock, np, panicked>>

\* The table is scanned: return -1 without children or when killed.
Check(p) ==
  /\ At(p, "scan") /\ pp[p] = NPROC /\ plock[p] = Nobody
  /\ IF ~ havekids[p] \/ killed[p]
       THEN wlock' = Nobody /\ Go(p, "ret")
       ELSE wlock' = wlock /\ Go(p, "sleep")
  /\ EndScan(p)
  /\ UNCHANGED <<state, pid, parent, chan, killed, nextpid, plock, np, panicked>>

\* sleep(p, &wait_lock): take p->lock, drop wait_lock, go to sleep.
Sleep(p) ==
  /\ At(p, "sleep") /\ plock[p] = Nobody
  /\ plock' = [plock EXCEPT ![p] = p]
  /\ wlock' = Nobody
  /\ chan' = [chan EXCEPT ![p] = p]
  /\ state' = [state EXCEPT ![p] = "SLEEPING"]
  /\ Go(p, "sleep_sched")
  /\ UNCHANGED <<pid, parent, killed, nextpid, locals, panicked>>

-----------------------------------------------------------------------------
(* exit() *)

\* wakeup(q) by p.  Only q ever sleeps on its own address, so the only slot
\* of wakeup()'s loop that can change is q itself.
wakeup(p, q) ==
  IF q \in Procs \ {p} /\ state[q] = "SLEEPING" /\ chan[q] = q
    THEN state' = [state EXCEPT ![q] = "RUNNABLE"]
    ELSE UNCHANGED state

\* Mutant: the children keep their parent.
ReparentNone(p) ==
  /\ At(p, "exit") /\ wlock = Nobody
  /\ wlock' = p
  /\ Go(p, "exit_wake")
  /\ UNCHANGED <<state, pid, parent, chan, killed, nextpid, plock, locals, panicked>>

\* Take wait_lock and give p's children to init.
Reparent(p) ==
  /\ At(p, "exit") /\ wlock = Nobody
  /\ wlock' = p
  /\ parent' = [q \in Procs |-> IF parent[q] = p THEN initproc ELSE parent[q]]
  /\ Go(p, IF \E q \in Procs : parent[q] = p THEN "exit_init" ELSE "exit_wake")
  /\ UNCHANGED <<state, pid, chan, killed, nextpid, plock, locals, panicked>>

\* reparent() wakes init, which may have inherited a ZOMBIE.
WakeInit(p) ==
  /\ At(p, "exit_init") /\ plock[initproc] = Nobody
  /\ wakeup(p, initproc)
  /\ Go(p, "exit_wake")
  /\ UNCHANGED <<pid, parent, chan, killed, nextpid, plock, wlock, locals, panicked>>

\* wakeup(p->parent)
WakeParent(p) ==
  /\ At(p, "exit_wake") /\ plock[parent[p]] = Nobody
  /\ wakeup(p, parent[p])
  /\ Go(p, "exit_zombie")
  /\ UNCHANGED <<pid, parent, chan, killed, nextpid, plock, wlock, locals, panicked>>

\* Under p->lock become a ZOMBIE, drop wait_lock, enter sched().
Zombie(p) ==
  /\ At(p, "exit_zombie") /\ plock[p] = Nobody
  /\ plock' = [plock EXCEPT ![p] = p]
  /\ state' = [state EXCEPT ![p] = "ZOMBIE"]
  /\ wlock' = Nobody
  /\ Go(p, "exit_sched")
  /\ UNCHANGED <<pid, parent, chan, killed, nextpid, locals, panicked>>

-----------------------------------------------------------------------------
(* kill() *)

\* The slot whose pid matches, under its lock.
Kill(p, n, q) ==
  /\ At(p, "kill") /\ plock[q] = Nobody /\ pid[q] = n
  /\ killed' = [killed EXCEPT ![q] = TRUE]
  /\ state' = [state EXCEPT ![q] = IF @ = "SLEEPING" THEN "RUNNABLE" ELSE @]
  /\ Go(p, "ret")
  /\ UNCHANGED <<pid, parent, chan, nextpid, plock, wlock, locals, panicked>>

\* No slot matched.  The loop's one look at each slot is one step.
KillNone(p) ==
  /\ At(p, "kill")
  /\ \E n \in Targets : \A q \in Procs : pid[q] # n
  /\ Go(p, "ret")
  /\ UNCHANGED <<state, pid, parent, chan, killed, nextpid, plock, wlock, locals, panicked>>

-----------------------------------------------------------------------------

\* The steps of p's thread inside the kernel, which never wait for user code.
KernelStep(p) ==
  \/ Return(p)
  \/ \E q \in Procs : Alloc(p, q) \/ \E call \in {"fork", "forkprio"} : CopyFails(p, q, call)
  \/ NoSlot(p) \/ SetParent(p) \/ Start(p)
  \/ WaitLock(p) \/ Scan(p) \/ Reap(p) \/ CopyoutFails(p) \/ Check(p) \/ Sleep(p)
  \/ Reparent(p) \/ WakeInit(p) \/ WakeParent(p) \/ Zombie(p)
  \/ \E n \in Targets, q \in Procs : Kill(p, n, q)
  \/ KillNone(p)
  \/ Switched(p)

Next == \E p \in Procs :
  \/ Dispatch(p) \/ Yield(p) \/ KernelStep(p)
  \/ \E call \in Calls : Syscall(p, call)

Spec == Init /\ [][Next]_vars

-----------------------------------------------------------------------------
(* Properties. *)

ProcState == {"UNUSED", "USED", "SLEEPING", "RUNNABLE", "RUNNING", "ZOMBIE"}

\* Every variable has its type, and no more threads are on CPUs than CPUs exist.
TypeOK ==
  /\ state \in [Procs -> ProcState]
  /\ pid \in [Procs -> Nat]
  /\ parent \in [Procs -> Procs \cup {Nobody}]
  /\ chan \in [Procs -> Procs \cup {Nobody}]
  /\ killed \in [Procs -> BOOLEAN]
  /\ nextpid \in Nat
  /\ plock \in [Procs -> Procs \cup {Nobody}]
  /\ wlock \in Procs \cup {Nobody}
  /\ pc \in [Procs -> Kernel]
  /\ np \in [Procs -> Procs \cup {Nobody}]
  /\ pp \in [Procs -> 0 .. NPROC]
  /\ havekids \in [Procs -> BOOLEAN]
  /\ panicked \in BOOLEAN
  /\ Cardinality({p \in Procs : OnCpu(p)}) <= NCPU

\* Whenever wait_lock is free, every process that has been started has a
\* parent that has not exited: exit() leaves no child behind, and no slot is
\* reused while a child still points to it.
OrphansAdopted ==
  wlock = Nobody =>
    \A q \in Procs \ {initproc} :
      state[q] \notin {"UNUSED", "USED"} =>
        /\ parent[q] # Nobody
        /\ state[parent[q]] \notin {"UNUSED", "USED", "ZOMBIE"}

\* wait() frees a process only after the CPU it exited on has left its kernel
\* stack.
FreedOffCpu ==
  [][\A q \in Procs : state[q] # "UNUSED" /\ state'[q] = "UNUSED" => pc[q] = "none"]_vars

\* wait() misses no child.  When it has seen none in its scan it really has
\* none, although processes fork, exit and are adopted while it scans; and
\* exit()'s wakeup() is not lost: whenever wait_lock is free, no process sleeps
\* in wait() while a child of its, its own or adopted, is a ZOMBIE.
NoChildMissed ==
  /\ \A p \in Procs : pc[p] = "scan" /\ pp[p] = NPROC /\ ~ havekids[p] =>
        \A q \in Procs : parent[q] # p
  /\ wlock = Nobody =>
        \A p, q \in Procs : state[p] = "SLEEPING" /\ parent[q] = p => state[q] # "ZOMBIE"

\* The processes other than init that have a CPU or want one.
Rivals == {p \in Procs \ {initproc} : state[p] = "RUNNABLE" \/ OnCpu(p)}

\* The scheduler starves init: from some moment init is RUNNABLE and never
\* chosen, and again and again there is another process it can choose instead.
InitStarved == <>[](state[initproc] = "RUNNABLE") /\ []<>(Rivals # {})

\* A ZOMBIE that is a child of init is reaped, orphans included, whatever the
\* other processes do and whoever the scheduler prefers, unless the scheduler
\* starves init (exit, reparent, wait).
InitReaps ==
  \/ \A q \in Procs \ {initproc} :
       state[q] = "ZOMBIE" /\ parent[q] = initproc ~> state[q] = "UNUSED"
  \/ InitStarved

\* proc.c: allocproc() returns with p->lock held, and forkprio() returns -1
\* when it cannot copy the parent: running out of memory does not panic.
NoPanic == ~ panicked
=============================================================================
