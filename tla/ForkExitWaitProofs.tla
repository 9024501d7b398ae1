------------------------ MODULE ForkExitWaitProofs ------------------------
(***************************************************************************)
(* Theorems about ForkExitWait, for any number of slots, CPUs and pids,    *)
(* with or without failing copies and kill().                              *)
(*                                                                         *)
(* The inductive invariant IInv says, besides the types: which positions a *)
(* thread can be at in each state (LifeInv); which positions hold          *)
(* wait_lock and p->lock (LockInv); that the child a fork() is making      *)
(* belongs to that fork() alone (ForkInv); that parents are alive, and a   *)
(* process in exit() past reparent() has no children (FamilyInv); and what *)
(* a scan in wait() has established, which nothing can undo while          *)
(* wait_lock is held (WaitInv).                                            *)
(***************************************************************************)
EXTENDS ForkExitWait, TLAPS

USE ForkAssumption

Alive == {"SLEEPING", "RUNNABLE", "RUNNING"}

\* The positions past reparent().
Exiting == {"exit_init", "exit_wake", "exit_zombie", "exit_sched"}

\* The positions with wait_lock held.
Locked == {"scan", "sleep", "exit_init", "exit_wake", "exit_zombie"}

\* TypeOK without its last conjunct.
Types ==
  /\ state \in [Procs -> ProcState] /\ pid \in [Procs -> Nat]
  /\ parent \in [Procs -> Procs \cup {Nobody}] /\ chan \in [Procs -> Procs \cup {Nobody}]
  /\ killed \in [Procs -> BOOLEAN] /\ nextpid \in Nat
  /\ plock \in [Procs -> Procs \cup {Nobody}] /\ wlock \in Procs \cup {Nobody}
  /\ pc \in [Procs -> Kernel] /\ np \in [Procs -> Procs \cup {Nobody}]
  /\ pp \in [Procs -> 0 .. NPROC] /\ havekids \in [Procs -> BOOLEAN]
  /\ panicked \in BOOLEAN

\* The threads on CPUs.
Running == {p \in Procs : OnCpu(p)}

\* Where the thread of a process in each state can be.  (A USED slot has no
\* thread when forkprio() has panicked.)
LifeInv ==
  \A p \in Procs :
    /\ state[p] = "UNUSED" => pc[p] = "none" /\ parent[p] = Nobody
    /\ state[p] = "USED" => pc[p] \in {"user", "none"}
    /\ state[p] = "SLEEPING" => pc[p] \in {"sleep_sched", "asleep"} /\ chan[p] = p
    /\ state[p] = "ZOMBIE" => pc[p] \in {"exit_sched", "none"}
    /\ state[p] = "RUNNING" => pc[p] \notin {"none", "sleep_sched", "exit_sched", "asleep"}
    /\ state[p] = "RUNNABLE" => pc[p] \notin {"none", "sleep_sched", "exit_sched"} \cup Locked

\* A thread in sched() has its own p->lock, and one thread has wait_lock.
LockInv ==
  \A p \in Procs :
    /\ pc[p] \in {"sleep_sched", "exit_sched"} => plock[p] = p
    /\ wlock = p <=> pc[p] \in Locked

\* Between allocproc() and RUNNABLE a child is USED, has done nothing, and
\* belongs to one fork().
ForkInv ==
  \A p \in Procs :
    /\ pc[p] \in {"parent", "start"} =>
         np[p] \in Procs /\ state[np[p]] = "USED" /\ pc[np[p]] = "user"
    /\ pc[p] \notin {"parent", "start"} => np[p] = Nobody
    /\ pc[p] = "start" => parent[np[p]] = p
    /\ \A q \in Procs : np[p] = np[q] /\ np[p] # Nobody => p = q

\* init lives; every parent lives, a started process has one, and a process
\* past reparent() has no children.
FamilyInv ==
  /\ state[initproc] \in Alive /\ pc[initproc] \notin Exiting \cup {"exit"}
  /\ pid[initproc] = 1 /\ ~ killed[initproc]
  /\ \A q \in Procs : parent[q] # Nobody => state[parent[q]] \in Alive
  /\ \A q \in Procs \ {initproc} : state[q] \notin {"UNUSED", "USED"} => parent[q] # Nobody
  /\ \A p, q \in Procs : pc[p] \in Exiting => parent[q] # p

\* What wait() has seen in its scan is still so; a process about to become a
\* ZOMBIE has woken its parent; and a sleeper has a ZOMBIE child only when it
\* is init, which the process that gave it the child is about to wake.
WaitInv ==
  /\ \A p \in Procs : pc[p] # "scan" => pp[p] = 0
  /\ \A p, q \in Procs : pc[p] = "scan" /\ q < pp[p] /\ parent[q] = p =>
                          havekids[p] /\ state[q] # "ZOMBIE"
  /\ \A p, q \in Procs : pc[p] = "sleep" /\ parent[q] = p => state[q] # "ZOMBIE"
  /\ \A p \in Procs : pc[p] = "exit_zombie" => state[parent[p]] # "SLEEPING"
  /\ \A p, q \in Procs : state[p] = "SLEEPING" /\ parent[q] = p /\ state[q] = "ZOMBIE" =>
                          p = initproc /\ \E r \in Procs : pc[r] = "exit_init"

\* The inductive invariant.
IInv == TypeOK /\ LifeInv /\ LockInv /\ ForkInv /\ FamilyInv /\ WaitInv


-----------------------------------------------------------------------------
(* The invariant is inductive. *)

\* Slot 0 is a slot, and -1 is none.
LEMMA Slots == initproc \in Procs /\ Nobody \notin Procs
BY DEF initproc, Procs, Nobody

\* Every variable keeps its type.
LEMMA TypesStep == IInv /\ [Next]_vars => Types'
<1> SUFFICES ASSUME IInv, [Next]_vars
             PROVE  Types'
  OBVIOUS
<1>t. Types
  BY DEF IInv, TypeOK, Types
<1>l0. LifeInv
  BY DEF IInv
<1>f1. ForkInv
  BY DEF IInv
<1>1. ASSUME NEW p \in Procs, Dispatch(p)
      PROVE  Types'
  BY <1>1, <1>t, Slots DEF Dispatch, Go, locals, Types, Kernel, ProcState
<1>2. ASSUME NEW p \in Procs, Yield(p)
      PROVE  Types'
  BY <1>2, <1>t, Slots DEF Yield, locals, Types, Kernel, ProcState
<1>3. ASSUME NEW p \in Procs, Switched(p)
      PROVE  Types'
  BY <1>3, <1>t, Slots DEF Switched, Go, locals, Types, Kernel, ProcState
<1>4. ASSUME NEW p \in Procs, NEW call \in Calls, Syscall(p, call)
      PROVE  Types'
  BY <1>4, <1>t, Slots DEF Syscall, At, Go, Calls, locals, Types, Kernel, ProcState
<1>5. ASSUME NEW p \in Procs, Return(p)
      PROVE  Types'
  BY <1>5, <1>t, Slots DEF Return, At, Go, locals, Types, Kernel, ProcState
<1>6. ASSUME NEW p \in Procs, NEW q \in Procs, Alloc(p, q)
      PROVE  Types'
  BY <1>6, <1>t, Slots DEF Alloc, At, locals, Types, Kernel, ProcState
<1>7. ASSUME NEW p \in Procs, NEW q \in Procs,
             NEW call \in {"fork", "forkprio"}, CopyFails(p, q, call)
      PROVE  Types'
  <2>1. CASE call = "fork"
    <3>1. killed' \in [Procs -> BOOLEAN]
      BY ZenonT(60), <1>7, <1>t, <2>1 DEF CopyFails, Types
    <3>2. pc' \in [Procs -> Kernel]
      BY <1>7, <1>t, <2>1 DEF CopyFails, Go, Types, Kernel
    <3>3. nextpid' \in Nat
      BY <1>7, <1>t DEF CopyFails, Types
    <3> QED BY <1>7, <1>t, <2>1, <3>1, <3>2, <3>3 DEF CopyFails, locals, Types
  <2>2. CASE call # "fork"
    <3>1. /\ state' \in [Procs -> ProcState] /\ plock' \in [Procs -> Procs \cup {Nobody}]
          /\ pid' \in [Procs -> Nat] /\ nextpid' \in Nat /\ panicked' = TRUE
      BY <1>7, <1>t, <2>2 DEF CopyFails, Types, ProcState
    <3> QED BY <1>7, <1>t, <2>2, <3>1 DEF CopyFails, locals, Types
  <2> QED BY <2>1, <2>2
<1>8. ASSUME NEW p \in Procs, NoSlot(p)
      PROVE  Types'
  BY <1>8, <1>t, Slots DEF NoSlot, At, Go, locals, Types, Kernel, ProcState
<1>9. ASSUME NEW p \in Procs, SetParent(p)
      PROVE  Types'
  BY Zenon, <1>9, <1>t, Slots DEF SetParent, At, Go, locals, Types, Kernel, ProcState
<1>10. ASSUME NEW p \in Procs, Start(p)
      PROVE  Types'
  BY Zenon, <1>10, <1>t, Slots DEF Start, At, Go, locals, Types, Kernel, ProcState
<1>11. ASSUME NEW p \in Procs, WaitLock(p)
      PROVE  Types'
  BY <1>11, <1>t, Slots DEF WaitLock, At, Go, locals, Types, Kernel, ProcState
<1>12. ASSUME NEW p \in Procs, Scan(p)
      PROVE  Types'
  <2>1. pp[p] + 1 \in 0 .. NPROC
    BY <1>12, <1>t DEF Scan, Types
  <2> QED BY Zenon, <1>12, <1>t, <2>1 DEF Scan, Types
<1>13. ASSUME NEW p \in Procs, Reap(p)
      PROVE  Types'
  <2>1. pp[p] \in Procs
    BY SMTT(60), <1>13, <1>t DEF Reap, Types, Procs
  <2>2. /\ state' \in [Procs -> ProcState] /\ pc' \in [Procs -> Kernel]
        /\ pp' \in [Procs -> 0 .. NPROC] /\ havekids' \in [Procs -> BOOLEAN]
    BY <1>13, <1>t, <2>1 DEF Reap, Go, EndScan, Types, ProcState, Kernel
  <2> QED BY <1>13, <1>t, <2>1, <2>2 DEF Reap, Types
<1>14. ASSUME NEW p \in Procs, CopyoutFails(p)
      PROVE  Types'
  BY <1>14, <1>t, Slots DEF CopyoutFails, At, Go, EndScan, locals, Types, Kernel, ProcState
<1>15. ASSUME NEW p \in Procs, Check(p)
      PROVE  Types'
  BY <1>15, <1>t, Slots DEF Check, At, Go, EndScan, locals, Types, Kernel, ProcState
<1>16. ASSUME NEW p \in Procs, Sleep(p)
      PROVE  Types'
  BY <1>16, <1>t, Slots DEF Sleep, At, Go, locals, Types, Kernel, ProcState
<1>17. ASSUME NEW p \in Procs, Reparent(p)
      PROVE  Types'
  BY <1>17, <1>t, Slots DEF Reparent, At, Go, locals, Types, Kernel, ProcState
<1>18. ASSUME NEW p \in Procs, WakeInit(p)
      PROVE  Types'
  BY <1>18, <1>t, Slots DEF WakeInit, At, Go, wakeup, locals, Types, Kernel, ProcState
<1>19. ASSUME NEW p \in Procs, WakeParent(p)
      PROVE  Types'
  BY <1>19, <1>t, Slots DEF WakeParent, At, Go, wakeup, locals, Types, Kernel, ProcState
<1>20. ASSUME NEW p \in Procs, Zombie(p)
      PROVE  Types'
  BY <1>20, <1>t, Slots DEF Zombie, At, Go, locals, Types, Kernel, ProcState
<1>21. ASSUME NEW p \in Procs, NEW n \in Targets, NEW q \in Procs, Kill(p, n, q)
      PROVE  Types'
  BY <1>21, <1>t, Slots DEF Kill, At, Go, locals, Types, Kernel, ProcState
<1>22. ASSUME NEW p \in Procs, KillNone(p)
      PROVE  Types'
  BY <1>22, <1>t, Slots DEF KillNone, At, Go, locals, Types, Kernel, ProcState
<1>23. CASE UNCHANGED vars
  BY <1>23, <1>t, Slots DEF vars, locals, Types, Kernel, ProcState
<1> QED
  BY <1>1, <1>2, <1>3, <1>4, <1>5, <1>6, <1>7, <1>8, <1>9, <1>10, <1>11, <1>12, <1>13,
       <1>14, <1>15, <1>16, <1>17, <1>18, <1>19, <1>20, <1>21, <1>22, <1>23 DEF Next, KernelStep

\* Only a dispatch puts one more thread on a CPU.
LEMMA Leaves ==
  IInv /\ [Next]_vars => Running' \subseteq Running \/ \E p \in Procs : Dispatch(p)
<1> SUFFICES ASSUME IInv, [Next]_vars, ~ \E p \in Procs : Dispatch(p)
             PROVE  Running' \subseteq Running
  OBVIOUS
<1>t. Types
  BY DEF IInv, TypeOK, Types
<1>l0. LifeInv
  BY DEF IInv
<1>1. ASSUME NEW p \in Procs, Yield(p)
      PROVE  Running' \subseteq Running
  BY <1>1, <1>t DEF Yield, locals, Running, OnCpu, Types
<1>2. ASSUME NEW p \in Procs, Switched(p)
      PROVE  Running' \subseteq Running
  BY <1>2, <1>t DEF Switched, Go, locals, Running, OnCpu, Types
<1>3. ASSUME NEW p \in Procs, NEW call \in Calls, Syscall(p, call)
      PROVE  Running' \subseteq Running
  BY <1>3, <1>t DEF Syscall, At, Go, Calls, locals, Running, OnCpu, Types
<1>4. ASSUME NEW p \in Procs, Return(p)
      PROVE  Running' \subseteq Running
  BY <1>4, <1>t DEF Return, At, Go, locals, Running, OnCpu, Types
<1>5. ASSUME NEW p \in Procs, NEW q \in Procs, Alloc(p, q)
      PROVE  Running' \subseteq Running
  BY <1>5, <1>t DEF Alloc, At, locals, Running, OnCpu, Types
<1>6. ASSUME NEW p \in Procs, NEW q \in Procs,
             NEW call \in {"fork", "forkprio"}, CopyFails(p, q, call)
      PROVE  Running' \subseteq Running
  BY <1>6, <1>t DEF CopyFails, At, Go, locals, Running, OnCpu, Types
<1>7. ASSUME NEW p \in Procs, NoSlot(p)
      PROVE  Running' \subseteq Running
  BY <1>7, <1>t DEF NoSlot, At, Go, locals, Running, OnCpu, Types
<1>8. ASSUME NEW p \in Procs, SetParent(p)
      PROVE  Running' \subseteq Running
  BY <1>8, <1>t DEF SetParent, At, Go, locals, Running, OnCpu, Types
<1>9. ASSUME NEW p \in Procs, Start(p)
      PROVE  Running' \subseteq Running
  BY <1>9, <1>t DEF Start, At, Go, locals, Running, OnCpu, Types
<1>10. ASSUME NEW p \in Procs, WaitLock(p)
      PROVE  Running' \subseteq Running
  BY <1>10, <1>t DEF WaitLock, At, Go, locals, Running, OnCpu, Types
<1>11. ASSUME NEW p \in Procs, Scan(p)
      PROVE  Running' \subseteq Running
  BY <1>11, <1>t DEF Scan, At, locals, Running, OnCpu, Types
<1>12. ASSUME NEW p \in Procs, Reap(p)
      PROVE  Running' \subseteq Running
  BY <1>12, <1>t DEF Reap, At, Go, EndScan, locals, Running, OnCpu, Types
<1>13. ASSUME NEW p \in Procs, CopyoutFails(p)
      PROVE  Running' \subseteq Running
  BY <1>13, <1>t DEF CopyoutFails, At, Go, EndScan, locals, Running, OnCpu, Types
<1>14. ASSUME NEW p \in Procs, Check(p)
      PROVE  Running' \subseteq Running
  BY <1>14, <1>t DEF Check, At, Go, EndScan, locals, Running, OnCpu, Types
<1>15. ASSUME NEW p \in Procs, Sleep(p)
      PROVE  Running' \subseteq Running
  BY <1>15, <1>t DEF Sleep, At, Go, locals, Running, OnCpu, Types
<1>16. ASSUME NEW p \in Procs, Reparent(p)
      PROVE  Running' \subseteq Running
  BY <1>16, <1>t DEF Reparent, At, Go, locals, Running, OnCpu, Types
<1>17. ASSUME NEW p \in Procs, WakeInit(p)
      PROVE  Running' \subseteq Running
  BY <1>17, <1>t DEF WakeInit, At, Go, wakeup, locals, Running, OnCpu, Types
<1>18. ASSUME NEW p \in Procs, WakeParent(p)
      PROVE  Running' \subseteq Running
  BY <1>18, <1>t DEF WakeParent, At, Go, wakeup, locals, Running, OnCpu, Types
<1>19. ASSUME NEW p \in Procs, Zombie(p)
      PROVE  Running' \subseteq Running
  BY <1>19, <1>t DEF Zombie, At, Go, locals, Running, OnCpu, Types
<1>20. ASSUME NEW p \in Procs, NEW n \in Targets, NEW q \in Procs, Kill(p, n, q)
      PROVE  Running' \subseteq Running
  BY <1>20, <1>t DEF Kill, At, Go, locals, Running, OnCpu, Types
<1>21. ASSUME NEW p \in Procs, KillNone(p)
      PROVE  Running' \subseteq Running
  BY <1>21, <1>t DEF KillNone, At, Go, locals, Running, OnCpu, Types
<1>22. CASE UNCHANGED vars
  BY <1>22, <1>t DEF vars, locals, Running, OnCpu, Types
<1> QED
  BY <1>1, <1>2, <1>3, <1>4, <1>5, <1>6, <1>7, <1>8, <1>9, <1>10, <1>11, <1>12, <1>13,
       <1>14, <1>15, <1>16, <1>17, <1>18, <1>19, <1>20, <1>21, <1>22 DEF Next, KernelStep

\* What a thread does fits its state.
LEMMA LifeStep == IInv /\ [Next]_vars => LifeInv'
<1> SUFFICES ASSUME IInv, [Next]_vars
             PROVE  LifeInv'
  OBVIOUS
<1>t. Types
  BY DEF IInv, TypeOK, Types
<1>l0. LifeInv
  BY DEF IInv
<1>l1. LockInv
  BY DEF IInv
<1>f2. ForkInv
  BY DEF IInv
<1>1. ASSUME NEW p \in Procs, Dispatch(p)
      PROVE  LifeInv'
  BY <1>1, <1>t, Slots, <1>l0 DEF Dispatch, Go, locals, LifeInv, Locked, Types
<1>2. ASSUME NEW p \in Procs, Yield(p)
      PROVE  LifeInv'
  BY <1>2, <1>t, Slots, <1>l0, <1>l1 DEF Yield, locals, LifeInv, LockInv, Locked, Types
<1>3. ASSUME NEW p \in Procs, Switched(p)
      PROVE  LifeInv'
  BY <1>3, <1>t, Slots, <1>l0 DEF Switched, Go, locals, LifeInv, Locked, Types
<1>4. ASSUME NEW p \in Procs, NEW call \in Calls, Syscall(p, call)
      PROVE  LifeInv'
  BY <1>4, <1>t, Slots, <1>l0 DEF Syscall, At, Go, Calls, locals, LifeInv, Locked, Types
<1>5. ASSUME NEW p \in Procs, Return(p)
      PROVE  LifeInv'
  BY <1>5, <1>t, Slots, <1>l0 DEF Return, At, Go, locals, LifeInv, Locked, Types
<1>6. ASSUME NEW p \in Procs, NEW q \in Procs, Alloc(p, q)
      PROVE  LifeInv'
  BY <1>6, <1>t, Slots, <1>l0 DEF Alloc, At, locals, LifeInv, Locked, Types
<1>7. ASSUME NEW p \in Procs, NEW q \in Procs,
             NEW call \in {"fork", "forkprio"}, CopyFails(p, q, call)
      PROVE  LifeInv'
  BY <1>7, <1>t, Slots, <1>l0 DEF CopyFails, At, Go, locals, LifeInv, Locked, Types
<1>8. ASSUME NEW p \in Procs, NoSlot(p)
      PROVE  LifeInv'
  BY <1>8, <1>t, Slots, <1>l0 DEF NoSlot, At, Go, locals, LifeInv, Locked, Types
<1>9. ASSUME NEW p \in Procs, SetParent(p)
      PROVE  LifeInv'
  BY <1>9, <1>t, Slots, <1>l0, <1>f2
    DEF SetParent, At, Go, locals, LifeInv, ForkInv, Locked, Types
<1>10. ASSUME NEW p \in Procs, Start(p)
      PROVE  LifeInv'
  BY <1>10, <1>t, Slots, <1>l0, <1>f2 DEF Start, At, Go, locals, LifeInv, ForkInv, Locked, Types
<1>11. ASSUME NEW p \in Procs, WaitLock(p)
      PROVE  LifeInv'
  BY <1>11, <1>t, Slots, <1>l0 DEF WaitLock, At, Go, locals, LifeInv, Locked, Types
<1>12. ASSUME NEW p \in Procs, Scan(p)
      PROVE  LifeInv'
  BY <1>12, <1>t, Slots, <1>l0 DEF Scan, At, locals, LifeInv, Locked, Types
<1>13. ASSUME NEW p \in Procs, Reap(p)
      PROVE  LifeInv'
  BY <1>13, <1>t, Slots, <1>l0, <1>l1
    DEF Reap, At, Go, EndScan, locals, LifeInv, LockInv, Locked, Types
<1>14. ASSUME NEW p \in Procs, CopyoutFails(p)
      PROVE  LifeInv'
  BY <1>14, <1>t, Slots, <1>l0 DEF CopyoutFails, At, Go, EndScan, locals, LifeInv, Locked, Types
<1>15. ASSUME NEW p \in Procs, Check(p)
      PROVE  LifeInv'
  BY <1>15, <1>t, Slots, <1>l0 DEF Check, At, Go, EndScan, locals, LifeInv, Locked, Types
<1>16. ASSUME NEW p \in Procs, Sleep(p)
      PROVE  LifeInv'
  BY <1>16, <1>t, Slots, <1>l0 DEF Sleep, At, Go, locals, LifeInv, Locked, Types
<1>17. ASSUME NEW p \in Procs, Reparent(p)
      PROVE  LifeInv'
  BY <1>17, <1>t, Slots, <1>l0 DEF Reparent, At, Go, locals, LifeInv, Locked, Types
<1>18. ASSUME NEW p \in Procs, WakeInit(p)
      PROVE  LifeInv'
  BY <1>18, <1>t, Slots, <1>l0, <1>l1
    DEF WakeInit, At, Go, wakeup, locals, LifeInv, LockInv, Locked, Types
<1>19. ASSUME NEW p \in Procs, WakeParent(p)
      PROVE  LifeInv'
  BY <1>19, <1>t, Slots, <1>l0, <1>l1
    DEF WakeParent, At, Go, wakeup, locals, LifeInv, LockInv, Locked, Types
<1>20. ASSUME NEW p \in Procs, Zombie(p)
      PROVE  LifeInv'
  BY <1>20, <1>t, Slots, <1>l0 DEF Zombie, At, Go, locals, LifeInv, Locked, Types
<1>21. ASSUME NEW p \in Procs, NEW n \in Targets, NEW q \in Procs, Kill(p, n, q)
      PROVE  LifeInv'
  BY <1>21, <1>t, Slots, <1>l0, <1>l1 DEF Kill, At, Go, locals, LifeInv, LockInv, Locked, Types
<1>22. ASSUME NEW p \in Procs, KillNone(p)
      PROVE  LifeInv'
  BY <1>22, <1>t, Slots, <1>l0 DEF KillNone, At, Go, locals, LifeInv, Locked, Types
<1>23. CASE UNCHANGED vars
  BY <1>23, <1>t, Slots, <1>l0 DEF vars, locals, LifeInv, Locked, Types
<1> QED
  BY <1>1, <1>2, <1>3, <1>4, <1>5, <1>6, <1>7, <1>8, <1>9, <1>10, <1>11, <1>12, <1>13,
       <1>14, <1>15, <1>16, <1>17, <1>18, <1>19, <1>20, <1>21, <1>22, <1>23 DEF Next, KernelStep

\* Locks are taken and released at the right positions.
LEMMA LockStep == IInv /\ [Next]_vars => LockInv'
<1> SUFFICES ASSUME IInv, [Next]_vars
             PROVE  LockInv'
  OBVIOUS
<1>t. Types
  BY DEF IInv, TypeOK, Types
<1>l0. LifeInv
  BY DEF IInv
<1>l1. LockInv
  BY DEF IInv
<1>f2. ForkInv
  BY DEF IInv
<1>1. ASSUME NEW p \in Procs, Dispatch(p)
      PROVE  LockInv'
  BY <1>1, <1>t, Slots, <1>l1 DEF Dispatch, Go, locals, LockInv, Locked, Types
<1>2. ASSUME NEW p \in Procs, Yield(p)
      PROVE  LockInv'
  BY <1>2, <1>t, Slots, <1>l1 DEF Yield, locals, LockInv, Locked, Types
<1>3. ASSUME NEW p \in Procs, Switched(p)
      PROVE  LockInv'
  BY <1>3, <1>t, Slots, <1>l1 DEF Switched, Go, locals, LockInv, Locked, Types
<1>4. ASSUME NEW p \in Procs, NEW call \in Calls, Syscall(p, call)
      PROVE  LockInv'
  BY <1>4, <1>t, Slots, <1>l1 DEF Syscall, At, Go, Calls, locals, LockInv, Locked, Types
<1>5. ASSUME NEW p \in Procs, Return(p)
      PROVE  LockInv'
  BY <1>5, <1>t, Slots, <1>l1 DEF Return, At, Go, locals, LockInv, Locked, Types
<1>6. ASSUME NEW p \in Procs, NEW q \in Procs, Alloc(p, q)
      PROVE  LockInv'
  BY <1>6, <1>t, Slots, <1>l0, <1>l1 DEF Alloc, At, locals, LifeInv, LockInv, Locked, Types
<1>7. ASSUME NEW p \in Procs, NEW q \in Procs,
             NEW call \in {"fork", "forkprio"}, CopyFails(p, q, call)
      PROVE  LockInv'
  BY <1>7, <1>t, Slots, <1>l1 DEF CopyFails, At, Go, locals, LockInv, Locked, Types
<1>8. ASSUME NEW p \in Procs, NoSlot(p)
      PROVE  LockInv'
  BY <1>8, <1>t, Slots, <1>l1 DEF NoSlot, At, Go, locals, LockInv, Locked, Types
<1>9. ASSUME NEW p \in Procs, SetParent(p)
      PROVE  LockInv'
  BY <1>9, <1>t, Slots, <1>l1 DEF SetParent, At, Go, locals, LockInv, Locked, Types
<1>10. ASSUME NEW p \in Procs, Start(p)
      PROVE  LockInv'
  BY <1>10, <1>t, Slots, <1>l1 DEF Start, At, Go, locals, LockInv, Locked, Types
<1>11. ASSUME NEW p \in Procs, WaitLock(p)
      PROVE  LockInv'
  BY <1>11, <1>t, Slots, <1>l1 DEF WaitLock, At, Go, locals, LockInv, Locked, Types
<1>12. ASSUME NEW p \in Procs, Scan(p)
      PROVE  LockInv'
  BY <1>12, <1>t, Slots, <1>l1 DEF Scan, At, locals, LockInv, Locked, Types
<1>13. ASSUME NEW p \in Procs, Reap(p)
      PROVE  LockInv'
  BY <1>13, <1>t, Slots, <1>l1 DEF Reap, At, Go, EndScan, locals, LockInv, Locked, Types
<1>14. ASSUME NEW p \in Procs, CopyoutFails(p)
      PROVE  LockInv'
  BY <1>14, <1>t, Slots, <1>l1 DEF CopyoutFails, At, Go, EndScan, locals, LockInv, Locked, Types
<1>15. ASSUME NEW p \in Procs, Check(p)
      PROVE  LockInv'
  BY <1>15, <1>t, Slots, <1>l1 DEF Check, At, Go, EndScan, locals, LockInv, Locked, Types
<1>16. ASSUME NEW p \in Procs, Sleep(p)
      PROVE  LockInv'
  BY <1>16, <1>t, Slots, <1>l1 DEF Sleep, At, Go, locals, LockInv, Locked, Types
<1>17. ASSUME NEW p \in Procs, Reparent(p)
      PROVE  LockInv'
  BY <1>17, <1>t, Slots, <1>l1 DEF Reparent, At, Go, locals, LockInv, Locked, Types
<1>18. ASSUME NEW p \in Procs, WakeInit(p)
      PROVE  LockInv'
  BY <1>18, <1>t, Slots, <1>l1 DEF WakeInit, At, Go, wakeup, locals, LockInv, Locked, Types
<1>19. ASSUME NEW p \in Procs, WakeParent(p)
      PROVE  LockInv'
  BY <1>19, <1>t, Slots, <1>l1 DEF WakeParent, At, Go, wakeup, locals, LockInv, Locked, Types
<1>20. ASSUME NEW p \in Procs, Zombie(p)
      PROVE  LockInv'
  BY <1>20, <1>t, Slots, <1>l1 DEF Zombie, At, Go, locals, LockInv, Locked, Types
<1>21. ASSUME NEW p \in Procs, NEW n \in Targets, NEW q \in Procs, Kill(p, n, q)
      PROVE  LockInv'
  BY <1>21, <1>t, Slots, <1>l1 DEF Kill, At, Go, locals, LockInv, Locked, Types
<1>22. ASSUME NEW p \in Procs, KillNone(p)
      PROVE  LockInv'
  BY <1>22, <1>t, Slots, <1>l1 DEF KillNone, At, Go, locals, LockInv, Locked, Types
<1>23. CASE UNCHANGED vars
  BY <1>23, <1>t, Slots, <1>l1 DEF vars, locals, LockInv, Locked, Types
<1> QED
  BY <1>1, <1>2, <1>3, <1>4, <1>5, <1>6, <1>7, <1>8, <1>9, <1>10, <1>11, <1>12, <1>13,
       <1>14, <1>15, <1>16, <1>17, <1>18, <1>19, <1>20, <1>21, <1>22, <1>23 DEF Next, KernelStep

\* Two fork()s never share a child.
LEMMA ForkStep == IInv /\ [Next]_vars => ForkInv'
<1> SUFFICES ASSUME IInv, [Next]_vars
             PROVE  ForkInv'
  OBVIOUS
<1>t. Types
  BY DEF IInv, TypeOK, Types
<1>l0. LifeInv
  BY DEF IInv
<1>f1. ForkInv
  BY DEF IInv
<1>1. ASSUME NEW p \in Procs, Dispatch(p)
      PROVE  ForkInv'
  BY <1>1, <1>t, Slots, <1>f1 DEF Dispatch, Go, locals, ForkInv, Types
<1>2. ASSUME NEW p \in Procs, Yield(p)
      PROVE  ForkInv'
  BY <1>2, <1>t, Slots, <1>f1 DEF Yield, locals, ForkInv, Types
<1>3. ASSUME NEW p \in Procs, Switched(p)
      PROVE  ForkInv'
  BY <1>3, <1>t, Slots, <1>f1 DEF Switched, Go, locals, ForkInv, Types
<1>4. ASSUME NEW p \in Procs, NEW call \in Calls, Syscall(p, call)
      PROVE  ForkInv'
  BY <1>4, <1>t, Slots, <1>f1 DEF Syscall, At, Go, Calls, locals, ForkInv, Types
<1>5. ASSUME NEW p \in Procs, Return(p)
      PROVE  ForkInv'
  BY <1>5, <1>t, Slots, <1>f1 DEF Return, At, Go, locals, ForkInv, Types
<1>6. ASSUME NEW p \in Procs, NEW q \in Procs, Alloc(p, q)
      PROVE  ForkInv'
  BY <1>6, <1>t, Slots, <1>l0, <1>f1 DEF Alloc, At, locals, LifeInv, ForkInv, Types
<1>7. ASSUME NEW p \in Procs, NEW q \in Procs,
             NEW call \in {"fork", "forkprio"}, CopyFails(p, q, call)
      PROVE  ForkInv'
  BY <1>7, <1>t, Slots, <1>f1 DEF CopyFails, At, Go, locals, ForkInv, Types
<1>8. ASSUME NEW p \in Procs, NoSlot(p)
      PROVE  ForkInv'
  BY <1>8, <1>t, Slots, <1>f1 DEF NoSlot, At, Go, locals, ForkInv, Types
<1>9. ASSUME NEW p \in Procs, SetParent(p)
      PROVE  ForkInv'
  BY <1>9, <1>t, Slots, <1>f1 DEF SetParent, At, Go, locals, ForkInv, Types
<1>10. ASSUME NEW p \in Procs, Start(p)
      PROVE  ForkInv'
  BY <1>10, <1>t, Slots, <1>f1 DEF Start, At, Go, locals, ForkInv, Types
<1>11. ASSUME NEW p \in Procs, WaitLock(p)
      PROVE  ForkInv'
  BY <1>11, <1>t, Slots, <1>f1 DEF WaitLock, At, Go, locals, ForkInv, Types
<1>12. ASSUME NEW p \in Procs, Scan(p)
      PROVE  ForkInv'
  BY <1>12, <1>t, Slots, <1>f1 DEF Scan, At, locals, ForkInv, Types
<1>13. ASSUME NEW p \in Procs, Reap(p)
      PROVE  ForkInv'
  BY SMTT(60), <1>13, <1>t, Slots, <1>f1 DEF Reap, At, Go, EndScan, locals, ForkInv, Types
<1>14. ASSUME NEW p \in Procs, CopyoutFails(p)
      PROVE  ForkInv'
  BY <1>14, <1>t, Slots, <1>f1 DEF CopyoutFails, At, Go, EndScan, locals, ForkInv, Types
<1>15. ASSUME NEW p \in Procs, Check(p)
      PROVE  ForkInv'
  BY <1>15, <1>t, Slots, <1>f1 DEF Check, At, Go, EndScan, locals, ForkInv, Types
<1>16. ASSUME NEW p \in Procs, Sleep(p)
      PROVE  ForkInv'
  BY <1>16, <1>t, Slots, <1>f1 DEF Sleep, At, Go, locals, ForkInv, Types
<1>17. ASSUME NEW p \in Procs, Reparent(p)
      PROVE  ForkInv'
  BY <1>17, <1>t, Slots, <1>f1 DEF Reparent, At, Go, locals, ForkInv, Types
<1>18. ASSUME NEW p \in Procs, WakeInit(p)
      PROVE  ForkInv'
  BY <1>18, <1>t, Slots, <1>f1 DEF WakeInit, At, Go, wakeup, locals, ForkInv, Types
<1>19. ASSUME NEW p \in Procs, WakeParent(p)
      PROVE  ForkInv'
  BY <1>19, <1>t, Slots, <1>f1 DEF WakeParent, At, Go, wakeup, locals, ForkInv, Types
<1>20. ASSUME NEW p \in Procs, Zombie(p)
      PROVE  ForkInv'
  BY <1>20, <1>t, Slots, <1>f1 DEF Zombie, At, Go, locals, ForkInv, Types
<1>21. ASSUME NEW p \in Procs, NEW n \in Targets, NEW q \in Procs, Kill(p, n, q)
      PROVE  ForkInv'
  BY <1>21, <1>t, Slots, <1>f1 DEF Kill, At, Go, locals, ForkInv, Types
<1>22. ASSUME NEW p \in Procs, KillNone(p)
      PROVE  ForkInv'
  BY <1>22, <1>t, Slots, <1>f1 DEF KillNone, At, Go, locals, ForkInv, Types
<1>23. CASE UNCHANGED vars
  BY <1>23, <1>t, Slots, <1>f1 DEF vars, locals, ForkInv, Types
<1> QED
  BY <1>1, <1>2, <1>3, <1>4, <1>5, <1>6, <1>7, <1>8, <1>9, <1>10, <1>11, <1>12, <1>13,
       <1>14, <1>15, <1>16, <1>17, <1>18, <1>19, <1>20, <1>21, <1>22, <1>23 DEF Next, KernelStep

\* Parents live, and init with them.
LEMMA FamilyStep == IInv /\ [Next]_vars => FamilyInv'
<1> SUFFICES ASSUME IInv, [Next]_vars
             PROVE  FamilyInv'
  OBVIOUS
<1>t. Types
  BY DEF IInv, TypeOK, Types
<1>l0. LifeInv
  BY DEF IInv
<1>l1. LockInv
  BY DEF IInv
<1>f2. ForkInv
  BY DEF IInv
<1>f3. FamilyInv
  BY DEF IInv
<1>1. ASSUME NEW p \in Procs, Dispatch(p)
      PROVE  FamilyInv'
  BY <1>1, <1>t, Slots, <1>f3 DEF Dispatch, Go, locals, FamilyInv, Alive, Exiting, Locked, Types
<1>2. ASSUME NEW p \in Procs, Yield(p)
      PROVE  FamilyInv'
  BY <1>2, <1>t, Slots, <1>f3 DEF Yield, locals, FamilyInv, Alive, Exiting, Locked, Types
<1>3. ASSUME NEW p \in Procs, Switched(p)
      PROVE  FamilyInv'
  BY <1>3, <1>t, Slots, <1>f3 DEF Switched, Go, locals, FamilyInv, Alive, Exiting, Locked, Types
<1>4. ASSUME NEW p \in Procs, NEW call \in Calls, Syscall(p, call)
      PROVE  FamilyInv'
  BY <1>4, <1>t, Slots, <1>f3
    DEF Syscall, At, Go, Calls, locals, FamilyInv, Alive, Exiting, Locked, Types
<1>5. ASSUME NEW p \in Procs, Return(p)
      PROVE  FamilyInv'
  BY <1>5, <1>t, Slots, <1>f3 DEF Return, At, Go, locals, FamilyInv, Alive, Exiting, Locked, Types
<1>6. ASSUME NEW p \in Procs, NEW q \in Procs, Alloc(p, q)
      PROVE  FamilyInv'
  BY <1>6, <1>t, Slots, <1>f3 DEF Alloc, At, locals, FamilyInv, Alive, Exiting, Locked, Types
<1>7. ASSUME NEW p \in Procs, NEW q \in Procs,
             NEW call \in {"fork", "forkprio"}, CopyFails(p, q, call)
      PROVE  FamilyInv'
  BY <1>7, <1>t, Slots, <1>l1, <1>f3
    DEF CopyFails, At, Go, locals, LockInv, FamilyInv, Alive, Exiting, Locked, Types
<1>8. ASSUME NEW p \in Procs, NoSlot(p)
      PROVE  FamilyInv'
  BY <1>8, <1>t, Slots, <1>f3 DEF NoSlot, At, Go, locals, FamilyInv, Alive, Exiting, Locked, Types
<1>9. ASSUME NEW p \in Procs, SetParent(p)
      PROVE  FamilyInv'
  BY <1>9, <1>t, Slots, <1>f3
    DEF SetParent, At, Go, locals, FamilyInv, Alive, Exiting, Locked, Types
<1>10. ASSUME NEW p \in Procs, Start(p)
      PROVE  FamilyInv'
  BY <1>10, <1>t, Slots, <1>f2, <1>f3
    DEF Start, At, Go, locals, ForkInv, FamilyInv, Alive, Exiting, Locked, Types
<1>11. ASSUME NEW p \in Procs, WaitLock(p)
      PROVE  FamilyInv'
  BY <1>11, <1>t, Slots, <1>f3
    DEF WaitLock, At, Go, locals, FamilyInv, Alive, Exiting, Locked, Types
<1>12. ASSUME NEW p \in Procs, Scan(p)
      PROVE  FamilyInv'
  BY <1>12, <1>t, Slots, <1>f3 DEF Scan, At, locals, FamilyInv, Alive, Exiting, Locked, Types
<1>13. ASSUME NEW p \in Procs, Reap(p)
      PROVE  FamilyInv'
  BY <1>13, <1>t, Slots, <1>f2, <1>f3
    DEF Reap, At, Go, EndScan, locals, ForkInv, FamilyInv, Alive, Exiting, Locked, Types
<1>14. ASSUME NEW p \in Procs, CopyoutFails(p)
      PROVE  FamilyInv'
  BY <1>14, <1>t, Slots, <1>f2, <1>f3
    DEF CopyoutFails, At, Go, EndScan, locals, ForkInv, FamilyInv, Alive, Exiting, Locked, Types
<1>15. ASSUME NEW p \in Procs, Check(p)
      PROVE  FamilyInv'
  BY <1>15, <1>t, Slots, <1>f3
    DEF Check, At, Go, EndScan, locals, FamilyInv, Alive, Exiting, Locked, Types
<1>16. ASSUME NEW p \in Procs, Sleep(p)
      PROVE  FamilyInv'
  BY <1>16, <1>t, Slots, <1>f3 DEF Sleep, At, Go, locals, FamilyInv, Alive, Exiting, Locked, Types
<1>17. ASSUME NEW p \in Procs, Reparent(p)
      PROVE  FamilyInv'
  BY <1>17, <1>t, Slots, <1>f2, <1>f3
    DEF Reparent, At, Go, locals, ForkInv, FamilyInv, Alive, Exiting, Locked, Types
<1>18. ASSUME NEW p \in Procs, WakeInit(p)
      PROVE  FamilyInv'
  BY <1>18, <1>t, Slots, <1>l1, <1>f3
    DEF WakeInit, At, Go, wakeup, locals, LockInv, FamilyInv, Alive, Exiting, Locked, Types
<1>19. ASSUME NEW p \in Procs, WakeParent(p)
      PROVE  FamilyInv'
  BY <1>19, <1>t, Slots, <1>l0, <1>l1, <1>f2, <1>f3
    DEF WakeParent, At, Go, wakeup, locals, LifeInv, LockInv, ForkInv, FamilyInv, Alive, Exiting,
       Locked, Types
<1>20. ASSUME NEW p \in Procs, Zombie(p)
      PROVE  FamilyInv'
  BY <1>20, <1>t, Slots, <1>l1, <1>f3
    DEF Zombie, At, Go, locals, LockInv, FamilyInv, Alive, Exiting, Locked, Types
<1>21. ASSUME NEW p \in Procs, NEW n \in Targets, NEW q \in Procs, Kill(p, n, q)
      PROVE  FamilyInv'
  BY <1>21, <1>t, Slots, <1>l0, <1>l1, <1>f2, <1>f3
    DEF Kill, At, Go, locals, LifeInv, LockInv, ForkInv, FamilyInv, Alive, Exiting, Locked, Types
<1>22. ASSUME NEW p \in Procs, KillNone(p)
      PROVE  FamilyInv'
  BY <1>22, <1>t, Slots, <1>l0, <1>l1, <1>f2, <1>f3
    DEF KillNone, At, Go, locals, LifeInv, LockInv, ForkInv, FamilyInv, Alive, Exiting, Locked,
       Types
<1>23. CASE UNCHANGED vars
  BY <1>23, <1>t, Slots, <1>l0, <1>l1, <1>f3
    DEF vars, locals, LifeInv, LockInv, FamilyInv, Alive, Exiting, Locked, Types
<1> QED
  BY <1>1, <1>2, <1>3, <1>4, <1>5, <1>6, <1>7, <1>8, <1>9, <1>10, <1>11, <1>12, <1>13,
       <1>14, <1>15, <1>16, <1>17, <1>18, <1>19, <1>20, <1>21, <1>22, <1>23 DEF Next, KernelStep

\* wait_lock keeps what a scan has seen, and no wakeup is lost.
LEMMA WaitStep == IInv /\ [Next]_vars => WaitInv'
<1> SUFFICES ASSUME IInv, [Next]_vars
             PROVE  WaitInv'
  OBVIOUS
<1>t. Types
  BY DEF IInv, TypeOK, Types
<1>l0. LifeInv
  BY DEF IInv
<1>l1. LockInv
  BY DEF IInv
<1>f2. ForkInv
  BY DEF IInv
<1>f3. FamilyInv
  BY DEF IInv
<1>w4. WaitInv
  BY DEF IInv
<1>1. ASSUME NEW p \in Procs, Dispatch(p)
      PROVE  WaitInv'
  BY <1>1, <1>t, Slots, <1>l0, <1>l1, <1>f2, <1>w4
    DEF Dispatch, Go, locals, LifeInv, LockInv, ForkInv, WaitInv, Alive, Exiting, Locked, Types
<1>2. ASSUME NEW p \in Procs, Yield(p)
      PROVE  WaitInv'
  BY <1>2, <1>t, Slots, <1>l0, <1>l1, <1>f2, <1>w4
    DEF Yield, locals, LifeInv, LockInv, ForkInv, WaitInv, Alive, Exiting, Locked, Types
<1>3. ASSUME NEW p \in Procs, Switched(p)
      PROVE  WaitInv'
  BY <1>3, <1>t, Slots, <1>l0, <1>l1, <1>f2, <1>w4
    DEF Switched, Go, locals, LifeInv, LockInv, ForkInv, WaitInv, Alive, Exiting, Locked, Types
<1>4. ASSUME NEW p \in Procs, NEW call \in Calls, Syscall(p, call)
      PROVE  WaitInv'
  BY <1>4, <1>t, Slots, <1>l0, <1>l1, <1>f2, <1>w4
    DEF Syscall, At, Go, Calls, locals, LifeInv, LockInv, ForkInv, WaitInv, Alive, Exiting,
       Locked, Types
<1>5. ASSUME NEW p \in Procs, Return(p)
      PROVE  WaitInv'
  BY <1>5, <1>t, Slots, <1>l0, <1>l1, <1>f2, <1>w4
    DEF Return, At, Go, locals, LifeInv, LockInv, ForkInv, WaitInv, Alive, Exiting, Locked, Types
<1>6. ASSUME NEW p \in Procs, NEW q \in Procs, Alloc(p, q)
      PROVE  WaitInv'
  BY SMTT(60), <1>6, <1>t, Slots, <1>l0, <1>l1, <1>f2, <1>w4
    DEF Alloc, At, locals, LifeInv, LockInv, ForkInv, WaitInv, Alive, Exiting, Locked, Types
<1>7. ASSUME NEW p \in Procs, NEW q \in Procs,
             NEW call \in {"fork", "forkprio"}, CopyFails(p, q, call)
      PROVE  WaitInv'
  BY <1>7, <1>t, Slots, <1>l0, <1>l1, <1>f2, <1>f3, <1>w4
    DEF CopyFails, At, Go, locals, LifeInv, LockInv, ForkInv, FamilyInv, WaitInv, Alive, Exiting,
       Locked, Types
<1>8. ASSUME NEW p \in Procs, NoSlot(p)
      PROVE  WaitInv'
  BY <1>8, <1>t, Slots, <1>l0, <1>l1, <1>f2, <1>w4
    DEF NoSlot, At, Go, locals, LifeInv, LockInv, ForkInv, WaitInv, Alive, Exiting, Locked, Types
<1>9. ASSUME NEW p \in Procs, SetParent(p)
      PROVE  WaitInv'
  BY <1>9, <1>t, Slots, <1>l0, <1>l1, <1>f2, <1>w4
    DEF SetParent, At, Go, locals, LifeInv, LockInv, ForkInv, WaitInv, Alive, Exiting, Locked,
       Types
<1>10. ASSUME NEW p \in Procs, Start(p)
      PROVE  WaitInv'
  BY <1>10, <1>t, Slots, <1>l0, <1>l1, <1>f2, <1>w4
    DEF Start, At, Go, locals, LifeInv, LockInv, ForkInv, WaitInv, Alive, Exiting, Locked, Types
<1>11. ASSUME NEW p \in Procs, WaitLock(p)
      PROVE  WaitInv'
  BY SMTT(60), <1>11, <1>t, Slots, <1>l0, <1>l1, <1>f2, <1>w4
    DEF WaitLock, At, Go, locals, LifeInv, LockInv, ForkInv, WaitInv, Alive, Exiting, Locked,
       Types, Procs
<1>12. ASSUME NEW p \in Procs, Scan(p)
      PROVE  WaitInv'
  <2>1. /\ pc[p] = "scan" /\ UNCHANGED <<state, parent, pc>>
        /\ \A q \in Procs : pp'[q] = IF q = p THEN pp[q] + 1 ELSE pp[q]
        /\ \A q \in Procs : havekids'[q] = havekids[q] \/ (q = p /\ havekids'[q])
        /\ \A q \in Procs : q = pp[p] /\ parent[q] = p => havekids'[p] /\ state[q] # "ZOMBIE"
    BY <1>12, <1>t DEF Scan, At, Types
  <2>2. ASSUME NEW q \in Procs, NEW r \in Procs, pc[q] = "scan", r < pp'[q], parent[r] = q
        PROVE  havekids'[q] /\ state[r] # "ZOMBIE"
    <3>1. r < pp[q] \/ (q = p /\ r = pp[p])
      <4>1. r \in Int /\ pp[q] \in Int
        BY <1>t DEF Procs, Types
      <4>2. pp'[q] = IF q = p THEN pp[q] + 1 ELSE pp[q]
        BY <2>1
      <4> QED BY <2>2, <4>1, <4>2
    <3> QED BY <1>w4, <2>1, <2>2, <3>1 DEF WaitInv
  <2>3. \A q \in Procs : pc'[q] # "scan" => pp'[q] = 0
    BY <1>w4, <2>1 DEF WaitInv
  <2>4. \A q, r \in Procs : pc'[q] = "scan" /\ r < pp'[q] /\ parent'[r] = q =>
                             havekids'[q] /\ state'[r] # "ZOMBIE"
    BY <2>1, <2>2
  <2>5. /\ \A q, r \in Procs : pc'[q] = "sleep" /\ parent'[r] = q => state'[r] # "ZOMBIE"
        /\ \A q \in Procs : pc'[q] = "exit_zombie" => state'[parent'[q]] # "SLEEPING"
        /\ \A q, r \in Procs : state'[q] = "SLEEPING" /\ parent'[r] = q /\ state'[r] = "ZOMBIE" =>
                                q = initproc /\ \E z \in Procs : pc'[z] = "exit_init"
    BY ZenonT(60), <1>w4, <2>1 DEF WaitInv
  <2> QED BY Zenon, <2>3, <2>4, <2>5 DEF WaitInv
<1>13. ASSUME NEW p \in Procs, Reap(p)
      PROVE  WaitInv'
  BY <1>13, <1>t, Slots, <1>l0, <1>l1, <1>f2, <1>w4
    DEF Reap, At, Go, EndScan, locals, LifeInv, LockInv, ForkInv, WaitInv, Alive, Exiting,
       Locked, Types
<1>14. ASSUME NEW p \in Procs, CopyoutFails(p)
      PROVE  WaitInv'
  BY <1>14, <1>t, Slots, <1>l0, <1>l1, <1>f2, <1>w4
    DEF CopyoutFails, At, Go, EndScan, locals, LifeInv, LockInv, ForkInv, WaitInv, Alive,
       Exiting, Locked, Types
<1>15. ASSUME NEW p \in Procs, Check(p)
      PROVE  WaitInv'
  <2>1. /\ pc[p] = "scan" /\ pp[p] = NPROC /\ UNCHANGED <<state, parent>>
        /\ pc'[p] \in {"ret", "sleep"} /\ pp'[p] = 0
        /\ \A q \in Procs \ {p} : pc'[q] = pc[q] /\ pp'[q] = pp[q] /\ havekids'[q] = havekids[q]
    BY <1>15, <1>t DEF Check, At, Go, EndScan, Types
  <2>2. \A q \in Procs : parent[q] = p => state[q] # "ZOMBIE"
    BY <1>w4, <2>1 DEF WaitInv, Procs
  <2> QED BY <1>w4, <2>1, <2>2 DEF WaitInv
<1>16. ASSUME NEW p \in Procs, Sleep(p)
      PROVE  WaitInv'
  BY <1>16, <1>t, Slots, <1>l0, <1>l1, <1>f2, <1>w4
    DEF Sleep, At, Go, locals, LifeInv, LockInv, ForkInv, WaitInv, Alive, Exiting, Locked, Types
<1>17. ASSUME NEW p \in Procs, Reparent(p)
      PROVE  WaitInv'
  BY <1>17, <1>t, Slots, <1>l0, <1>l1, <1>f2, <1>w4
    DEF Reparent, At, Go, locals, LifeInv, LockInv, ForkInv, WaitInv, Alive, Exiting, Locked,
       Types
<1>18. ASSUME NEW p \in Procs, WakeInit(p)
      PROVE  WaitInv'
  BY <1>18, <1>t, Slots, <1>l0, <1>l1, <1>f2, <1>w4
    DEF WakeInit, At, Go, wakeup, locals, LifeInv, LockInv, ForkInv, WaitInv, Alive, Exiting,
       Locked, Types
<1>19. ASSUME NEW p \in Procs, WakeParent(p)
      PROVE  WaitInv'
  BY SMTT(60), <1>19, <1>t, Slots, <1>l0, <1>l1, <1>f2, <1>f3, <1>w4
    DEF WakeParent, At, Go, wakeup, locals, LifeInv, LockInv, ForkInv, FamilyInv, WaitInv, Alive,
       Exiting, Locked, Types
<1>20. ASSUME NEW p \in Procs, Zombie(p)
      PROVE  WaitInv'
  BY <1>20, <1>t, Slots, <1>l0, <1>l1, <1>f2, <1>w4
    DEF Zombie, At, Go, locals, LifeInv, LockInv, ForkInv, WaitInv, Alive, Exiting, Locked, Types
<1>21. ASSUME NEW p \in Procs, NEW n \in Targets, NEW q \in Procs, Kill(p, n, q)
      PROVE  WaitInv'
  BY <1>21, <1>t, Slots, <1>l0, <1>l1, <1>f2, <1>w4
    DEF Kill, At, Go, locals, LifeInv, LockInv, ForkInv, WaitInv, Alive, Exiting, Locked, Types
<1>22. ASSUME NEW p \in Procs, KillNone(p)
      PROVE  WaitInv'
  BY <1>22, <1>t, Slots, <1>l0, <1>l1, <1>f2, <1>w4
    DEF KillNone, At, Go, locals, LifeInv, LockInv, ForkInv, WaitInv, Alive, Exiting, Locked,
       Types
<1>23. CASE UNCHANGED vars
  BY <1>23, <1>t, Slots, <1>l0, <1>l1, <1>f2, <1>w4
    DEF vars, locals, LifeInv, LockInv, ForkInv, WaitInv, Alive, Exiting, Locked, Types
<1> QED
  BY <1>1, <1>2, <1>3, <1>4, <1>5, <1>6, <1>7, <1>8, <1>9, <1>10, <1>11, <1>12, <1>13,
       <1>14, <1>15, <1>16, <1>17, <1>18, <1>19, <1>20, <1>21, <1>22, <1>23 DEF Next, KernelStep


-----------------------------------------------------------------------------
INSTANCE FiniteSetTheorems

LEMMA RunningFinite == IsFiniteSet(Running) /\ IsFiniteSet(Running')
<1>1. IsFiniteSet(Procs)
  <2>1. 0 \in Int /\ NPROC - 1 \in Int
    OBVIOUS
  <2> QED BY <2>1, FS_Interval DEF Procs
<1>2. Running \subseteq Procs /\ Running' \subseteq Procs
  BY DEF Running
<1> QED BY <1>1, <1>2, FS_Subset

\* The schedulers are NCPU, and each runs one thread at a time.
LEMMA CpuStep == IInv /\ [Next]_vars => Cardinality(Running') <= NCPU
<1> SUFFICES ASSUME IInv, [Next]_vars
             PROVE  Cardinality(Running') <= NCPU
  OBVIOUS
<1>1. Cardinality(Running) <= NCPU /\ Cardinality(Running) \in Nat
  BY RunningFinite, FS_CardinalityType DEF IInv, TypeOK, Running
<1>2. Cardinality(Running') \in Nat
  BY RunningFinite, FS_CardinalityType
<1>3. CASE Running' \subseteq Running
  <2>1. Cardinality(Running') <= Cardinality(Running)
    BY <1>3, RunningFinite, FS_Subset
  <2> QED BY <1>1, <1>2, <2>1
<1>4. ASSUME NEW p \in Procs, Dispatch(p)
      PROVE  Cardinality(Running') <= NCPU
  <2>1. Cardinality(Running) < NCPU
    BY <1>4 DEF Dispatch, Running
  <2>2. Running' \subseteq Running \cup {p}
    <3>1. state \in [Procs -> ProcState] /\ pc \in [Procs -> Kernel]
      BY DEF IInv, TypeOK
    <3>2. ASSUME NEW q \in Procs, q # p, OnCpu(q)' PROVE OnCpu(q)
      BY <1>4, <3>1, <3>2 DEF Dispatch, Go, OnCpu
    <3> QED BY <3>2 DEF Running
  <2>3. IsFiniteSet(Running \cup {p}) /\ Cardinality(Running \cup {p}) \in Nat
    BY RunningFinite, FS_AddElement, FS_CardinalityType
  <2>4. Cardinality(Running \cup {p}) <= Cardinality(Running) + 1
    <3>1. Cardinality(Running \cup {p})
            = IF p \in Running THEN Cardinality(Running) ELSE Cardinality(Running) + 1
      BY Zenon, RunningFinite, FS_AddElement
    <3> QED BY <1>1, <3>1
  <2>5. Cardinality(Running') <= Cardinality(Running \cup {p})
    BY <2>2, <2>3, FS_Subset
  <2> QED BY <1>1, <1>2, <2>1, <2>3, <2>4, <2>5
<1> QED BY <1>3, <1>4, Leaves

LEMMA InitIInv == Init => IInv
<1> SUFFICES ASSUME Init
             PROVE  IInv
  OBVIOUS
<1>1. Types
  <2>1. /\ state \in [Procs -> ProcState] /\ pc \in [Procs -> Kernel]
        /\ pid \in [Procs -> Nat] /\ nextpid \in Nat
    BY DEF Init, ProcState, Kernel
  <2>2. pp \in [Procs -> 0 .. NPROC]
    BY DEF Init
  <2> QED BY Zenon, <2>1, <2>2 DEF Init, Types
<1>2. Cardinality(Running) <= NCPU
  <2>1. Running = {}
    BY DEF Init, Running, OnCpu
  <2> QED BY <2>1, FS_EmptySet
<1>3. LifeInv /\ LockInv
  BY Slots DEF Init, LifeInv, LockInv, Locked
<1>4. ForkInv
  BY Slots DEF Init, ForkInv
<1>5. FamilyInv
  BY Slots DEF Init, FamilyInv, Alive, Exiting
<1>6. WaitInv
  BY Slots DEF Init, WaitInv
<1> QED BY <1>1, <1>2, <1>3, <1>4, <1>5, <1>6 DEF IInv, TypeOK, Types, Running

\* IInv holds of every reachable state.
THEOREM Inductive == Spec => []IInv
<1>1. IInv /\ [Next]_vars => IInv'
  <2> SUFFICES ASSUME IInv, [Next]_vars
               PROVE  IInv'
    OBVIOUS
  <2>1. TypeOK'
    BY TypesStep, CpuStep DEF TypeOK, Types, Running
  <2> QED BY <2>1, LifeStep, LockStep, ForkStep, FamilyStep, WaitStep DEF IInv
<1> QED BY <1>1, InitIInv, PTL DEF Spec

-----------------------------------------------------------------------------
(* The properties. *)

\* Every variable keeps its type, and there are never more threads on CPUs,
\* those that are still in sched() included, than CPUs: a dispatch needs a CPU
\* that runs no thread.
THEOREM TypeCorrect == Spec => []TypeOK
BY Inductive, PTL DEF IInv

\* Whenever wait_lock is free every started process but init has a parent that
\* has not exited, for any number of processes: exit() gives its children away
\* before it becomes a ZOMBIE, and fork() sets np->parent while it runs.
THEOREM Adoption == Spec => []OrphansAdopted
<1>1. IInv => OrphansAdopted
  <2> SUFFICES ASSUME IInv, NEW q \in Procs \ {initproc}, state[q] \notin {"UNUSED", "USED"}
               PROVE  parent[q] # Nobody /\ state[parent[q]] \notin {"UNUSED", "USED", "ZOMBIE"}
    BY DEF OrphansAdopted
  <2> QED BY DEF IInv, FamilyInv, Alive
<1> QED BY <1>1, Inductive, PTL

\* A scan of wait() that has seen no child has missed none, and when wait_lock
\* is free no process sleeps in wait() over a ZOMBIE child: the child woke it
\* under wait_lock, or the process that gave the child to init woke init.
THEOREM NoneMissed == Spec => []NoChildMissed
<1>1. IInv => NoChildMissed
  <2> SUFFICES ASSUME IInv
               PROVE  NoChildMissed
    OBVIOUS
  <2>1. ASSUME NEW p \in Procs, pc[p] = "scan", pp[p] = NPROC, ~ havekids[p],
               NEW q \in Procs
        PROVE  parent[q] # p
    <3>1. q < NPROC
      BY DEF Procs
    <3> QED BY <2>1, <3>1 DEF IInv, WaitInv
  <2>2. ASSUME wlock = Nobody, NEW p \in Procs, NEW q \in Procs,
               state[p] = "SLEEPING", parent[q] = p
        PROVE  state[q] # "ZOMBIE"
    <3>1. \A r \in Procs : pc[r] # "exit_init"
      BY <2>2, Slots DEF IInv, LockInv, Locked
    <3> QED BY <2>2, <3>1 DEF IInv, WaitInv
  <2> QED BY <2>1, <2>2 DEF NoChildMissed
<1> QED BY <1>1, Inductive, PTL

\* wait() frees a process only when its thread has left its kernel stack: the
\* child keeps p->lock through sched(), and wait() takes it.
THEOREM OffCpu == Spec => FreedOffCpu
<1> DEFINE Freed == \A q \in Procs : state[q] # "UNUSED" /\ state'[q] = "UNUSED" => pc[q] = "none"
<1>1. IInv /\ [Next]_vars => [Freed]_vars
  <2> SUFFICES ASSUME IInv, [Next]_vars, NEW q \in Procs,
                      state[q] # "UNUSED", state'[q] = "UNUSED"
               PROVE  pc[q] = "none"
    OBVIOUS
  <2>1. Types
    BY DEF IInv, TypeOK, Types
  <2>2. PICK p \in Procs : Reap(p) /\ pp[p] = q
    <3>1. ASSUME NEW p \in Procs,
                 \/ Switched(p) \/ Return(p) \/ NoSlot(p) \/ SetParent(p) \/ WaitLock(p)
                 \/ Scan(p) \/ CopyoutFails(p) \/ Check(p) \/ Reparent(p) \/ KillNone(p)
                 \/ \E call \in Calls : Syscall(p, call)
          PROVE  FALSE
      BY Zenon, <3>1 DEF Switched, Return, NoSlot, SetParent, WaitLock, Scan, CopyoutFails, Check,
                  Reparent, KillNone, Syscall
    <3>2. ASSUME NEW p \in Procs, Dispatch(p) \/ Yield(p) \/ Start(p) \/ Sleep(p) \/ Zombie(p)
          PROVE  FALSE
      BY <2>1, <3>2 DEF Dispatch, Yield, Start, Sleep, Zombie, Types
    <3>3. ASSUME NEW p \in Procs, NEW r \in Procs, Alloc(p, r)
          PROVE  FALSE
      BY <2>1, <3>3 DEF Alloc, Types
    <3>4. ASSUME NEW p \in Procs, NEW r \in Procs, NEW call \in {"fork", "forkprio"},
                 CopyFails(p, r, call)
          PROVE  FALSE
      BY <2>1, <3>4 DEF CopyFails, Types
    <3>5. ASSUME NEW p \in Procs, WakeInit(p) \/ WakeParent(p)
          PROVE  FALSE
      BY <2>1, <3>5 DEF WakeInit, WakeParent, wakeup, Types
    <3>6. ASSUME NEW p \in Procs, NEW n \in Targets, NEW r \in Procs, Kill(p, n, r)
          PROVE  FALSE
      BY <2>1, <3>6 DEF Kill, Types
    <3>7. ASSUME NEW p \in Procs, Reap(p)
          PROVE  pp[p] = q
      BY <2>1, <3>7 DEF Reap, Types
    <3>8. ~ UNCHANGED vars
      BY DEF vars
    <3> QED BY Zenon, <3>1, <3>2, <3>3, <3>4, <3>5, <3>6, <3>7, <3>8 DEF Next, KernelStep
  <2>3. state[q] = "ZOMBIE" /\ plock[q] = Nobody
    BY <2>2 DEF Reap
  <2> QED BY <2>1, <2>3, Slots DEF IInv, LifeInv, LockInv
<1> QED BY <1>1, Inductive, PTL DEF Spec, FreedOffCpu

=============================================================================
