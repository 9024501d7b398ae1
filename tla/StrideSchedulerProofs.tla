------------------------ MODULE StrideSchedulerProofs ------------------------
(***************************************************************************)
(* Theorems about StrideScheduler, for any number of CPUs and of process   *)
(* slots, any priorities and any bounds.                                   *)
(***************************************************************************)
EXTENDS StrideScheduler, WellFoundedInduction, TLAPS

USE TableAssumption, StrideAssumption DEF NoProc

\* forkprio() divides 10000 by a positive number of tickets.
LEMMA StrideType ==
  ASSUME NEW prio
  PROVE  10000 \div tickets(prio) \in Nat
BY DEF tickets

LEMMA AddIntType ==
  ASSUME NEW x \in Int, NEW s \in Nat
  PROVE  AddInt(x, s) \in Int
BY DEF AddInt

-----------------------------------------------------------------------------
(* The inductive invariant. *)

\* Where the CPU is, what c->proc and min_pass_proc say, and which locks it
\* holds, go together; the process a CPU works on is in the matching state.
CpuInv ==
  \A c \in Cpus :
    /\ OnStack(c) => cproc[c] \in Slots /\ minp[c] = cproc[c]
    /\ pc[c] = "scan" => cproc[c] = NoProc /\ minp[c] < idx[c]
    /\ pc[c] = "scan" /\ minp[c] # NoProc => state[minp[c]] = "RUNNABLE"
    /\ pc[c] \in {"resume", "run"} => state[cproc[c]] = "RUNNING"
    /\ pc[c] = "sched" => state[cproc[c]] \in {"RUNNABLE", "SLEEPING", "ZOMBIE"}

\* A CPU holds p->lock exactly when p is its min_pass_proc and it is not
\* executing the process with the lock released.
LockInv ==
  \A p \in Slots, c \in Cpus : lock[p] = c <=> pc[c] # "run" /\ minp[c] = p

\* A child that fork() has not started yet is USED, and has one creator.
ForkInv ==
  /\ \A p \in Slots : np[p] # NoProc => state[np[p]] = "USED"
  /\ \A p, q \in Slots : np[p] = np[q] /\ np[p] # NoProc => p = q

RunInv ==
  \A p \in Slots : state[p] = "RUNNING" =>
     \E c \in Cpus : pc[c] \in {"resume", "run"} /\ cproc[c] = p

IInv == TypeOK /\ CpuInv /\ LockInv /\ ForkInv /\ NoSharedStack /\ RunInv

\* The part of the scan already done: a process that was RUNNABLE all along
\* does not beat the candidate, and is not on its way out of a CPU.
ScanInv ==
  \A c \in Cpus : pc[c] = "scan" =>
    \A q \in stable[c] :
      /\ state[q] = "RUNNABLE"
      /\ q < idx[c] => /\ minp[c] # NoProc
                       /\ q # minp[c] => ~ Better(q, minp[c])
                       /\ \A d \in Cpus : pc[d] = "sched" => cproc[d] # q

-----------------------------------------------------------------------------

LEMMA InitIInv == Init => IInv
BY DEF Init, TableInit, IInv, TypeOK, TableType, CpuInv, LockInv, ForkInv, NoSharedStack, RunInv,
       OnStack, Slots, ProcState

\* The history variable stays a set of slots that are RUNNABLE after the step.
LEMMA TrackType ==
  ASSUME NEW S, Track(S)
  PROVE  /\ stable' \in [Cpus -> SUBSET Slots]
         /\ \A c \in Cpus : \A q \in stable'[c] :
              /\ q \in Slots /\ state'[q] = "RUNNABLE"
              /\ c \notin S => q \in stable[c]
<1>1. Runnable' \subseteq Slots /\ \A q \in Runnable' : state'[q] = "RUNNABLE"
  BY DEF Runnable
<1> QED BY <1>1 DEF Track

\* What fork() and forkprio() do to the table and to the scans.
LEMMA AllocStep ==
  ASSUME NEW c \in Cpus, NEW q \in Slots,
         Fork(c, q) \/ \E prio \in Prios : Forkprio(c, q, prio)
  PROVE  allocproc(c, q) /\ UNCHANGED <<idx, minp>> /\ Track({})
BY DEF Fork, Forkprio, Quiet

LEMMA TypeStep == TypeOK /\ CpuInv /\ [Next]_vars => TypeOK'
<1> SUFFICES ASSUME TypeOK, CpuInv, [Next]_vars
             PROVE  TypeOK'
  OBVIOUS
<1> USE DEF TypeOK, TableType, ProcState, tableVars, Quiet
<1>1. ASSUME NEW c \in Cpus, Visit(c)
      PROVE  TypeOK'
  <2>1. visited(c) \in Slots
    BY <1>1 DEF Visit, visited, Slots
  <2>2. idx' \in [Cpus -> 0 .. NPROC]
    BY <1>1 DEF Visit
  <2>3. /\ lock' \in [Slots -> Cpus \cup {NoCpu}]
        /\ minp' \in [Cpus -> Slots \cup {NoProc}]
    BY <1>1, <2>1 DEF Visit
  <2> QED BY TrackType, <1>1, <2>2, <2>3 DEF Visit
<1>2. ASSUME NEW c \in Cpus, Rescan(c)
      PROVE  TypeOK'
  BY TrackType, <1>2 DEF Rescan
<1>3. ASSUME NEW c \in Cpus, Dispatch(c)
      PROVE  TypeOK'
  BY TrackType, <1>3 DEF Dispatch, swtch
<1>4. ASSUME NEW c \in Cpus, SwtchBack(c)
      PROVE  TypeOK'
  <2>1. minp[c] \in Slots
    BY <1>4 DEF SwtchBack, swtched, CpuInv, OnStack
  <2>2. AddInt(pass[minp[c]], stride[minp[c]]) \in Int
    BY <2>1, AddIntType
  <2> QED BY TrackType, <1>4, <2>1, <2>2 DEF SwtchBack, swtched
<1>5. ASSUME NEW c \in Cpus, resume(c), Quiet
      PROVE  TypeOK'
  BY Zenon, TrackType, <1>5 DEF resume
<1>6. ASSUME NEW c \in Cpus, Yield(c) \/ Sleep(c) \/ (exit(c) /\ Quiet)
      PROVE  TypeOK'
  <2>1. PICK s \in {"RUNNABLE", "SLEEPING", "ZOMBIE"} : Quiet /\ sched(c, s)
    BY <1>6 DEF Yield, Sleep, yield, sleep, exit
  <2> QED BY Zenon, TrackType, <2>1 DEF sched
<1>7. ASSUME NEW c \in Cpus, start(c), Quiet
      PROVE  TypeOK'
  BY Zenon, TrackType, <1>7 DEF start
<1>8. ASSUME NEW c \in Cpus, NEW q \in Slots,
             allocfail(c, q) \/ reap(c, q) \/ wakeup(c, q), Quiet
      PROVE  TypeOK'
  <2>1. state' \in [Slots -> ProcState] /\ pid' \in [Slots -> Nat] /\ nextpid' \in Nat
    BY <1>8 DEF allocfail, reap, wakeup
  <2>2. stable' \in [Cpus -> SUBSET Slots]
    BY <1>8, TrackType
  <2>3. UNCHANGED <<lock, np, cproc, pc, pass, stride, idx, minp>>
    BY <1>8 DEF allocfail, reap, wakeup
  <2> QED BY <2>1, <2>2, <2>3
<1>9. ASSUME NEW c \in Cpus, NEW q \in Slots, allocproc(c, q),
             \/ Fork(c, q)
             \/ \E prio \in Prios : Forkprio(c, q, prio),
             UNCHANGED <<idx, minp>>, Track({})
      PROVE  TypeOK'
  <2>1. /\ state' \in [Slots -> ProcState]
        /\ nextpid' \in Nat
    BY <1>9 DEF allocproc
  <2>2. pid' \in [Slots -> Nat]
    BY <1>9 DEF allocproc
  <2>3. np' \in [Slots -> Slots \cup {NoProc}]
    BY Zenon, <1>9 DEF allocproc
  <2>4. stride' \in [Slots -> Nat]
    BY <1>9, StrideType DEF Fork, Forkprio
  <2>5. pass' \in [Slots -> Int]
    BY <1>9 DEF Fork, Forkprio
  <2> QED BY TrackType, <1>9, <2>1, <2>2, <2>3, <2>4, <2>5 DEF allocproc
<1>10. CASE UNCHANGED vars
  BY <1>10 DEF vars
<1> HIDE DEF Quiet, TypeOK
<1>11. ASSUME NEW c \in Cpus, ProcStep(c), Quiet
       PROVE  TypeOK'
  BY <1>5, <1>6, <1>7, <1>8, <1>11 DEF ProcStep
<1>12. ASSUME NEW c \in Cpus, NEW q \in Slots,
              Fork(c, q) \/ \E prio \in Prios : Forkprio(c, q, prio)
       PROVE  TypeOK'
  BY AllocStep, <1>9, <1>12
<1> QED BY <1>1, <1>2, <1>3, <1>4, <1>6, <1>10, <1>11, <1>12 DEF Next

\* Every step of the model preserves the inductive invariant.
LEMMA IInvStep == IInv /\ [Next]_vars => IInv'
<1> SUFFICES ASSUME IInv, [Next]_vars
             PROVE  IInv'
  OBVIOUS
<1>0. TypeOK'
  BY TypeStep DEF IInv
<1>x. NoProc \notin Slots
  BY DEF Slots
<1>t. /\ state \in [Slots -> ProcState] /\ lock \in [Slots -> Cpus \cup {NoCpu}]
      /\ np \in [Slots -> Slots \cup {NoProc}] /\ cproc \in [Cpus -> Slots \cup {NoProc}]
      /\ pc \in [Cpus -> {"scan", "resume", "run", "sched"}]
      /\ idx \in [Cpus -> 0 .. NPROC] /\ minp \in [Cpus -> Slots \cup {NoProc}]
  BY DEF IInv, TypeOK, TableType
<1>c. CpuInv
  BY DEF IInv
<1>l. LockInv
  BY DEF IInv
<1>f. ForkInv
  BY DEF IInv
<1>n. NoSharedStack
  BY DEF IInv
<1>r. RunInv
  BY DEF IInv
<1> USE DEF OnStack, tableVars
<1>1. ASSUME NEW c \in Cpus, Visit(c)
      PROVE  IInv'
  <2>0. /\ visited(c) = idx[c] /\ idx[c] \in Slots /\ idx[c] \in Nat
        /\ minp[c] < idx[c] /\ NoProc < idx[c] /\ pc[c] = "scan"
        /\ idx' = [idx EXCEPT ![c] = idx[c] + 1]
    BY <1>1, <1>t, <1>c DEF Visit, visited, Slots, CpuInv
  <2>u. UNCHANGED <<state, np, cproc, pc>>
    BY <1>1 DEF Visit
  <2>m. \A d \in Cpus : pc[d] = "scan" => minp[d] < idx'[d]
    <3> TAKE d \in Cpus
    <3>1. minp[d] \in Int /\ idx[d] \in Int
      BY <1>t DEF Slots
    <3>2. idx'[d] = idx[d] \/ idx'[d] = idx[d] + 1
      BY <1>t, <2>0
    <3>3. pc[d] = "scan" => minp[d] < idx[d]
      BY <1>c DEF CpuInv
    <3> QED BY <3>1, <3>2, <3>3
  <2>1. CpuInv'
    <3>1. CASE state[idx[c]] = "RUNNABLE" /\ Better(idx[c], minp[c])
      <4>1. minp' = [minp EXCEPT ![c] = idx[c]]
        BY <1>1, <2>0, <3>1 DEF Visit
      <4>2. idx[c] < idx'[c]
        BY <1>t, <2>0
      <4> QED BY <1>t, <1>c, <2>0, <2>u, <2>m, <3>1, <4>1, <4>2 DEF CpuInv
    <3>2. CASE ~ (state[idx[c]] = "RUNNABLE" /\ Better(idx[c], minp[c]))
      <4>1. minp' = minp
        BY <1>1, <2>0, <3>2 DEF Visit
      <4> QED BY <1>c, <2>u, <2>m, <4>1 DEF CpuInv
    <3> QED BY <3>1, <3>2
  <2>2. LockInv'
    <3>1. CASE state[idx[c]] = "RUNNABLE" /\ Better(idx[c], minp[c])
      BY <1>1, <1>t, <1>x, <1>l, <2>0, <3>1 DEF Visit, LockInv
    <3>2. CASE ~ (state[idx[c]] = "RUNNABLE" /\ Better(idx[c], minp[c]))
      BY <1>1, <1>l, <2>0, <3>2 DEF Visit, LockInv
    <3> QED BY <3>1, <3>2
  <2>3. ForkInv'
    BY <1>f, <2>u DEF ForkInv
  <2>4. NoSharedStack'
    BY <1>n, <2>u DEF NoSharedStack
  <2>5. RunInv'
    BY <1>r, <2>u DEF RunInv
  <2> QED BY <1>0, <2>1, <2>2, <2>3, <2>4, <2>5 DEF IInv
<1>2. ASSUME NEW c \in Cpus, Rescan(c)
      PROVE  IInv'
  <2>1. CpuInv'
    BY <1>2, <1>t, <1>x, <1>c, <1>l
    DEF Rescan, CpuInv, LockInv
  <2>2. LockInv'
    BY <1>2, <1>t, <1>x, <1>c, <1>l
    DEF Rescan, CpuInv, LockInv
  <2>3. ForkInv'
    BY <1>2, <1>f
    DEF Rescan, ForkInv
  <2>4. NoSharedStack'
    BY <1>2, <1>n
    DEF Rescan, NoSharedStack
  <2>5. RunInv'
    BY <1>2, <1>r
    DEF Rescan, RunInv
  <2> QED BY <1>0, <2>1, <2>2, <2>3, <2>4, <2>5 DEF IInv
<1>3. ASSUME NEW c \in Cpus, Dispatch(c)
      PROVE  IInv'
  <2>1. CpuInv'
    BY <1>3, <1>t, <1>x, <1>c, <1>l
    DEF Dispatch, swtch, Quiet, CpuInv, LockInv
  <2>2. LockInv'
    BY <1>3, <1>t, <1>x, <1>c, <1>l
    DEF Dispatch, swtch, Quiet, CpuInv, LockInv
  <2>3. ForkInv'
    BY <1>3, <1>t, <1>x, <1>f, <1>c
    DEF Dispatch, swtch, Quiet, ForkInv, CpuInv
  <2>4. NoSharedStack'
    BY <1>3, <1>t, <1>x, <1>n, <1>c, <1>l
    DEF Dispatch, swtch, Quiet, NoSharedStack, CpuInv, LockInv
  <2>5. RunInv'
    BY <1>3, <1>t, <1>x, <1>r, <1>c, <1>n
    DEF Dispatch, swtch, Quiet, RunInv, CpuInv, NoSharedStack
  <2> QED BY <1>0, <2>1, <2>2, <2>3, <2>4, <2>5 DEF IInv
<1>4. ASSUME NEW c \in Cpus, SwtchBack(c)
      PROVE  IInv'
  <2>1. CpuInv'
    BY <1>4, <1>t, <1>x, <1>c, <1>l
    DEF SwtchBack, swtched, CpuInv, LockInv
  <2>2. LockInv'
    BY <1>4, <1>t, <1>x, <1>c, <1>l
    DEF SwtchBack, swtched, CpuInv, LockInv
  <2>3. ForkInv'
    BY <1>4, <1>t, <1>x, <1>f, <1>c
    DEF SwtchBack, swtched, ForkInv, CpuInv
  <2>4. NoSharedStack'
    BY <1>4, <1>t, <1>x, <1>n, <1>c, <1>l
    DEF SwtchBack, swtched, NoSharedStack, CpuInv, LockInv
  <2>5. RunInv'
    BY <1>4, <1>t, <1>x, <1>r, <1>c, <1>n
    DEF SwtchBack, swtched, RunInv, CpuInv, NoSharedStack
  <2> QED BY <1>0, <2>1, <2>2, <2>3, <2>4, <2>5 DEF IInv
<1>5. ASSUME NEW c \in Cpus, resume(c), Quiet
      PROVE  IInv'
  <2>1. CpuInv'
    BY <1>5, <1>t, <1>x, <1>c, <1>l
    DEF resume, Quiet, CpuInv, LockInv
  <2>2. LockInv'
    BY <1>5, <1>t, <1>x, <1>c, <1>l
    DEF resume, Quiet, CpuInv, LockInv
  <2>3. ForkInv'
    BY <1>5, <1>t, <1>x, <1>f, <1>c
    DEF resume, Quiet, ForkInv, CpuInv
  <2>4. NoSharedStack'
    BY <1>5, <1>t, <1>x, <1>n, <1>c, <1>l
    DEF resume, Quiet, NoSharedStack, CpuInv, LockInv
  <2>5. RunInv'
    BY <1>5, <1>t, <1>x, <1>r, <1>c, <1>n
    DEF resume, Quiet, RunInv, CpuInv, NoSharedStack
  <2> QED BY <1>0, <2>1, <2>2, <2>3, <2>4, <2>5 DEF IInv
<1>6. ASSUME NEW c \in Cpus, Yield(c) \/ Sleep(c) \/ (exit(c) /\ Quiet)
      PROVE  IInv'
  <2> PICK s \in {"RUNNABLE", "SLEEPING", "ZOMBIE"} : Quiet /\ pc[c] = "run" /\ sched(c, s)
    BY <1>6 DEF Yield, Sleep, yield, sleep, exit
  <2>1. CpuInv'
    BY <1>t, <1>x, <1>c, <1>l, <1>n
    DEF sched, Quiet, CpuInv, LockInv, NoSharedStack
  <2>2. LockInv'
    BY <1>t, <1>x, <1>c, <1>l, <1>n
    DEF sched, Quiet, CpuInv, LockInv, NoSharedStack
  <2>3. ForkInv'
    BY <1>t, <1>x, <1>f, <1>c
    DEF sched, Quiet, ForkInv, CpuInv
  <2>4. NoSharedStack'
    BY <1>t, <1>x, <1>n, <1>c, <1>l
    DEF sched, Quiet, NoSharedStack, CpuInv, LockInv
  <2>5. RunInv'
    BY <1>t, <1>x, <1>r, <1>c, <1>n
    DEF sched, Quiet, RunInv, CpuInv, NoSharedStack
  <2> QED BY <1>0, <2>1, <2>2, <2>3, <2>4, <2>5 DEF IInv
<1>7. ASSUME NEW c \in Cpus, start(c), Quiet
      PROVE  IInv'
  <2>1. CpuInv'
    BY <1>7, <1>t, <1>x, <1>c, <1>l, <1>f
    DEF start, Quiet, CpuInv, LockInv, ForkInv
  <2>2. LockInv'
    BY <1>7, <1>t, <1>x, <1>c, <1>l
    DEF start, Quiet, CpuInv, LockInv
  <2>3. ForkInv'
    BY <1>7, <1>t, <1>x, <1>f, <1>c
    DEF start, Quiet, ForkInv, CpuInv
  <2>4. NoSharedStack'
    BY <1>7, <1>t, <1>x, <1>n, <1>c, <1>l
    DEF start, Quiet, NoSharedStack, CpuInv, LockInv
  <2>5. RunInv'
    BY <1>7, <1>t, <1>x, <1>r, <1>c, <1>n, <1>f
    DEF start, Quiet, RunInv, CpuInv, NoSharedStack, ForkInv
  <2> QED BY <1>0, <2>1, <2>2, <2>3, <2>4, <2>5 DEF IInv
<1>8. ASSUME NEW c \in Cpus, NEW q \in Slots, allocfail(c, q), Quiet
      PROVE  IInv'
  <2>1. CpuInv'
    BY <1>8, <1>c
    DEF allocfail, Quiet, CpuInv
  <2>2. LockInv'
    BY <1>8, <1>l
    DEF allocfail, Quiet, LockInv
  <2>3. ForkInv'
    BY <1>8, <1>f
    DEF allocfail, Quiet, ForkInv
  <2>4. NoSharedStack'
    BY <1>8, <1>n
    DEF allocfail, Quiet, NoSharedStack
  <2>5. RunInv'
    BY <1>8, <1>r
    DEF allocfail, Quiet, RunInv
  <2> QED BY <1>0, <2>1, <2>2, <2>3, <2>4, <2>5 DEF IInv
<1>9. ASSUME NEW c \in Cpus, NEW q \in Slots, reap(c, q), Quiet
      PROVE  IInv'
  <2>1. CpuInv'
    BY <1>9, <1>t, <1>x, <1>c, <1>l
    DEF reap, Quiet, CpuInv, LockInv
  <2>2. LockInv'
    BY <1>9, <1>t, <1>x, <1>c, <1>l
    DEF reap, Quiet, CpuInv, LockInv
  <2>3. ForkInv'
    BY <1>9, <1>t, <1>x, <1>f, <1>c
    DEF reap, Quiet, ForkInv, CpuInv
  <2>4. NoSharedStack'
    BY <1>9, <1>t, <1>x, <1>n, <1>c, <1>l
    DEF reap, Quiet, NoSharedStack, CpuInv, LockInv
  <2>5. RunInv'
    BY <1>9, <1>t, <1>x, <1>r, <1>c, <1>n
    DEF reap, Quiet, RunInv, CpuInv, NoSharedStack
  <2> QED BY <1>0, <2>1, <2>2, <2>3, <2>4, <2>5 DEF IInv
<1>10. ASSUME NEW c \in Cpus, NEW q \in Slots, wakeup(c, q), Quiet
      PROVE  IInv'
  <2>1. CpuInv'
    BY <1>10, <1>t, <1>x, <1>c, <1>l
    DEF wakeup, Quiet, CpuInv, LockInv
  <2>2. LockInv'
    BY <1>10, <1>t, <1>x, <1>c, <1>l
    DEF wakeup, Quiet, CpuInv, LockInv
  <2>3. ForkInv'
    BY <1>10, <1>t, <1>x, <1>f, <1>c
    DEF wakeup, Quiet, ForkInv, CpuInv
  <2>4. NoSharedStack'
    BY <1>10, <1>t, <1>x, <1>n, <1>c, <1>l
    DEF wakeup, Quiet, NoSharedStack, CpuInv, LockInv
  <2>5. RunInv'
    BY <1>10, <1>t, <1>x, <1>r, <1>c, <1>n
    DEF wakeup, Quiet, RunInv, CpuInv, NoSharedStack
  <2> QED BY <1>0, <2>1, <2>2, <2>3, <2>4, <2>5 DEF IInv
<1>11. ASSUME NEW c \in Cpus, NEW q \in Slots, allocproc(c, q), UNCHANGED <<idx, minp>>
      PROVE  IInv'
  <2>1. CpuInv'
    BY <1>11, <1>t, <1>x, <1>c, <1>l
    DEF allocproc, CpuInv, LockInv
  <2>2. LockInv'
    BY <1>11, <1>t, <1>x, <1>c, <1>l
    DEF allocproc, CpuInv, LockInv
  <2>3. ForkInv'
    BY <1>11, <1>t, <1>x, <1>f, <1>c
    DEF allocproc, ForkInv, CpuInv
  <2>4. NoSharedStack'
    BY <1>11, <1>t, <1>x, <1>n, <1>c, <1>l
    DEF allocproc, NoSharedStack, CpuInv, LockInv
  <2>5. RunInv'
    BY <1>11, <1>t, <1>x, <1>r, <1>c, <1>n
    DEF allocproc, RunInv, CpuInv, NoSharedStack
  <2> QED BY <1>0, <2>1, <2>2, <2>3, <2>4, <2>5 DEF IInv
<1>12. CASE UNCHANGED vars
  <2>1. CpuInv' /\ LockInv'
    BY <1>c, <1>l, <1>12 DEF vars, CpuInv, LockInv
  <2>2. ForkInv' /\ NoSharedStack' /\ RunInv'
    BY <1>f, <1>n, <1>r, <1>12 DEF vars, ForkInv, NoSharedStack, RunInv
  <2> QED BY <1>0, <2>1, <2>2 DEF IInv
<1>13. ASSUME NEW c \in Cpus, ProcStep(c), Quiet
       PROVE  IInv'
  BY <1>5, <1>6, <1>7, <1>8, <1>9, <1>10, <1>13 DEF ProcStep
<1>14. ASSUME NEW c \in Cpus, NEW q \in Slots,
              Fork(c, q) \/ \E prio \in Prios : Forkprio(c, q, prio)
       PROVE  IInv'
  BY AllocStep, <1>11, <1>14
<1> QED BY <1>1, <1>2, <1>3, <1>4, <1>6, <1>12, <1>13, <1>14 DEF Next

LEMMA Inductive == Spec => []IInv
<1>1. IInv /\ [Next]_vars => IInv'
  BY IInvStep
<1> QED BY InitIInv, <1>1, PTL DEF Spec

\* Every variable of the stride scheduler keeps its C type.
THEOREM TypeCorrect == Spec => []TypeOK
<1>1. IInv => TypeOK
  BY DEF IInv
<1> QED BY Inductive, <1>1, PTL

\* No two CPUs are ever on the same kernel stack: p->lock covers the whole
\* switch, from setting p->state to the scheduler's side of swtch().
THEOREM StacksExclusive == Spec => []NoSharedStack
<1>1. IInv => NoSharedStack
  BY DEF IInv
<1> QED BY Inductive, <1>1, PTL

\* RUNNING means exactly that a CPU is running the process.
THEOREM RunningIsOnCpu == Spec => []RunningHasCpu
<1>1. IInv => RunningHasCpu
  BY DEF IInv, CpuInv, RunInv, RunningHasCpu
<1> QED BY Inductive, <1>1, PTL

\* The checks at the top of sched() never panic, as far as p->lock, the
\* number of p->locks held and p->state go.
THEOREM SchedNeverPanics == Spec => []SchedDiscipline
<1>1. IInv => SchedDiscipline
  BY DEF IInv, CpuInv, LockInv, SchedDiscipline, Held, OnStack
<1> QED BY Inductive, <1>1, PTL

-----------------------------------------------------------------------------
(* Lock order. *)

\* A nonempty set of naturals below a bound has a largest element.
LEMMA Largest ==
  ASSUME NEW N \in Nat, NEW T \in SUBSET (0 .. N), T # {}
  PROVE  \E m \in T : \A k \in T : k <= m
<1> DEFINE U == {N - k : k \in T}
<1>1. U \subseteq Nat /\ U # {}
  <2>1. \A k \in T : k \in Nat /\ k <= N /\ N - k \in Nat
    OBVIOUS
  <2> QED BY Zenon, <2>1
<1>2. PICK x \in U : \A y \in U : ~ (<<y, x>> \in OpToRel(<, Nat))
  BY Zenon, <1>1, NatLessThanWellFounded, WFMin
<1>3. \A y \in U : ~ (y < x)
  BY Zenon, <1>1, <1>2 DEF OpToRel
<1>4. PICK m \in T : x = N - m
  OBVIOUS
<1>5. ASSUME NEW k \in T
      PROVE  k <= m
  <2>1. N - k \in U
    BY Zenon
  <2> QED BY <1>3, <1>4, <2>1
<1> QED BY <1>5

\* scheduler_stride takes p->locks in increasing slot order, and nobody else
\* waits for one while holding another: acquire() cannot deadlock.
THEOREM NoDeadlock == Spec => []NoCircularWait
<1>1. IInv => NoCircularWait
  <2> SUFFICES ASSUME IInv, NEW S \in SUBSET Cpus, S # {},
                      \A c \in S : \E p \in Wanted(c) : lock[p] \in S
               PROVE  FALSE
    BY Zenon DEF NoCircularWait
  <2> USE DEF IInv, TypeOK, TableType, Quiet, CpuInv, LockInv, OnStack
  <2>1. ASSUME NEW c \in S, NEW p \in Wanted(c), lock[p] \in S
        PROVE  p \in Slots /\ pc[lock[p]] # "run" /\ minp[lock[p]] = p
    <3>1. p \in Slots
      BY SMTT(60), <2>1 DEF Wanted, visited, Slots
    <3> QED BY <2>1, <3>1
  <2>2. ASSUME NEW d \in S, pc[d] # "run"
        PROVE  pc[d] = "scan" /\ idx[d] < NPROC /\ Wanted(d) = {idx[d]}
    BY <2>2 DEF Wanted, visited
  <2> DEFINE Scanning == {d \in S : pc[d] = "scan"}
             T == {idx[d] : d \in Scanning}
  <2>3. Scanning # {}
    <3>1. PICK c \in S : TRUE
      OBVIOUS
    <3>2. PICK p \in Wanted(c) : lock[p] \in S
      OBVIOUS
    <3> QED BY <2>1, <2>2, <3>2
  <2>4. T \in SUBSET (0 .. NPROC) /\ T # {}
    <3>1. \A d \in Scanning : idx[d] \in 0 .. NPROC
      OBVIOUS
    <3>2. \A k \in T : k \in 0 .. NPROC
      BY <3>1
    <3>3. T # {}
      <4>1. PICK d \in Scanning : TRUE
        BY <2>3
      <4>2. idx[d] \in T
        OBVIOUS
      <4> HIDE DEF T
      <4> QED BY <4>2
    <3> HIDE DEF T
    <3> QED BY <3>2, <3>3
  <2>5. PICK m \in T : \A k \in T : k <= m
    BY Zenon, <2>4, Largest
  <2>6. PICK d \in Scanning : idx[d] = m
    OBVIOUS
  <2>7. PICK p \in Wanted(d) : lock[p] \in S
    OBVIOUS
  <2>8. p = idx[d]
    BY <2>2, <2>6, <2>7
  <2>9. lock[p] \in Scanning /\ minp[lock[p]] = p
    BY <2>1, <2>2, <2>7
  <2>10. p < idx[lock[p]] /\ idx[lock[p]] \in T
    BY <2>9
  <2>11. idx[lock[p]] <= m /\ m \in Int /\ idx[lock[p]] \in Int /\ p = m
    BY <2>4, <2>5, <2>6, <2>8, <2>10
  <2> QED BY <2>10, <2>11
<1> QED BY Inductive, <1>1, PTL

-----------------------------------------------------------------------------
(* The choice of the next process. *)

\* "comes before by pass and pid" is a strict order in which the candidate
\* can be replaced without looking again at the slots already visited.
LEMMA BetterOrder ==
  ASSUME TypeOK, NEW p \in Slots, NEW m \in Slots, NEW q \in Slots,
         Better(p, m), q # m => ~ Better(q, m)
  PROVE  ~ Better(q, p)
<1>1. /\ pass[p] \in Int /\ pass[m] \in Int /\ pass[q] \in Int
      /\ pid[p] \in Int /\ pid[m] \in Int /\ pid[q] \in Int
  BY DEF TypeOK, TableType
<1>2. p # NoProc /\ m # NoProc
  BY DEF Slots
<1> QED BY <1>1, <1>2 DEF Better

\* Every step preserves what the scan has established so far.
LEMMA ScanStep == IInv /\ ScanInv /\ [Next]_vars => ScanInv'
<1> DEFINE Ok(c, q) ==
      /\ state'[q] = "RUNNABLE"
      /\ q < idx'[c] => /\ minp'[c] # NoProc
                        /\ q # minp'[c] => ~ Better(q, minp[c])'
                        /\ \A d \in Cpus : pc'[d] = "sched" => cproc'[d] # q
<1> SUFFICES ASSUME IInv, ScanInv, [Next]_vars,
                    NEW c \in Cpus, pc'[c] = "scan", NEW q \in stable'[c]
             PROVE  Ok(c, q)
  BY DEF ScanInv
<1>t. /\ pass \in [Slots -> Int] /\ pid \in [Slots -> Nat]
      /\ minp \in [Cpus -> Slots \cup {NoProc}] /\ idx \in [Cpus -> 0 .. NPROC]
      /\ cproc \in [Cpus -> Slots \cup {NoProc}] /\ pc = [d \in Cpus |-> pc[d]]
  BY DEF IInv, TypeOK, TableType
<1>x. NoProc \notin Slots /\ Slots \subseteq Nat
  BY DEF Slots
<1>c. CpuInv /\ LockInv /\ ForkInv /\ state \in [Slots -> ProcState]
  BY DEF IInv, TypeOK, TableType
<1>s. ASSUME pc[c] = "scan", q \in stable[c]
      PROVE  /\ state[q] = "RUNNABLE"
             /\ q < idx[c] => /\ minp[c] # NoProc
                              /\ q # minp[c] => ~ Better(q, minp[c])
                              /\ \A d \in Cpus : pc[d] = "sched" => cproc[d] # q
  BY <1>s DEF ScanInv
<1>m. pc[c] = "scan" /\ minp[c] # NoProc => minp[c] \in Slots /\ state[minp[c]] = "RUNNABLE"
  BY <1>c, <1>t DEF CpuInv
<1> HIDE DEF ScanInv
\* What the history variable says of q after a step that starts no scan.
<1>q. Track({}) => q \in stable[c] /\ q \in Slots /\ state'[q] = "RUNNABLE"
  BY TrackType
\* The candidate of c and the processes c has passed are left alone.
<1>keep. ASSUME pc[c] = "scan", q \in stable[c], q \in Slots, state'[q] = "RUNNABLE",
                idx'[c] = idx[c], minp'[c] = minp[c],
                \A p \in Slots : p \in {q, minp[c]} /\ q < idx[c] =>
                                   pass'[p] = pass[p] /\ pid'[p] = pid[p],
                \A d \in Cpus : pc'[d] = "sched" =>
                   (pc[d] = "sched" /\ cproc'[d] = cproc[d]) \/ cproc'[d] # q
         PROVE  Ok(c, q)
  <2>1. ASSUME q < idx[c], q # minp[c]
        PROVE  ~ Better(q, minp[c])'
    <3>1. minp[c] # NoProc /\ ~ Better(q, minp[c])
      BY <1>keep, <1>s, <2>1
    <3>2. minp[c] \in Slots
      BY <1>t, <3>1
    <3>3. /\ pass'[q] = pass[q] /\ pid'[q] = pid[q]
          /\ pass'[minp[c]] = pass[minp[c]] /\ pid'[minp[c]] = pid[minp[c]]
      BY <1>keep, <2>1, <3>2
    <3> QED BY <1>keep, <3>1, <3>3 DEF Better
  <2> QED BY <1>keep, <1>s, <2>1
\* Steps that change one slot r, which was not RUNNABLE.
<1>table. ASSUME NEW r \in Slots, state[r] # "RUNNABLE", Track({}),
                 UNCHANGED <<pc, cproc, idx, minp>>,
                 \A p \in Slots : p # r => pass'[p] = pass[p] /\ pid'[p] = pid[p]
          PROVE  Ok(c, q)
  <2>1. q \in stable[c] /\ q \in Slots /\ state'[q] = "RUNNABLE" /\ pc[c] = "scan"
    BY <1>table, <1>q
  <2>2. q # r /\ (minp[c] # NoProc => minp[c] # r)
    BY <1>table, <1>s, <1>m, <2>1
  <2>3. \A p \in Slots : p \in {q, minp[c]} => pass'[p] = pass[p] /\ pid'[p] = pid[p]
    BY <1>table, <1>x, <2>2
  <2> HIDE DEF Ok
  <2> QED BY <1>table, <1>keep, <2>1, <2>3
<1>1. ASSUME NEW e \in Cpus, Dispatch(e)
      PROVE  Ok(c, q)
  <2>1. q \in stable[c] /\ q \in Slots /\ state'[q] = "RUNNABLE"
    BY <1>1, <1>q DEF Dispatch, Quiet
  <2>2. /\ pc[c] = "scan" /\ UNCHANGED <<idx, minp, pass, pid>>
        /\ \A d \in Cpus : pc'[d] = "sched" => pc[d] = "sched" /\ cproc'[d] = cproc[d]
    BY <1>1, <1>t DEF Dispatch, swtch, Quiet
  <2> HIDE DEF Ok
  <2> QED BY <1>keep, <2>1, <2>2
<1>2. ASSUME NEW e \in Cpus, SwtchBack(e)
      PROVE  Ok(c, q)
  <2>i. Track({e}) /\ idx' = [idx EXCEPT ![e] = 0]
    BY <1>2 DEF SwtchBack
  <2>q. q \in Slots /\ state'[q] = "RUNNABLE" /\ (c # e => q \in stable[c])
    BY <2>i DEF Track, Runnable
  <2>1. CASE c = e
    <3>1. idx'[c] = 0 /\ q \in Slots /\ state'[q] = "RUNNABLE"
      BY <1>t, <2>i, <2>q, <2>1
    <3> QED BY <3>1, <1>x
  <2>2. CASE c # e
    <3>1. q \in stable[c] /\ q \in Slots /\ state'[q] = "RUNNABLE"
      BY <2>q, <2>2
    <3>2. /\ pc[c] = "scan" /\ idx'[c] = idx[c] /\ minp'[c] = minp[c] /\ pid' = pid
          /\ \A d \in Cpus : pc'[d] = "sched" => pc[d] = "sched" /\ cproc'[d] = cproc[d]
      BY <1>2, <1>t, <2>2 DEF SwtchBack, swtched
    <3>3. pc[e] = "sched" /\ cproc[e] = minp[e] /\ minp[e] \in Slots
      BY <1>2, <1>c DEF SwtchBack, swtched, CpuInv, OnStack
    <3>4. \A p \in Slots : p # minp[e] => pass'[p] = pass[p]
      BY <1>2, <1>t DEF SwtchBack
    <3>5. minp[c] # minp[e]
      <4>1. minp[c] = minp[e] => lock[minp[e]] = c /\ lock[minp[e]] = e
        BY <1>c, <3>2, <3>3 DEF LockInv
      <4> QED BY <2>2, <4>1
    <3>6. q < idx[c] => q # minp[e]
      BY <1>s, <3>1, <3>2, <3>3
    <3> HIDE DEF Ok
    <3> QED BY <1>keep, <3>1, <3>2, <3>4, <3>5, <3>6
  <2> QED BY <2>1, <2>2
<1>3. ASSUME NEW e \in Cpus, resume(e), Quiet
      PROVE  Ok(c, q)
  <2>1. q \in stable[c] /\ q \in Slots /\ state'[q] = "RUNNABLE"
    BY <1>3, <1>q DEF Quiet
  <2>2. /\ pc[c] = "scan" /\ UNCHANGED <<cproc, idx, minp, pass, pid>>
        /\ \A d \in Cpus : pc'[d] = "sched" => pc[d] = "sched"
    BY <1>3, <1>t DEF resume, Quiet
  <2> HIDE DEF Ok
  <2> QED BY <1>keep, <2>1, <2>2
<1>4. ASSUME NEW e \in Cpus, Rescan(e)
      PROVE  Ok(c, q)
  <2>i. Track({e}) /\ idx' = [idx EXCEPT ![e] = 0]
    BY <1>4 DEF Rescan
  <2>q. q \in Slots /\ state'[q] = "RUNNABLE" /\ (c # e => q \in stable[c])
    BY <2>i DEF Track, Runnable
  <2>1. CASE c = e
    <3>1. idx'[c] = 0 /\ q \in Slots /\ state'[q] = "RUNNABLE"
      BY <1>t, <2>i, <2>q, <2>1
    <3> QED BY <3>1, <1>x
  <2>2. CASE c # e
    <3>1. q \in stable[c] /\ q \in Slots /\ state'[q] = "RUNNABLE"
      BY <2>q, <2>2
    <3>2. idx'[c] = idx[c] /\ UNCHANGED <<pc, cproc, minp, pass, pid>>
      BY <1>4, <1>t, <2>2 DEF Rescan, tableVars
    <3> HIDE DEF Ok
    <3> QED BY <1>keep, <3>1, <3>2
  <2> QED BY <2>1, <2>2
<1>5. ASSUME NEW e \in Cpus, start(e), Quiet
      PROVE  Ok(c, q)
  <2>1. cproc[e] \in Slots
    BY <1>5, <1>c DEF start, CpuInv, OnStack
  <2>2. np[cproc[e]] \in Slots /\ state[np[cproc[e]]] = "USED"
    BY <1>5, <2>1 DEF start, IInv, TypeOK, TableType, ForkInv
  <2>3. UNCHANGED <<pc, cproc, idx, minp, pass, pid>> /\ Track({})
    BY <1>5 DEF start, Quiet
  <2> HIDE DEF Ok
  <2> QED BY <1>table, <2>2, <2>3
<1>6. ASSUME NEW e \in Cpus, Visit(e)
      PROVE  Ok(c, q)
  <2>1. idx[e] \in Slots /\ visited(e) = idx[e] /\ lock[idx[e]] = NoCpu
    BY <1>6, <1>t DEF Visit, visited, Slots
  <2>u. UNCHANGED <<pass, pid, state, cproc, pc>> /\ Track({})
    BY <1>6 DEF Visit
  <2>2. /\ q \in stable[c] /\ q \in Slots /\ q \in Nat /\ state'[q] = "RUNNABLE"
        /\ UNCHANGED <<pass, pid, state, cproc, pc>>
    BY Zenon, <1>q, <1>x, <2>u
  <2>3. CASE e # c
    <3>1. idx'[c] = idx[c] /\ minp'[c] = minp[c]
      BY <1>6, <1>t, <2>3 DEF Visit
    <3> HIDE DEF Ok
    <3> QED BY <1>keep, <2>2, <3>1
  <2>4. CASE e = c
    <3>1. idx'[c] = idx[c] + 1 /\ idx[c] \in Nat /\ state[q] = "RUNNABLE"
      BY <1>6, <1>t, <2>2, <2>4 DEF Visit
    <3>2. q < idx'[c] => q < idx[c] \/ q = idx[c]
      BY <2>2, <3>1
    <3>3. ASSUME NEW d \in Cpus, pc[d] = "sched"
          PROVE  cproc[d] # idx[c]
      <4>1. lock[cproc[d]] = d /\ d # NoCpu
        BY <3>3, <1>c DEF CpuInv, LockInv, OnStack
      <4> QED BY <2>1, <2>4, <4>1
    <3>4. CASE state[idx[c]] = "RUNNABLE" /\ Better(idx[c], minp[c])
      <4>1. minp'[c] = idx[c] /\ idx[c] # NoProc
        BY <1>6, <1>t, <1>x, <2>1, <2>4, <3>4 DEF Visit
      <4>2. ASSUME q < idx[c]
            PROVE  ~ Better(q, idx[c])
        <5>1. /\ minp[c] \in Slots /\ idx[c] \in Slots
              /\ q # minp[c] => ~ Better(q, minp[c])
          BY <1>s, <1>t, <2>1, <2>2, <2>4, <4>2
        <5>2. TypeOK
          BY DEF IInv
        <5> QED BY Zenon, BetterOrder, <2>2, <3>4, <5>1, <5>2
      <4>3. q # idx[c] /\ q < idx'[c] => ~ Better(q, minp[c])'
        BY <2>2, <3>2, <4>1, <4>2 DEF Better
      <4>4. q < idx[c] => \A d \in Cpus : pc[d] = "sched" => cproc[d] # q
        BY <1>s, <2>2
      <4>5. \A d \in Cpus : pc'[d] = "sched" => pc[d] = "sched" /\ cproc'[d] = cproc[d]
        BY <2>2
      <4> QED BY <2>2, <3>2, <3>3, <4>1, <4>3, <4>4, <4>5
    <3>5. CASE ~ (state[idx[c]] = "RUNNABLE" /\ Better(idx[c], minp[c]))
      <4>1. minp'[c] = minp[c]
        BY <1>6, <1>t, <2>1, <2>4, <3>5 DEF Visit
      <4>2. q = idx[c] => minp[c] # NoProc /\ ~ Better(q, minp[c])
        BY <3>1, <3>5 DEF Better
      <4>3. q < idx[c] => /\ minp[c] # NoProc
                          /\ q # minp[c] => ~ Better(q, minp[c])
                          /\ \A d \in Cpus : pc[d] = "sched" => cproc[d] # q
        BY <1>s, <2>2
      <4>4. Better(q, minp[c])' <=> Better(q, minp[c])
        BY <2>2, <4>1 DEF Better
      <4>5. \A d \in Cpus : pc'[d] = "sched" => pc[d] = "sched" /\ cproc'[d] = cproc[d]
        BY <2>2
      <4> HIDE DEF Better
      <4> QED BY <2>2, <3>2, <3>3, <4>1, <4>2, <4>3, <4>4, <4>5
    <3> QED BY <3>4, <3>5
  <2> QED BY <2>3, <2>4
<1>7. ASSUME NEW e \in Cpus, Yield(e) \/ Sleep(e) \/ (exit(e) /\ Quiet)
      PROVE  Ok(c, q)
  <2>1. PICK s : Quiet /\ pc[e] = "run" /\ sched(e, s)
    BY <1>7 DEF Yield, Sleep, yield, sleep, exit
  <2>2. q \in stable[c] /\ q \in Slots /\ state'[q] = "RUNNABLE"
    BY <2>1, <1>q DEF Quiet
  <2>3. /\ pc[c] = "scan" /\ UNCHANGED <<cproc, idx, minp, pass, pid>>
        /\ \A d \in Cpus : pc'[d] = "sched" => pc[d] = "sched" \/ d = e
    BY <2>1, <1>t DEF sched, Quiet
  <2>4. cproc[e] # q
    <3>1. state[cproc[e]] = "RUNNING"
      BY <2>1, <1>c DEF CpuInv
    <3> QED BY <1>s, <2>2, <2>3, <3>1
  <2> HIDE DEF Ok
  <2> QED BY <1>keep, <2>2, <2>3, <2>4
<1>8. ASSUME NEW e \in Cpus, NEW r \in Slots,
             allocfail(e, r) \/ reap(e, r) \/ wakeup(e, r), Quiet
      PROVE  Ok(c, q)
  <2>1. /\ state[r] # "RUNNABLE" /\ Track({}) /\ UNCHANGED <<pc, cproc, idx, minp, pass>>
        /\ \A p \in Slots : p # r => pid'[p] = pid[p]
    BY <1>8, <1>t DEF allocfail, reap, wakeup, Quiet
  <2> HIDE DEF Ok
  <2> QED BY <1>table, <2>1
<1>9. ASSUME NEW e \in Cpus, NEW r \in Slots,
             Fork(e, r) \/ \E prio \in Prios : Forkprio(e, r, prio)
      PROVE  Ok(c, q)
  <2>1. allocproc(e, r) /\ UNCHANGED <<idx, minp>> /\ Track({})
    BY <1>9, AllocStep
  <2>2. \A p \in Slots : p # r => pass'[p] = pass[p]
    BY <1>9, <1>t DEF Fork, Forkprio, Quiet
  <2>3. /\ state[r] # "RUNNABLE" /\ UNCHANGED <<pc, cproc>>
        /\ \A p \in Slots : p # r => pid'[p] = pid[p]
    BY <2>1, <1>t DEF allocproc
  <2> HIDE DEF Ok
  <2> QED BY Zenon, <1>table, <2>1, <2>2, <2>3
<1>10. CASE UNCHANGED vars
  <2>1. UNCHANGED <<state, pc, cproc, idx, minp, pass, pid, stable>>
    BY <1>10 DEF vars, tableVars
  <2>2. q \in Slots /\ state'[q] = "RUNNABLE"
    BY <1>s, <2>1 DEF IInv, TypeOK
  <2> HIDE DEF Ok
  <2> QED BY <1>keep, <2>1, <2>2
<1> HIDE DEF Ok
<1>11. ASSUME NEW e \in Cpus, ProcStep(e), Quiet
       PROVE  Ok(c, q)
  BY <1>3, <1>5, <1>7, <1>8, <1>11 DEF ProcStep
<1> QED BY <1>1, <1>2, <1>4, <1>6, <1>7, <1>9, <1>10, <1>11 DEF Next

\* scheduler_stride dispatches a process of minimal pass (and then largest
\* pid) among those that were RUNNABLE throughout the scan.
THEOREM DispatchesMinimum == Spec => []PicksMinimum
<1>1. Init => ScanInv
  BY DEF Init, TableInit, ScanInv, Slots
<1>2. IInv /\ ScanInv => PicksMinimum
  <2> SUFFICES ASSUME IInv, ScanInv, NEW c \in Cpus, pc[c] = "scan", idx[c] = NPROC,
                      NEW q \in stable[c]
               PROVE  /\ minp[c] # NoProc
                      /\ \/ pass[minp[c]] < pass[q]
                         \/ pass[minp[c]] = pass[q] /\ pid[minp[c]] >= pid[q]
    BY DEF PicksMinimum
  <2>1. q \in Slots /\ q < idx[c]
    BY DEF IInv, TypeOK, TableType, Slots
  <2>2. minp[c] # NoProc /\ (q # minp[c] => ~ Better(q, minp[c]))
    BY <2>1 DEF ScanInv
  <2>3. minp[c] \in Slots /\ pass \in [Slots -> Int] /\ pid \in [Slots -> Nat]
    BY <2>2 DEF IInv, TypeOK, TableType
  <2>4. pass[q] \in Int /\ pass[minp[c]] \in Int /\ pid[q] \in Nat /\ pid[minp[c]] \in Nat
    BY <2>1, <2>3
  <2>5. CASE q = minp[c]
    BY <2>2, <2>4, <2>5
  <2>6. CASE q # minp[c]
    <3>1. ~ (pass[q] < pass[minp[c]]) /\ ~ (pass[q] = pass[minp[c]] /\ pid[q] > pid[minp[c]])
      BY <2>2, <2>6 DEF Better
    <3> QED
      BY <2>2, <2>4, <3>1
  <2> QED BY <2>5, <2>6
<1> QED BY Inductive, ScanStep, <1>1, <1>2, PTL DEF Spec

-----------------------------------------------------------------------------
(* Refinement of the abstract dispatcher. *)

\* A slot whose lock is free, or held by a CPU that is not in sched(), shows
\* its own state.
LEMMA Visible ==
  ASSUME IInv, NEW p \in Slots,
         lock[p] \in Cpus => pc[lock[p]] # "sched"
  PROVE  visibleState[p] = state[p]
<1>1. ~ \E c \in Cpus : pc[c] = "sched" /\ cproc[c] = p
  BY DEF IInv, CpuInv, LockInv, OnStack
<1> QED BY <1>1 DEF visibleState

\* A step that changes what Dispatch sees of one slot only.
LEMMA OneVisible ==
  ASSUME NEW x \in Slots, NEW v, visibleState'[x] = v,
         \A p \in Slots : p # x => visibleState'[p] = visibleState[p]
  PROVE  visibleState' = [visibleState EXCEPT ![x] = v]
<1> DEFINE f == visibleState
           g == visibleState'
<1>1. f = [p \in Slots |-> f[p]] /\ g = [p \in Slots |-> g[p]]
  BY DEF visibleState
<1> HIDE DEF f, g
<1>2. g[x] = v /\ \A p \in Slots : p # x => g[p] = f[p]
  BY DEF f, g
<1>3. g = [f EXCEPT ![x] = v]
  BY <1>1, <1>2
<1> QED BY <1>3 DEF f, g

\* Every step of the stride scheduler is a step of Dispatch or leaves what
\* Dispatch sees unchanged.
LEMMA StepSimulation == IInv /\ [Next]_vars => [D!Next]_(D!vars)
<1> SUFFICES ASSUME IInv, [Next]_vars
             PROVE  [D!Next]_(D!vars)
  OBVIOUS
<1>0. NoProc \notin Slots
  BY DEF Slots
<1>t. /\ state \in [Slots -> ProcState] /\ lock \in [Slots -> Cpus \cup {NoCpu}]
      /\ cproc \in [Cpus -> Slots \cup {NoProc}]
      /\ pc \in [Cpus -> {"scan", "resume", "run", "sched"}]
      /\ minp \in [Cpus -> Slots \cup {NoProc}]
  BY DEF IInv, TypeOK, TableType
<1>i. CpuInv /\ LockInv /\ NoSharedStack /\ ForkInv
  BY DEF IInv
<1>v. DOMAIN visibleState = Slots /\ DOMAIN visibleState' = Slots
  BY DEF visibleState
\* What Dispatch sees of p depends on p->state and on who is in sched() with p.
<1>k. ASSUME NEW p \in Slots, state'[p] = state[p],
             \A d \in Cpus : (pc'[d] = "sched" /\ cproc'[d] = p)
                             <=> (pc[d] = "sched" /\ cproc[d] = p)
      PROVE  visibleState'[p] = visibleState[p]
  BY <1>k DEF visibleState
<1>u. ASSUME \A p \in Slots : visibleState'[p] = visibleState[p]
      PROVE  visibleState' = visibleState
  <2> DEFINE f == visibleState
             g == visibleState'
  <2>1. f = [p \in Slots |-> f[p]] /\ g = [p \in Slots |-> g[p]]
    BY DEF visibleState
  <2>2. \A p \in Slots : g[p] = f[p]
    BY <1>u
  <2> HIDE DEF f, g
  <2>3. g = f
    BY <2>1, <2>2
  <2> QED BY <2>3 DEF f, g
<1>1. ASSUME NEW c \in Cpus, Visit(c) \/ Rescan(c) \/ (resume(c) /\ Quiet)
      PROVE  UNCHANGED D!vars
  <2>1. /\ UNCHANGED <<state, cproc>>
        /\ \A d \in Cpus : pc'[d] = "sched" <=> pc[d] = "sched"
    BY <1>1, <1>t DEF Visit, Rescan, resume, tableVars
  <2> QED BY <1>k, <1>u, <2>1 DEF D!vars
<1>2. ASSUME NEW c \in Cpus, Dispatch(c)
      PROVE  D!Next
  <2>1. /\ minp[c] \in Slots /\ state[minp[c]] = "RUNNABLE" /\ lock[minp[c]] = c
        /\ pc[c] = "scan" /\ cproc[c] = NoProc
    BY <1>2, <1>0, <1>t, <1>i DEF Dispatch, CpuInv, LockInv
  <2>2. visibleState[minp[c]] = "RUNNABLE"
    BY <2>1, Visible
  <2>3. visibleState' = [visibleState EXCEPT ![minp[c]] = "RUNNING"]
    <3>1. visibleState'[minp[c]] = "RUNNING"
      BY <1>2, <1>t, <2>1 DEF Dispatch, swtch, visibleState
    <3>2. /\ \A p \in Slots : p # minp[c] => state'[p] = state[p]
          /\ \A d \in Cpus : d # c => pc'[d] = pc[d] /\ cproc'[d] = cproc[d]
          /\ pc'[c] # "sched" /\ pc[c] # "sched"
      BY <1>2, <1>t, <2>1 DEF Dispatch, swtch
    <3>3. \A p \in Slots : p # minp[c] => visibleState'[p] = visibleState[p]
      BY <1>k, <3>2
    <3> QED BY <2>1, <3>1, <3>3, OneVisible
  <2>4. D!Pick(c, minp[c])
    BY <1>2, <2>1, <2>2, <2>3 DEF D!Pick, Dispatch, swtch
  <2> QED BY <2>1, <2>4 DEF D!Next
<1>3. ASSUME NEW c \in Cpus, SwtchBack(c)
      PROVE  D!Next
  <2>1. /\ cproc[c] \in Slots /\ pc[c] = "sched"
        /\ state[cproc[c]] \in {"RUNNABLE", "SLEEPING", "ZOMBIE"}
    BY <1>3, <1>i DEF SwtchBack, swtched, CpuInv, OnStack
  <2>2. visibleState[cproc[c]] = "RUNNING"
    BY <2>1 DEF visibleState
  <2>3. visibleState' = [visibleState EXCEPT ![cproc[c]] = state[cproc[c]]]
    <3>1. /\ state' = state /\ pc'[c] # "sched"
          /\ \A d \in Cpus : d # c => pc'[d] = pc[d] /\ cproc'[d] = cproc[d]
      BY <1>3, <1>t DEF SwtchBack, swtched
    <3>2. ~ \E d \in Cpus : pc'[d] = "sched" /\ cproc'[d] = cproc[c]
      <4>1. \A d \in Cpus : d # c /\ pc[d] = "sched" => cproc[d] # cproc[c]
        BY <1>i, <2>1 DEF NoSharedStack, OnStack
      <4> QED BY <3>1, <4>1
    <3>3. visibleState'[cproc[c]] = state[cproc[c]]
      BY <2>1, <3>1, <3>2 DEF visibleState
    <3>4. \A p \in Slots : p # cproc[c] => visibleState'[p] = visibleState[p]
      BY <1>k, <3>1
    <3> QED BY <2>1, <3>3, <3>4, OneVisible
  <2>4. cproc' = [cproc EXCEPT ![c] = NoProc] /\ cproc[c] # NoProc
    BY <1>3, <1>0, <2>1 DEF SwtchBack, swtched
  <2>5. D!Leave(c, state[cproc[c]])
    BY <2>2, <2>3, <2>4 DEF D!Leave
  <2> QED BY <2>1, <2>5 DEF D!Next
<1>4. ASSUME NEW c \in Cpus, Yield(c) \/ Sleep(c) \/ (exit(c) /\ Quiet)
      PROVE  UNCHANGED D!vars
  <2>1. PICK s : pc[c] = "run" /\ sched(c, s)
    BY <1>4 DEF Yield, Sleep, yield, sleep, exit
  <2>2. cproc[c] \in Slots /\ state[cproc[c]] = "RUNNING"
    BY <1>i, <2>1 DEF CpuInv, OnStack
  <2>3. /\ cproc' = cproc /\ pc'[c] = "sched"
        /\ \A p \in Slots : p # cproc[c] => state'[p] = state[p]
        /\ \A d \in Cpus : d # c => pc'[d] = pc[d]
    BY <1>t, <2>1, <2>2 DEF sched
  <2>4. visibleState'[cproc[c]] = visibleState[cproc[c]]
    BY <2>2, <2>3 DEF visibleState
  <2>5. \A p \in Slots : p # cproc[c] => visibleState'[p] = visibleState[p]
    BY <1>k, <2>1, <2>3
  <2> QED BY <1>u, <2>3, <2>4, <2>5 DEF D!vars
<1>5. ASSUME NEW q \in Slots, NEW r, NEW s, lock[q] = NoCpu, state[q] = r,
             UNCHANGED <<pc, cproc>>, state' = [state EXCEPT ![q] = s]
      PROVE  D!Change(q, r, s)
  <2>1. visibleState[q] = r
    BY <1>5, Visible
  <2>2. ~ \E c \in Cpus : pc[c] = "sched" /\ cproc[c] = q
    BY <1>5, <1>i DEF CpuInv, LockInv, OnStack
  <2>3. visibleState'[q] = s
    BY <1>5, <1>t, <2>2 DEF visibleState
  <2>4. \A p \in Slots : p # q => visibleState'[p] = visibleState[p]
    BY <1>5, <1>k, <1>t
  <2>5. visibleState' = [visibleState EXCEPT ![q] = s]
    BY <2>3, <2>4, OneVisible
  <2> QED BY <1>5, <2>1, <2>5 DEF D!Change
<1>6. ASSUME NEW c \in Cpus, start(c), Quiet
      PROVE  D!Next
  <2> DEFINE q == np[cproc[c]]
  <2>1. q \in Slots /\ state[q] = "USED"
    <3>1. cproc[c] \in Slots
      BY <1>6, <1>i DEF start, CpuInv, OnStack
    <3> QED BY <1>6, <1>i, <3>1 DEF start, ForkInv, IInv, TypeOK, TableType
  <2>2. D!Change(q, "USED", "RUNNABLE")
    <3>1. /\ lock[q] = NoCpu /\ UNCHANGED <<pc, cproc>>
          /\ state' = [state EXCEPT ![q] = "RUNNABLE"]
      BY <1>6 DEF start
    <3> HIDE DEF q
    <3> QED BY Zenon, <1>5, <2>1, <3>1
  <2> QED BY <2>1, <2>2 DEF D!Next
<1>7. ASSUME NEW c \in Cpus, NEW q \in Slots, allocfail(c, q), Quiet
      PROVE  UNCHANGED D!vars
  <2>1. UNCHANGED <<state, cproc, pc>>
    BY <1>7 DEF allocfail
  <2> QED BY <1>k, <1>u, <2>1 DEF D!vars
<1>8. ASSUME NEW c \in Cpus, NEW q \in Slots, reap(c, q), Quiet
      PROVE  D!Next
  <2>1. D!Change(q, "ZOMBIE", "UNUSED")
    <3>1. /\ lock[q] = NoCpu /\ state[q] = "ZOMBIE" /\ UNCHANGED <<pc, cproc>>
          /\ state' = [state EXCEPT ![q] = "UNUSED"]
      BY <1>8 DEF reap
    <3> QED BY Zenon, <1>5, <3>1
  <2> QED BY <2>1 DEF D!Next
<1>9. ASSUME NEW c \in Cpus, NEW q \in Slots, wakeup(c, q), Quiet
      PROVE  D!Next
  <2>1. D!Change(q, "SLEEPING", "RUNNABLE")
    <3>1. /\ lock[q] = NoCpu /\ state[q] = "SLEEPING" /\ UNCHANGED <<pc, cproc>>
          /\ state' = [state EXCEPT ![q] = "RUNNABLE"]
      BY <1>9 DEF wakeup
    <3> QED BY Zenon, <1>5, <3>1
  <2> QED BY <2>1 DEF D!Next
<1>10. ASSUME NEW c \in Cpus, NEW q \in Slots, allocproc(c, q), UNCHANGED <<idx, minp>>
      PROVE  D!Next
  <2>1. D!Change(q, "UNUSED", "USED")
    <3>1. /\ lock[q] = NoCpu /\ state[q] = "UNUSED" /\ UNCHANGED <<pc, cproc>>
          /\ state' = [state EXCEPT ![q] = "USED"]
      BY <1>10 DEF allocproc
    <3> QED BY Zenon, <1>5, <3>1
  <2> QED BY <2>1 DEF D!Next
<1>11. CASE UNCHANGED vars
  <2>1. UNCHANGED <<state, cproc, pc>>
    BY <1>11 DEF vars, tableVars
  <2> QED BY <1>k, <1>u, <2>1 DEF D!vars
<1>12. ASSUME NEW c \in Cpus, ProcStep(c), Quiet
       PROVE  [D!Next]_(D!vars)
  BY <1>1, <1>4, <1>6, <1>7, <1>8, <1>9, <1>12 DEF ProcStep
<1>13. ASSUME NEW c \in Cpus, NEW q \in Slots,
              Fork(c, q) \/ \E prio \in Prios : Forkprio(c, q, prio)
       PROVE  [D!Next]_(D!vars)
  BY AllocStep, <1>10, <1>13
<1> QED BY <1>1, <1>2, <1>3, <1>4, <1>11, <1>12, <1>13 DEF Next

\* scheduler_stride implements the abstract dispatcher, for every number of
\* CPUs and slots.
THEOREM Refinement == Spec => Dispatches
<1>1. Init => D!Init
  <2> SUFFICES ASSUME Init PROVE D!Init
    OBVIOUS
  <2>1. 0 \in Slots
    BY DEF Slots
  <2>2. visibleState = [q \in Slots |-> IF q = 0 THEN "RUNNABLE" ELSE "UNUSED"]
    BY DEF Init, TableInit, visibleState
  <2> QED BY <2>1, <2>2 DEF D!Init, Init, TableInit
<1> QED BY Inductive, StepSimulation, <1>1, PTL DEF Spec, Dispatches, D!Spec
=============================================================================
