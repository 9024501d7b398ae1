----------------------- MODULE LotterySchedulerProofs -----------------------
(***************************************************************************)
(* Theorems about LotteryScheduler, for any number of process slots and,   *)
(* unless they say otherwise, of CPUs.                                     *)
(***************************************************************************)
EXTENDS LotteryScheduler, TLAPS

USE TableAssumption, UsedAssumption DEF NoProc

-----------------------------------------------------------------------------
(* The inductive invariant. *)

\* Where the CPU is and what c->proc says go together: the process it works on
\* is the slot the scan stopped at, in the matching state.
CpuInv ==
  \A c \in Cpus :
    /\ OnStack(c) => cproc[c] \in Slots /\ cproc[c] = idx(c) /\ at[c] = "visit"
    /\ pc[c] = "scan" => cproc[c] = NoProc
    /\ pc[c] \in {"resume", "run"} => state[cproc[c]] = "RUNNING"
    /\ pc[c] = "sched" => state[cproc[c]] \in {"RUNNABLE", "SLEEPING", "ZOMBIE"}

\* A CPU holds p->lock exactly around a switch to or from p.
LockInv ==
  \A p \in Slots, c \in Cpus : lock[p] = c <=> pc[c] \in {"resume", "sched"} /\ cproc[c] = p

\* A child that fork() has not started yet is USED, and has one creator.
ForkInv ==
  /\ \A p \in Slots : np[p] # NoProc => state[np[p]] = "USED"
  /\ \A p, q \in Slots : np[p] = np[q] /\ np[p] # NoProc => p = q

RunInv ==
  \A p \in Slots : state[p] = "RUNNING" =>
     \E c \in Cpus : pc[c] \in {"resume", "run"} /\ cproc[c] = p

IInv == TypeOK /\ CpuInv /\ LockInv /\ ForkInv /\ NoSharedStack /\ RunInv

\* How many slots a scan passes from the one after q until it reaches x.
Dist(q, x) == IF x > q THEN x - q - 1 ELSE x - q - 1 + NPROC

\* CPU c is done with the scan: it runs the process it found, or has run it.
Served(c) == OnStack(c) \/ at[c] = "update"

\* With one CPU the scan of a class starts where last_index says.  Behind a
\* process q that waits, the processes of its class that ran since lie between
\* q and the place the scan has reached, which has not come to q yet.
Behind(c, q, r) ==
  /\ Served(c) /\ classe_atual[c] = classe[q] =>
       idx(c) # q /\ Dist(q, r) <= Dist(q, idx(c))
  /\ ~ (Served(c) /\ classe_atual[c] = classe[q]) =>
       /\ Dist(q, r) < Dist(q, last_index[classe[q]])
       /\ at[c] = "visit" /\ classe_atual[c] = classe[q] =>
            Dist(q, begin[c]) + i[c] < NPROC

TurnInv ==
  /\ \A c \in Cpus : at[c] = "visit" => begin[c] = last_index[classe_atual[c]]
  /\ \A q \in Slots : state[q] # "RUNNABLE" => ran[q] = {}
  /\ \A c \in Cpus, q \in Slots : \A r \in ran[q] : Behind(c, q, r)

-----------------------------------------------------------------------------

LEMMA InitIInv == Init => IInv
<1> SUFFICES ASSUME Init PROVE IInv
  OBVIOUS
<1>1. TypeOK
  BY DEF Init, TableInit, TypeOK, TableType, ProcState, Slots, Classes
<1>2. CpuInv /\ LockInv /\ ForkInv /\ NoSharedStack /\ RunInv
  BY DEF Init, TableInit, CpuInv, LockInv, ForkInv, NoSharedStack, RunInv, OnStack, Slots
<1> QED BY <1>1, <1>2 DEF IInv

\* The slot the scan looks at is inside proc[].
LEMMA IdxType ==
  ASSUME TypeOK, NEW c \in Cpus
  PROVE  idx(c) \in Slots /\ (idx(c) + 1) % NPROC \in Slots
<1>1. begin[c] \in Nat /\ i[c] \in Nat
  BY DEF TypeOK, Slots
<1>2. \A x \in Nat : x % NPROC \in Slots
  BY DEF Slots
<1>3. idx(c) \in Slots
  BY <1>1, <1>2 DEF idx
<1> QED BY <1>2, <1>3 DEF Slots

LEMMA TypeStep == TypeOK /\ CpuInv /\ [Next]_vars => TypeOK'
<1> SUFFICES ASSUME TypeOK, CpuInv, [Next]_vars
             PROVE  TypeOK'
  OBVIOUS
<1>x. \A c \in Cpus : idx(c) \in Slots /\ (idx(c) + 1) % NPROC \in Slots
  BY IdxType
<1> USE DEF TypeOK, TableType, ProcState, tableVars, loopVars, Quiet
<1>1. ASSUME NEW c \in Cpus, NEW k \in Classes, Draw(c, k)
      PROVE  TypeOK'
  BY <1>1 DEF Draw
<1>2. ASSUME NEW c \in Cpus, Dispatch(c)
      PROVE  TypeOK'
  <2>1. idx(c) \in Slots
    BY <1>x
  <2>2. ran' \in [Slots -> SUBSET Slots]
    <3>1. ran' = [q \in Slots |-> IF q = idx(c) THEN {}
                                 ELSE IF state[q] = "RUNNABLE" /\ classe[q] = classe[idx(c)]
                                      THEN ran[q] \cup {idx(c)}
                                      ELSE ran[q]]
      BY <1>2 DEF Dispatch, Overtake
    <3>2. \A q \in Slots : {} \in SUBSET Slots /\ ran[q] \cup {idx(c)} \in SUBSET Slots /\ ran[q] \in SUBSET Slots
      BY <2>1
    <3> HIDE DEF TypeOK
    <3> QED BY <3>1, <3>2, Zenon
  <2>3. TableType'
    BY <1>2, <2>1 DEF Dispatch, swtch
  <2>4. UNCHANGED <<classe, last_index, loopVars>>
    BY <1>2 DEF Dispatch
  <2> HIDE DEF TableType
  <2> QED BY <2>2, <2>3, <2>4
<1>3. ASSUME NEW c \in Cpus, Skip(c) \/ NotFound(c)
      PROVE  TypeOK'
  <2>1. i' \in [Cpus -> 0 .. NPROC]
    <3>1. i' = i \/ (i[c] + 1 \in 0 .. NPROC /\ i' = [i EXCEPT ![c] = i[c] + 1])
      BY <1>3 DEF Skip, NotFound
    <3> QED BY <3>1
  <2> QED BY <1>3, <2>1 DEF Skip, NotFound
<1>4. ASSUME NEW c \in Cpus, SwtchBack(c)
      PROVE  TypeOK'
  BY <1>4, <1>x DEF SwtchBack, swtched
<1>5. ASSUME NEW c \in Cpus, Update(c)
      PROVE  TypeOK'
  <2>1. (idx(c) + 1) % NPROC \in Slots
    BY <1>x
  <2> QED BY <1>5, <2>1 DEF Update
<1>6. ASSUME NEW c \in Cpus, resume(c), Quiet
      PROVE  TypeOK'
  BY Zenon, <1>6 DEF resume
<1>7. ASSUME NEW c \in Cpus, yield(c) \/ sleep(c) \/ exit(c), Quiet
      PROVE  TypeOK'
  <2>1. PICK s \in {"RUNNABLE", "SLEEPING", "ZOMBIE"} : sched(c, s)
    BY <1>7 DEF yield, sleep, exit
  <2> QED BY Zenon, <1>7, <2>1 DEF sched
<1>8. ASSUME NEW c \in Cpus, start(c), Quiet
      PROVE  TypeOK'
  BY Zenon, <1>8 DEF start
<1>9. ASSUME NEW c \in Cpus, NEW q \in Slots,
             allocfail(c, q) \/ reap(c, q) \/ wakeup(c, q), Quiet
      PROVE  TypeOK'
  <2>1. state' \in [Slots -> ProcState]
    <3>1. PICK s \in ProcState : state' = state \/ state' = [state EXCEPT ![q] = s]
      BY <1>9, Zenon DEF allocfail, reap, wakeup
    <3> QED BY SMTT(60), <3>1
  <2>3. pid' \in [Slots -> Nat] /\ nextpid' \in Nat
    BY <1>9 DEF allocfail, reap, wakeup
  <2>2. UNCHANGED <<lock, np, cproc, pc>>
    BY <1>9 DEF allocfail, reap, wakeup
  <2> QED BY <1>9, <2>1, <2>2, <2>3
<1>10. ASSUME NEW c \in Cpus, NEW q \in Slots, NEW k \in Used, Fork(c, q, k)
      PROVE  TypeOK'
  <2>1. k \in Classes
    OBVIOUS
  <2>2. state' \in [Slots -> ProcState] /\ pid' \in [Slots -> Nat] /\ nextpid' \in Nat
    BY <1>10 DEF Fork, allocproc
  <2>3. np' \in [Slots -> Slots \cup {NoProc}]
    BY Zenon, <1>10 DEF Fork, allocproc
  <2>4. classe' \in [Slots -> Classes]
    BY <1>10, <2>1 DEF Fork
  <2> QED BY <1>10, <2>2, <2>3, <2>4 DEF Fork, allocproc
<1>11. CASE UNCHANGED vars
  BY <1>11 DEF vars
<1> HIDE DEF Quiet, TypeOK
<1>12. ASSUME NEW c \in Cpus, ProcStep(c), Quiet
       PROVE  TypeOK'
  BY <1>6, <1>7, <1>8, <1>9, <1>12 DEF ProcStep
<1> QED BY <1>1, <1>2, <1>3, <1>4, <1>5, <1>7, <1>10, <1>11, <1>12 DEF Next, Yield

\* Every step of the model preserves the inductive invariant.
LEMMA IInvStep == IInv /\ [Next]_vars => IInv'
<1> SUFFICES ASSUME IInv, [Next]_vars
             PROVE  IInv'
  OBVIOUS
<1>0. TypeOK'
  BY TypeStep DEF IInv
<1>x. NoProc \notin Slots /\ \A c \in Cpus : idx(c) \in Slots
  BY IdxType DEF IInv, Slots
<1>t. /\ state \in [Slots -> ProcState] /\ lock \in [Slots -> Cpus \cup {NoCpu}]
      /\ np \in [Slots -> Slots \cup {NoProc}] /\ cproc \in [Cpus -> Slots \cup {NoProc}]
      /\ pc \in [Cpus -> {"scan", "resume", "run", "sched"}]
      /\ at \in [Cpus -> {"draw", "visit", "update"}]
  BY DEF IInv, TypeOK, TableType
<1>c. CpuInv
  BY DEF IInv
<1>l. LockInv
  BY DEF IInv
<1>f. ForkInv
  BY DEF IInv
<1>n. NoSharedStack
  BY DEF IInv
<1>r. RunInv
  BY DEF IInv
<1> USE DEF OnStack, tableVars
\* The scheduler's variables are left alone.
<1>q. Quiet => UNCHANGED at /\ \A c \in Cpus : idx(c)' = idx(c)
  BY DEF Quiet, loopVars, idx
\* Steps of the scheduler loop that do not touch the table.
<1>1. ASSUME NEW c \in Cpus, pc[c] = "scan", UNCHANGED tableVars,
             \A d \in Cpus : d # c => at'[d] = at[d] /\ idx(d)' = idx(d)
      PROVE  IInv'
  <2>1. CpuInv'
    BY <1>1, <1>c DEF CpuInv
  <2>2. LockInv' /\ ForkInv' /\ NoSharedStack' /\ RunInv'
    BY <1>1, <1>l, <1>f, <1>n, <1>r DEF LockInv, ForkInv, NoSharedStack, RunInv
  <2> QED BY <1>0, <2>1, <2>2 DEF IInv
<1>2. ASSUME NEW c \in Cpus, (\E k \in Classes : Draw(c, k)) \/ Skip(c) \/ NotFound(c) \/ Update(c)
      PROVE  IInv'
  <2>1. pc[c] = "scan" /\ UNCHANGED tableVars
    BY <1>2 DEF Draw, Skip, NotFound, Update
  <2>2. \A d \in Cpus : d # c => at'[d] = at[d]
    BY <1>2, <1>t DEF Draw, Skip, NotFound, Update
  <2>3. \A d \in Cpus : d # c => begin'[d] = begin[d] /\ i'[d] = i[d]
    BY <1>2 DEF Draw, Skip, NotFound, Update, IInv, TypeOK
  <2> QED BY <1>1, <2>1, <2>2, <2>3 DEF idx
<1>3. ASSUME NEW c \in Cpus, Dispatch(c)
      PROVE  IInv'
  <2>0. UNCHANGED at /\ (\A d \in Cpus : idx(d)' = idx(d)) /\ at[c] = "visit"
    BY <1>3 DEF Dispatch, loopVars, idx
  <2>1. CpuInv'
    BY <1>3, <1>t, <1>x, <1>c, <1>l, <2>0
    DEF Dispatch, swtch, CpuInv, LockInv
  <2>2. LockInv'
    BY <1>3, <1>t, <1>x, <1>c, <1>l, <1>n
    DEF Dispatch, swtch, CpuInv, LockInv, NoSharedStack
  <2>3. ForkInv'
    BY <1>3, <1>t, <1>x, <1>f, <1>c
    DEF Dispatch, swtch, ForkInv, CpuInv
  <2>4. NoSharedStack'
    BY <1>3, <1>t, <1>x, <1>n, <1>c, <1>l
    DEF Dispatch, swtch, NoSharedStack, CpuInv, LockInv
  <2>5. RunInv'
    BY <1>3, <1>t, <1>x, <1>r, <1>c, <1>n
    DEF Dispatch, swtch, RunInv, CpuInv, NoSharedStack
  <2> QED BY <1>0, <2>1, <2>2, <2>3, <2>4, <2>5 DEF IInv
<1>4. ASSUME NEW c \in Cpus, SwtchBack(c)
      PROVE  IInv'
  <2>0. (\A d \in Cpus : idx(d)' = idx(d)) /\ \A d \in Cpus : d # c => at'[d] = at[d]
    BY <1>4, <1>t DEF SwtchBack, idx
  <2>1. CpuInv'
    BY <1>4, <1>t, <1>x, <1>c, <1>l, <2>0
    DEF SwtchBack, swtched, CpuInv, LockInv
  <2>2. LockInv'
    BY <1>4, <1>t, <1>x, <1>c, <1>l, <1>n
    DEF SwtchBack, swtched, CpuInv, LockInv, NoSharedStack
  <2>3. ForkInv'
    BY <1>4, <1>t, <1>x, <1>f, <1>c
    DEF SwtchBack, swtched, ForkInv, CpuInv
  <2>4. NoSharedStack'
    BY <1>4, <1>t, <1>x, <1>n, <1>c, <1>l
    DEF SwtchBack, swtched, NoSharedStack, CpuInv, LockInv
  <2>5. RunInv'
    BY <1>4, <1>t, <1>x, <1>r, <1>c, <1>n
    DEF SwtchBack, swtched, RunInv, CpuInv, NoSharedStack
  <2> QED BY <1>0, <2>1, <2>2, <2>3, <2>4, <2>5 DEF IInv
<1>5. ASSUME NEW c \in Cpus, resume(c), Quiet
      PROVE  IInv'
  <2>0. UNCHANGED at /\ \A d \in Cpus : idx(d)' = idx(d)
    BY <1>5, <1>q
  <2>1. CpuInv'
    BY <1>5, <1>t, <1>x, <1>c, <1>l, <2>0
    DEF resume, CpuInv, LockInv
  <2>2. LockInv'
    BY <1>5, <1>t, <1>x, <1>c, <1>l, <1>n
    DEF resume, CpuInv, LockInv, NoSharedStack
  <2>3. ForkInv'
    BY <1>5, <1>t, <1>x, <1>f, <1>c
    DEF resume, ForkInv, CpuInv
  <2>4. NoSharedStack'
    BY <1>5, <1>t, <1>x, <1>n, <1>c, <1>l
    DEF resume, NoSharedStack, CpuInv, LockInv
  <2>5. RunInv'
    BY <1>5, <1>t, <1>x, <1>r, <1>c, <1>n
    DEF resume, RunInv, CpuInv, NoSharedStack
  <2> QED BY <1>0, <2>1, <2>2, <2>3, <2>4, <2>5 DEF IInv
<1>6. ASSUME NEW c \in Cpus, yield(c) \/ sleep(c) \/ exit(c), Quiet
      PROVE  IInv'
  <2>0. UNCHANGED at /\ \A d \in Cpus : idx(d)' = idx(d)
    BY <1>6, <1>q
  <2> PICK s \in {"RUNNABLE", "SLEEPING", "ZOMBIE"} : pc[c] = "run" /\ sched(c, s)
    BY <1>6 DEF yield, sleep, exit
  <2>1. CpuInv'
    BY <1>t, <1>x, <1>c, <1>l, <2>0, <1>n
    DEF sched, CpuInv, LockInv, NoSharedStack
  <2>2. LockInv'
    BY <1>t, <1>x, <1>c, <1>l, <1>n
    DEF sched, CpuInv, LockInv, NoSharedStack
  <2>3. ForkInv'
    BY <1>t, <1>x, <1>f, <1>c
    DEF sched, ForkInv, CpuInv
  <2>4. NoSharedStack'
    BY <1>t, <1>x, <1>n, <1>c, <1>l
    DEF sched, NoSharedStack, CpuInv, LockInv
  <2>5. RunInv'
    BY <1>t, <1>x, <1>r, <1>c, <1>n
    DEF sched, RunInv, CpuInv, NoSharedStack
  <2> QED BY <1>0, <2>1, <2>2, <2>3, <2>4, <2>5 DEF IInv
<1>7. ASSUME NEW c \in Cpus, start(c), Quiet
      PROVE  IInv'
  <2>0. UNCHANGED at /\ \A d \in Cpus : idx(d)' = idx(d)
    BY <1>7, <1>q
  <2>1. CpuInv'
    BY <1>7, <1>t, <1>x, <1>c, <1>l, <2>0, <1>f
    DEF start, CpuInv, LockInv, ForkInv
  <2>2. LockInv'
    BY <1>7, <1>t, <1>x, <1>c, <1>l, <1>n
    DEF start, CpuInv, LockInv, NoSharedStack
  <2>3. ForkInv'
    BY <1>7, <1>t, <1>x, <1>f, <1>c
    DEF start, ForkInv, CpuInv
  <2>4. NoSharedStack'
    BY <1>7, <1>t, <1>x, <1>n, <1>c, <1>l
    DEF start, NoSharedStack, CpuInv, LockInv
  <2>5. RunInv'
    BY <1>7, <1>t, <1>x, <1>r, <1>c, <1>n, <1>f
    DEF start, RunInv, CpuInv, NoSharedStack, ForkInv
  <2> QED BY <1>0, <2>1, <2>2, <2>3, <2>4, <2>5 DEF IInv
<1>8. ASSUME NEW c \in Cpus, NEW q \in Slots, allocfail(c, q), Quiet
      PROVE  IInv'
  <2>0. UNCHANGED at /\ \A d \in Cpus : idx(d)' = idx(d)
    BY <1>8, <1>q
  <2>1. CpuInv'
    BY <1>8, <1>t, <1>x, <1>c, <1>l, <2>0
    DEF allocfail, CpuInv, LockInv
  <2>2. LockInv'
    BY <1>8, <1>t, <1>x, <1>c, <1>l, <1>n
    DEF allocfail, CpuInv, LockInv, NoSharedStack
  <2>3. ForkInv'
    BY <1>8, <1>t, <1>x, <1>f, <1>c
    DEF allocfail, ForkInv, CpuInv
  <2>4. NoSharedStack'
    BY <1>8, <1>t, <1>x, <1>n, <1>c, <1>l
    DEF allocfail, NoSharedStack, CpuInv, LockInv
  <2>5. RunInv'
    BY <1>8, <1>t, <1>x, <1>r, <1>c, <1>n
    DEF allocfail, RunInv, CpuInv, NoSharedStack
  <2> QED BY <1>0, <2>1, <2>2, <2>3, <2>4, <2>5 DEF IInv
<1>9. ASSUME NEW c \in Cpus, NEW q \in Slots, reap(c, q), Quiet
      PROVE  IInv'
  <2>0. UNCHANGED at /\ \A d \in Cpus : idx(d)' = idx(d)
    BY <1>9, <1>q
  <2>1. CpuInv'
    BY <1>9, <1>t, <1>x, <1>c, <1>l, <2>0
    DEF reap, CpuInv, LockInv
  <2>2. LockInv'
    BY <1>9, <1>t, <1>x, <1>c, <1>l, <1>n
    DEF reap, CpuInv, LockInv, NoSharedStack
  <2>3. ForkInv'
    BY <1>9, <1>t, <1>x, <1>f, <1>c
    DEF reap, ForkInv, CpuInv
  <2>4. NoSharedStack'
    BY <1>9, <1>t, <1>x, <1>n, <1>c, <1>l
    DEF reap, NoSharedStack, CpuInv, LockInv
  <2>5. RunInv'
    BY <1>9, <1>t, <1>x, <1>r, <1>c, <1>n
    DEF reap, RunInv, CpuInv, NoSharedStack
  <2> QED BY <1>0, <2>1, <2>2, <2>3, <2>4, <2>5 DEF IInv
<1>10. ASSUME NEW c \in Cpus, NEW q \in Slots, wakeup(c, q), Quiet
      PROVE  IInv'
  <2>0. UNCHANGED at /\ \A d \in Cpus : idx(d)' = idx(d)
    BY <1>10, <1>q
  <2>1. CpuInv'
    BY <1>10, <1>t, <1>x, <1>c, <1>l, <2>0
    DEF wakeup, CpuInv, LockInv
  <2>2. LockInv'
    BY <1>10, <1>t, <1>x, <1>c, <1>l, <1>n
    DEF wakeup, CpuInv, LockInv, NoSharedStack
  <2>3. ForkInv'
    BY <1>10, <1>t, <1>x, <1>f, <1>c
    DEF wakeup, ForkInv, CpuInv
  <2>4. NoSharedStack'
    BY <1>10, <1>t, <1>x, <1>n, <1>c, <1>l
    DEF wakeup, NoSharedStack, CpuInv, LockInv
  <2>5. RunInv'
    BY <1>10, <1>t, <1>x, <1>r, <1>c, <1>n
    DEF wakeup, RunInv, CpuInv, NoSharedStack
  <2> QED BY <1>0, <2>1, <2>2, <2>3, <2>4, <2>5 DEF IInv
<1>11. ASSUME NEW c \in Cpus, NEW q \in Slots, NEW k \in Used, Fork(c, q, k)
      PROVE  IInv'
  <2>0. UNCHANGED at /\ \A d \in Cpus : idx(d)' = idx(d)
    BY <1>11 DEF Fork, loopVars, idx
  <2>a. allocproc(c, q)
    BY <1>11 DEF Fork
  <2>1. CpuInv'
    BY <2>a, <1>t, <1>x, <1>c, <1>l, <2>0
    DEF allocproc, CpuInv, LockInv
  <2>2. LockInv'
    BY <2>a, <1>t, <1>x, <1>c, <1>l, <1>n
    DEF allocproc, CpuInv, LockInv, NoSharedStack
  <2>3. ForkInv'
    BY <2>a, <1>t, <1>x, <1>f, <1>c
    DEF allocproc, ForkInv, CpuInv
  <2>4. NoSharedStack'
    BY <2>a, <1>t, <1>x, <1>n, <1>c, <1>l
    DEF allocproc, NoSharedStack, CpuInv, LockInv
  <2>5. RunInv'
    BY <2>a, <1>t, <1>x, <1>r, <1>c, <1>n
    DEF allocproc, RunInv, CpuInv, NoSharedStack
  <2> QED BY <1>0, <2>1, <2>2, <2>3, <2>4, <2>5 DEF IInv
<1>12. CASE UNCHANGED vars
  <2>1. UNCHANGED <<tableVars, loopVars>>
    BY <1>12 DEF vars
  <2>2. CpuInv' /\ LockInv'
    BY <1>c, <1>l, <2>1 DEF CpuInv, LockInv, loopVars, idx
  <2>3. ForkInv' /\ NoSharedStack' /\ RunInv'
    BY <1>f, <1>n, <1>r, <2>1 DEF ForkInv, NoSharedStack, RunInv
  <2> QED BY <1>0, <2>2, <2>3 DEF IInv
<1>13. ASSUME NEW c \in Cpus, ProcStep(c), Quiet
       PROVE  IInv'
  BY <1>5, <1>6, <1>7, <1>8, <1>9, <1>10, <1>13 DEF ProcStep
<1> QED BY <1>2, <1>3, <1>4, <1>6, <1>11, <1>12, <1>13 DEF Next, Yield

LEMMA Inductive == Spec => []IInv
<1>1. IInv /\ [Next]_vars => IInv'
  BY IInvStep
<1> QED BY InitIInv, <1>1, PTL DEF Spec

\* Every variable keeps its C type; last_index, which CPUs write under no
\* lock, never leaves proc[].
THEOREM TypeCorrect == Spec => []TypeOK
<1>1. IInv => TypeOK
  BY DEF IInv
<1> QED BY Inductive, <1>1, PTL

\* No two CPUs are ever on the same kernel stack: p->lock covers the whole
\* switch, from setting p->state to the scheduler's side of swtch().
THEOREM StacksExclusive == Spec => []NoSharedStack
<1>1. IInv => NoSharedStack
  BY DEF IInv
<1> QED BY Inductive, <1>1, PTL

\* RUNNING means exactly that a CPU is running the process.
THEOREM RunningIsOnCpu == Spec => []RunningHasCpu
<1>1. IInv => RunningHasCpu
  BY DEF IInv, CpuInv, RunInv, RunningHasCpu
<1> QED BY Inductive, <1>1, PTL

\* The checks at the top of sched() never panic, as far as p->lock, the
\* number of p->locks held and p->state go.
THEOREM SchedNeverPanics == Spec => []SchedDiscipline
<1>1. IInv => SchedDiscipline
  BY DEF IInv, CpuInv, LockInv, SchedDiscipline, Held, OnStack
<1> QED BY Inductive, <1>1, PTL

-----------------------------------------------------------------------------
(* Refinement of the abstract dispatcher. *)

\* A slot whose lock is free, or held by a CPU that is not in sched(), shows
\* its own state.
LEMMA Visible ==
  ASSUME IInv, NEW p \in Slots,
         lock[p] \in Cpus => pc[lock[p]] # "sched"
  PROVE  visibleState[p] = state[p]
<1>1. ~ \E c \in Cpus : pc[c] = "sched" /\ cproc[c] = p
  BY DEF IInv, CpuInv, LockInv, OnStack
<1> QED BY <1>1 DEF visibleState

\* A step that changes what Dispatch sees of one slot only.
LEMMA OneVisible ==
  ASSUME NEW x \in Slots, NEW v, visibleState'[x] = v,
         \A p \in Slots : p # x => visibleState'[p] = visibleState[p]
  PROVE  visibleState' = [visibleState EXCEPT ![x] = v]
<1> DEFINE f == visibleState
           g == visibleState'
<1>1. f = [p \in Slots |-> f[p]] /\ g = [p \in Slots |-> g[p]]
  BY DEF visibleState
<1> HIDE DEF f, g
<1>2. g[x] = v /\ \A p \in Slots : p # x => g[p] = f[p]
  BY DEF f, g
<1>3. g = [f EXCEPT ![x] = v]
  BY <1>1, <1>2
<1> QED BY <1>3 DEF f, g

\* Every step of the lottery scheduler is a step of Dispatch or leaves what
\* Dispatch sees unchanged.
LEMMA StepSimulation == IInv /\ [Next]_vars => [D!Next]_(D!vars)
<1> SUFFICES ASSUME IInv, [Next]_vars
             PROVE  [D!Next]_(D!vars)
  OBVIOUS
<1>0. NoProc \notin Slots
  BY DEF Slots
<1>t. /\ state \in [Slots -> ProcState] /\ lock \in [Slots -> Cpus \cup {NoCpu}]
      /\ cproc \in [Cpus -> Slots \cup {NoProc}]
      /\ pc \in [Cpus -> {"scan", "resume", "run", "sched"}]
  BY DEF IInv, TypeOK, TableType
<1>i. CpuInv /\ LockInv /\ NoSharedStack /\ ForkInv
  BY DEF IInv
<1>v. DOMAIN visibleState = Slots /\ DOMAIN visibleState' = Slots
  BY DEF visibleState
\* What Dispatch sees of p depends on p->state and on who is in sched() with p.
<1>k. ASSUME NEW p \in Slots, state'[p] = state[p],
             \A d \in Cpus : (pc'[d] = "sched" /\ cproc'[d] = p)
                             <=> (pc[d] = "sched" /\ cproc[d] = p)
      PROVE  visibleState'[p] = visibleState[p]
  BY <1>k DEF visibleState
<1>u. ASSUME \A p \in Slots : visibleState'[p] = visibleState[p]
      PROVE  visibleState' = visibleState
  <2> DEFINE f == visibleState
             g == visibleState'
  <2>1. f = [p \in Slots |-> f[p]] /\ g = [p \in Slots |-> g[p]]
    BY DEF visibleState
  <2>2. \A p \in Slots : g[p] = f[p]
    BY <1>u
  <2> HIDE DEF f, g
  <2>3. g = f
    BY <2>1, <2>2
  <2> QED BY <2>3 DEF f, g
<1>1. ASSUME NEW c \in Cpus,
             \/ \E k \in Classes : Draw(c, k)
             \/ Skip(c) \/ NotFound(c) \/ Update(c) \/ (resume(c) /\ Quiet)
      PROVE  UNCHANGED D!vars
  <2>1. /\ UNCHANGED <<state, cproc>>
        /\ \A d \in Cpus : pc'[d] = "sched" <=> pc[d] = "sched"
    BY <1>1, <1>t DEF Draw, Skip, NotFound, Update, resume, tableVars
  <2> QED BY <1>k, <1>u, <2>1 DEF D!vars
<1>2. ASSUME NEW c \in Cpus, Dispatch(c)
      PROVE  D!Next
  <2> DEFINE p == idx(c)
  <2>1. /\ p \in Slots /\ state[p] = "RUNNABLE" /\ lock[p] = NoCpu
        /\ pc[c] = "scan" /\ cproc[c] = NoProc /\ swtch(c, p)
    BY <1>2, <1>0, <1>i, IdxType DEF Dispatch, CpuInv, IInv
  <2> HIDE DEF p
  <2>2. visibleState[p] = "RUNNABLE"
    BY <2>1, Visible
  <2>3. visibleState' = [visibleState EXCEPT ![p] = "RUNNING"]
    <3>1. visibleState'[p] = "RUNNING"
      BY <1>t, <2>1 DEF swtch, visibleState
    <3>2. /\ \A q \in Slots : q # p => state'[q] = state[q]
          /\ \A d \in Cpus : d # c => pc'[d] = pc[d] /\ cproc'[d] = cproc[d]
          /\ pc'[c] # "sched" /\ pc[c] # "sched"
      BY <1>t, <2>1 DEF swtch
    <3>3. \A q \in Slots : q # p => visibleState'[q] = visibleState[q]
      BY <1>k, <3>2
    <3> QED BY <2>1, <3>1, <3>3, OneVisible
  <2>4. D!Pick(c, p)
    BY <2>1, <2>2, <2>3 DEF D!Pick, swtch
  <2> QED BY <2>1, <2>4 DEF D!Next
<1>3. ASSUME NEW c \in Cpus, SwtchBack(c)
      PROVE  D!Next
  <2>1. /\ cproc[c] \in Slots /\ pc[c] = "sched"
        /\ state[cproc[c]] \in {"RUNNABLE", "SLEEPING", "ZOMBIE"}
    BY <1>3, <1>i DEF SwtchBack, swtched, CpuInv, OnStack
  <2>2. visibleState[cproc[c]] = "RUNNING"
    BY <2>1 DEF visibleState
  <2>3. visibleState' = [visibleState EXCEPT ![cproc[c]] = state[cproc[c]]]
    <3>1. /\ state' = state /\ pc'[c] # "sched"
          /\ \A d \in Cpus : d # c => pc'[d] = pc[d] /\ cproc'[d] = cproc[d]
      BY <1>3, <1>t DEF SwtchBack, swtched
    <3>2. ~ \E d \in Cpus : pc'[d] = "sched" /\ cproc'[d] = cproc[c]
      <4>1. \A d \in Cpus : d # c /\ pc[d] = "sched" => cproc[d] # cproc[c]
        BY <1>i, <2>1 DEF NoSharedStack, OnStack
      <4> QED BY <3>1, <4>1
    <3>3. visibleState'[cproc[c]] = state[cproc[c]]
      BY <2>1, <3>1, <3>2 DEF visibleState
    <3>4. \A p \in Slots : p # cproc[c] => visibleState'[p] = visibleState[p]
      BY <1>k, <3>1
    <3> QED BY <2>1, <3>3, <3>4, OneVisible
  <2>4. cproc' = [cproc EXCEPT ![c] = NoProc] /\ cproc[c] # NoProc
    BY <1>3, <1>0, <2>1 DEF SwtchBack, swtched
  <2>5. D!Leave(c, state[cproc[c]])
    BY <2>2, <2>3, <2>4 DEF D!Leave
  <2> QED BY <2>1, <2>5 DEF D!Next
<1>4. ASSUME NEW c \in Cpus, yield(c) \/ sleep(c) \/ exit(c)
      PROVE  UNCHANGED D!vars
  <2>1. PICK s : pc[c] = "run" /\ sched(c, s)
    BY <1>4 DEF yield, sleep, exit
  <2>2. cproc[c] \in Slots /\ state[cproc[c]] = "RUNNING"
    BY <1>i, <2>1 DEF CpuInv, OnStack
  <2>3. /\ cproc' = cproc /\ pc'[c] = "sched"
        /\ \A p \in Slots : p # cproc[c] => state'[p] = state[p]
        /\ \A d \in Cpus : d # c => pc'[d] = pc[d]
    BY <1>t, <2>1, <2>2 DEF sched
  <2>4. visibleState'[cproc[c]] = visibleState[cproc[c]]
    BY <2>2, <2>3 DEF visibleState
  <2>5. \A p \in Slots : p # cproc[c] => visibleState'[p] = visibleState[p]
    BY <1>k, <2>1, <2>3
  <2> QED BY <1>u, <2>3, <2>4, <2>5 DEF D!vars
<1>5. ASSUME NEW q \in Slots, NEW r, NEW s, lock[q] = NoCpu, state[q] = r,
             UNCHANGED <<pc, cproc>>, state' = [state EXCEPT ![q] = s]
      PROVE  D!Change(q, r, s)
  <2>1. visibleState[q] = r
    BY <1>5, Visible
  <2>2. ~ \E c \in Cpus : pc[c] = "sched" /\ cproc[c] = q
    BY <1>5, <1>i DEF CpuInv, LockInv, OnStack
  <2>3. visibleState'[q] = s
    BY <1>5, <1>t, <2>2 DEF visibleState
  <2>4. \A p \in Slots : p # q => visibleState'[p] = visibleState[p]
    BY <1>5, <1>k, <1>t
  <2>5. visibleState' = [visibleState EXCEPT ![q] = s]
    BY <2>3, <2>4, OneVisible
  <2> QED BY <1>5, <2>1, <2>5 DEF D!Change
<1>6. ASSUME NEW c \in Cpus, start(c), Quiet
      PROVE  D!Next
  <2> DEFINE q == np[cproc[c]]
  <2>1. q \in Slots /\ state[q] = "USED"
    <3>1. cproc[c] \in Slots
      BY <1>6, <1>i DEF start, CpuInv, OnStack
    <3> QED BY <1>6, <1>i, <3>1 DEF start, ForkInv, IInv, TypeOK, TableType
  <2>2. D!Change(q, "USED", "RUNNABLE")
    <3>1. /\ lock[q] = NoCpu /\ UNCHANGED <<pc, cproc>>
          /\ state' = [state EXCEPT ![q] = "RUNNABLE"]
      BY <1>6 DEF start
    <3> HIDE DEF q
    <3> QED BY Zenon, <1>5, <2>1, <3>1
  <2> QED BY <2>1, <2>2 DEF D!Next
<1>7. ASSUME NEW c \in Cpus, NEW q \in Slots, allocfail(c, q), Quiet
      PROVE  UNCHANGED D!vars
  <2>1. UNCHANGED <<state, cproc, pc>>
    BY <1>7 DEF allocfail
  <2> QED BY <1>k, <1>u, <2>1 DEF D!vars
<1>8. ASSUME NEW c \in Cpus, NEW q \in Slots, reap(c, q), Quiet
      PROVE  D!Next
  <2>1. D!Change(q, "ZOMBIE", "UNUSED")
    <3>1. /\ lock[q] = NoCpu /\ state[q] = "ZOMBIE" /\ UNCHANGED <<pc, cproc>>
          /\ state' = [state EXCEPT ![q] = "UNUSED"]
      BY <1>8 DEF reap
    <3> QED BY Zenon, <1>5, <3>1
  <2> QED BY <2>1 DEF D!Next
<1>9. ASSUME NEW c \in Cpus, NEW q \in Slots, wakeup(c, q), Quiet
      PROVE  D!Next
  <2>1. D!Change(q, "SLEEPING", "RUNNABLE")
    <3>1. /\ lock[q] = NoCpu /\ state[q] = "SLEEPING" /\ UNCHANGED <<pc, cproc>>
          /\ state' = [state EXCEPT ![q] = "RUNNABLE"]
      BY <1>9 DEF wakeup
    <3> QED BY Zenon, <1>5, <3>1
  <2> QED BY <2>1 DEF D!Next
<1>10. ASSUME NEW c \in Cpus, NEW q \in Slots, allocproc(c, q)
      PROVE  D!Next
  <2>1. D!Change(q, "UNUSED", "USED")
    <3>1. /\ lock[q] = NoCpu /\ state[q] = "UNUSED" /\ UNCHANGED <<pc, cproc>>
          /\ state' = [state EXCEPT ![q] = "USED"]
      BY <1>10 DEF allocproc
    <3> QED BY Zenon, <1>5, <3>1
  <2> QED BY <2>1 DEF D!Next
<1>11. CASE UNCHANGED vars
  <2>1. UNCHANGED <<state, cproc, pc>>
    BY <1>11 DEF vars, tableVars
  <2> QED BY <1>k, <1>u, <2>1 DEF D!vars
<1>12. ASSUME NEW c \in Cpus, ProcStep(c), Quiet
       PROVE  [D!Next]_(D!vars)
  BY <1>1, <1>4, <1>6, <1>7, <1>8, <1>9, <1>12 DEF ProcStep
<1>13. ASSUME NEW c \in Cpus, NEW q \in Slots, NEW k \in Used, Fork(c, q, k)
       PROVE  D!Next
  BY <1>10, <1>13 DEF Fork
<1> QED BY <1>1, <1>2, <1>3, <1>4, <1>11, <1>12, <1>13 DEF Next, Yield

\* scheduler_loteria implements the abstract dispatcher too, for every number of
\* CPUs and slots, whatever its unlocked last_index says.
THEOREM Refinement == Spec => Dispatches
<1>1. Init => D!Init
  <2> SUFFICES ASSUME Init PROVE D!Init
    OBVIOUS
  <2>1. 0 \in Slots
    BY DEF Slots
  <2>2. visibleState = [q \in Slots |-> IF q = 0 THEN "RUNNABLE" ELSE "UNUSED"]
    BY DEF Init, TableInit, visibleState
  <2> QED BY <2>1, <2>2 DEF D!Init, Init, TableInit
<1> QED BY Inductive, StepSimulation, <1>1, PTL DEF Spec, Dispatches, D!Spec

-----------------------------------------------------------------------------
(* Round robin inside a class, with one CPU. *)

\* A scan that is not at q moves one slot away from it; one that is at q has
\* come as far as it can.
LEMMA DistNext ==
  ASSUME NEW q \in Slots, NEW x \in Slots
  PROVE  /\ Dist(q, x) \in 0 .. NPROC - 1
         /\ Dist(q, x) = NPROC - 1 <=> x = q
         /\ x # q => Dist(q, (x + 1) % NPROC) = Dist(q, x) + 1
<1>1. q \in 0 .. NPROC - 1 /\ x \in 0 .. NPROC - 1
  BY DEF Slots
<1>2. (x + 1) % NPROC = IF x + 1 = NPROC THEN 0 ELSE x + 1
  BY <1>1
<1> QED BY <1>1, <1>2 DEF Dist

\* The slot the scan has reached when it has not come to q yet.
LEMMA DistAdd ==
  ASSUME NEW q \in Slots, NEW b \in Slots, NEW j \in Nat, Dist(q, b) + j < NPROC
  PROVE  Dist(q, (b + j) % NPROC) = Dist(q, b) + j
<1>1. q \in 0 .. NPROC - 1 /\ b \in 0 .. NPROC - 1 /\ Dist(q, b) \in 0 .. NPROC - 1
  BY DistNext DEF Slots
<1>2. b + j < 2 * NPROC
  BY <1>1
<1>3. (b + j) % NPROC = IF b + j < NPROC THEN b + j ELSE b + j - NPROC
  BY <1>1, <1>2
<1> QED BY <1>1, <1>3 DEF Dist

\* The place of the scan, seen from a waiting process it has not come to.
LEMMA ScanPlace ==
  ASSUME TypeOK, TurnInv, NEW c \in Cpus, NEW q \in Slots, NEW r \in ran[q],
         pc[c] = "scan", at[c] = "visit", classe_atual[c] = classe[q]
  PROVE  /\ Dist(q, r) \in Int /\ Dist(q, begin[c]) \in Int /\ i[c] \in Nat
         /\ Dist(q, r) < Dist(q, begin[c])
         /\ Dist(q, begin[c]) + i[c] < NPROC
         /\ Dist(q, idx(c)) = Dist(q, begin[c]) + i[c]
<1>1. begin[c] \in Slots /\ i[c] \in Nat /\ r \in Slots
  BY DEF TypeOK
<1>2. ~ Served(c)
  BY DEF Served, OnStack
<1>3. begin[c] = last_index[classe[q]]
  BY DEF TurnInv
<1>4. Dist(q, r) < Dist(q, begin[c]) /\ Dist(q, begin[c]) + i[c] < NPROC
  BY <1>2, <1>3 DEF TurnInv, Behind
<1>5. Dist(q, idx(c)) = Dist(q, begin[c]) + i[c]
  BY <1>1, <1>4, DistAdd DEF idx
<1>6. Dist(q, r) \in Int /\ Dist(q, begin[c]) \in Int
  BY <1>1, DistNext
<1> QED BY <1>1, <1>4, <1>5, <1>6

LEMMA TurnStep ==
  ASSUME \A c, d \in Cpus : c = d
  PROVE  IInv /\ TurnInv /\ [Next]_vars => TurnInv'
<1> SUFFICES ASSUME IInv, TurnInv, [Next]_vars
             PROVE  TurnInv'
  OBVIOUS
<1>t. /\ TypeOK /\ CpuInv /\ ForkInv
      /\ state \in [Slots -> ProcState] /\ classe \in [Slots -> Classes]
      /\ last_index \in [Classes -> Slots] /\ pc \in [Cpus -> {"scan", "resume", "run", "sched"}]
      /\ at \in [Cpus -> {"draw", "visit", "update"}] /\ classe_atual \in [Cpus -> Classes]
      /\ begin \in [Cpus -> Slots] /\ i \in [Cpus -> 0 .. NPROC] /\ ran \in [Slots -> SUBSET Slots]
  BY DEF IInv, TypeOK, TableType
<1>x. \A c \in Cpus : idx(c) \in Slots
  BY <1>t, IdxType
<1>r. \A q \in Slots : \A r \in ran[q] : state[q] = "RUNNABLE" /\ r \in Slots
  BY <1>t DEF TurnInv
\* Steps that leave the scheduler's variables alone.
<1>1. ASSUME UNCHANGED <<last_index, loopVars, ran>>,
             \A c \in Cpus : OnStack(c)' <=> OnStack(c),
             \A q \in Slots : state[q] = "RUNNABLE" => state'[q] = "RUNNABLE" /\ classe'[q] = classe[q]
      PROVE  TurnInv'
  <2>1. \A c \in Cpus : (Served(c)' <=> Served(c)) /\ idx(c)' = idx(c)
    BY <1>1 DEF Served, idx, loopVars
  <2>2. \A q \in Slots : \A r \in ran[q] : classe'[q] = classe[q]
    BY <1>1, <1>r
  <2>3. \A q \in Slots : state'[q] # "RUNNABLE" => ran'[q] = {}
    BY <1>1 DEF TurnInv
  <2>4. \A d \in Cpus : at'[d] = "visit" => begin'[d] = last_index'[classe_atual'[d]]
    BY <1>1 DEF TurnInv, loopVars
  <2>5. ASSUME NEW d \in Cpus, NEW q \in Slots, NEW r \in ran'[q]
        PROVE  Behind(d, q, r)'
    <3>1. r \in ran[q] /\ Behind(d, q, r)
      BY <1>1, <2>5 DEF TurnInv
    <3>2. classe'[q] = classe[q]
      BY <2>2, <3>1
    <3> QED BY <1>1, <2>1, <3>1, <3>2 DEF Behind, loopVars, Dist
  <2> QED BY <2>3, <2>4, <2>5 DEF TurnInv
\* Steps of the scheduler on the one CPU.
<1>2. ASSUME NEW c \in Cpus,
             at'[c] = "visit" => begin'[c] = last_index'[classe_atual'[c]],
             \A q \in Slots : state'[q] # "RUNNABLE" => ran'[q] = {},
             \A q \in Slots : \A r \in ran'[q] : Behind(c, q, r)'
      PROVE  TurnInv'
  <2>1. \A d \in Cpus : d = c
    OBVIOUS
  <2> QED BY <1>2, <2>1 DEF TurnInv
<1>3. ASSUME NEW c \in Cpus, NEW k \in Classes, Draw(c, k)
      PROVE  TurnInv'
  <2>1. /\ pc[c] = "scan" /\ at[c] = "draw" /\ classe_atual'[c] = k /\ begin'[c] = last_index[k]
        /\ i'[c] = 0 /\ at'[c] = "visit" /\ pc' = pc
        /\ UNCHANGED <<state, classe, last_index, ran>>
    BY <1>3, <1>t DEF Draw, tableVars
  <2>2. ~ Served(c) /\ ~ Served(c)'
    BY <2>1 DEF Served, OnStack
  <2>3. \A q \in Slots : \A r \in ran[q] : Dist(q, r) < Dist(q, last_index[classe[q]])
    BY <2>2 DEF TurnInv, Behind
  <2>4. \A q \in Slots : Dist(q, last_index[k]) + 0 < NPROC
    BY <1>t, DistNext
  <2>5. \A q \in Slots : state'[q] # "RUNNABLE" => ran'[q] = {}
    BY Zenon, <2>1 DEF TurnInv, Behind
  <2>b. \A q \in Slots : \A r \in ran'[q] : Behind(c, q, r)'
    BY ZenonT(60), <2>1, <2>2, <2>3, <2>4, <2>5 DEF Behind, Dist
  <2> QED BY <1>2, <2>1, <2>2, <2>3, <2>4, <2>5, <2>b
<1>4. ASSUME NEW c \in Cpus, Skip(c)
      PROVE  TurnInv'
  <2>1. /\ pc[c] = "scan" /\ at[c] = "visit" /\ at'[c] = "visit" /\ pc' = pc
        /\ i'[c] = i[c] + 1
        /\ ~ (state[idx(c)] = "RUNNABLE" /\ classe[idx(c)] = classe_atual[c])
        /\ UNCHANGED <<state, classe, classe_atual, begin, last_index, ran>>
    BY <1>4, <1>t DEF Skip, tableVars
  <2>2. ~ Served(c) /\ ~ Served(c)'
    BY <2>1 DEF Served, OnStack
  <2>3. \A q \in Slots : \A r \in ran[q] : Dist(q, r) < Dist(q, last_index[classe[q]])
    BY <2>2 DEF TurnInv, Behind
  <2>4. ASSUME NEW q \in Slots, NEW r \in ran[q], classe_atual[c] = classe[q]
        PROVE  Dist(q, begin[c]) + (i[c] + 1) < NPROC
    <3>1. /\ Dist(q, begin[c]) \in Int /\ i[c] \in Nat
          /\ Dist(q, begin[c]) + i[c] < NPROC
          /\ Dist(q, idx(c)) = Dist(q, begin[c]) + i[c]
      BY <1>t, <2>1, <2>4, ScanPlace
    <3>2. idx(c) # q
      BY <1>r, <2>1, <2>4
    <3>3. Dist(q, idx(c)) # NPROC - 1
      BY <1>x, <3>2, DistNext
    <3> QED BY <3>1, <3>3
  <2>5. /\ \A q \in Slots : state'[q] # "RUNNABLE" => ran'[q] = {}
        /\ begin[c] = last_index[classe_atual[c]]
    BY <2>1 DEF TurnInv, Behind
  <2>b. \A q \in Slots : \A r \in ran'[q] : Behind(c, q, r)'
    BY <2>1, <2>2, <2>3, <2>4, <2>5 DEF Behind, Dist
  <2> QED BY Zenon, <1>2, <2>1, <2>2, <2>3, <2>4, <2>5, <2>b
<1>5. ASSUME NEW c \in Cpus, NotFound(c)
      PROVE  TurnInv'
  <2>1. /\ pc[c] = "scan" /\ at[c] = "visit" /\ at'[c] = "draw" /\ pc' = pc
        /\ UNCHANGED <<state, classe, classe_atual, begin, last_index, ran>>
    BY <1>5, <1>t DEF NotFound, tableVars
  <2>2. ~ Served(c) /\ ~ Served(c)'
    BY <2>1 DEF Served, OnStack
  <2>3. \A q \in Slots : \A r \in ran[q] : Dist(q, r) < Dist(q, last_index[classe[q]])
    BY <2>2 DEF TurnInv, Behind
  <2>4. \A q \in Slots : state'[q] # "RUNNABLE" => ran'[q] = {}
    BY <2>1 DEF TurnInv, Behind
  <2>b. \A q \in Slots : \A r \in ran'[q] : Behind(c, q, r)'
    BY ZenonT(60), <2>1, <2>2, <2>3, <2>4 DEF Behind, Dist
  <2> QED BY <1>2, <2>1, <2>2, <2>3, <2>4, <2>b
<1>6. ASSUME NEW c \in Cpus, Dispatch(c)
      PROVE  TurnInv'
  <2> DEFINE p == idx(c)
  <2>1. /\ pc[c] = "scan" /\ at[c] = "visit" /\ at'[c] = "visit" /\ pc'[c] = "resume"
        /\ state[p] = "RUNNABLE" /\ classe[p] = classe_atual[c]
        /\ UNCHANGED <<classe, classe_atual, begin, i, last_index>>
        /\ idx(c)' = p
    BY <1>6, <1>t DEF Dispatch, swtch, loopVars, idx
  <2>2. /\ p \in Slots
        /\ \A q \in Slots : q # p => state'[q] = state[q]
    BY <1>6, <1>t, <1>x DEF Dispatch, swtch
  <2>3. ran' = [q \in Slots |-> IF q = p THEN {}
                                ELSE IF state[q] = "RUNNABLE" /\ classe[q] = classe[p]
                                     THEN ran[q] \cup {p}
                                     ELSE ran[q]]
    BY <1>6 DEF Dispatch, Overtake
  <2> HIDE DEF p
  <2>4. ~ Served(c) /\ Served(c)'
    BY <2>1 DEF Served, OnStack
  <2>5. /\ ran'[p] = {}
        /\ \A q \in Slots : q # p /\ state[q] # "RUNNABLE" => ran'[q] = ran[q]
        /\ \A q \in Slots : q # p /\ classe[q] # classe[p] => ran'[q] = ran[q]
        /\ \A q \in Slots : \A r \in ran'[q] : r = p \/ r \in ran[q]
    BY <2>2, <2>3
  <2>6. \A q \in Slots : state'[q] # "RUNNABLE" => ran'[q] = {}
    BY <2>2, <2>5 DEF TurnInv, Behind
  <2>7. ASSUME NEW q \in Slots, NEW r \in ran'[q], classe_atual[c] = classe[q]
        PROVE  p # q /\ Dist(q, r) <= Dist(q, p)
    <3>1. p # q
      BY <2>5, <2>7
    <3>2. Dist(q, p) \in Int
      BY <2>2, DistNext
    <3>3. CASE r = p
      BY <3>1, <3>2, <3>3
    <3>4. CASE r \in ran[q]
      <4>1. /\ Dist(q, r) \in Int /\ Dist(q, begin[c]) \in Int /\ i[c] \in Nat
            /\ Dist(q, r) < Dist(q, begin[c])
            /\ Dist(q, p) = Dist(q, begin[c]) + i[c]
        BY <1>t, <2>1, <2>7, <3>4, ScanPlace DEF p
      <4> QED BY <3>1, <4>1
    <3> QED BY <2>5, <3>3, <3>4
  <2>8. ASSUME NEW q \in Slots, NEW r \in ran'[q], classe_atual[c] # classe[q]
        PROVE  Dist(q, r) < Dist(q, last_index[classe[q]])
    <3>1. r \in ran[q]
      BY Zenon, <2>1, <2>5, <2>8
    <3> QED BY Zenon, <2>4, <3>1 DEF TurnInv, Behind
  <2>9. begin[c] = last_index[classe_atual[c]]
    BY Zenon, <2>1 DEF TurnInv, Behind
  <2>b. \A q \in Slots : \A r \in ran'[q] : Behind(c, q, r)'
    BY <2>1, <2>4, <2>6, <2>7, <2>8, <2>9 DEF Behind, Dist
  <2> QED BY Zenon, <1>2, <2>1, <2>4, <2>6, <2>7, <2>8, <2>9, <2>b
<1>7. ASSUME NEW c \in Cpus, SwtchBack(c)
      PROVE  TurnInv'
  <2>1. /\ pc[c] = "sched" /\ at'[c] = "update" /\ idx(c)' = idx(c)
        /\ UNCHANGED <<state, classe, classe_atual, begin, i, last_index, ran>>
    BY <1>7, <1>t DEF SwtchBack, swtched, idx
  <2>2. Served(c) /\ Served(c)'
    BY <2>1 DEF Served, OnStack
  <2>3. \A q \in Slots : \A r \in ran[q] :
          /\ classe_atual[c] = classe[q] => idx(c) # q /\ Dist(q, r) <= Dist(q, idx(c))
          /\ classe_atual[c] # classe[q] => Dist(q, r) < Dist(q, last_index[classe[q]])
    BY <2>2 DEF TurnInv, Behind
  <2>4. \A q \in Slots : state'[q] # "RUNNABLE" => ran'[q] = {}
    BY <2>1 DEF TurnInv, Behind
  <2>b. \A q \in Slots : \A r \in ran'[q] : Behind(c, q, r)'
    BY <2>1, <2>2, <2>3, <2>4 DEF Behind, Dist
  <2> QED BY Zenon, <1>2, <2>1, <2>2, <2>3, <2>4, <2>b
<1>8. ASSUME NEW c \in Cpus, Update(c)
      PROVE  TurnInv'
  <2>1. /\ pc[c] = "scan" /\ at[c] = "update" /\ at'[c] = "draw" /\ pc' = pc
        /\ last_index' = [last_index EXCEPT ![classe_atual[c]] = (idx(c) + 1) % NPROC]
        /\ UNCHANGED <<state, classe, ran>>
    BY <1>8, <1>t DEF Update, tableVars
  <2>2. Served(c) /\ ~ Served(c)'
    BY <2>1 DEF Served, OnStack
  <2>3. ASSUME NEW q \in Slots, NEW r \in ran[q]
        PROVE  Dist(q, r) < Dist(q, last_index'[classe[q]])
    <3>1. CASE classe_atual[c] = classe[q]
      <4>1. idx(c) # q /\ Dist(q, r) <= Dist(q, idx(c))
        BY Zenon, <2>2, <2>3, <3>1 DEF TurnInv, Behind
      <4>2. Dist(q, (idx(c) + 1) % NPROC) = Dist(q, idx(c)) + 1 /\ Dist(q, idx(c)) \in Int
        BY <1>x, <4>1, DistNext
      <4>3. Dist(q, r) \in Int
        BY <1>r, DistNext
      <4>4. last_index'[classe[q]] = (idx(c) + 1) % NPROC
        BY <1>t, <2>1, <3>1
      <4> QED BY <4>1, <4>2, <4>3, <4>4
    <3>2. CASE classe_atual[c] # classe[q]
      <4>1. Dist(q, r) < Dist(q, last_index[classe[q]])
        BY <2>3, <3>2 DEF TurnInv, Behind
      <4>2. last_index'[classe[q]] = last_index[classe[q]]
        BY <1>t, <2>1, <3>2
      <4> QED BY <4>1, <4>2
    <3> QED BY <3>1, <3>2
  <2>4. \A q \in Slots : state'[q] # "RUNNABLE" => ran'[q] = {}
    BY Zenon, <2>1 DEF TurnInv, Behind
  <2>b. \A q \in Slots : \A r \in ran'[q] : Behind(c, q, r)'
    BY <2>1, <2>2, <2>3, <2>4 DEF Behind, Dist
  <2> QED BY Zenon, <1>2, <2>1, <2>2, <2>3, <2>4, <2>b
<1>9. ASSUME NEW c \in Cpus, yield(c) \/ sleep(c) \/ exit(c), Quiet
      PROVE  TurnInv'
  <2>1. PICK s : pc[c] = "run" /\ sched(c, s)
    BY <1>9 DEF yield, sleep, exit
  <2>2. cproc[c] \in Slots /\ state[cproc[c]] = "RUNNING"
    BY <1>t, <2>1 DEF CpuInv, OnStack
  <2>3. /\ \A d \in Cpus : OnStack(d)' <=> OnStack(d)
        /\ \A q \in Slots : state[q] = "RUNNABLE" => state'[q] = "RUNNABLE"
    BY <1>t, <2>1, <2>2 DEF sched, OnStack
  <2> QED BY Zenon, <1>1, <1>9, <2>3 DEF Quiet
<1>10. ASSUME NEW c \in Cpus, ProcStep(c), Quiet
      PROVE  TurnInv'
  <2>1. CASE exit(c)
    BY <1>9, <1>10, <2>1
  <2>2. CASE resume(c)
    <3>1. state' = state /\ \A d \in Cpus : OnStack(d)' <=> OnStack(d)
      BY <1>t, <2>2 DEF resume, OnStack
    <3> QED BY <1>1, <1>10, <3>1 DEF Quiet
  <2>3. CASE start(c)
    <3>1. pc' = pc /\ \A q \in Slots : state[q] = "RUNNABLE" => state'[q] = "RUNNABLE"
      BY <1>t, <2>3 DEF start
    <3> QED BY <1>1, <1>10, <3>1 DEF Quiet, OnStack
  <2>4. ASSUME NEW q \in Slots, allocfail(c, q) \/ reap(c, q) \/ wakeup(c, q)
        PROVE  TurnInv'
    <3>1. pc' = pc /\ \A p \in Slots : state[p] = "RUNNABLE" => state'[p] = "RUNNABLE"
      BY <1>t, <2>4 DEF allocfail, reap, wakeup
    <3> QED BY <1>1, <1>10, <3>1 DEF Quiet, OnStack
  <2> QED BY <1>10, <2>1, <2>2, <2>3, <2>4 DEF ProcStep
<1>11. ASSUME NEW c \in Cpus, NEW q \in Slots, NEW k \in Used, Fork(c, q, k)
      PROVE  TurnInv'
  <2>1. /\ pc' = pc /\ UNCHANGED <<last_index, loopVars, ran>>
        /\ \A p \in Slots : state[p] = "RUNNABLE" => state'[p] = "RUNNABLE" /\ classe'[p] = classe[p]
    BY <1>t, <1>11 DEF Fork, allocproc
  <2> QED BY <1>1, <2>1 DEF OnStack
<1>12. CASE UNCHANGED vars
  <2>1. UNCHANGED <<pc, state, classe, last_index, loopVars, ran>>
    BY <1>12 DEF vars, tableVars
  <2> QED BY <1>1, <2>1 DEF OnStack
<1> QED BY <1>3, <1>4, <1>5, <1>6, <1>7, <1>8, <1>9, <1>10, <1>11, <1>12 DEF Next, Yield

\* With one CPU, scheduler_loteria serves the processes of a class in turn:
\* while one of them waits, none is started twice.  (With two CPUs it does not,
\* because last_index is written after the lock is gone.)
THEOREM OneCpuRoundRobin ==
  ASSUME \A c, d \in Cpus : c = d
  PROVE  Spec => RoundRobin
<1>1. Init => TurnInv
  <2> SUFFICES ASSUME Init PROVE TurnInv
    OBVIOUS
  <2>1. /\ \A c \in Cpus : at[c] = "draw"
        /\ \A q \in Slots : ran[q] = {}
    BY DEF Init
  <2> QED BY <2>1 DEF TurnInv
<1>2. IInv /\ TurnInv /\ [Next]_vars =>
        [\A p, q \in Slots :
           /\ p # q /\ classe[p] = classe[q]
           /\ state[q] = "RUNNABLE"
           /\ state[p] = "RUNNABLE" /\ state'[p] = "RUNNING"
           => p \notin ran[q]]_vars
  <2> SUFFICES ASSUME IInv, TurnInv, Next, NEW p \in Slots, NEW q \in Slots,
                      p # q, classe[p] = classe[q], state[q] = "RUNNABLE",
                      state[p] = "RUNNABLE", state'[p] = "RUNNING", p \in ran[q]
               PROVE  FALSE
    OBVIOUS
  <2>t. state \in [Slots -> ProcState] /\ TypeOK
    BY DEF IInv, TypeOK, TableType
  <2>1. PICK c \in Cpus : Dispatch(c)
    <3>1. ASSUME NEW c \in Cpus, NEW k \in Classes, Draw(c, k) PROVE FALSE
      BY <3>1 DEF Draw, tableVars
    <3>2. ASSUME NEW c \in Cpus, Skip(c) \/ NotFound(c) \/ SwtchBack(c) \/ Update(c) PROVE FALSE
      BY <3>2 DEF Skip, NotFound, SwtchBack, Update, swtched, tableVars
    <3>3. ASSUME NEW c \in Cpus, yield(c) \/ sleep(c) \/ exit(c) PROVE FALSE
      BY <2>t, <3>3 DEF yield, sleep, exit, sched
    <3>4. ASSUME NEW c \in Cpus, resume(c) \/ start(c) PROVE FALSE
      BY <2>t, <3>4 DEF resume, start
    <3>5. ASSUME NEW c \in Cpus, NEW x \in Slots, allocfail(c, x) \/ reap(c, x) \/ wakeup(c, x)
          PROVE  FALSE
      BY <2>t, <3>5 DEF allocfail, reap, wakeup
    <3>6. ASSUME NEW c \in Cpus, NEW x \in Slots, NEW k \in Used, Fork(c, x, k) PROVE FALSE
      BY <2>t, <3>6 DEF Fork, allocproc
    <3> QED BY Zenon, <3>1, <3>2, <3>3, <3>4, <3>5, <3>6 DEF Next, Yield, ProcStep
  <2>2. idx(c) = p
    BY Zenon, <2>t, <2>1 DEF Dispatch, swtch
  <2>3. pc[c] = "scan" /\ at[c] = "visit" /\ classe_atual[c] = classe[q]
    BY Zenon, <2>1, <2>2 DEF Dispatch
  <2>4. /\ Dist(q, p) \in Int /\ Dist(q, begin[c]) \in Int /\ i[c] \in Nat
        /\ Dist(q, p) < Dist(q, begin[c])
        /\ Dist(q, p) = Dist(q, begin[c]) + i[c]
    BY <2>t, <2>2, <2>3, ScanPlace
  <2> QED BY <2>4
<1> QED BY Inductive, TurnStep, <1>1, <1>2, PTL DEF Spec, RoundRobin
=============================================================================
