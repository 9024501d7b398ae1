----------------------------- MODULE Interrupts -----------------------------
(***************************************************************************)
(* Spinlocks and interrupts: acquire(), release(), push_off() and          *)
(* pop_off() of kernel/spinlock.c under the timer interrupt of             *)
(* kernel/trap.c, with sched() carrying intena from CPU to CPU and         *)
(* sys_sleep() of kernel/sysproc.c waiting for ticks.                      *)
(*                                                                         *)
(* Every kernel thread and every CPU's scheduler has a stack of code       *)
(* positions: the top one runs, an interrupt pushes another.  An acquire() *)
(* is two steps, push_off() and the swap that succeeds; between them the   *)
(* CPU spins.  The scheduler takes any RUNNABLE thread.                    *)
(***************************************************************************)
EXTENDS Integers, Sequences, FiniteSets

CONSTANTS
  CPUs, CPU0, NoCPU,
  Kthreads,          \* processes, each one kernel thread
  TickMod,           \* 2^32 in the code: ticks is a uint
  MaxTicks,          \* bound: ticks in a behaviour
  MaxSleep           \* bound: the largest n of sleep(n)

ASSUME InterruptsAssumption ==
  /\ CPU0 \in CPUs /\ NoCPU \notin CPUs
  /\ CPUs \cap Kthreads = {} /\ "tickslock" \notin Kthreads
  /\ MaxTicks \in Nat /\ MaxSleep \in Nat /\ TickMod \in Nat
  /\ MaxTicks + MaxSleep < TickMod

Locks == {"tickslock"} \cup Kthreads    \* p->lock is named by its process

VARIABLES
  intr, noff, intena,    \* per CPU: sstatus.SIE, cpu.noff, cpu.intena
  holder,                \* per lock: lk->locked and lk->cpu
  on,                    \* per CPU: whose code runs, a thread's or its scheduler's
  at,                    \* stack of code positions
  saved,                 \* per thread: the local intena of sched()
  kstate,                \* p->state
  pick,                  \* per CPU: the scheduler's p
  ticks, ticks0, n,      \* sys_sleep(): its locals
  fatal,                 \* p->killed
  elapsed, total         \* ticks since ticks0 was read, and in the whole run

cpuVars == <<intr, noff, intena>>
clockVars == <<ticks, ticks0, n, elapsed, total>>
irqVars == <<cpuVars, holder, on, at, saved, kstate, pick, clockVars, fatal>>

InterruptsInit ==
  /\ intr = [c \in CPUs |-> FALSE]
  /\ noff = [c \in CPUs |-> 0] /\ intena = [c \in CPUs |-> FALSE]
  /\ holder = [l \in Locks |-> NoCPU]
  /\ on = [c \in CPUs |-> c]
  /\ at = [x \in CPUs \cup Kthreads |-> IF x \in CPUs THEN <<"s_top">> ELSE <<"forkret">>]
  /\ saved = [t \in Kthreads |-> FALSE]
  /\ kstate = [t \in Kthreads |-> "RUNNABLE"]
  /\ pick \in [CPUs -> Kthreads]
  /\ ticks = TickMod - 1
  /\ ticks0 = [t \in Kthreads |-> 0] /\ n = [t \in Kthreads |-> 0]
  /\ fatal = [t \in Kthreads |-> FALSE]
  /\ elapsed = [t \in Kthreads |-> 0] /\ total = 0

\* CPU c is about to execute l; it goes on at m.
Runs(c, l) == Head(at[on[c]]) = l
Next_(c, m) == at' = [at EXCEPT ![on[c]] = <<m>> \o Tail(@)]
Idle(c) == on[c] \in CPUs

-----------------------------------------------------------------------------
(* kernel/spinlock.c *)

\* Where the code calls acquire(), and where it spins.
AcquireAt == [sys    |-> "sys_spin",   again   |-> "again_spin", nap   |-> "nap_spin",
              h_tick |-> "tick_spin",  h_yield |-> "yield_spin", s_scan |-> "scan_spin"]
SpinAt == [sys_spin  |-> "sys_held",  again_spin |-> "loop",       nap_spin |-> "nap_held",
           tick_spin |-> "tick_held", yield_spin |-> "yield_held", scan_spin |-> "scan_held"]

Wanted(c) ==
  CASE Head(at[on[c]]) \in {"sys_spin", "again_spin", "tick_spin"} -> "tickslock"
    [] Head(at[on[c]]) \in {"nap_spin", "yield_spin"} -> on[c]
    [] OTHER -> pick[c]

\* Mutant: acquire() leaves interrupts on.
intr_off_not(c) == UNCHANGED intr

intr_off(c) == intr' = [intr EXCEPT ![c] = FALSE]

push_off(c) ==
  /\ Head(at[on[c]]) \in DOMAIN AcquireAt
  /\ IF Runs(c, "s_scan") THEN \E t \in Kthreads : pick' = [pick EXCEPT ![c] = t]
                          ELSE UNCHANGED pick
  /\ Next_(c, AcquireAt[Head(at[on[c]])])
  /\ intr_off(c)
  /\ intena' = [intena EXCEPT ![c] = IF noff[c] = 0 THEN intr[c] ELSE @]
  /\ noff' = [noff EXCEPT ![c] = @ + 1]
  /\ UNCHANGED <<holder, on, saved, kstate, clockVars, fatal>>

\* The swap returns 0.
acquire(c) ==
  /\ Head(at[on[c]]) \in DOMAIN SpinAt
  /\ holder[Wanted(c)] = NoCPU
  /\ holder' = [holder EXCEPT ![Wanted(c)] = c]
  /\ Next_(c, SpinAt[Head(at[on[c]])])
  /\ UNCHANGED <<cpuVars, on, saved, kstate, pick, clockVars, fatal>>

\* Mutant: the first pop_off() turns interrupts on again.
LastPop_any(c) == TRUE

\* noff becomes 0.
LastPop(c) == noff[c] = 1

\* pop_off(), with the value of intena.
pop_off(c, ena) ==
  /\ noff' = [noff EXCEPT ![c] = @ - 1]
  /\ intena' = [intena EXCEPT ![c] = ena]
  /\ intr' = [intr EXCEPT ![c] = @ \/ (LastPop(c) /\ ena)]

release(c, l) == holder' = [holder EXCEPT ![l] = NoCPU] /\ pop_off(c, intena[c])

-----------------------------------------------------------------------------
(* System calls and sleep(). *)

\* usertrap(): sleep(k) from user space; negative arguments count as 0.
ecall(c, k) ==
  /\ ~ Idle(c) /\ Runs(c, "user") /\ ~ fatal[on[c]]
  /\ n' = [n EXCEPT ![on[c]] = k]
  /\ Next_(c, "sys")
  /\ UNCHANGED <<cpuVars, holder, on, saved, kstate, pick, ticks, ticks0, elapsed, total, fatal>>

sys_sleep_start(c) ==
  /\ Runs(c, "sys_held")
  /\ ticks0' = [ticks0 EXCEPT ![on[c]] = ticks]
  /\ elapsed' = [elapsed EXCEPT ![on[c]] = 0]
  /\ Next_(c, "loop")
  /\ UNCHANGED <<cpuVars, holder, on, saved, kstate, pick, ticks, n, total, fatal>>

\* Mutant: the deadline is compared, not the difference.
Waiting_deadline(t) == ticks < (ticks0[t] + n[t]) % TickMod

\* ticks - ticks0 < n, on unsigned values.
Waiting(t) == (ticks - ticks0[t]) % TickMod < n[t]

\* The loop ends, or the process has been killed: release and return, in that
\* case to exit; another process takes its place.
sys_sleep_return(c) ==
  /\ Runs(c, "loop") /\ (~ Waiting(on[c]) \/ fatal[on[c]])
  /\ release(c, "tickslock")
  /\ fatal' = [fatal EXCEPT ![on[c]] = FALSE]
  /\ n' = [n EXCEPT ![on[c]] = 0] /\ ticks0' = [ticks0 EXCEPT ![on[c]] = 0]
  /\ elapsed' = [elapsed EXCEPT ![on[c]] = 0]
  /\ Next_(c, "user")
  /\ UNCHANGED <<on, saved, kstate, pick, ticks, total>>

sys_sleep_wait(c) ==
  /\ Runs(c, "loop") /\ Waiting(on[c]) /\ ~ fatal[on[c]]
  /\ Next_(c, "nap")
  /\ UNCHANGED <<cpuVars, holder, on, saved, kstate, pick, clockVars, fatal>>

\* sleep() has p->lock: release(lk), SLEEPING, sched().
sleep_release(c) ==
  /\ Runs(c, "nap_held")
  /\ release(c, "tickslock")
  /\ kstate' = [kstate EXCEPT ![on[c]] = "SLEEPING"]
  /\ Next_(c, "sched")
  /\ UNCHANGED <<on, saved, pick, clockVars, fatal>>

\* yield() has p->lock: RUNNABLE, sched().
yield(c) ==
  /\ Runs(c, "yield_held")
  /\ kstate' = [kstate EXCEPT ![on[c]] = "RUNNABLE"]
  /\ Next_(c, "sched")
  /\ UNCHANGED <<cpuVars, holder, on, saved, pick, clockVars, fatal>>

\* sched(): remember intena and switch to this CPU's scheduler.
sched(c) ==
  /\ Runs(c, "sched")
  /\ saved' = [saved EXCEPT ![on[c]] = intena[c]]
  /\ on' = [on EXCEPT ![c] = c]
  /\ Next_(c, "resume")
  /\ UNCHANGED <<cpuVars, holder, kstate, pick, clockVars, fatal>>

\* mycpu()->intena = intena, on the CPU the thread has come back to.
Restored(c) == saved[on[c]]

\* sched() returns on c: release(&p->lock).  sleep() goes on to take tickslock
\* again, yield() returns to the interrupt handler.
resume(c) ==
  /\ Runs(c, "resume")
  /\ holder' = [holder EXCEPT ![on[c]] = NoCPU]
  /\ pop_off(c, Restored(c))
  /\ saved' = [saved EXCEPT ![on[c]] = FALSE]
  /\ Next_(c, IF Len(at[on[c]]) = 1 THEN "again" ELSE "h_ret")
  /\ UNCHANGED <<on, kstate, pick, clockVars, fatal>>

\* The first time a thread runs; usertrapret() enables interrupts.
forkret(c) ==
  /\ Runs(c, "forkret")
  /\ release(c, on[c])
  /\ Next_(c, "user")
  /\ UNCHANGED <<on, saved, kstate, pick, clockVars, fatal>>

\* kill() of a process in sys_sleep(), on some CPU.
kill_thread(t) ==
  /\ holder[t] = NoCPU /\ ~ fatal[t] /\ n[t] > 0
  /\ fatal' = [fatal EXCEPT ![t] = TRUE]
  /\ kstate' = [kstate EXCEPT ![t] = IF @ = "SLEEPING" THEN "RUNNABLE" ELSE @]
  /\ UNCHANGED <<cpuVars, holder, on, at, saved, pick, clockVars>>

-----------------------------------------------------------------------------
(* The timer interrupt: kerneltrap() or usertrap(), devintr(), clockintr(). *)

\* The trap turns interrupts off; only CPU 0 counts ticks.
trap(c) ==
  /\ intr[c]
  /\ total < MaxTicks
  /\ intr' = [intr EXCEPT ![c] = FALSE]
  /\ at' = [at EXCEPT ![on[c]] = <<IF c = CPU0 THEN "h_tick" ELSE "h_back">> \o @]
  /\ UNCHANGED <<noff, intena, holder, on, saved, kstate, pick, clockVars, fatal>>

\* wakeup(&ticks).
TickWakeup == [t \in Kthreads |-> IF kstate[t] = "SLEEPING" THEN "RUNNABLE" ELSE kstate[t]]

\* clockintr(): ticks++, wakeup(&ticks), which takes the lock of every other
\* process in turn, release.
clockintr(c) ==
  /\ Runs(c, "tick_held")
  /\ \A t \in Kthreads \ {on[c]} : holder[t] = NoCPU
  /\ ticks' = (ticks + 1) % TickMod
  /\ elapsed' = [t \in Kthreads |-> IF n[t] > 0 THEN elapsed[t] + 1 ELSE 0]
  /\ total' = total + 1
  /\ kstate' = TickWakeup
  /\ release(c, "tickslock")
  /\ Next_(c, "h_back")
  /\ UNCHANGED <<on, saved, pick, ticks0, n, fatal>>

\* A process gives up the CPU; a scheduler goes on.
trap_yield(c) ==
  /\ Runs(c, "h_back")
  /\ Next_(c, IF Idle(c) THEN "h_ret" ELSE "h_yield")
  /\ UNCHANGED <<cpuVars, holder, on, saved, kstate, pick, clockVars, fatal>>

\* w_sstatus(sstatus), or usertrapret(): interrupts are on again.
trap_return(c) ==
  /\ Runs(c, "h_ret")
  /\ intr' = [intr EXCEPT ![c] = TRUE]
  /\ at' = [at EXCEPT ![on[c]] = Tail(@)]
  /\ UNCHANGED <<noff, intena, holder, on, saved, kstate, pick, clockVars, fatal>>

-----------------------------------------------------------------------------
(* The scheduler's loop. *)

scheduler_top(c) ==
  /\ Runs(c, "s_top")
  /\ intr' = [intr EXCEPT ![c] = TRUE]
  /\ Next_(c, "s_scan")
  /\ UNCHANGED <<noff, intena, holder, on, saved, kstate, pick, clockVars, fatal>>

\* RUNNABLE: switch to it with p->lock held.
scheduler_run(c) ==
  /\ Runs(c, "scan_held") /\ kstate[pick[c]] = "RUNNABLE"
  /\ kstate' = [kstate EXCEPT ![pick[c]] = "RUNNING"]
  /\ on' = [on EXCEPT ![c] = pick[c]]
  /\ Next_(c, "s_back")
  /\ UNCHANGED <<cpuVars, holder, saved, pick, clockVars, fatal>>

\* It is not, or it has come back: release.
scheduler_release(c) ==
  /\ \/ Runs(c, "s_back")
     \/ Runs(c, "scan_held") /\ kstate[pick[c]] # "RUNNABLE"
  /\ release(c, pick[c])
  /\ Next_(c, IF Runs(c, "s_back") THEN "s_top" ELSE "s_scan")
  /\ UNCHANGED <<on, saved, kstate, pick, clockVars, fatal>>

InterruptsNext ==
  \/ \E c \in CPUs :
       \/ push_off(c) \/ acquire(c)
       \/ sys_sleep_start(c) \/ sys_sleep_return(c) \/ sys_sleep_wait(c)
       \/ sleep_release(c) \/ yield(c) \/ sched(c) \/ resume(c) \/ forkret(c)
       \/ trap(c) \/ clockintr(c) \/ trap_yield(c) \/ trap_return(c)
       \/ scheduler_top(c) \/ scheduler_run(c) \/ scheduler_release(c)
       \/ \E k \in 0 .. MaxSleep : ecall(c, k)
  \/ \E t \in Kthreads : kill_thread(t)

InterruptsSpec == InterruptsInit /\ [][InterruptsNext]_irqVars

-----------------------------------------------------------------------------
(* Properties. *)

Holds(c) == {l \in Locks : holder[l] = c}
Spinning(c) == Head(at[on[c]]) \in DOMAIN SpinAt
InHandler(c) == Len(at[on[c]]) = 2

\* No interrupt arrives while its CPU has a lock or spins for one, and noff
\* counts exactly these, through nested acquires, handlers and switches.  And
\* intena belongs to the thread, not to the CPU: wherever a thread runs
\* without locks, interrupts are on outside a handler and off in one.
LocksMaskInterrupts ==
  \A c \in CPUs :
    /\ noff[c] = Cardinality(Holds(c)) + (IF Spinning(c) THEN 1 ELSE 0)
    /\ intr[c] => noff[c] = 0
    /\ ~ Idle(c) /\ noff[c] = 0 => (intr[c] <=> ~ InHandler(c))

\* The panics of acquire() and sched() are never reached: nobody spins for a
\* lock of its own CPU, such as a handler for the lock of the code it
\* interrupted, and sched() is called with one lock, p->lock.
NoSelfDeadlock ==
  \A c \in CPUs :
    /\ Spinning(c) => holder[Wanted(c)] # c
    /\ Runs(c, "sched") => noff[c] = 1 /\ holder[on[c]] = c /\ ~ intr[c]

\* sleep(n) returns 0 only after n ticks, also across the wrap of ticks; and
\* nobody sleeps on when they have passed.
SleepsLongEnough ==
  \A t \in Kthreads :
    /\ Head(at[t]) = "loop" /\ ~ Waiting(t) => elapsed[t] >= n[t]
    /\ kstate[t] = "SLEEPING" => elapsed[t] < n[t]
=============================================================================
