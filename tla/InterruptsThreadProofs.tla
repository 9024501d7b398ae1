---------------------- MODULE InterruptsThreadProofs ----------------------
(***************************************************************************)
(* The inductive invariant of Interrupts, and the steps of the threads and *)
(* of the schedulers, which preserve it.                                   *)
(*                                                                         *)
(* The code position on top of the running stack determines everything     *)
(* about a CPU: which locks it holds (HoldAt), cpu.noff (CountAt), whether *)
(* interrupts are on and what intena says (MaskAt).  What lies below the   *)
(* top is code that was interrupted, which has no lock and had interrupts  *)
(* on (CpuAt, ThreadAt).  SleepAt is about sys_sleep().                    *)
(***************************************************************************)
EXTENDS Interrupts, TLAPS

USE InterruptsAssumption

Contexts == CPUs \cup Kthreads

\* The code running in a context, and the code it has interrupted.
top == [x \in Contexts |-> Head(at[x])]
below == [x \in Contexts |-> IF Len(at[x]) = 2 THEN at[x][2] ELSE "none"]

\* Code of a thread without locks; of sys_sleep() from its first push_off();
\* of the interrupt handler; of its yield(); of the scheduler.
Plain == {"user", "sys", "again"}
Sleeping == {"sys_spin", "sys_held", "loop", "nap", "nap_spin", "nap_held", "again_spin"}
Handling == {"h_tick", "tick_spin", "tick_held", "h_back", "h_ret"}
Yielding == {"h_yield", "yield_spin", "yield_held"}
Scheduling == {"s_top", "s_scan", "scan_spin", "scan_held", "s_back"}
Positions == Plain \cup Sleeping \cup Handling \cup Yielding \cup Scheduling
               \cup {"sched", "resume", "forkret"}
Stacks == {s \in Seq(Positions) : Len(s) \in 1 .. 2}

\* Code that holds tickslock, its own p->lock, the p->lock of the
\* scheduler's choice; code in acquire().
TickHeld == {"sys_held", "loop", "nap", "nap_spin", "nap_held", "tick_held"}
OwnHeld == {"nap_held", "sched", "resume", "forkret", "yield_held"}
PickHeld == {"scan_held", "s_back"}
Spins == {"sys_spin", "again_spin", "nap_spin", "tick_spin", "yield_spin", "scan_spin"}

\* Every variable has its type.
Types ==
  /\ intr \in [CPUs -> BOOLEAN] /\ noff \in [CPUs -> Int] /\ intena \in [CPUs -> BOOLEAN]
  /\ holder \in [Locks -> CPUs \cup {NoCPU}]
  /\ on \in [CPUs -> Contexts] /\ at \in [Contexts -> Stacks]
  /\ saved \in [Kthreads -> BOOLEAN]
  /\ kstate \in [Kthreads -> {"RUNNABLE", "RUNNING", "SLEEPING"}]
  /\ pick \in [CPUs -> Kthreads] /\ fatal \in [Kthreads -> BOOLEAN]
  /\ ticks \in 0 .. TickMod - 1 /\ ticks0 \in [Kthreads -> 0 .. TickMod - 1]
  /\ n \in [Kthreads -> Nat] /\ elapsed \in [Kthreads -> Nat] /\ total \in Nat

\* The scheduler of CPU c is at code of its own, or a handler is that has
\* interrupted it; and the CPU runs it or the thread it has picked.
CpuAt(c) ==
  /\ on[c] = c \/ (on[c] \in Kthreads /\ top[c] = "s_back" /\ pick[c] = on[c])
  /\ \/ below[c] = "none" /\ top[c] \in Scheduling
     \/ below[c] \in {"s_top", "s_scan"} /\ top[c] \in Handling

\* No two CPUs run the same thread.
CpuInv == \A c \in CPUs : CpuAt(c) /\ \A d \in CPUs : on[c] = on[d] => c = d

\* A thread is at code of its own, or a handler is that has interrupted it;
\* it is on a CPU, RUNNING until it is about to leave, or it has left one in
\* sched(), with the intena of its code.
ThreadAt(t) ==
  /\ \/ below[t] = "none" /\ top[t] \in Plain \cup Sleeping \cup {"sched", "resume", "forkret"}
     \/ below[t] \in Plain /\ top[t] \in Handling \cup Yielding \cup {"sched", "resume"}
  /\ top[t] \in {"resume", "forkret"} \/ \E c \in CPUs : on[c] = t
  /\ \A c \in CPUs : on[c] = t => kstate[t] = "RUNNING" \/ top[t] = "sched"
  /\ top[t] = "resume" => (saved[t] <=> below[t] = "none")

ThreadInv == \A t \in Kthreads : ThreadAt(t)

\* The locks of a CPU are those its running code holds.
HoldAt(c) ==
  /\ holder["tickslock"] = c <=> top[on[c]] \in TickHeld
  /\ \A t \in Kthreads :
       holder[t] = c <=> \/ on[c] = t /\ top[on[c]] \in OwnHeld
                         \/ on[c] = c /\ top[on[c]] \in PickHeld /\ pick[c] = t

\* cpu.noff counts them, and the acquire() under way.
Count(l) == (IF l \in TickHeld THEN 1 ELSE 0)
            + (IF l \in OwnHeld \cup PickHeld THEN 1 ELSE 0) + (IF l \in Spins THEN 1 ELSE 0)
CountAt(c) == noff[c] = Count(top[on[c]])

\* Interrupts are on where no lock is held, outside the handler; and intena,
\* carried by sched() from CPU to CPU, says whether they were.
MaskAt(c) ==
  /\ intr[c] => top[on[c]] \in Plain \cup {"s_top", "s_scan"}
  /\ top[on[c]] \in Plain \cup {"s_scan"} => intr[c]
  /\ top[on[c]] \in Sleeping \cup {"scan_spin", "scan_held", "forkret"} => intena[c]
  /\ top[on[c]] \in {"tick_spin", "tick_held", "yield_spin", "yield_held"} => ~ intena[c]
  /\ top[on[c]] = "sched" => (intena[c] <=> below[on[c]] = "none")

LockInv == \A c \in CPUs : HoldAt(c) /\ CountAt(c) /\ MaskAt(c)

\* sys_sleep() has not read ticks yet.
Early == {"sys", "sys_spin", "sys_held"}

\* Only CPU 0 counts ticks.
TickAt(c) ==
  top[on[c]] \in {"h_tick", "tick_spin", "tick_held"} => c = CPU0 /\ total < MaxTicks

\* The ticks that have passed since ticks0, in the arithmetic of a uint that
\* wraps; and nobody goes to sleep when enough of them have.
SleepAt(t) ==
  /\ elapsed[t] <= total
  /\ n[t] > 0 /\ top[t] \notin Early /\ below[t] # "sys" =>
        ticks0[t] + elapsed[t] = ticks \/ ticks0[t] + elapsed[t] = ticks + TickMod
  /\ top[t] \in {"nap", "nap_spin", "nap_held"} => elapsed[t] < n[t]
  /\ kstate[t] = "SLEEPING" => elapsed[t] < n[t]

ClockInv ==
  total <= MaxTicks /\ (\A c \in CPUs : TickAt(c)) /\ (\A t \in Kthreads : SleepAt(t))

\* The inductive invariant.
IInv == Types /\ CpuInv /\ ThreadInv /\ LockInv /\ ClockInv

-----------------------------------------------------------------------------
(* The stacks. *)

\* A stack has a top.
LEMMA StackTop ==
  ASSUME NEW s \in Stacks
  PROVE  /\ s \in Seq(Positions) /\ s # << >>
         /\ Len(s) \in 1 .. 2
         /\ Head(s) = s[1] /\ s[1] \in Positions
         /\ Len(s) = 2 => s[2] \in Positions
<1>1. s \in Seq(Positions) /\ Len(s) \in 1 .. 2
  BY DEF Stacks
<1>2. Len(<< >>) = 0
  OBVIOUS
<1>3. ASSUME s = << >> PROVE FALSE
  <2>1. Len(s) = 0
    BY <1>2, <1>3
  <2> QED BY <1>1, <2>1
<1>4. s \in [1 .. Len(s) -> Positions]
  BY <1>1
<1>5. s[1] \in Positions /\ (Len(s) = 2 => s[2] \in Positions)
  BY <1>1, <1>4
<1>6. Head(s) = s[1]
  BY <1>1, <1>3
<1> QED BY <1>1, <1>3, <1>5, <1>6

\* A sequence of one or two positions is a stack, with these on top.
LEMMA IsStack ==
  ASSUME NEW s \in Seq(Positions), Len(s) \in 1 .. 2
  PROVE  s \in Stacks
BY DEF Stacks

LEMMA Single ==
  ASSUME NEW m \in Positions
  PROVE  <<m>> \in Seq(Positions) /\ Len(<<m>>) = 1 /\ <<m>>[1] = m
OBVIOUS

LEMMA Element ==
  ASSUME NEW u \in Seq(Positions), NEW s \in Seq(Positions), NEW i \in 1 .. Len(u) + Len(s)
  PROVE  (u \o s)[i] = IF i <= Len(u) THEN u[i] ELSE s[i - Len(u)]
OBVIOUS

LEMMA Joined ==
  ASSUME NEW m \in Positions, NEW s \in Seq(Positions), Len(s) \in 0 .. 1
  PROVE  /\ <<m>> \o s \in Stacks /\ Len(<<m>> \o s) - 1 = Len(s)
         /\ Head(<<m>> \o s) = m
         /\ Len(s) = 1 => (<<m>> \o s)[2] = s[1]
<1> DEFINE r == <<m>> \o s
<1>1. r \in Seq(Positions) /\ Len(r) - 1 = Len(s)
  OBVIOUS
<1>2. r[1] = m
  OBVIOUS
<1>3. ASSUME Len(s) = 1 PROVE r[2] = s[1]
  <2> DEFINE u == <<m>>
  <2>1. u \in Seq(Positions) /\ Len(u) = 1
    BY Single
  <2> HIDE DEF u
  <2>2. 2 \in 1 .. Len(u) + Len(s)
    BY <1>3, <2>1
  <2>3. (u \o s)[2] = s[1]
    BY <2>1, <2>2, Element
  <2> QED BY Zenon, <2>3 DEF u
<1> HIDE DEF r
<1>4. r \in Stacks
  <2> DEFINE k == Len(r)
             j == Len(s)
  <2>1. k \in Nat /\ j \in 0 .. 1 /\ k - 1 = j
    BY <1>1
  <2> HIDE DEF k, j
  <2>2. k \in 1 .. 2
    BY <2>1
  <2> QED BY Zenon, <1>1, <2>2, IsStack DEF k
<1>5. Head(r) = m
  BY <1>2, <1>4, StackTop
<1> QED BY <1>1, <1>2, <1>3, <1>4, <1>5 DEF r

\* What is under the top of a stack.
LEMMA Rest ==
  ASSUME NEW s \in Stacks
  PROVE  /\ Tail(s) \in Seq(Positions) /\ Len(Tail(s)) = Len(s) - 1
         /\ Len(s) = 2 => Tail(s)[1] = s[2]
<1>1. s \in Seq(Positions) /\ s # << >> /\ Len(s) \in 1 .. 2
  BY StackTop
<1>2. /\ Tail(s) \in Seq(Positions) /\ Len(Tail(s)) = Len(s) - 1
      /\ \A i \in 1 .. Len(Tail(s)) : Tail(s)[i] = s[i + 1]
  BY <1>1
<1>3. ASSUME Len(s) = 2 PROVE Tail(s)[1] = s[2]
  <2>1. 1 \in 1 .. Len(Tail(s))
    BY <1>2, <1>3
  <2> QED BY <1>2, <2>1
<1> QED BY <1>2, <1>3

\* Next_ changes the top of a stack,
LEMMA Replaced ==
  ASSUME NEW s \in Stacks, NEW m \in Positions
  PROVE  /\ <<m>> \o Tail(s) \in Stacks
         /\ Head(<<m>> \o Tail(s)) = m /\ Len(<<m>> \o Tail(s)) = Len(s)
         /\ Len(s) = 2 => (<<m>> \o Tail(s))[2] = s[2]
<1> DEFINE r == Tail(s)
<1>1. Len(s) \in 1 .. 2
  BY StackTop
<1>2. r \in Seq(Positions) /\ Len(r) = Len(s) - 1 /\ (Len(s) = 2 => r[1] = s[2])
  BY Rest
<1> HIDE DEF r
<1>3. /\ <<m>> \o r \in Stacks /\ Len(<<m>> \o r) - 1 = Len(r) /\ Head(<<m>> \o r) = m
      /\ Len(r) = 1 => (<<m>> \o r)[2] = r[1]
  <2>1. Len(r) \in 0 .. 1
    BY <1>1, <1>2
  <2> QED BY Zenon, <1>2, <2>1, Joined
<1> QED BY <1>1, <1>2, <1>3 DEF r

\* trap() pushes the handler on it,
LEMMA Pushed ==
  ASSUME NEW s \in Stacks, NEW m \in Positions, Len(s) = 1
  PROVE  /\ <<m>> \o s \in Stacks
         /\ Head(<<m>> \o s) = m /\ Len(<<m>> \o s) = 2 /\ (<<m>> \o s)[2] = Head(s)
<1>1. s \in Seq(Positions) /\ Len(s) \in 0 .. 1 /\ Head(s) = s[1]
  BY StackTop
<1>2. /\ <<m>> \o s \in Stacks /\ Len(<<m>> \o s) - 1 = Len(s)
      /\ Head(<<m>> \o s) = m /\ (<<m>> \o s)[2] = s[1]
  BY Zenon, <1>1, Joined
<1> QED BY <1>1, <1>2

\* and trap_return() pops it again.
LEMMA Popped ==
  ASSUME NEW s \in Stacks, Len(s) = 2
  PROVE  Tail(s) \in Stacks /\ Len(Tail(s)) = 1 /\ Head(Tail(s)) = s[2]
<1>1. Tail(s) \in Seq(Positions) /\ Len(Tail(s)) = 1 /\ Tail(s)[1] = s[2]
  BY Rest
<1>2. Len(Tail(s)) \in 1 .. 2
  BY <1>1
<1>3. Tail(s) \in Stacks
  BY Zenon, <1>1, <1>2, IsStack
<1> QED BY <1>1, <1>3, StackTop

-----------------------------------------------------------------------------
(* What an action does to the running code. *)

\* Nothing moves but the code of CPU c, no register changes but those of
\* CPU c, no lock changes hands but from or to CPU c.
Stays(c) == \A x \in Contexts : x # on[c] => top'[x] = top[x] /\ below'[x] = below[x]
Frame(c) ==
  \A d \in CPUs : d # c => /\ on'[d] = on[d] /\ pick'[d] = pick[d]
                           /\ intr'[d] = intr[d] /\ noff'[d] = noff[d] /\ intena'[d] = intena[d]
LockFrame(c) ==
  \A k \in Locks : \/ holder'[k] = holder[k]
                   \/ holder[k] \in {c, NoCPU} /\ holder'[k] \in {c, NoCPU}

\* CPU c goes on from l to m.
Go(c, l, m) ==
  /\ top[on[c]] = l /\ top'[on[c]] = m /\ below'[on[c]] = below[on[c]]
  /\ Stays(c) /\ at' \in [Contexts -> Stacks]

\* What top and below say of the stacks.
LEMMA Tops ==
  ASSUME Types
  PROVE  /\ top \in [Contexts -> Positions] /\ below \in [Contexts -> Positions \cup {"none"}]
         /\ \A x \in Contexts : /\ at[x] \in Stacks
                                /\ Head(at[x]) = top[x]
                                /\ Len(at[x]) = 1 <=> below[x] = "none"
                                /\ Len(at[x]) = 2 <=> below[x] # "none"
                                /\ Len(at[x]) = 2 => at[x][2] = below[x]
<1>1. "none" \notin Positions
  BY DEF Positions, Plain, Sleeping, Handling, Yielding, Scheduling
<1>2. at \in [Contexts -> Stacks]
  BY DEF Types
<1>3. ASSUME NEW x \in Contexts
      PROVE  /\ at[x] \in Stacks /\ top[x] = Head(at[x]) /\ top[x] \in Positions
             /\ Len(at[x]) \in 1 .. 2
             /\ Len(at[x]) = 1 => below[x] = "none"
             /\ Len(at[x]) = 2 => below[x] = at[x][2] /\ below[x] \in Positions
  <2>1. at[x] \in Stacks
    BY <1>2
  <2> QED BY <2>1, StackTop DEF top, below
<1>4. top \in [Contexts -> Positions] /\ below \in [Contexts -> Positions \cup {"none"}]
  <2>1. top = [x \in Contexts |-> top[x]] /\ below = [x \in Contexts |-> below[x]]
    BY DEF top, below
  <2>2. \A x \in Contexts : top[x] \in Positions /\ below[x] \in Positions \cup {"none"}
    BY <1>3
  <2> QED BY <2>1, <2>2
<1>5. ASSUME NEW x \in Contexts
      PROVE  /\ Len(at[x]) = 1 <=> below[x] = "none"
             /\ Len(at[x]) = 2 <=> below[x] # "none"
  BY <1>1, <1>3, <1>5
<1> QED BY <1>3, <1>4, <1>5

\* The stack of context y becomes s.
LEMMA Changed ==
  ASSUME Types, NEW y \in Contexts, NEW s \in Stacks, at' = [at EXCEPT ![y] = s]
  PROVE  /\ at' \in [Contexts -> Stacks]
         /\ top'[y] = Head(s) /\ below'[y] = (IF Len(s) = 2 THEN s[2] ELSE "none")
         /\ \A x \in Contexts : x # y => top'[x] = top[x] /\ below'[x] = below[x]
<1>1. at \in [Contexts -> Stacks]
  BY DEF Types
<1>2. /\ at' \in [Contexts -> Stacks]
      /\ \A x \in Contexts : at'[x] = IF x = y THEN s ELSE at[x]
  BY <1>1
<1>3. /\ top' = [x \in Contexts |-> Head(at'[x])]
      /\ below' = [x \in Contexts |-> IF Len(at'[x]) = 2 THEN at'[x][2] ELSE "none"]
  BY DEF top, below
<1>4. top'[y] = Head(s) /\ below'[y] = (IF Len(s) = 2 THEN s[2] ELSE "none")
  BY <1>2, <1>3
<1>5. ASSUME NEW x \in Contexts, x # y PROVE top'[x] = top[x] /\ below'[x] = below[x]
  BY <1>2, <1>3, <1>5 DEF top, below
<1> QED BY <1>2, <1>4, <1>5

\* CPU c goes on at m, from l.
LEMMA Goes ==
  ASSUME Types, NEW c \in CPUs, NEW l, NEW m \in Positions, Runs(c, l), Next_(c, m)
  PROVE  Go(c, l, m)
<1> DEFINE y == on[c]
           s == <<m>> \o Tail(at[y])
<1>1. y \in Contexts
  BY DEF Types
<1>2. /\ at[y] \in Stacks /\ Head(at[y]) = top[y]
      /\ Len(at[y]) = 2 => at[y][2] = below[y]
      /\ Len(at[y]) # 2 => below[y] = "none"
  BY <1>1, Tops
<1>3. s \in Stacks /\ Head(s) = m /\ Len(s) = Len(at[y]) /\ (Len(at[y]) = 2 => s[2] = at[y][2])
  BY <1>2, Replaced
<1>4. at' = [at EXCEPT ![y] = s]
  BY DEF Next_
<1>5. top[y] = l
  BY <1>2 DEF Runs
<1> HIDE DEF y, s
<1>6. (IF Len(s) = 2 THEN s[2] ELSE "none") = below[y]
  BY <1>2, <1>3
<1>7. /\ at' \in [Contexts -> Stacks] /\ top'[y] = m /\ below'[y] = below[y]
      /\ \A x \in Contexts : x # y => top'[x] = top[x] /\ below'[x] = below[x]
  BY Zenon, <1>1, <1>3, <1>4, <1>6, Changed
<1> QED BY <1>5, <1>7 DEF Go, Stays, y

\* acquire() calls push_off(), and then spins;
Calls(l, m) ==
  \/ l = "sys" /\ m = "sys_spin"
  \/ l = "again" /\ m = "again_spin"
  \/ l = "nap" /\ m = "nap_spin"
  \/ l = "h_tick" /\ m = "tick_spin"
  \/ l = "h_yield" /\ m = "yield_spin"
  \/ l = "s_scan" /\ m = "scan_spin"

\* and at last it has the lock.
Takes(l, m) ==
  \/ l = "sys_spin" /\ m = "sys_held"
  \/ l = "again_spin" /\ m = "loop"
  \/ l = "nap_spin" /\ m = "nap_held"
  \/ l = "tick_spin" /\ m = "tick_held"
  \/ l = "yield_spin" /\ m = "yield_held"
  \/ l = "scan_spin" /\ m = "scan_held"

LEMMA push_offGoes ==
  ASSUME Types, NEW c \in CPUs, push_off(c)
  PROVE  \E l, m \in Positions : Calls(l, m) /\ Go(c, l, m)
<1> DEFINE l == Head(at[on[c]])
           m == AcquireAt[l]
<1>1. l \in {"sys", "again", "nap", "h_tick", "h_yield", "s_scan"}
  <2>1. DOMAIN AcquireAt = {"sys", "again", "nap", "h_tick", "h_yield", "s_scan"}
    BY DEF AcquireAt
  <2> QED BY <2>1 DEF push_off
<1>2. Calls(l, m)
  BY <1>1 DEF Calls, AcquireAt
<1>3. Next_(c, m) /\ Runs(c, l)
  BY DEF push_off, Runs
<1> HIDE DEF l, m
<1>4. l \in Positions /\ m \in Positions
  BY <1>2 DEF Calls, Positions, Plain, Sleeping, Handling, Yielding, Scheduling
<1> QED BY <1>2, <1>3, <1>4, Goes

LEMMA acquireGoes ==
  ASSUME Types, NEW c \in CPUs, acquire(c)
  PROVE  \E l, m \in Positions : Takes(l, m) /\ Go(c, l, m)
<1> DEFINE l == Head(at[on[c]])
           m == SpinAt[l]
<1>1. l \in {"sys_spin", "again_spin", "nap_spin", "tick_spin", "yield_spin", "scan_spin"}
  <2>1. DOMAIN SpinAt
          = {"sys_spin", "again_spin", "nap_spin", "tick_spin", "yield_spin", "scan_spin"}
    BY DEF SpinAt
  <2> QED BY <2>1 DEF acquire
<1>2. Takes(l, m)
  BY <1>1 DEF Takes, SpinAt
<1>3. Next_(c, m) /\ Runs(c, l)
  BY DEF acquire, Runs
<1> HIDE DEF l, m
<1>4. l \in Positions /\ m \in Positions
  BY <1>2 DEF Takes, Positions, Plain, Sleeping, Handling, Yielding, Scheduling
<1> QED BY <1>2, <1>3, <1>4, Goes

\* The lock CPU c spins for.
LEMMA WantedIs ==
  ASSUME Types, NEW c \in CPUs
  PROVE  Wanted(c) = IF top[on[c]] \in {"sys_spin", "again_spin", "tick_spin"} THEN "tickslock"
                     ELSE IF top[on[c]] \in {"nap_spin", "yield_spin"} THEN on[c] ELSE pick[c]
<1>1. Head(at[on[c]]) = top[on[c]]
  BY Tops DEF Types
<1> QED BY <1>1 DEF Wanted

\* An interrupt comes to code without locks, which is not a handler,
Trap(c, h) ==
  /\ top[on[c]] \in Plain \cup {"s_top", "s_scan"} /\ below[on[c]] = "none"
  /\ top'[on[c]] = h /\ below'[on[c]] = top[on[c]]
  /\ Stays(c) /\ at' \in [Contexts -> Stacks]

LEMMA trapGoes ==
  ASSUME Types, CpuInv, ThreadInv, LockInv, NEW c \in CPUs, trap(c)
  PROVE  Trap(c, IF c = CPU0 THEN "h_tick" ELSE "h_back")
<1> DEFINE y == on[c]
           h == IF c = CPU0 THEN "h_tick" ELSE "h_back"
           s == <<h>> \o at[y]
<1>1. y \in Contexts /\ (y = c \/ y \in Kthreads)
  BY DEF Types, CpuInv, CpuAt
<1>2. top[y] \in Plain \cup {"s_top", "s_scan"}
  BY DEF trap, LockInv, MaskAt
<1>3. below[y] = "none"
  BY <1>1, <1>2 DEF CpuInv, CpuAt, ThreadInv, ThreadAt, Plain, Handling, Yielding
<1>4. at[y] \in Stacks /\ Len(at[y]) = 1 /\ Head(at[y]) = top[y]
  BY <1>1, <1>3, Tops
<1>5. h \in Positions
  BY DEF Positions, Handling
<1>6. s \in Stacks /\ Head(s) = h /\ Len(s) = 2 /\ s[2] = top[y]
  BY <1>4, <1>5, Pushed
<1>7. at' = [at EXCEPT ![y] = s]
  BY DEF trap
<1> HIDE DEF y, h, s
<1>8. /\ at' \in [Contexts -> Stacks]
      /\ top'[y] = h /\ below'[y] = top[y]
      /\ \A x \in Contexts : x # y => top'[x] = top[x] /\ below'[x] = below[x]
  BY Zenon, <1>1, <1>6, <1>7, Changed
<1> QED BY <1>2, <1>3, <1>8 DEF Trap, Stays, y, h

\* and the handler returns to it.
TrapReturn(c) ==
  /\ top[on[c]] = "h_ret" /\ below[on[c]] \in Plain \cup {"s_top", "s_scan"}
  /\ top'[on[c]] = below[on[c]] /\ below'[on[c]] = "none"
  /\ Stays(c) /\ at' \in [Contexts -> Stacks]

LEMMA trap_returnGoes ==
  ASSUME Types, CpuInv, ThreadInv, NEW c \in CPUs, trap_return(c)
  PROVE  TrapReturn(c)
<1> DEFINE y == on[c]
           s == Tail(at[y])
<1>1. y \in Contexts /\ (y = c \/ y \in Kthreads)
  BY DEF Types, CpuInv, CpuAt
<1>2. top[y] = "h_ret"
  BY <1>1, Tops DEF trap_return, Runs
<1>3. below[y] # "none"
  <2>1. CASE y = c
    BY <1>2, <2>1 DEF CpuInv, CpuAt, Scheduling
  <2>2. CASE y \in Kthreads
    BY <1>2, <2>2 DEF ThreadInv, ThreadAt, Plain, Sleeping
  <2> QED BY <1>1, <2>1, <2>2
<1>4. at[y] \in Stacks /\ Len(at[y]) = 2 /\ at[y][2] = below[y]
  BY <1>1, <1>3, Tops
<1>5. s \in Stacks /\ Len(s) = 1 /\ Head(s) = below[y]
  BY <1>4, Popped
<1>6. at' = [at EXCEPT ![y] = s]
  BY DEF trap_return
<1> HIDE DEF y, s
<1>7. (IF Len(s) = 2 THEN s[2] ELSE "none") = "none"
  BY <1>5
<1>8. /\ at' \in [Contexts -> Stacks]
      /\ top'[y] = below[y] /\ below'[y] = "none"
      /\ \A x \in Contexts : x # y => top'[x] = top[x] /\ below'[x] = below[x]
  BY ZenonT(60), <1>1, <1>5, <1>6, <1>7, Changed
<1>9. below[y] \in Plain \cup {"s_top", "s_scan"}
  BY <1>1, <1>3 DEF CpuInv, CpuAt, ThreadInv, ThreadAt
<1> QED BY <1>2, <1>8, <1>9 DEF TrapReturn, Stays, y

\* The other actions, from where to where.
LEMMA ecallGoes ==
  ASSUME Types, NEW c \in CPUs, NEW k, ecall(c, k)
  PROVE  Go(c, "user", "sys")
<1>1. "sys" \in Positions
  BY DEF Positions, Plain, Sleeping, Handling, Yielding, Scheduling
<1> QED BY <1>1, Goes DEF ecall

LEMMA sys_sleep_startGoes ==
  ASSUME Types, NEW c \in CPUs, sys_sleep_start(c)
  PROVE  Go(c, "sys_held", "loop")
<1>1. "loop" \in Positions
  BY DEF Positions, Plain, Sleeping, Handling, Yielding, Scheduling
<1> QED BY <1>1, Goes DEF sys_sleep_start

LEMMA sys_sleep_returnGoes ==
  ASSUME Types, NEW c \in CPUs, sys_sleep_return(c)
  PROVE  Go(c, "loop", "user")
<1>1. "user" \in Positions
  BY DEF Positions, Plain, Sleeping, Handling, Yielding, Scheduling
<1> QED BY <1>1, Goes DEF sys_sleep_return

LEMMA sys_sleep_waitGoes ==
  ASSUME Types, NEW c \in CPUs, sys_sleep_wait(c)
  PROVE  Go(c, "loop", "nap")
<1>1. "nap" \in Positions
  BY DEF Positions, Plain, Sleeping, Handling, Yielding, Scheduling
<1> QED BY <1>1, Goes DEF sys_sleep_wait

LEMMA sleep_releaseGoes ==
  ASSUME Types, NEW c \in CPUs, sleep_release(c)
  PROVE  Go(c, "nap_held", "sched")
<1>1. "sched" \in Positions
  BY DEF Positions, Plain, Sleeping, Handling, Yielding, Scheduling
<1> QED BY <1>1, Goes DEF sleep_release

LEMMA yieldGoes ==
  ASSUME Types, NEW c \in CPUs, yield(c)
  PROVE  Go(c, "yield_held", "sched")
<1>1. "sched" \in Positions
  BY DEF Positions, Plain, Sleeping, Handling, Yielding, Scheduling
<1> QED BY <1>1, Goes DEF yield

LEMMA schedGoes ==
  ASSUME Types, NEW c \in CPUs, sched(c)
  PROVE  Go(c, "sched", "resume")
<1>1. "resume" \in Positions
  BY DEF Positions, Plain, Sleeping, Handling, Yielding, Scheduling
<1> QED BY <1>1, Goes DEF sched

LEMMA forkretGoes ==
  ASSUME Types, NEW c \in CPUs, forkret(c)
  PROVE  Go(c, "forkret", "user")
<1>1. "user" \in Positions
  BY DEF Positions, Plain, Sleeping, Handling, Yielding, Scheduling
<1> QED BY <1>1, Goes DEF forkret

LEMMA clockintrGoes ==
  ASSUME Types, NEW c \in CPUs, clockintr(c)
  PROVE  Go(c, "tick_held", "h_back")
<1>1. "h_back" \in Positions
  BY DEF Positions, Plain, Sleeping, Handling, Yielding, Scheduling
<1> QED BY <1>1, Goes DEF clockintr

LEMMA scheduler_topGoes ==
  ASSUME Types, NEW c \in CPUs, scheduler_top(c)
  PROVE  Go(c, "s_top", "s_scan")
<1>1. "s_scan" \in Positions
  BY DEF Positions, Plain, Sleeping, Handling, Yielding, Scheduling
<1> QED BY <1>1, Goes DEF scheduler_top

LEMMA scheduler_runGoes ==
  ASSUME Types, NEW c \in CPUs, scheduler_run(c)
  PROVE  Go(c, "scan_held", "s_back")
<1>1. "s_back" \in Positions
  BY DEF Positions, Plain, Sleeping, Handling, Yielding, Scheduling
<1> QED BY <1>1, Goes DEF scheduler_run

\* sched() returns to sleep() or to the handler.
LEMMA resumeGoes ==
  ASSUME Types, NEW c \in CPUs, resume(c)
  PROVE  Go(c, "resume", IF below[on[c]] = "none" THEN "again" ELSE "h_ret")
<1>1. "again" \in Positions /\ "h_ret" \in Positions
  BY DEF Positions, Plain, Sleeping, Handling, Yielding, Scheduling
<1>2. Len(at[on[c]]) = 1 <=> below[on[c]] = "none"
  BY Tops DEF Types
<1> QED BY <1>1, <1>2, Goes DEF resume

LEMMA trap_yieldGoes ==
  ASSUME Types, NEW c \in CPUs, trap_yield(c)
  PROVE  Go(c, "h_back", IF on[c] \in CPUs THEN "h_ret" ELSE "h_yield")
<1>1. "h_ret" \in Positions /\ "h_yield" \in Positions
  BY DEF Positions, Plain, Sleeping, Handling, Yielding, Scheduling
<1> QED BY <1>1, Goes DEF trap_yield, Idle

LEMMA scheduler_releaseGoes ==
  ASSUME Types, NEW c \in CPUs, scheduler_release(c)
  PROVE  \/ Go(c, "s_back", "s_top")
         \/ Go(c, "scan_held", "s_scan") /\ kstate[pick[c]] # "RUNNABLE"
<1>1. "s_top" \in Positions /\ "s_scan" \in Positions
  BY DEF Positions, Plain, Sleeping, Handling, Yielding, Scheduling
<1>2. CASE Runs(c, "s_back")
  BY <1>1, <1>2, Goes DEF scheduler_release
<1>3. CASE ~ Runs(c, "s_back")
  BY <1>1, <1>3, Goes DEF scheduler_release
<1> QED BY <1>2, <1>3

\* A thread's code is run by a thread, a scheduler's by a scheduler.
LEMMA Whose ==
  ASSUME Types, CpuInv, ThreadInv, NEW c \in CPUs
  PROVE  /\ on[c] = c \/ on[c] \in Kthreads
         /\ top[on[c]] \in Plain \cup Sleeping \cup Yielding \cup {"sched", "resume", "forkret"}
                => on[c] \in Kthreads
         /\ top[on[c]] \in Scheduling => on[c] = c
<1>1. on[c] = c \/ on[c] \in Kthreads
  BY DEF CpuInv, CpuAt
<1>2. CASE on[c] = c
  BY <1>2 DEF CpuInv, CpuAt, Plain, Sleeping, Yielding, Handling, Scheduling
<1>3. CASE on[c] \in Kthreads
  BY <1>3 DEF ThreadInv, ThreadAt, Plain, Sleeping, Yielding, Handling, Scheduling
<1> QED BY <1>1, <1>2, <1>3

\* ticks is a uint: x % m, written out for the x that occur.
LEMMA Wraps ==
  ASSUME NEW m \in Nat \ {0}, NEW x \in Int
  PROVE  /\ x % m \in 0 .. m - 1
         /\ 0 <= x /\ x < m => x % m = x
         /\ x = m => x % m = 0
         /\ - m <= x /\ x < 0 => x % m = x + m
BY Z3

\* The difference that sys_sleep() compares with n is the number of ticks.
LEMMA Difference ==
  ASSUME Types, ClockInv, NEW t \in Kthreads, n[t] > 0, top[t] \notin Early, below[t] # "sys"
  PROVE  Waiting(t) <=> elapsed[t] < n[t]
<1>1. /\ TickMod \in Nat \ {0} /\ ticks \in 0 .. TickMod - 1 /\ ticks0[t] \in 0 .. TickMod - 1
      /\ elapsed[t] \in Nat /\ elapsed[t] < TickMod /\ n[t] \in Nat
  BY DEF Types, ClockInv, SleepAt
<1>2. ticks - ticks0[t] = elapsed[t] \/ ticks - ticks0[t] = elapsed[t] - TickMod
  BY <1>1 DEF ClockInv, SleepAt
<1>3. (ticks - ticks0[t]) % TickMod = elapsed[t]
  <2> DEFINE x == ticks - ticks0[t]
  <2>1. x \in Int
    BY <1>1
  <2>2. x = elapsed[t] \/ x = elapsed[t] - TickMod
    BY <1>2
  <2> HIDE DEF x
  <2>3. /\ 0 <= x /\ x < TickMod => x % TickMod = x
        /\ - TickMod <= x /\ x < 0 => x % TickMod = x + TickMod
    BY Zenon, <1>1, <2>1, Wraps
  <2>4. x % TickMod = elapsed[t]
    BY <1>1, <2>2, <2>3
  <2> QED BY <2>4 DEF x
<1> QED BY <1>3 DEF Waiting

\* pop_off() leaves the CPU's variables in their types,
LEMMA PopTypes ==
  ASSUME Types, NEW c \in CPUs, NEW ena \in BOOLEAN, pop_off(c, ena)
  PROVE  intr' \in [CPUs -> BOOLEAN] /\ noff' \in [CPUs -> Int] /\ intena' \in [CPUs -> BOOLEAN]
<1> DEFINE v == intr[c] \/ (LastPop(c) /\ ena)
<1>1. intr' = [intr EXCEPT ![c] = v]
  BY DEF pop_off
<1>2. v \in BOOLEAN
  OBVIOUS
<1> HIDE DEF v
<1>3. intr' \in [CPUs -> BOOLEAN]
  BY <1>1, <1>2 DEF Types
<1>4. noff' \in [CPUs -> Int] /\ intena' \in [CPUs -> BOOLEAN]
  BY DEF pop_off, Types
<1> QED BY <1>3, <1>4

\* and so does release().
LEMMA ReleaseTypes ==
  ASSUME Types, NEW c \in CPUs, NEW l, release(c, l)
  PROVE  /\ intr' \in [CPUs -> BOOLEAN] /\ noff' \in [CPUs -> Int] /\ intena' \in [CPUs -> BOOLEAN]
         /\ holder' \in [Locks -> CPUs \cup {NoCPU}]
<1>1. intena[c] \in BOOLEAN /\ pop_off(c, intena[c])
  BY DEF Types, release
<1>2. holder' \in [Locks -> CPUs \cup {NoCPU}]
  BY Zenon DEF Types, release
<1> QED BY <1>1, <1>2, PopTypes

-----------------------------------------------------------------------------
(* What a position in the code says. *)

LEMMA Counts ==
  /\ \A l \in Plain \cup {"h_tick", "h_back", "h_ret", "h_yield", "s_top", "s_scan"} : Count(l) = 0
  /\ \A l \in {"sys_spin", "again_spin", "tick_spin", "yield_spin", "scan_spin", "sys_held", "loop",
               "nap", "tick_held", "yield_held", "sched", "resume", "forkret", "scan_held",
               "s_back"} : Count(l) = 1
  /\ \A l \in {"nap_spin", "nap_held"} : Count(l) = 2
BY DEF Count, Plain, TickHeld, OwnHeld, PickHeld, Spins

\* Every context is a CPU's or a thread's, every lock tickslock or a thread's.
LEMMA Names ==
  /\ "tickslock" \in Locks /\ "tickslock" \notin Kthreads
  /\ \A t \in Kthreads : t \in Locks /\ t \in Contexts /\ t \notin CPUs
BY DEF Locks, Contexts

-----------------------------------------------------------------------------
(* What a step of CPU c leaves alone. *)

\* The other CPUs have the locks they had.
LEMMA LockKept ==
  ASSUME Types, CpuInv, LockInv, NEW c \in CPUs, Stays(c), Frame(c), LockFrame(c),
         HoldAt(c)', CountAt(c)', MaskAt(c)'
  PROVE  LockInv'
<1>1. ASSUME NEW d \in CPUs, d # c PROVE HoldAt(d)' /\ CountAt(d)' /\ MaskAt(d)'
  <2>1. on[d] \in Contexts /\ on[d] # on[c]
    BY <1>1 DEF Types, CpuInv
  <2>2. on'[d] = on[d] /\ top'[on'[d]] = top[on[d]] /\ below'[on'[d]] = below[on[d]]
    BY <1>1, <2>1 DEF Stays, Frame
  <2>3. pick'[d] = pick[d] /\ intr'[d] = intr[d] /\ noff'[d] = noff[d] /\ intena'[d] = intena[d]
    BY <1>1 DEF Frame
  <2>4. \A k \in Locks : holder'[k] = d <=> holder[k] = d
    BY <1>1 DEF LockFrame
  <2>5. HoldAt(d) /\ CountAt(d) /\ MaskAt(d)
    BY DEF LockInv
  <2>6. HoldAt(d)'
    BY ZenonT(60), <2>2, <2>3, <2>4, <2>5 DEF HoldAt, Locks
  <2>7. CountAt(d)'
    BY <2>2, <2>3, <2>5 DEF CountAt
  <2>8. MaskAt(d)'
    BY <2>2, <2>3, <2>5 DEF MaskAt
  <2> QED BY <2>6, <2>7, <2>8
<1> QED BY <1>1 DEF LockInv

\* The other CPUs run what they ran.
LEMMA CpuKept ==
  ASSUME Types, CpuInv, NEW c \in CPUs, Stays(c), Frame(c),
         CpuAt(c)', on'[c] = on[c] \/ on'[c] = c
  PROVE  CpuInv'
<1>1. ASSUME NEW d \in CPUs PROVE CpuAt(d) /\ (on[d] = d \/ on[d] \in Kthreads)
  BY DEF CpuInv, CpuAt
<1>2. ASSUME NEW d \in CPUs, d # c PROVE CpuAt(d)'
  <2>1. d \in Contexts /\ d # on[c]
    BY <1>1, <1>2 DEF Contexts
  <2>2. top'[d] = top[d] /\ below'[d] = below[d] /\ on'[d] = on[d] /\ pick'[d] = pick[d]
    BY <1>2, <2>1 DEF Stays, Frame
  <2> QED BY <1>1, <2>2 DEF CpuAt
<1>3. ASSUME NEW d \in CPUs, NEW e \in CPUs, on'[d] = on'[e] PROVE d = e
  <2>1. \A x \in CPUs : x # c => on'[x] = on[x]
    BY DEF Frame
  <2>2. \A x, y \in CPUs : on[x] = on[y] => x = y
    BY DEF CpuInv
  <2>3. \A x \in CPUs : x # c => on[x] # c
    BY <1>1
  <2> QED BY <1>3, <2>1, <2>2, <2>3
<1> QED BY <1>2, <1>3 DEF CpuInv

\* A step of a thread, which may leave the CPU.
LEMMA CpuOfThread ==
  ASSUME Types, CpuInv, NEW c \in CPUs, Stays(c), Frame(c), on[c] \in Kthreads,
         pick'[c] = pick[c], on'[c] = on[c] \/ on'[c] = c
  PROVE  CpuInv'
<1>1. CpuAt(c) /\ c # on[c] /\ c \in Contexts
  BY DEF CpuInv, Contexts
<1>2. top'[c] = top[c] /\ below'[c] = below[c]
  BY <1>1 DEF Stays
<1>3. CpuAt(c)'
  BY <1>1, <1>2 DEF CpuAt
<1> QED BY <1>3, CpuKept

\* The other threads are where they were.
LEMMA ThreadKept ==
  ASSUME Types, CpuInv, ThreadInv, NEW c \in CPUs, Stays(c), Frame(c),
         on'[c] = on[c] \/ on'[c] = c,
         \A t \in Kthreads : t # on[c] => /\ saved'[t] = saved[t]
                                          /\ kstate'[t] = kstate[t] \/ kstate[t] = "SLEEPING",
         \A t \in Kthreads : t = on[c] => ThreadAt(t)'
  PROVE  ThreadInv'
<1>1. ASSUME NEW t \in Kthreads, t # on[c] PROVE ThreadAt(t)'
  <2>1. ThreadAt(t) /\ t \in Contexts /\ t # c
    BY DEF ThreadInv, Contexts
  <2>2. top'[t] = top[t] /\ below'[t] = below[t] /\ saved'[t] = saved[t]
    BY <1>1, <2>1 DEF Stays
  <2>3. \A d \in CPUs : on'[d] = t <=> on[d] = t
    BY <1>1, <2>1 DEF Frame
  <2>4. \A d \in CPUs : on'[d] = t => kstate'[t] = "RUNNING" \/ top'[t] = "sched"
    <3>1. kstate'[t] = kstate[t] \/ kstate[t] = "SLEEPING"
      BY <1>1
    <3>2. \A d \in CPUs : on[d] = t => kstate[t] = "RUNNING" \/ top[t] = "sched"
      BY <2>1 DEF ThreadAt
    <3> QED BY <2>2, <2>3, <3>1, <3>2
  <2>5. top'[t] \in {"resume", "forkret"} \/ \E d \in CPUs : on'[d] = t
    BY <2>1, <2>2, <2>3 DEF ThreadAt
  <2> QED BY <2>1, <2>2, <2>4, <2>5 DEF ThreadAt
<1> QED BY <1>1 DEF ThreadInv

\* The thread on CPU c goes on, and stays on the CPU.
LEMMA ThreadHere ==
  ASSUME Types, CpuInv, ThreadInv, NEW c \in CPUs, Frame(c),
         NEW t \in Kthreads, on[c] = t, on'[c] = t, below'[t] = below[t],
         \/ below[t] = "none" /\ top'[t] \in Plain \cup Sleeping \cup {"sched"}
         \/ below[t] # "none" /\ top'[t] \in Handling \cup Yielding \cup {"sched"},
         (top[t] # "sched" /\ kstate'[t] = kstate[t]) \/ top'[t] = "sched"
  PROVE  ThreadAt(t)'
<1>1. ThreadAt(t)
  BY DEF ThreadInv
<1>2. top'[t] \notin {"resume", "forkret"}
  BY DEF Plain, Sleeping, Handling, Yielding
<1>3. \A d \in CPUs : on'[d] = t <=> d = c
  BY DEF Frame, CpuInv
<1>4. kstate'[t] = "RUNNING" \/ top'[t] = "sched"
  BY <1>1 DEF ThreadAt
<1>5. \/ below'[t] = "none" /\ top'[t] \in Plain \cup Sleeping \cup {"sched", "resume", "forkret"}
      \/ below'[t] \in Plain /\ top'[t] \in Handling \cup Yielding \cup {"sched", "resume"}
  BY <1>1 DEF ThreadAt
<1> QED BY <1>1, <1>2, <1>3, <1>4, <1>5 DEF ThreadAt

\* The clock does not move, and no thread falls asleep.
LEMMA ClockKept ==
  ASSUME Types, CpuInv, ClockInv, NEW c \in CPUs, Stays(c), Frame(c),
         UNCHANGED <<ticks, total>>, TickAt(c)',
         \A t \in Kthreads : t # on[c] => /\ n'[t] = n[t] /\ elapsed'[t] = elapsed[t]
                                          /\ ticks0'[t] = ticks0[t]
                                          /\ kstate'[t] = kstate[t] \/ kstate'[t] # "SLEEPING",
         \A t \in Kthreads : t = on[c] => SleepAt(t)'
  PROVE  ClockInv'
<1>1. ASSUME NEW d \in CPUs, d # c PROVE TickAt(d)'
  <2>1. on[d] \in Contexts /\ on[d] # on[c]
    BY <1>1 DEF Types, CpuInv
  <2>2. on'[d] = on[d] /\ top'[on'[d]] = top[on[d]]
    BY <1>1, <2>1 DEF Stays, Frame
  <2> QED BY <2>2 DEF ClockInv, TickAt
<1>2. ASSUME NEW t \in Kthreads, t # on[c] PROVE SleepAt(t)'
  <2>1. SleepAt(t) /\ t \in Contexts
    BY DEF ClockInv, Contexts
  <2>2. top'[t] = top[t] /\ below'[t] = below[t]
    BY Zenon, <1>2, <2>1 DEF Stays
  <2> QED BY <1>2, <2>1, <2>2 DEF SleepAt
<1>3. total' <= MaxTicks
  BY DEF ClockInv
<1> QED BY <1>1, <1>2, <1>3 DEF ClockInv

\* Nor does the thread that goes on.
LEMMA SleepHere ==
  ASSUME ClockInv, NEW t \in Kthreads, below'[t] = below[t],
         UNCHANGED clockVars, kstate'[t] = kstate[t] \/ kstate'[t] # "SLEEPING",
         top[t] \in Early => top'[t] \in Early,
         top'[t] \in {"nap", "nap_spin", "nap_held"} => top[t] \in {"nap", "nap_spin", "nap_held"}
  PROVE  SleepAt(t)'
<1>1. SleepAt(t)
  BY DEF ClockInv
<1>2. n' = n /\ elapsed' = elapsed /\ ticks0' = ticks0 /\ ticks' = ticks /\ total' = total
  BY DEF clockVars
<1> QED BY <1>1, <1>2 DEF SleepAt

-----------------------------------------------------------------------------
(* The steps of a thread. *)

\* A system call,
LEMMA ecallStep ==
  ASSUME IInv, NEW c \in CPUs, NEW k \in 0 .. MaxSleep, ecall(c, k)
  PROVE  CpuInv' /\ ThreadInv' /\ LockInv' /\ ClockInv'
<1>1. Types /\ CpuInv /\ ThreadInv /\ LockInv /\ ClockInv
  BY DEF IInv
<1>2. Go(c, "user", "sys") /\ Stays(c)
  BY <1>1, ecallGoes DEF Go
<1>3. PICK t \in Kthreads : on[c] = t
  BY <1>1, <1>2, Whose DEF Go, Plain, Sleeping, Yielding
<1>4. /\ Frame(c) /\ on'[c] = on[c] /\ pick'[c] = pick[c]
      /\ intr'[c] = intr[c] /\ noff'[c] = noff[c] /\ intena'[c] = intena[c]
  BY <1>1 DEF ecall, cpuVars, Frame, Types
<1>5. top[t] = "user" /\ top'[t] = "sys" /\ below'[t] = below[t]
  BY <1>2, <1>3 DEF Go
<1>6. CpuInv'
  BY <1>1, <1>2, <1>3, <1>4, CpuOfThread
<1>7. ThreadInv'
  <2>1. below[t] = "none"
    BY <1>1, <1>2, <1>3 DEF ThreadInv, ThreadAt, Go, Handling, Yielding
  <2>2. kstate' = kstate
    BY <1>1 DEF ecall
  <2>3. ThreadAt(t)'
    <3>1. top'[t] \in Plain \cup Sleeping
      BY <1>5 DEF Plain, Sleeping
    <3>2. top[t] # "sched"
      BY <1>5
    <3> QED BY <1>1, <1>3, <1>4, <1>5, <2>1, <2>2, <3>1, <3>2, ThreadHere
  <2> QED
    BY <1>1, <1>2, <1>3, <1>4, <2>2, <2>3, ThreadKept DEF ecall
<1>8. LockInv'
  <2>1. HoldAt(c) /\ CountAt(c) /\ MaskAt(c)
    BY <1>1 DEF LockInv
  <2>2. top[on[c]] = "user" /\ top'[on'[c]] = "sys" /\ below'[on'[c]] = below[on[c]]
    BY <1>2, <1>4 DEF Go
  <2>3. holder' = holder
    BY <1>1 DEF ecall
  <2>4. LockFrame(c)
    BY <2>3 DEF LockFrame
  <2>5. HoldAt(c)'
    BY <1>3, <1>4, <2>1, <2>2, <2>3 DEF HoldAt, TickHeld, OwnHeld, PickHeld
  <2>6. CountAt(c)'
    BY <1>4, <2>1, <2>2, Counts DEF CountAt, Plain
  <2>7. MaskAt(c)'
    BY <1>4, <2>1, <2>2 DEF MaskAt, Plain, Sleeping
  <2> QED
    BY <1>1, <1>2, <1>4, <2>4, <2>5, <2>6, <2>7, LockKept
<1>9. ClockInv'
  <2>1. TickAt(c)'
    BY <1>2, <1>4 DEF TickAt, Go
  <2>2. kstate[t] = "RUNNING" /\ t \in Kthreads /\ SleepAt(t)
    BY <1>1, <1>2, <1>3 DEF ThreadInv, ThreadAt, Go, ClockInv
  <2>3. SleepAt(t)'
    BY <1>1, <1>2, <1>3, <2>2 DEF ecall, Go, SleepAt, Types, Early
  <2>4. /\ UNCHANGED <<ticks, total, kstate>>
        /\ \A x \in Kthreads : x # t => /\ n'[x] = n[x] /\ elapsed'[x] = elapsed[x]
                                      /\ ticks0'[x] = ticks0[x]
    BY <1>1, <1>3 DEF ecall, Types
  <2> QED
    BY <1>1, <1>2, <1>3, <1>4, <2>1, <2>3, <2>4, ClockKept
<1> QED BY <1>6, <1>7, <1>8, <1>9

\* which reads ticks,
LEMMA sys_sleep_startStep ==
  ASSUME IInv, NEW c \in CPUs, sys_sleep_start(c)
  PROVE  CpuInv' /\ ThreadInv' /\ LockInv' /\ ClockInv'
<1>1. Types /\ CpuInv /\ ThreadInv /\ LockInv /\ ClockInv
  BY DEF IInv
<1>2. Go(c, "sys_held", "loop") /\ Stays(c)
  BY <1>1, sys_sleep_startGoes DEF Go
<1>3. PICK t \in Kthreads : on[c] = t
  BY <1>1, <1>2, Whose DEF Go, Plain, Sleeping, Yielding
<1>4. /\ Frame(c) /\ on'[c] = on[c] /\ pick'[c] = pick[c]
      /\ intr'[c] = intr[c] /\ noff'[c] = noff[c] /\ intena'[c] = intena[c]
  BY <1>1 DEF sys_sleep_start, cpuVars, Frame, Types
<1>5. top[t] = "sys_held" /\ top'[t] = "loop" /\ below'[t] = below[t]
  BY <1>2, <1>3 DEF Go
<1>6. CpuInv'
  BY <1>1, <1>2, <1>3, <1>4, CpuOfThread
<1>7. ThreadInv'
  <2>1. below[t] = "none"
    BY <1>1, <1>2, <1>3 DEF ThreadInv, ThreadAt, Go, Handling, Yielding
  <2>2. kstate' = kstate
    BY <1>1 DEF sys_sleep_start
  <2>3. ThreadAt(t)'
    <3>1. top'[t] \in Plain \cup Sleeping
      BY <1>5 DEF Plain, Sleeping
    <3>2. top[t] # "sched"
      BY <1>5
    <3> QED BY <1>1, <1>3, <1>4, <1>5, <2>1, <2>2, <3>1, <3>2, ThreadHere
  <2> QED
    BY <1>1, <1>2, <1>3, <1>4, <2>2, <2>3, ThreadKept DEF sys_sleep_start
<1>8. LockInv'
  <2>1. HoldAt(c) /\ CountAt(c) /\ MaskAt(c)
    BY <1>1 DEF LockInv
  <2>2. top[on[c]] = "sys_held" /\ top'[on'[c]] = "loop" /\ below'[on'[c]] = below[on[c]]
    BY <1>2, <1>4 DEF Go
  <2>3. holder' = holder
    BY <1>1 DEF sys_sleep_start
  <2>4. LockFrame(c)
    BY <2>3 DEF LockFrame
  <2>5. HoldAt(c)'
    BY <1>3, <1>4, <2>1, <2>2, <2>3 DEF HoldAt, TickHeld, OwnHeld, PickHeld
  <2>6. CountAt(c)'
    BY <1>4, <2>1, <2>2, Counts DEF CountAt, Plain
  <2>7. MaskAt(c)'
    BY <1>4, <2>1, <2>2 DEF MaskAt, Plain, Sleeping
  <2> QED
    BY <1>1, <1>2, <1>4, <2>4, <2>5, <2>6, <2>7, LockKept
<1>9. ClockInv'
  <2>1. TickAt(c)'
    BY <1>2, <1>4 DEF TickAt, Go
  <2>2. kstate[t] = "RUNNING" /\ t \in Kthreads /\ SleepAt(t)
    BY <1>1, <1>2, <1>3 DEF ThreadInv, ThreadAt, Go, ClockInv
  <2>3. SleepAt(t)'
    BY <1>1, <1>2, <1>3, <2>2 DEF sys_sleep_start, Go, SleepAt, Types
  <2>4. /\ UNCHANGED <<ticks, total, kstate>>
        /\ \A x \in Kthreads : x # t => /\ n'[x] = n[x] /\ elapsed'[x] = elapsed[x]
                                      /\ ticks0'[x] = ticks0[x]
    BY <1>1, <1>3 DEF sys_sleep_start, Types
  <2> QED
    BY <1>1, <1>2, <1>3, <1>4, <2>1, <2>3, <2>4, ClockKept
<1> QED BY <1>6, <1>7, <1>8, <1>9

\* and returns when enough of them have passed.
LEMMA sys_sleep_returnStep ==
  ASSUME IInv, NEW c \in CPUs, sys_sleep_return(c)
  PROVE  CpuInv' /\ ThreadInv' /\ LockInv' /\ ClockInv'
<1>1. Types /\ CpuInv /\ ThreadInv /\ LockInv /\ ClockInv
  BY DEF IInv
<1>2. Go(c, "loop", "user") /\ Stays(c)
  BY <1>1, sys_sleep_returnGoes DEF Go
<1>3. PICK t \in Kthreads : on[c] = t
  BY <1>1, <1>2, Whose DEF Go, Plain, Sleeping, Yielding
<1>4. /\ Frame(c) /\ on'[c] = on[c] /\ pick'[c] = pick[c]
      /\ noff'[c] = noff[c] - 1 /\ intena'[c] = intena[c]
  BY <1>1 DEF sys_sleep_return, release, pop_off, LastPop, Frame, Types
<1>5. intr'[c] <=> intr[c] \/ (noff[c] = 1 /\ intena[c])
  BY <1>1 DEF sys_sleep_return, release, pop_off, LastPop, Types
<1>6. top[t] = "loop" /\ top'[t] = "user" /\ below'[t] = below[t]
  BY <1>2, <1>3 DEF Go
<1>7. CpuInv'
  BY <1>1, <1>2, <1>3, <1>4, CpuOfThread
<1>8. ThreadInv'
  <2>1. below[t] = "none"
    BY <1>1, <1>2, <1>3 DEF ThreadInv, ThreadAt, Go, Handling, Yielding
  <2>2. kstate' = kstate
    BY <1>1 DEF sys_sleep_return
  <2>3. ThreadAt(t)'
    <3>1. top'[t] \in Plain \cup Sleeping
      BY <1>6 DEF Plain, Sleeping
    <3>2. top[t] # "sched"
      BY <1>6
    <3> QED BY <1>1, <1>3, <1>4, <1>6, <2>1, <2>2, <3>1, <3>2, ThreadHere
  <2> QED
    BY <1>1, <1>2, <1>3, <1>4, <2>2, <2>3, ThreadKept DEF sys_sleep_return
<1>9. LockInv'
  <2>1. HoldAt(c) /\ CountAt(c) /\ MaskAt(c)
    BY <1>1 DEF LockInv
  <2>2. top[on[c]] = "loop" /\ top'[on'[c]] = "user" /\ below'[on'[c]] = below[on[c]]
    BY <1>2, <1>4 DEF Go
  <2>3. holder' = [holder EXCEPT !["tickslock"] = NoCPU] /\ holder["tickslock"] = c
    BY <1>1, <1>3, <2>1, <2>2 DEF sys_sleep_return, release, HoldAt, TickHeld, OwnHeld
  <2>4. \A x \in Locks : holder'[x] = IF x = "tickslock" THEN NoCPU ELSE holder[x]
    BY <1>1, <2>3 DEF Types
  <2>5. LockFrame(c) /\ \A x \in Locks : holder'[x] = c <=> holder[x] = c /\ x # "tickslock"
    BY <2>3, <2>4 DEF LockFrame
  <2>6. HoldAt(c)'
    <3>1. holder'["tickslock"] = c <=> top'[on'[c]] \in TickHeld
      BY <2>1, <2>2, <2>5, Names DEF HoldAt, TickHeld
    <3>2. ASSUME NEW x \in Kthreads
          PROVE  holder'[x] = c <=> \/ on'[c] = x /\ top'[on'[c]] \in OwnHeld
                                    \/ on'[c] = c /\ top'[on'[c]] \in PickHeld /\ pick'[c] = x
      BY <1>3, <1>4, <2>1, <2>2, <2>5, Names DEF HoldAt, OwnHeld, PickHeld
    <3> QED BY <3>1, <3>2 DEF HoldAt
  <2>7. noff[c] = 1
    BY <2>1, <2>2, Counts DEF CountAt
  <2>8. noff[c] = 1 /\ noff'[c] = 0
    BY <1>4, <2>7
  <2>9. CountAt(c)'
    BY <2>2, <2>8, Counts DEF CountAt, Plain
  <2>10. MaskAt(c)'
    BY <1>4, <2>1, <2>2, <2>8, <1>5 DEF MaskAt, Plain, Sleeping
  <2> QED
    BY <1>1, <1>2, <1>4, <2>5, <2>6, <2>9, <2>10, LockKept
<1>10. ClockInv'
  <2>1. TickAt(c)'
    BY <1>2, <1>4 DEF TickAt, Go
  <2>2. kstate[t] = "RUNNING" /\ t \in Kthreads /\ SleepAt(t)
    BY <1>1, <1>2, <1>3 DEF ThreadInv, ThreadAt, Go, ClockInv
  <2>3. SleepAt(t)'
    BY <1>1, <1>2, <1>3, <2>2 DEF sys_sleep_return, Go, SleepAt, Types
  <2>4. /\ UNCHANGED <<ticks, total, kstate>>
        /\ \A x \in Kthreads : x # t => /\ n'[x] = n[x] /\ elapsed'[x] = elapsed[x]
                                      /\ ticks0'[x] = ticks0[x]
    BY <1>1, <1>3 DEF sys_sleep_return, Types
  <2> QED
    BY <1>1, <1>2, <1>3, <1>4, <2>1, <2>3, <2>4, ClockKept
<1> QED BY <1>7, <1>8, <1>9, <1>10

\* It waits otherwise:
LEMMA sys_sleep_waitStep ==
  ASSUME IInv, NEW c \in CPUs, sys_sleep_wait(c)
  PROVE  CpuInv' /\ ThreadInv' /\ LockInv' /\ ClockInv'
<1>1. Types /\ CpuInv /\ ThreadInv /\ LockInv /\ ClockInv
  BY DEF IInv
<1>2. Go(c, "loop", "nap") /\ Stays(c)
  BY <1>1, sys_sleep_waitGoes DEF Go
<1>3. PICK t \in Kthreads : on[c] = t
  BY <1>1, <1>2, Whose DEF Go, Plain, Sleeping, Yielding
<1>4. /\ Frame(c) /\ on'[c] = on[c] /\ pick'[c] = pick[c]
      /\ intr'[c] = intr[c] /\ noff'[c] = noff[c] /\ intena'[c] = intena[c]
  BY <1>1 DEF sys_sleep_wait, cpuVars, Frame, Types
<1>5. top[t] = "loop" /\ top'[t] = "nap" /\ below'[t] = below[t]
  BY <1>2, <1>3 DEF Go
<1>6. CpuInv'
  BY Zenon, <1>1, <1>2, <1>3, <1>4, CpuOfThread
<1>7. ThreadInv'
  <2>1. below[t] = "none"
    BY <1>1, <1>2, <1>3 DEF ThreadInv, ThreadAt, Go, Handling, Yielding
  <2>2. kstate' = kstate
    BY Zenon, <1>1 DEF sys_sleep_wait
  <2>3. ThreadAt(t)'
    <3>1. top'[t] \in Plain \cup Sleeping
      BY <1>5 DEF Plain, Sleeping
    <3>2. top[t] # "sched"
      BY <1>5
    <3> QED BY <1>1, <1>3, <1>4, <1>5, <2>1, <2>2, <3>1, <3>2, ThreadHere
  <2> QED
    BY Zenon, <1>1, <1>2, <1>3, <1>4, <2>2, <2>3, ThreadKept DEF sys_sleep_wait
<1>8. LockInv'
  <2>1. HoldAt(c) /\ CountAt(c) /\ MaskAt(c)
    BY <1>1 DEF LockInv
  <2>2. top[on[c]] = "loop" /\ top'[on'[c]] = "nap" /\ below'[on'[c]] = below[on[c]]
    BY Zenon, <1>2, <1>4 DEF Go
  <2>3. holder' = holder
    BY Zenon, <1>1 DEF sys_sleep_wait
  <2>4. LockFrame(c)
    BY <2>3 DEF LockFrame
  <2>5. HoldAt(c)'
    BY <1>3, <1>4, <2>1, <2>2, <2>3 DEF HoldAt, TickHeld, OwnHeld, PickHeld
  <2>6. CountAt(c)'
    BY <1>4, <2>1, <2>2, Counts DEF CountAt, Plain
  <2>7. MaskAt(c)'
    BY <1>4, <2>1, <2>2 DEF MaskAt, Plain, Sleeping
  <2> QED
    BY <1>1, <1>2, <1>4, <2>4, <2>5, <2>6, <2>7, LockKept
<1>9. ClockInv'
  <2>1. TickAt(c)'
    BY Zenon, <1>2, <1>4 DEF TickAt, Go
  <2>2. below[t] # "sys" /\ top[t] = "loop" /\ Waiting(t)
    BY <1>1, <1>2, <1>3 DEF ThreadInv, ThreadAt, Go, Handling, Yielding, sys_sleep_wait
  <2>3. n[t] > 0
    <3>1. /\ TickMod \in Nat \ {0} /\ ticks - ticks0[t] \in Int /\ n[t] \in Nat
          /\ (ticks - ticks0[t]) % TickMod < n[t]
      BY <1>1, <2>2 DEF Types, Waiting
    <3>2. (ticks - ticks0[t]) % TickMod \in 0 .. TickMod - 1
      BY Zenon, <3>1, Wraps
    <3> QED BY <3>1, <3>2
  <2>4. elapsed[t] < n[t]
    BY <1>1, <2>2, <2>3, Difference DEF Early
  <2>5. SleepAt(t) /\ top'[t] = "nap" /\ below'[t] = below[t]
    BY <1>1, <1>2, <1>3 DEF ClockInv, Go
  <2>6. SleepAt(t)'
    BY <2>2, <2>4, <2>5 DEF sys_sleep_wait, clockVars, SleepAt, Early
  <2> QED
    BY <1>1, <1>2, <1>3, <1>4, <2>1, <2>6, ClockKept DEF sys_sleep_wait, clockVars
<1> QED BY <1>6, <1>7, <1>8, <1>9

\* sleep() exchanges tickslock for p->lock,
LEMMA sleep_releaseStep ==
  ASSUME IInv, NEW c \in CPUs, sleep_release(c)
  PROVE  CpuInv' /\ ThreadInv' /\ LockInv' /\ ClockInv'
<1>1. Types /\ CpuInv /\ ThreadInv /\ LockInv /\ ClockInv
  BY DEF IInv
<1>2. Go(c, "nap_held", "sched") /\ Stays(c)
  BY <1>1, sleep_releaseGoes DEF Go
<1>3. PICK t \in Kthreads : on[c] = t
  BY <1>1, <1>2, Whose DEF Go, Plain, Sleeping, Yielding
<1>4. /\ Frame(c) /\ on'[c] = on[c] /\ pick'[c] = pick[c]
      /\ noff'[c] = noff[c] - 1 /\ intena'[c] = intena[c]
  BY <1>1 DEF sleep_release, release, pop_off, LastPop, Frame, Types
<1>5. intr'[c] <=> intr[c] \/ (noff[c] = 1 /\ intena[c])
  BY <1>1 DEF sleep_release, release, pop_off, LastPop, Types
<1>6. top[t] = "nap_held" /\ top'[t] = "sched" /\ below'[t] = below[t]
  BY <1>2, <1>3 DEF Go
<1>7. CpuInv'
  BY <1>1, <1>2, <1>3, <1>4, CpuOfThread
<1>8. ThreadInv'
  <2>1. below[t] = "none"
    BY <1>1, <1>2, <1>3 DEF ThreadInv, ThreadAt, Go, Handling, Yielding
  <2>2. ThreadAt(t)'
    BY <1>1, <1>3, <1>4, <1>6, <2>1, ThreadHere
  <2> QED
    BY <1>1, <1>2, <1>3, <1>4, <2>2, ThreadKept DEF sleep_release, Types
<1>9. LockInv'
  <2>1. HoldAt(c) /\ CountAt(c) /\ MaskAt(c)
    BY <1>1 DEF LockInv
  <2>2. top[on[c]] = "nap_held" /\ top'[on'[c]] = "sched" /\ below'[on'[c]] = below[on[c]]
    BY Zenon, <1>2, <1>4 DEF Go
  <2>3. holder' = [holder EXCEPT !["tickslock"] = NoCPU] /\ holder["tickslock"] = c
    BY Zenon, <1>1, <1>3, <2>1, <2>2 DEF sleep_release, release, HoldAt, TickHeld, OwnHeld
  <2>4. \A x \in Locks : holder'[x] = IF x = "tickslock" THEN NoCPU ELSE holder[x]
    BY <1>1, <2>3 DEF Types
  <2>5. LockFrame(c) /\ \A x \in Locks : holder'[x] = c <=> holder[x] = c /\ x # "tickslock"
    BY <2>3, <2>4 DEF LockFrame
  <2>6. HoldAt(c)'
    <3>1. holder'["tickslock"] = c <=> top'[on'[c]] \in TickHeld
      BY <2>1, <2>2, <2>5, Names DEF HoldAt, TickHeld
    <3>2. ASSUME NEW x \in Kthreads
          PROVE  holder'[x] = c <=> \/ on'[c] = x /\ top'[on'[c]] \in OwnHeld
                                    \/ on'[c] = c /\ top'[on'[c]] \in PickHeld /\ pick'[c] = x
      BY Zenon, <1>3, <1>4, <2>1, <2>2, <2>5, Names DEF HoldAt, OwnHeld, PickHeld
    <3> QED BY <3>1, <3>2 DEF HoldAt
  <2>7. noff[c] = 2
    BY <2>1, <2>2, Counts DEF CountAt
  <2>8. noff[c] = 2 /\ noff'[c] = 1
    BY SMTT(60), <1>4, <2>7
  <2>9. CountAt(c)'
    BY Zenon, <2>2, <2>8, Counts DEF CountAt, Plain
  <2>10. below[on[c]] = "none"
    BY <1>1, <1>2, <1>3 DEF ThreadInv, ThreadAt, Go, Handling, Yielding
  <2>11. MaskAt(c)'
    BY <1>4, <2>1, <2>2, <2>8, <1>5, <2>10 DEF MaskAt, Plain, Sleeping
  <2> QED
    BY <1>1, <1>2, <1>4, <2>5, <2>6, <2>9, <2>11, LockKept
<1>10. ClockInv'
  <2>1. TickAt(c)'
    BY <1>2, <1>4 DEF TickAt, Go
  <2>2. SleepAt(t) /\ top[t] = "nap_held" /\ top'[t] = "sched" /\ below'[t] = below[t]
    BY <1>1, <1>2, <1>3 DEF ClockInv, Go
  <2>3. SleepAt(t)'
    BY <2>2 DEF sleep_release, clockVars, SleepAt, Early
  <2>4. UNCHANGED clockVars /\ \A x \in Kthreads : x # t => kstate'[x] = kstate[x]
    BY <1>1, <1>3 DEF sleep_release, Types
  <2> QED
    BY <1>1, <1>2, <1>3, <1>4, <2>1, <2>3, <2>4, ClockKept DEF clockVars
<1> QED BY <1>7, <1>8, <1>9, <1>10

\* yield() has it already,
LEMMA yieldStep ==
  ASSUME IInv, NEW c \in CPUs, yield(c)
  PROVE  CpuInv' /\ ThreadInv' /\ LockInv' /\ ClockInv'
<1>1. Types /\ CpuInv /\ ThreadInv /\ LockInv /\ ClockInv
  BY DEF IInv
<1>2. Go(c, "yield_held", "sched") /\ Stays(c)
  BY Zenon, <1>1, yieldGoes DEF Go
<1>3. PICK t \in Kthreads : on[c] = t
  BY <1>1, <1>2, Whose DEF Go, Plain, Sleeping, Yielding
<1>4. /\ Frame(c) /\ on'[c] = on[c] /\ pick'[c] = pick[c]
      /\ intr'[c] = intr[c] /\ noff'[c] = noff[c] /\ intena'[c] = intena[c]
  BY <1>1 DEF yield, cpuVars, Frame, Types
<1>5. top[t] = "yield_held" /\ top'[t] = "sched" /\ below'[t] = below[t]
  BY <1>2, <1>3 DEF Go
<1>6. CpuInv'
  BY Zenon, <1>1, <1>2, <1>3, <1>4, CpuOfThread
<1>7. ThreadInv'
  <2>1. below[t] # "none"
    BY <1>1, <1>2, <1>3 DEF ThreadInv, ThreadAt, Go, Plain, Sleeping
  <2>2. ThreadAt(t)'
    BY <1>1, <1>3, <1>4, <1>5, <2>1, ThreadHere
  <2> QED
    BY <1>1, <1>2, <1>3, <1>4, <2>2, ThreadKept DEF yield, Types
<1>8. LockInv'
  <2>1. HoldAt(c) /\ CountAt(c) /\ MaskAt(c)
    BY <1>1 DEF LockInv
  <2>2. top[on[c]] = "yield_held" /\ top'[on'[c]] = "sched" /\ below'[on'[c]] = below[on[c]]
    BY <1>2, <1>4 DEF Go
  <2>3. holder' = holder
    BY <1>1 DEF yield
  <2>4. LockFrame(c)
    BY <2>3 DEF LockFrame
  <2>5. HoldAt(c)'
    BY <1>3, <1>4, <2>1, <2>2, <2>3 DEF HoldAt, TickHeld, OwnHeld, PickHeld
  <2>6. CountAt(c)'
    BY <1>4, <2>1, <2>2, Counts DEF CountAt, Plain
  <2>7. below[on[c]] # "none"
    BY <1>1, <1>2, <1>3 DEF ThreadInv, ThreadAt, Go, Plain, Sleeping
  <2>8. MaskAt(c)'
    BY <1>4, <2>1, <2>2, <2>7 DEF MaskAt, Plain, Sleeping
  <2> QED
    BY <1>1, <1>2, <1>4, <2>4, <2>5, <2>6, <2>8, LockKept
<1>9. ClockInv'
  <2>1. TickAt(c)'
    BY Zenon, <1>2, <1>4 DEF TickAt, Go
  <2>2. /\ UNCHANGED clockVars /\ kstate'[t] # "SLEEPING"
        /\ \A x \in Kthreads : x # t => kstate'[x] = kstate[x]
    BY <1>1, <1>3 DEF yield, Types
  <2>3. SleepAt(t)'
    BY Zenon, <1>1, <1>5, <2>2, SleepHere DEF Early
  <2> QED
    BY <1>1, <1>2, <1>3, <1>4, <2>1, <2>2, <2>3, ClockKept DEF clockVars
<1> QED BY <1>6, <1>7, <1>8, <1>9

\* and sched() gives both of them to the scheduler.
LEMMA schedStep ==
  ASSUME IInv, NEW c \in CPUs, sched(c)
  PROVE  CpuInv' /\ ThreadInv' /\ LockInv' /\ ClockInv'
<1>1. Types /\ CpuInv /\ ThreadInv /\ LockInv /\ ClockInv
  BY DEF IInv
<1>2. Go(c, "sched", "resume") /\ Stays(c)
  BY Zenon, <1>1, schedGoes DEF Go
<1>3. PICK t \in Kthreads : on[c] = t
  BY <1>1, <1>2, Whose DEF Go, Plain, Sleeping, Yielding
<1>4. /\ Frame(c) /\ on'[c] = c /\ pick'[c] = pick[c]
      /\ intr'[c] = intr[c] /\ noff'[c] = noff[c] /\ intena'[c] = intena[c]
  BY <1>1 DEF sched, cpuVars, Frame, Types
<1>5. top[t] = "sched" /\ top'[t] = "resume" /\ below'[t] = below[t]
  BY <1>2, <1>3 DEF Go
<1>6. CpuInv'
  BY Zenon, <1>1, <1>2, <1>3, <1>4, CpuOfThread
<1>7. top'[c] = "s_back" /\ c # t /\ pick[c] = t
  BY <1>1, <1>2, <1>3 DEF Go, Stays, CpuInv, CpuAt, Contexts
<1>8. ThreadInv'
  <2>1. ThreadAt(t)'
    <3>1. ThreadAt(t) /\ MaskAt(c) /\ top[t] = "sched" /\ top'[t] = "resume" /\ below'[t] = below[t]
      BY Zenon, <1>1, <1>2, <1>3 DEF ThreadInv, LockInv, Go
    <3>2. saved'[t] <=> below'[t] = "none"
      BY <1>1, <1>3, <3>1 DEF sched, MaskAt, Types
    <3>3. \A d \in CPUs : on'[d] # t
      <4>1. \A d \in CPUs : d # c => on'[d] = on[d] /\ on[d] # on[c]
        BY ZenonT(60), <1>1, <1>4 DEF Frame, CpuInv
      <4> QED BY <1>3, <1>4, <4>1, Names
    <3>4. \/ below'[t] = "none" /\ top'[t] = "resume"
          \/ below'[t] \in Plain /\ top'[t] = "resume"
      BY <3>1 DEF ThreadAt
    <3> QED BY <3>1, <3>2, <3>3, <3>4 DEF ThreadAt
  <2>2. kstate' = kstate /\ \A x \in Kthreads : x # t => saved'[x] = saved[x]
    BY <1>1, <1>3 DEF sched, Types
  <2> QED
    BY Zenon, <1>1, <1>2, <1>3, <1>4, <2>1, <2>2, ThreadKept
<1>9. LockInv'
  <2>1. HoldAt(c) /\ CountAt(c) /\ MaskAt(c)
    BY <1>1 DEF LockInv
  <2>2. LockFrame(c) /\ holder' = holder
    BY DEF sched, LockFrame
  <2>3. HoldAt(c)'
    BY <1>3, <1>4, <1>5, <1>7, <2>1, <2>2 DEF HoldAt, TickHeld, OwnHeld, PickHeld
  <2>4. CountAt(c)'
    BY <1>3, <1>4, <1>5, <1>7, <2>1, Counts DEF CountAt
  <2>5. MaskAt(c)'
    BY <1>3, <1>4, <1>5, <1>7, <2>1 DEF MaskAt, Plain, Sleeping
  <2> QED
    BY Zenon, <1>1, <1>2, <1>4, <2>2, <2>3, <2>4, <2>5, LockKept
<1>10. ClockInv'
  <2>1. TickAt(c)'
    BY <1>4, <1>7 DEF TickAt
  <2>2. UNCHANGED <<clockVars, kstate>>
    BY <1>1 DEF sched
  <2>3. SleepAt(t)'
    BY <1>1, <1>5, <2>2, SleepHere DEF Early
  <2> QED
    BY Zenon, <1>1, <1>2, <1>3, <1>4, <2>1, <2>2, <2>3, ClockKept DEF clockVars
<1> QED BY <1>6, <1>8, <1>9, <1>10

\* A thread comes back from there,
LEMMA resumeStep ==
  ASSUME IInv, NEW c \in CPUs, resume(c)
  PROVE  CpuInv' /\ ThreadInv' /\ LockInv' /\ ClockInv'
<1> DEFINE m == IF below[on[c]] = "none" THEN "again" ELSE "h_ret"
<1>1. Types /\ CpuInv /\ ThreadInv /\ LockInv /\ ClockInv
  BY DEF IInv
<1>2. Go(c, "resume", m) /\ Stays(c)
  BY <1>1, resumeGoes DEF Go
<1>3. (below[on[c]] = "none" /\ m = "again") \/ (below[on[c]] # "none" /\ m = "h_ret")
  OBVIOUS
<1> HIDE DEF m
<1>4. PICK t \in Kthreads : on[c] = t
  BY <1>1, <1>2, Whose DEF Go, Plain, Sleeping, Yielding
<1>5. /\ Frame(c) /\ on'[c] = on[c] /\ pick'[c] = pick[c]
      /\ noff'[c] = noff[c] - 1 /\ intena'[c] = saved[t]
  BY <1>1, <1>4 DEF resume, pop_off, LastPop, Restored, Frame, Types
<1>6. intr'[c] <=> intr[c] \/ (noff[c] = 1 /\ saved[t])
  BY <1>1, <1>4 DEF resume, pop_off, LastPop, Restored, Types
<1>7. top[t] = "resume" /\ top'[t] = m /\ below'[t] = below[t]
  BY Zenon, <1>2, <1>4 DEF Go
<1>8. CpuInv'
  BY Zenon, <1>1, <1>2, <1>4, <1>5, CpuOfThread
<1>9. ThreadInv'
  <2>1. (below[t] = "none" /\ m = "again") \/ (below[t] # "none" /\ m = "h_ret")
    BY <1>4, <1>3
  <2>2. kstate' = kstate
    BY <1>1 DEF resume
  <2>3. ThreadAt(t)'
    <3>1. \/ below[t] = "none" /\ top'[t] \in Plain
          \/ below[t] # "none" /\ top'[t] \in Handling
      BY <1>7, <2>1 DEF Plain, Handling
    <3>2. top[t] # "sched"
      BY <1>7
    <3> QED BY <1>1, <1>4, <1>5, <1>7, <2>1, <2>2, <3>1, <3>2, ThreadHere
  <2>4. \A x \in Kthreads : x # t => saved'[x] = saved[x]
    BY <1>1, <1>4 DEF resume, Types
  <2> QED
    BY Zenon, <1>1, <1>2, <1>4, <1>5, <2>2, <2>3, <2>4, ThreadKept
<1>10. LockInv'
  <2>1. HoldAt(c) /\ CountAt(c) /\ MaskAt(c)
    BY <1>1 DEF LockInv
  <2>2. top[on[c]] = "resume" /\ top'[on'[c]] = m /\ below'[on'[c]] = below[on[c]]
    BY Zenon, <1>2, <1>5 DEF Go
  <2>3. holder' = [holder EXCEPT ![t] = NoCPU] /\ holder[t] = c
    BY Zenon, <1>1, <1>4, <2>1, <2>2 DEF resume, HoldAt, TickHeld, OwnHeld
  <2>4. \A x \in Locks : holder'[x] = IF x = t THEN NoCPU ELSE holder[x]
    BY <1>1, <2>3 DEF Types
  <2>5. LockFrame(c) /\ \A x \in Locks : holder'[x] = c <=> holder[x] = c /\ x # t
    BY <2>3, <2>4 DEF LockFrame
  <2>6. HoldAt(c)'
    <3>1. holder'["tickslock"] = c <=> top'[on'[c]] \in TickHeld
      BY <2>1, <2>2, <2>5, Names, <1>3 DEF HoldAt, TickHeld
    <3>2. ASSUME NEW x \in Kthreads
          PROVE  holder'[x] = c <=> \/ on'[c] = x /\ top'[on'[c]] \in OwnHeld
                                    \/ on'[c] = c /\ top'[on'[c]] \in PickHeld /\ pick'[c] = x
      BY Zenon, <1>4, <1>5, <2>1, <2>2, <2>5, Names, <1>3 DEF HoldAt, OwnHeld, PickHeld
    <3> QED BY <3>1, <3>2 DEF HoldAt
  <2>7. noff[c] = 1
    BY <2>1, <2>2, Counts DEF CountAt
  <2>8. noff[c] = 1 /\ noff'[c] = 0
    BY <1>5, <2>7
  <2>9. CountAt(c)'
    BY <2>2, <2>8, <1>3, Counts DEF CountAt, Plain
  <2>10. saved[t] <=> below[t] = "none"
    BY <1>1, <1>2, <1>4 DEF ThreadInv, ThreadAt, Go
  <2>11. MaskAt(c)'
    BY <1>5, <2>1, <2>2, <2>8, <1>3, <1>6, <1>4, <2>10 DEF MaskAt, Plain, Sleeping
  <2> QED
    BY Zenon, <1>1, <1>2, <1>5, <2>5, <2>6, <2>9, <2>11, LockKept
<1>11. ClockInv'
  <2>1. TickAt(c)'
    BY Zenon, <1>2, <1>5, <1>3 DEF TickAt, Go
  <2>2. UNCHANGED <<clockVars, kstate>>
    BY <1>1 DEF resume
  <2>3. SleepAt(t)'
    BY <1>1, <1>7, <2>2, SleepHere, <1>3 DEF Early
  <2> QED
    BY <1>1, <1>2, <1>4, <1>5, <2>1, <2>2, <2>3, ClockKept DEF clockVars
<1> QED BY <1>8, <1>9, <1>10, <1>11

\* or starts.
LEMMA forkretStep ==
  ASSUME IInv, NEW c \in CPUs, forkret(c)
  PROVE  CpuInv' /\ ThreadInv' /\ LockInv' /\ ClockInv'
<1>1. Types /\ CpuInv /\ ThreadInv /\ LockInv /\ ClockInv
  BY DEF IInv
<1>2. Go(c, "forkret", "user") /\ Stays(c)
  BY <1>1, forkretGoes DEF Go
<1>3. PICK t \in Kthreads : on[c] = t
  BY <1>1, <1>2, Whose DEF Go, Plain, Sleeping, Yielding
<1>4. /\ Frame(c) /\ on'[c] = on[c] /\ pick'[c] = pick[c]
      /\ noff'[c] = noff[c] - 1 /\ intena'[c] = intena[c]
  BY <1>1 DEF forkret, release, pop_off, LastPop, Frame, Types
<1>5. intr'[c] <=> intr[c] \/ (noff[c] = 1 /\ intena[c])
  BY <1>1 DEF forkret, release, pop_off, LastPop, Types
<1>6. top[t] = "forkret" /\ top'[t] = "user" /\ below'[t] = below[t]
  BY <1>2, <1>3 DEF Go
<1>7. CpuInv'
  BY Zenon, <1>1, <1>2, <1>3, <1>4, CpuOfThread
<1>8. ThreadInv'
  <2>1. below[t] = "none"
    BY <1>1, <1>2, <1>3 DEF ThreadInv, ThreadAt, Go, Handling, Yielding
  <2>2. kstate' = kstate
    BY <1>1 DEF forkret
  <2>3. ThreadAt(t)'
    <3>1. top'[t] \in Plain \cup Sleeping
      BY <1>6 DEF Plain, Sleeping
    <3>2. top[t] # "sched"
      BY <1>6
    <3> QED BY <1>1, <1>3, <1>4, <1>6, <2>1, <2>2, <3>1, <3>2, ThreadHere
  <2> QED
    BY Zenon, <1>1, <1>2, <1>3, <1>4, <2>2, <2>3, ThreadKept DEF forkret
<1>9. LockInv'
  <2>1. HoldAt(c) /\ CountAt(c) /\ MaskAt(c)
    BY <1>1 DEF LockInv
  <2>2. top[on[c]] = "forkret" /\ top'[on'[c]] = "user" /\ below'[on'[c]] = below[on[c]]
    BY <1>2, <1>4 DEF Go
  <2>3. holder' = [holder EXCEPT ![t] = NoCPU] /\ holder[t] = c
    BY <1>1, <1>3, <2>1, <2>2 DEF forkret, release, HoldAt, TickHeld, OwnHeld
  <2>4. \A x \in Locks : holder'[x] = IF x = t THEN NoCPU ELSE holder[x]
    BY <1>1, <2>3 DEF Types
  <2>5. LockFrame(c) /\ \A x \in Locks : holder'[x] = c <=> holder[x] = c /\ x # t
    BY <2>3, <2>4 DEF LockFrame
  <2>6. HoldAt(c)'
    <3>1. holder'["tickslock"] = c <=> top'[on'[c]] \in TickHeld
      BY Zenon, <2>1, <2>2, <2>5, Names DEF HoldAt, TickHeld
    <3>2. ASSUME NEW x \in Kthreads
          PROVE  holder'[x] = c <=> \/ on'[c] = x /\ top'[on'[c]] \in OwnHeld
                                    \/ on'[c] = c /\ top'[on'[c]] \in PickHeld /\ pick'[c] = x
      BY Zenon, <1>3, <1>4, <2>1, <2>2, <2>5, Names DEF HoldAt, OwnHeld, PickHeld
    <3> QED BY <3>1, <3>2 DEF HoldAt
  <2>7. noff[c] = 1
    BY Zenon, <2>1, <2>2, Counts DEF CountAt
  <2>8. noff[c] = 1 /\ noff'[c] = 0
    BY <1>4, <2>7
  <2>9. CountAt(c)'
    BY Zenon, <2>2, <2>8, Counts DEF CountAt, Plain
  <2>10. MaskAt(c)'
    BY Zenon, <1>4, <2>1, <2>2, <2>8, <1>5 DEF MaskAt, Plain, Sleeping
  <2> QED
    BY <1>1, <1>2, <1>4, <2>5, <2>6, <2>9, <2>10, LockKept
<1>10. ClockInv'
  <2>1. TickAt(c)'
    BY Zenon, <1>2, <1>4 DEF TickAt, Go
  <2>2. UNCHANGED <<clockVars, kstate>>
    BY <1>1 DEF forkret
  <2>3. SleepAt(t)'
    BY <1>1, <1>6, <2>2, SleepHere DEF Early
  <2> QED
    BY Zenon, <1>1, <1>2, <1>3, <1>4, <2>1, <2>2, <2>3, ClockKept DEF clockVars
<1> QED BY <1>7, <1>8, <1>9, <1>10

-----------------------------------------------------------------------------
(* The steps of a scheduler. *)

\* The thread a scheduler has found RUNNABLE is on no CPU.
LEMMA Found ==
  ASSUME Types, CpuInv, ThreadInv, LockInv, NEW c \in CPUs, on[c] = c, top[c] = "scan_held",
         kstate[pick[c]] = "RUNNABLE"
  PROVE  /\ pick[c] \in Kthreads /\ \A d \in CPUs : on[d] # pick[c]
         /\ top[pick[c]] \in {"resume", "forkret"}
<1>1. pick[c] \in Kthreads /\ pick[c] # c
  BY DEF Types
<1>2. holder[pick[c]] = c
  BY <1>1 DEF LockInv, HoldAt, PickHeld
<1>3. ASSUME NEW d \in CPUs, on[d] = pick[c] PROVE FALSE
  <2>1. top[on[d]] = "sched"
    BY <1>1, <1>3 DEF ThreadInv, ThreadAt
  <2>2. holder[pick[c]] = d
    BY <1>1, <1>3, <2>1 DEF LockInv, HoldAt, OwnHeld
  <2> QED BY <1>1, <1>2, <1>3, <2>2
<1> QED BY <1>1, <1>3 DEF ThreadInv, ThreadAt

\* A scheduler goes round its loop,
LEMMA SchedulerKept ==
  ASSUME Types, CpuInv, ThreadInv, ClockInv, NEW c \in CPUs, NEW l \in Scheduling,
         NEW m \in Scheduling, Go(c, l, m), Frame(c), on'[c] = on[c],
         UNCHANGED <<saved, kstate, clockVars>>
  PROVE  /\ on[c] = c /\ top[c] = l /\ top'[c] = m
         /\ CpuInv' /\ ThreadInv' /\ ClockInv'
<1>1. on[c] = c /\ top[c] = l /\ top'[c] = m /\ below'[c] = below[c] /\ Stays(c)
  BY Zenon, Whose DEF Go
<1>2. \A t \in Kthreads : t # on[c]
  BY Zenon, <1>1
<1>3. CpuAt(c)'
  BY <1>1 DEF CpuInv, CpuAt, Scheduling, Handling
<1>4. CpuInv'
  BY Zenon, <1>1, <1>3, CpuKept
<1>5. ThreadInv'
  BY Zenon, <1>1, <1>2, ThreadKept
<1>6. TickAt(c)'
  BY <1>1 DEF TickAt, Scheduling
<1>7. ClockInv'
  BY <1>1, <1>2, <1>6, ClockKept DEF clockVars
<1> QED BY <1>1, <1>4, <1>5, <1>7

LEMMA scheduler_topStep ==
  ASSUME IInv, NEW c \in CPUs, scheduler_top(c)
  PROVE  CpuInv' /\ ThreadInv' /\ LockInv' /\ ClockInv'
<1>1. Types /\ CpuInv /\ ThreadInv /\ LockInv /\ ClockInv
  BY DEF IInv
<1>2. Go(c, "s_top", "s_scan") /\ Stays(c)
  BY <1>1, scheduler_topGoes DEF Go
<1>3. /\ Frame(c) /\ on'[c] = on[c] /\ pick'[c] = pick[c]
      /\ intr'[c] /\ noff'[c] = noff[c] /\ intena'[c] = intena[c]
  BY <1>1 DEF scheduler_top, Frame, Types
<1>4. /\ on[c] = c /\ top[c] = "s_top" /\ top'[c] = "s_scan"
      /\ CpuInv' /\ ThreadInv' /\ ClockInv'
  <2>1. "s_top" \in Scheduling /\ "s_scan" \in Scheduling
    BY DEF Scheduling
  <2>2. UNCHANGED <<saved, kstate, clockVars>>
    BY DEF scheduler_top
  <2> QED BY <1>1, <1>2, <1>3, <2>1, <2>2, SchedulerKept
<1>5. LockInv'
  <2>1. HoldAt(c) /\ CountAt(c) /\ MaskAt(c) /\ holder' = holder
    BY <1>1 DEF LockInv, scheduler_top
  <2>2. LockFrame(c)
    BY <2>1 DEF LockFrame
  <2>3. HoldAt(c)'
    BY <1>3, <1>4, <2>1 DEF HoldAt, TickHeld, OwnHeld, PickHeld
  <2>4. CountAt(c)'
    BY <1>3, <1>4, <2>1, Counts DEF CountAt
  <2>5. MaskAt(c)'
    BY <1>3, <1>4, <2>1 DEF MaskAt, Plain, Sleeping
  <2> QED BY <1>1, <1>2, <1>3, <2>2, <2>3, <2>4, <2>5, LockKept
<1> QED BY <1>4, <1>5

\* releases the lock of a thread it will not run or has run,
LEMMA scheduler_releaseStep ==
  ASSUME IInv, NEW c \in CPUs, scheduler_release(c)
  PROVE  CpuInv' /\ ThreadInv' /\ LockInv' /\ ClockInv'
<1>1. Types /\ CpuInv /\ ThreadInv /\ LockInv /\ ClockInv
  BY DEF IInv
<1>2. PICK l \in Scheduling, m \in Scheduling :
         Go(c, l, m) /\ l \in {"s_back", "scan_held"} /\ m \in {"s_top", "s_scan"}
                     /\ (m = "s_scan" => l = "scan_held")
  BY <1>1, scheduler_releaseGoes DEF Scheduling
<1>3. /\ Frame(c) /\ on'[c] = on[c] /\ pick'[c] = pick[c]
      /\ noff'[c] = noff[c] - 1 /\ intena'[c] = intena[c]
  BY <1>1 DEF scheduler_release, release, pop_off, LastPop, Frame, Types
<1>4. intr'[c] <=> intr[c] \/ (noff[c] = 1 /\ intena[c])
  BY <1>1 DEF scheduler_release, release, pop_off, LastPop, Types
<1>5. on[c] = c /\ top[c] = l /\ top'[c] = m /\ CpuInv' /\ ThreadInv' /\ ClockInv'
  <2>1. UNCHANGED <<saved, kstate, clockVars>>
    BY DEF scheduler_release
  <2> QED BY <1>1, <1>2, <1>3, <2>1, SchedulerKept
<1>6. LockInv'
  <2>1. HoldAt(c) /\ CountAt(c) /\ MaskAt(c) /\ Stays(c) /\ pick[c] \in Kthreads
    BY <1>1, <1>2 DEF LockInv, Go, Types
  <2>2. holder' = [holder EXCEPT ![pick[c]] = NoCPU] /\ holder[pick[c]] = c
    BY <1>2, <1>5, <2>1 DEF scheduler_release, release, HoldAt, PickHeld
  <2>3. \A x \in Locks : holder'[x] = IF x = pick[c] THEN NoCPU ELSE holder[x]
    BY <1>1, <2>2 DEF Types
  <2>4. LockFrame(c) /\ \A x \in Locks : holder'[x] = c <=> holder[x] = c /\ x # pick[c]
    BY <2>2, <2>3 DEF LockFrame
  <2>5. HoldAt(c)'
    <3>1. holder'["tickslock"] = c <=> top'[on'[c]] \in TickHeld
      BY Zenon, <1>2, <1>3, <1>5, <2>1, <2>4, Names DEF HoldAt, TickHeld
    <3>2. ASSUME NEW x \in Kthreads
          PROVE  holder'[x] = c <=> \/ on'[c] = x /\ top'[on'[c]] \in OwnHeld
                                    \/ on'[c] = c /\ top'[on'[c]] \in PickHeld /\ pick'[c] = x
      BY Zenon, <1>2, <1>3, <1>5, <2>1, <2>4, Names DEF HoldAt, OwnHeld, PickHeld
    <3> QED BY <3>1, <3>2 DEF HoldAt
  <2>6. noff[c] = 1
    BY <1>2, <1>5, <2>1, Counts DEF CountAt
  <2>7. noff[c] = 1 /\ noff'[c] = 0
    BY <1>3, <2>6
  <2>8. CountAt(c)'
    BY <1>2, <1>3, <1>5, <2>7, Counts DEF CountAt
  <2>9. MaskAt(c)'
    BY <1>2, <1>3, <1>5, <1>4, <2>1, <2>7 DEF MaskAt, Plain, Sleeping
  <2> QED BY <1>1, <1>3, <2>1, <2>4, <2>5, <2>8, <2>9, LockKept
<1> QED BY <1>5, <1>6

\* and switches to one it will, which gets the CPU with its lock.
LEMMA scheduler_runStep ==
  ASSUME IInv, NEW c \in CPUs, scheduler_run(c)
  PROVE  CpuInv' /\ ThreadInv' /\ LockInv' /\ ClockInv'
<1>1. Types /\ CpuInv /\ ThreadInv /\ LockInv /\ ClockInv
  BY DEF IInv
<1>2. Go(c, "scan_held", "s_back") /\ Stays(c)
  BY <1>1, scheduler_runGoes DEF Go
<1>3. on[c] = c /\ top[c] = "scan_held" /\ top'[c] = "s_back" /\ below'[c] = below[c]
  BY Zenon, <1>1, <1>2, Whose DEF Go, Scheduling
<1>4. PICK t \in Kthreads : pick[c] = t
  BY <1>1 DEF Types
<1>5. t # c /\ t \in Contexts /\ (\A d \in CPUs : on[d] # t) /\ top[t] \in {"resume", "forkret"}
  BY <1>1, <1>3, <1>4, Found DEF scheduler_run, Contexts
<1>6. /\ Frame(c) /\ on'[c] = t /\ pick'[c] = t /\ kstate'[t] = "RUNNING"
      /\ intr'[c] = intr[c] /\ noff'[c] = noff[c] /\ intena'[c] = intena[c]
  BY <1>1, <1>4 DEF scheduler_run, cpuVars, Frame, Types
<1>7. top'[t] = top[t] /\ below'[t] = below[t]
  BY Zenon, <1>2, <1>3, <1>5 DEF Stays
<1>8. CpuInv'
  <2>1. CpuAt(c)'
    BY <1>1, <1>3, <1>6 DEF CpuInv, CpuAt, Scheduling, Handling
  <2>2. ASSUME NEW d \in CPUs, d # c PROVE CpuAt(d)'
    <3>1. CpuAt(d) /\ d \in Contexts /\ d # on[c]
      BY <1>1, <1>3, <2>2 DEF CpuInv, Contexts
    <3>2. top'[d] = top[d] /\ below'[d] = below[d] /\ on'[d] = on[d] /\ pick'[d] = pick[d]
      BY <1>2, <1>6, <2>2, <3>1 DEF Stays, Frame
    <3> QED BY <3>1, <3>2 DEF CpuAt
  <2>3. ASSUME NEW d \in CPUs, NEW e \in CPUs, on'[d] = on'[e] PROVE d = e
    <3>1. \A x \in CPUs : x # c => on'[x] = on[x]
      BY <1>6 DEF Frame
    <3>2. \A x, y \in CPUs : on[x] = on[y] => x = y
      BY <1>1 DEF CpuInv
    <3> QED BY <1>5, <1>6, <2>3, <3>1, <3>2
  <2> QED BY <2>1, <2>2, <2>3 DEF CpuInv
<1>9. ThreadInv'
  <2>1. ThreadAt(t)'
    <3>1. ThreadAt(t) /\ saved' = saved
      BY <1>1 DEF ThreadInv, scheduler_run
    <3> QED BY <1>6, <1>7, <3>1 DEF ThreadAt
  <2>2. ASSUME NEW x \in Kthreads, x # t PROVE ThreadAt(x)'
    <3>1. ThreadAt(x) /\ x \in Contexts /\ x # c
      BY <1>1 DEF ThreadInv, Contexts
    <3>2. top'[x] = top[x] /\ below'[x] = below[x] /\ saved' = saved /\ kstate'[x] = kstate[x]
      BY <1>1, <1>2, <1>3, <1>4, <2>2, <3>1 DEF Stays, scheduler_run, Types
    <3>3. \A d \in CPUs : on'[d] = x <=> on[d] = x
      BY ZenonT(60), <1>3, <1>6, <2>2, <3>1 DEF Frame
    <3>4. top'[x] \in {"resume", "forkret"} \/ \E d \in CPUs : on'[d] = x
      BY <3>1, <3>2, <3>3 DEF ThreadAt
    <3> QED BY <3>1, <3>2, <3>3, <3>4 DEF ThreadAt
  <2> QED BY <2>1, <2>2 DEF ThreadInv
<1>10. LockInv'
  <2>1. HoldAt(c) /\ CountAt(c) /\ MaskAt(c) /\ holder' = holder
    BY <1>1 DEF LockInv, scheduler_run
  <2>2. LockFrame(c)
    BY <2>1 DEF LockFrame
  <2>3. HoldAt(c)'
    <3>1. top'[on'[c]] \in OwnHeld /\ top'[on'[c]] \notin TickHeld
      BY Zenon, <1>5, <1>6, <1>7 DEF TickHeld, OwnHeld
    <3>2. /\ holder["tickslock"] # c
          /\ \A x \in Kthreads : holder[x] = c <=> pick[c] = x
      BY <1>3, <2>1 DEF HoldAt, TickHeld, OwnHeld, PickHeld
    <3> QED BY ZenonT(60), <1>4, <1>5, <1>6, <2>1, <3>1, <3>2 DEF HoldAt
  <2>4. CountAt(c)'
    BY <1>3, <1>5, <1>6, <1>7, <2>1, Counts DEF CountAt
  <2>5. MaskAt(c)'
    BY Zenon, <1>3, <1>5, <1>6, <1>7, <2>1 DEF MaskAt, Plain, Sleeping
  <2> QED BY <1>1, <1>2, <1>6, <2>2, <2>3, <2>4, <2>5, LockKept
<1>11. ClockInv'
  <2>1. TickAt(c)'
    BY Zenon, <1>5, <1>6, <1>7 DEF TickAt
  <2>2. UNCHANGED clockVars /\ \A x \in Kthreads : kstate'[x] = kstate[x] \/ kstate'[x] = "RUNNING"
    BY <1>1, <1>4 DEF scheduler_run, Types
  <2> QED BY ZenonT(60), <1>1, <1>2, <1>3, <1>6, <2>1, <2>2, Names, ClockKept DEF clockVars
<1> QED BY <1>8, <1>9, <1>10, <1>11
=============================================================================
