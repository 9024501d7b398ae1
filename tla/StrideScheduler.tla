--------------------------- MODULE StrideScheduler ---------------------------
(***************************************************************************)
(* scheduler_stride() of kernel/proc.c on every CPU, with the process      *)
(* table of Proc and the fields stride scheduling adds to it, p->pass and  *)
(* p->stride.  The scan holds the lock of its best candidate while it      *)
(* takes the locks of the slots after it.                                  *)
(***************************************************************************)
EXTENDS Proc

CONSTANTS
  Prios,      \* the arguments user programs give forkprio()
  IntMax,     \* the largest int, 2147483647 in the build
  MaxPass     \* bound: a process whose pass is beyond it no longer yields

ASSUME StrideAssumption == IntMax \in Nat /\ MaxPass \in Nat

VARIABLES
  pass,       \* p->pass
  stride,     \* p->stride
  idx,        \* the loop variable of scheduler_stride on c
  minp,       \* min_pass_proc on c
  stable      \* history: the processes that have been RUNNABLE ever since
              \* c's current scan began

vars == <<tableVars, pass, stride, idx, minp, stable>>

\* stride and pass are what the loader left in .bss.
Init == /\ TableInit
        /\ pass = [p \in Slots |-> 0]
        /\ stride = [p \in Slots |-> 0]
        /\ idx = [c \in Cpus |-> 0]
        /\ minp = [c \in Cpus |-> NoProc]
        /\ stable = [c \in Cpus |-> {0}]

Runnable == {p \in Slots : state[p] = "RUNNABLE"}

\* History: c starts a scan now; elsewhere a process that stopped being
\* RUNNABLE leaves the set.
Track(starting) ==
  stable' = [c \in Cpus |-> IF c \in starting THEN Runnable'
                            ELSE stable[c] \cap Runnable']

\* A step of the process table that no scheduler variable takes part in.
Quiet == UNCHANGED <<pass, stride, idx, minp>> /\ Track({})

-----------------------------------------------------------------------------
(* The scheduler loop. *)

\* Mutant: between equal passes the smaller pid wins.
BetterSmallerPid(p, m) == \/ m = NoProc
                          \/ pass[p] < pass[m]
                          \/ (pass[p] = pass[m] /\ pid[p] < pid[m])

\* p replaces m as the best candidate: smaller pass, then larger pid.
Better(p, m) == \/ m = NoProc
                \/ pass[p] < pass[m]
                \/ (pass[p] = pass[m] /\ pid[p] > pid[m])

\* Mutant: the scan starts at a slot that rotates, as scheduler_loteria's does.
visitedRotated(c) == (idx[c] + nextpid) % NPROC

\* The slot the next iteration looks at.
visited(c) == idx[c]

\* One iteration: lock proc[idx], keep it if it beats the candidate (whose
\* lock is then dropped), otherwise release it.
Visit(c) ==
  LET p == visited(c) IN
  /\ pc[c] = "scan" /\ idx[c] < NPROC
  /\ lock[p] = NoCpu
  /\ idx' = [idx EXCEPT ![c] = @ + 1]
  /\ IF state[p] = "RUNNABLE" /\ Better(p, minp[c])
       THEN /\ lock' = [q \in Slots |-> IF q = p THEN c
                                        ELSE IF q = minp[c] THEN NoCpu
                                        ELSE lock[q]]
            /\ minp' = [minp EXCEPT ![c] = p]
       ELSE UNCHANGED <<lock, minp>>
  /\ UNCHANGED <<state, pid, np, nextpid, cproc, pc, pass, stride>>
  /\ Track({})

\* Nothing was RUNNABLE: start over.
Rescan(c) ==
  /\ pc[c] = "scan" /\ idx[c] = NPROC /\ minp[c] = NoProc
  /\ idx' = [idx EXCEPT ![c] = 0]
  /\ UNCHANGED <<tableVars, pass, stride, minp>>
  /\ Track({c})

\* Switch to the candidate, still holding its lock.
Dispatch(c) ==
  /\ pc[c] = "scan" /\ idx[c] = NPROC /\ minp[c] # NoProc
  /\ swtch(c, minp[c])
  /\ UNCHANGED lock
  /\ Quiet

\* pass and stride are C ints; the build's 32-bit addition wraps.
AddInt(x, s) == IF x > IntMax - s THEN (x - IntMax - 1) + (s - IntMax - 1)
                ELSE x + s

\* Back from the process: charge it, drop its lock, start a new scan.
SwtchBack(c) ==
  /\ swtched(c, minp[c])
  /\ pass' = [pass EXCEPT ![minp[c]] = AddInt(@, stride[minp[c]])]
  /\ idx' = [idx EXCEPT ![c] = 0]
  /\ minp' = [minp EXCEPT ![c] = NoProc]
  /\ UNCHANGED stride
  /\ Track({c})

-----------------------------------------------------------------------------
(* What running processes do to pass and stride. *)

Yield(c) == yield(c) /\ pass[cproc[c]] <= MaxPass /\ Quiet
Sleep(c) == sleep(c) /\ pass[cproc[c]] <= MaxPass /\ Quiet

\* fork() sets neither stride nor pass: they are what the slot's previous
\* process left there (freeproc() does not clear them).
Fork(c, q) == allocproc(c, q) /\ Quiet

tickets(prio) == CASE prio = 0 -> 100
                   [] prio = 1 -> 50
                   [] prio = 2 -> 250
                   [] OTHER -> 10000

\* forkprio() gives the child its stride and a pass of zero.
Forkprio(c, q, prio) ==
  /\ allocproc(c, q)
  /\ stride' = [stride EXCEPT ![q] = 10000 \div tickets(prio)]
  /\ pass' = [pass EXCEPT ![q] = 0]
  /\ UNCHANGED <<idx, minp>>
  /\ Track({})

-----------------------------------------------------------------------------

Next == \E c \in Cpus :
  \/ Visit(c) \/ Rescan(c) \/ Dispatch(c) \/ SwtchBack(c)
  \/ Yield(c) \/ Sleep(c)
  \/ ProcStep(c) /\ Quiet
  \/ \E q \in Slots : \/ Fork(c, q)
                       \/ \E prio \in Prios : Forkprio(c, q, prio)

Spec == Init /\ [][Next]_vars

\* Every CPU keeps running its scheduler; the timer interrupts every process
\* that runs; fork() finishes.
FairSpec ==
  /\ Spec
  /\ \A c \in Cpus :
       /\ WF_vars(\/ Visit(c) \/ Rescan(c) \/ Dispatch(c) \/ SwtchBack(c)
                  \/ resume(c) /\ Quiet)
       /\ WF_vars(Yield(c))
       /\ WF_vars(start(c) /\ Quiet)

-----------------------------------------------------------------------------
(* Properties. *)

\* Every field has its C type, and every lock a CPU or nobody as its owner.
TypeOK ==
  /\ TableType
  /\ pass \in [Slots -> Int]
  /\ stride \in [Slots -> Nat]
  /\ idx \in [Cpus -> 0 .. NPROC]
  /\ minp \in [Cpus -> Slots \cup {NoProc}]
  /\ stable \in [Cpus -> SUBSET Slots]

\* When scheduler_stride dispatches a process, no process that has been
\* RUNNABLE since the scan began comes before it by pass and then by larger
\* pid, although the scan looks at the slots one at a time while other CPUs
\* wake, start and switch processes.
PicksMinimum ==
  \A c \in Cpus : pc[c] = "scan" /\ idx[c] = NPROC =>
     /\ stable[c] # {} => minp[c] # NoProc
     /\ \A q \in stable[c] :
          \/ pass[minp[c]] < pass[q]
          \/ pass[minp[c]] = pass[q] /\ pid[minp[c]] >= pid[q]

\* The p->lock CPU c is spinning for, or about to ask for, if any.
Wanted(c) == IF pc[c] = "scan" /\ idx[c] < NPROC THEN {visited(c)}
             ELSE IF pc[c] = "run" THEN {cproc[c]} ELSE {}

\* No set of CPUs is stuck in acquire(), each spinning for a p->lock another
\* of them holds: scheduler_stride keeps one lock while it takes the next,
\* but always a later one in proc[].
NoCircularWait ==
  \A S \in SUBSET Cpus : S # {} =>
     \E c \in S : \A p \in Wanted(c) : lock[p] \notin S

\* README.md: the CPU is shared in proportion to the tickets.  A process that
\* waits for the CPU gets it, as long as no pass reaches the model's bound.
NoStarvation ==
  [](\A p \in Slots : pass[p] <= MaxPass) =>
  \A p \in Slots : state[p] = "RUNNABLE" ~> state[p] # "RUNNABLE"

\* The same for a system in which, from some time on, only processes with
\* tickets (a positive stride) compete for the CPU.
TicketedShare ==
  <>[](\A p \in Slots : state[p] \in {"RUNNABLE", "RUNNING"} => stride[p] > 0) =>
  \A p \in Slots : state[p] = "RUNNABLE" ~> state[p] # "RUNNABLE"
=============================================================================
