------------------------------ MODULE MCOneCpu ------------------------------
(***************************************************************************)
(* What must eventually happen on one CPU: scheduler_loteria serves every  *)
(* process, over any sequence of draws; beside it, the classes that the    *)
(* generator really draws; and init reaps the dead, whoever the scheduler  *)
(* prefers.  In a behaviour one part moves, and the fairness of that part  *)
(* is assumed.                                                             *)
(***************************************************************************)
EXTENDS LotteryScheduler

CONSTANTS MaxDraws, NCPU, MemFail, Targets
VARIABLES part, seed, draws, won, wait,
          fstate, fpid, parent, chan, killed, fnextpid, plock, wlock, fpc, fnp,
          pp, havekids, panicked

G == INSTANCE LotteryDraws
F == INSTANCE ForkExitWait
       WITH state <- fstate, pid <- fpid, nextpid <- fnextpid, pc <- fpc, np <- fnp

drawVars == <<seed, draws, won, wait>>
familyVars == <<fstate, fpid, parent, chan, killed, fnextpid, plock, wlock, fpc, fnp,
                pp, havekids, panicked>>

MCInit == part \in {"scheduler", "draws", "family"} /\ Init /\ G!Init /\ F!Init

MCNext ==
  \/ part = "scheduler" /\ Next /\ UNCHANGED <<part, drawVars, familyVars>>
  \/ part = "draws" /\ G!Next /\ UNCHANGED <<part, vars, familyVars>>
  \/ part = "family" /\ F!Next /\ UNCHANGED <<part, vars, drawVars>>

\* Every CPU keeps running its scheduler; the timer interrupts every process
\* that runs; fork() finishes; and a CPU that draws for ever draws a class in use
\* again and again, because the generator goes through all its 2^32 values.
SchedulerFairness ==
  \A c \in Cpus :
    /\ WF_vars(/\ part = "scheduler"
               /\ \/ Dispatch(c) \/ Skip(c) \/ NotFound(c) \/ SwtchBack(c)
                  \/ Update(c) \/ (resume(c) /\ Quiet))
    /\ WF_vars(part = "scheduler" /\ Yield(c))
    /\ WF_vars(part = "scheduler" /\ start(c) /\ Quiet)
    /\ \A k \in Used : SF_vars(part = "scheduler" /\ Draw(c, k))

\* A thread that has the CPU again and again makes progress: a tick is long
\* enough for a step, and one that holds a spinlock is not interrupted; a CPU
\* that could run somebody runs somebody, which both schedulers give; and init.c
\* calls wait() again and again.  Whose turn it is, is left to the scheduler.
FamilyFairness ==
  /\ \A p \in F!Procs : SF_familyVars(part = "family" /\ F!KernelStep(p))
  /\ WF_familyVars(part = "family" /\ \E p \in F!Procs : F!Dispatch(p))
  /\ SF_familyVars(part = "family" /\ F!Syscall(F!initproc, "wait"))

MCSpec ==
  /\ MCInit /\ [][MCNext]_<<part, vars, drawVars, familyVars>>
  /\ SchedulerFairness /\ FamilyFairness

\* README.md gives the classes 6, 3, 2 and 1 tickets.  After 1200 draws and
\* from then on, every class has won its share of the draws, to within 15%; and
\* no class is ever passed over for more than eight times the number of draws
\* its tickets entitle it to wait (rand_lottery, sorteio_prioridade).
SharesFollowTickets == G!SharesFollowTickets

\* On one CPU the processes of a class are served in turn, and every RUNNABLE
\* process of a class that is drawn again and again is dispatched: last_index
\* moves on after each dispatch (scheduler_loteria).
FairService ==
  /\ RoundRobin
  /\ \A p \in Slots : part = "scheduler" /\ state[p] = "RUNNABLE" ~> state[p] # "RUNNABLE"

\* A ZOMBIE that is a child of init is reaped, orphans included, whatever the
\* other processes do and whoever the scheduler prefers, unless the scheduler
\* starves init (exit, reparent, wait).
InitReaps == F!InitReaps
=============================================================================
