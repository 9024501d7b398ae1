-------------------------- MODULE LotteryScheduler --------------------------
(***************************************************************************)
(* scheduler_loteria() of kernel/proc.c on every CPU, with the process     *)
(* table of Proc, p->classe and the shared last_index[4].  A CPU draws a   *)
(* class, scans proc[] from last_index of that class, runs the first       *)
(* RUNNABLE process of the class and then, after releasing p->lock and     *)
(* under no lock at all, stores where the next scan of the class starts.   *)
(***************************************************************************)
EXTENDS Proc, Sorteio

CONSTANT
  Used        \* the classes given to fork() and forkprio()

Classes == 0 .. 3

ASSUME UsedAssumption == Used \subseteq Classes

VARIABLES
  classe,       \* p->classe
  last_index,   \* per class
  at,           \* where CPU c's scheduler is: "draw", "visit" or "update"
  classe_atual, \* local variables of scheduler_loteria on c
  begin,        \* (start in the code)
  i,
  ran           \* history: the processes of q's class dispatched while q has
                \* been waiting

loopVars == <<at, classe_atual, begin, i>>
vars == <<tableVars, classe, last_index, loopVars, ran>>

Init == /\ TableInit
        /\ classe = [p \in Slots |-> 0]
        /\ last_index = [k \in Classes |-> 0]
        /\ at = [c \in Cpus |-> "draw"]
        /\ classe_atual = [c \in Cpus |-> 0]
        /\ begin = [c \in Cpus |-> 0]
        /\ i = [c \in Cpus |-> 0]
        /\ ran = [p \in Slots |-> {}]

-----------------------------------------------------------------------------
(* The scheduler loop. *)

\* Any ticket may come up; LotteryDraws follows the generator itself.
Draw(c, k) ==
  /\ pc[c] = "scan" /\ at[c] = "draw"
  /\ \E sorteio \in 0 .. total - 1 : sorteio_prioridade(sorteio) = k
  /\ classe_atual' = [classe_atual EXCEPT ![c] = k]
  /\ begin' = [begin EXCEPT ![c] = last_index[k]]
  /\ i' = [i EXCEPT ![c] = 0]
  /\ at' = [at EXCEPT ![c] = "visit"]
  /\ UNCHANGED <<tableVars, classe, last_index, ran>>

idx(c) == (begin[c] + i[c]) % NPROC

\* p starts to run: it is counted against those of its class that wait.
Overtake(p) ==
  ran' = [q \in Slots |-> IF q = p THEN {}
                          ELSE IF state[q] = "RUNNABLE" /\ classe[q] = classe[p]
                               THEN ran[q] \cup {p}
                               ELSE ran[q]]

\* The slot holds a RUNNABLE process of the class: run it.
Dispatch(c) ==
  LET p == idx(c) IN
  /\ pc[c] = "scan" /\ at[c] = "visit" /\ i[c] < NPROC
  /\ lock[p] = NoCpu
  /\ state[p] = "RUNNABLE" /\ classe[p] = classe_atual[c]
  /\ lock' = [lock EXCEPT ![p] = c]
  /\ swtch(c, p)
  /\ Overtake(p)
  /\ UNCHANGED <<classe, last_index, loopVars>>

\* It does not: release its lock, go on.
Skip(c) ==
  LET p == idx(c) IN
  /\ pc[c] = "scan" /\ at[c] = "visit" /\ i[c] < NPROC
  /\ lock[p] = NoCpu
  /\ ~ (state[p] = "RUNNABLE" /\ classe[p] = classe_atual[c])
  /\ i' = [i EXCEPT ![c] = @ + 1]
  /\ UNCHANGED <<tableVars, classe, last_index, at, classe_atual, begin, ran>>

\* Nobody in the class can run: draw again.
NotFound(c) ==
  /\ pc[c] = "scan" /\ at[c] = "visit" /\ i[c] = NPROC
  /\ at' = [at EXCEPT ![c] = "draw"]
  /\ UNCHANGED <<tableVars, classe, last_index, classe_atual, begin, i, ran>>

\* Back from the process.
SwtchBack(c) ==
  /\ swtched(c, idx(c))
  /\ at' = [at EXCEPT ![c] = "update"]
  /\ UNCHANGED <<classe, last_index, classe_atual, begin, i, ran>>

\* Mutant: the next scan starts at the process that just ran.
UpdateStays(c) ==
  /\ pc[c] = "scan" /\ at[c] = "update"
  /\ last_index' = [last_index EXCEPT ![classe_atual[c]] = idx(c)]
  /\ at' = [at EXCEPT ![c] = "draw"]
  /\ UNCHANGED <<tableVars, classe, classe_atual, begin, i, ran>>

\* last_index[classe_atual] = (idx + 1) % NPROC, with no lock held.
Update(c) ==
  /\ pc[c] = "scan" /\ at[c] = "update"
  /\ last_index' = [last_index EXCEPT ![classe_atual[c]] = (idx(c) + 1) % NPROC]
  /\ at' = [at EXCEPT ![c] = "draw"]
  /\ UNCHANGED <<tableVars, classe, classe_atual, begin, i, ran>>

-----------------------------------------------------------------------------
(* The rest of the process table. *)

Quiet == UNCHANGED <<classe, last_index, loopVars, ran>>

Yield(c) == yield(c) /\ Quiet

\* fork(class) and forkprio(prio) store the class before np can be RUNNABLE.
Fork(c, q, k) ==
  /\ allocproc(c, q)
  /\ classe' = [classe EXCEPT ![q] = k]
  /\ UNCHANGED <<last_index, loopVars, ran>>

Next == \E c \in Cpus :
  \/ \E k \in Classes : Draw(c, k)
  \/ Dispatch(c) \/ Skip(c) \/ NotFound(c) \/ SwtchBack(c) \/ Update(c)
  \/ Yield(c)
  \/ (sleep(c) \/ ProcStep(c)) /\ Quiet
  \/ \E q \in Slots, k \in Used : Fork(c, q, k)

Spec == Init /\ [][Next]_vars

-----------------------------------------------------------------------------
(* Properties. *)

\* Every variable has its C type; indexes stay inside proc[] and last_index.
TypeOK ==
  /\ TableType
  /\ classe \in [Slots -> Classes]
  /\ last_index \in [Classes -> Slots]
  /\ at \in [Cpus -> {"draw", "visit", "update"}]
  /\ classe_atual \in [Cpus -> Classes]
  /\ begin \in [Cpus -> Slots]
  /\ i \in [Cpus -> 0 .. NPROC]
  /\ ran \in [Slots -> SUBSET Slots]

\* README.md: inside a class, round robin.  While a process waits for the
\* CPU, no process of its class is started twice.
RoundRobin ==
  [][\A p, q \in Slots :
       /\ p # q /\ classe[p] = classe[q]
       /\ state[q] = "RUNNABLE"
       /\ state[p] = "RUNNABLE" /\ state'[p] = "RUNNING"
       => p \notin ran[q]]_vars
=============================================================================
