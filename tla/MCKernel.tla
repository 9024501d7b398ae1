------------------------------ MODULE MCKernel ------------------------------
(***************************************************************************)
(* For TLC: processes that come and go (ForkExitWait), and the interrupts, *)
(* spinlocks and the clock under them (Interrupts).  `part' says which     *)
(* moves; a cpu that does not move has some thread to pick.                *)
(***************************************************************************)
EXTENDS ForkExitWait, Interrupts, TLC

VARIABLE part

MCInit == /\ part \in {"family", "interrupts"}
          /\ Init /\ InterruptsInit
          /\ part = "family" => \A c \in CPUs : pick[c] = CHOOSE t \in Kthreads : TRUE

\* Bound: allocproc() takes the first UNUSED slot.  (It may also take a later
\* one, when a slot it has passed becomes UNUSED.)
FirstSlot == \A q \in Procs : state[q] = "UNUSED" /\ state'[q] # "UNUSED" =>
               \A r \in 0 .. q - 1 : state[r] # "UNUSED"

MCNext == \/ part = "family" /\ Next /\ FirstSlot /\ UNCHANGED <<part, irqVars>>
          \/ part = "interrupts" /\ InterruptsNext /\ UNCHANGED <<part, vars>>

MCSpec == MCInit /\ [][MCNext]_<<part, vars, irqVars>>

ThreadSymmetry == Permutations(Kthreads)
=============================================================================
