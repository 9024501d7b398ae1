---------------------------- MODULE MCSchedulers ----------------------------
(***************************************************************************)
(* For TLC: the two schedulers main() may be built with, on the process    *)
(* table of Proc with several cpus.  `built' says which one is in the      *)
(* kernel.                                                                 *)
(***************************************************************************)
EXTENDS StrideScheduler, TLC

CONSTANT Used
VARIABLES built, classe, last_index, at, classe_atual, begin, i, ran

L == INSTANCE LotteryScheduler

strideVars == <<pass, stride, idx, minp, stable>>
lotteryVars == <<classe, last_index, at, classe_atual, begin, i, ran>>

MCInit == built \in {"stride", "lottery"} /\ Init /\ L!Init

\* Bound: allocproc() takes the first UNUSED slot.  (It may also take a later
\* one, when a slot it has passed becomes UNUSED.)
FirstSlot == \A q \in Slots : state[q] = "UNUSED" /\ state'[q] # "UNUSED" =>
               \A r \in 0 .. q - 1 : state[r] # "UNUSED"

MCNext ==
  \/ built = "stride" /\ Next /\ FirstSlot /\ UNCHANGED <<built, lotteryVars>>
  \/ built = "lottery" /\ L!Next /\ FirstSlot /\ UNCHANGED <<built, strideVars>>

MCSpec == MCInit /\ [][MCNext]_<<vars, built, lotteryVars>>

CpuSymmetry == Permutations(Cpus)
=============================================================================
