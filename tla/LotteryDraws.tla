---------------------------- MODULE LotteryDraws ----------------------------
(***************************************************************************)
(* The sequence of classes that scheduler_loteria() draws on one CPU, from *)
(* the seed the kernel is built with.                                      *)
(***************************************************************************)
EXTENDS Sorteio

CONSTANT MaxDraws   \* bound: draws followed

VARIABLES
  seed,
  draws,      \* draws so far
  won,        \* per class: how often it was drawn
  wait        \* per class: draws since it was last drawn

vars == <<seed, draws, won, wait>>

\* seed = 123456
Init == /\ seed = [hi |-> 1, lo |-> 57920]
        /\ draws = 0
        /\ won = [k \in 0 .. 3 |-> 0]
        /\ wait = [k \in 0 .. 3 |-> 0]

Draw ==
  /\ draws < MaxDraws
  /\ seed' = next_seed(seed)
  /\ LET k == sorteio_prioridade(rand_lottery(seed') % total) IN
       /\ won' = [won EXCEPT ![k] = @ + 1]
       /\ wait' = [j \in 0 .. 3 |-> IF j = k THEN 0 ELSE wait[j] + 1]
  /\ draws' = draws + 1

\* The bound is reached: nothing more is followed.
Rest == draws = MaxDraws /\ UNCHANGED vars

Next == Draw \/ Rest

\* README.md gives the classes 6, 3, 2 and 1 tickets.  After 1200 draws and
\* from then on, every class has won its share of the draws, to within 15%; and
\* no class, not even class 3 with its single ticket, is passed over for more
\* than eight times the number of draws its tickets entitle it to wait.
SharesFollowTickets ==
  \A k \in 0 .. 3 :
    LET fair == draws * bilhetes[k]
        off == IF won[k] * total >= fair THEN won[k] * total - fair
                                         ELSE fair - won[k] * total
    IN  /\ draws >= 1200 => off * 100 <= 15 * fair
        /\ wait[k] * bilhetes[k] <= 8 * total
=============================================================================
