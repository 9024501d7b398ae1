------------------------------ MODULE Sorteio ------------------------------
(***************************************************************************)
(* rand_lottery() and sorteio_prioridade() of kernel/proc.c as functions   *)
(* of the seed.  A 32-bit unsigned seed is a pair of 16-bit halves.        *)
(***************************************************************************)
EXTENDS Integers

W16 == 65536

\* seed * 1103515245 + 1248345 in unsigned int, by halves:
\* 1103515245 = 16838 * 2^16 + 20077 and 1248345 = 19 * 2^16 + 3161.
next_seed(s) ==
  LET low == s.lo * 20077 + 3161
      high == ((s.hi * 20077) % W16) + ((s.lo * 16838) % W16) + 19 + (low \div W16)
  IN  [hi |-> high % W16, lo |-> low % W16]

\* (seed / 65536) % 32768
rand_lottery(s) == s.hi % 32768

bilhetes == [k \in 0 .. 3 |-> <<6, 3, 2, 1>>[k + 1]]
total == 12

\* Mutant: <= for <.
sorteio_closed(sorteio) ==
  CASE sorteio <= 6 -> 0 [] sorteio <= 6 + 3 -> 1 [] sorteio <= 6 + 3 + 2 -> 2 [] OTHER -> 3

\* The class that owns ticket number sorteio.
sorteio_prioridade(sorteio) == CASE sorteio < 6 -> 0
                                 [] sorteio < 6 + 3 -> 1
                                 [] sorteio < 6 + 3 + 2 -> 2
                                 [] OTHER -> 3
=============================================================================
