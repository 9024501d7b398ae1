----------------------------- MODULE MCStreams -----------------------------
(***************************************************************************)
(* For TLC: the streams programs read and write, pipes (Pipe) and the      *)
(* console (Console), and the programs' side of them: how the shell reads  *)
(* a line (ShellParser) and connects the commands in it (RunCmd), and the  *)
(* allocator it is linked with (Umalloc).  `part' says which moves.        *)
(***************************************************************************)
EXTENDS Pipe, TLC

CONSTANTS Users, NoUser, Plain, INPUT_BUF_SIZE, UART_TX_BUF_SIZE, Readers, Writers, ReadSizes,
          MAXARGS, MaxTokens, MaxProcs, Commands, MaxHeap, MINUNITS, Requests
VARIABLES part,
          buf, r, w, e, conslk, txn, txlk, rhr, thr, txirq, hpc, upc, want, got, slain,
          panicked,
          line,
          tree, at, std, other, sire, born, pipes,
          ptr, size, freep, brk, live

C == INSTANCE Console
SP == INSTANCE ShellParser
RC == INSTANCE RunCmd
UM == INSTANCE Umalloc

consoleVars == <<buf, r, w, e, conslk, txn, txlk, rhr, thr, txirq, hpc, upc, want, got,
                 slain, panicked>>
jobVars == <<tree, at, std, other, sire, born, pipes>>
heapVars == <<ptr, size, freep, brk, live>>

\* The lines the shell is given, as parsed.
X == <<"EXEC", 1>>
P(l, m) == <<"PIPE", l, m>>
S(l, m) == <<"LIST", l, m>>
B(c) == <<"BACK", c>>
MCCommands == {X, <<"REDIR", 1, X>>, B(X), P(X, X), P(X, P(X, X)), P(P(X, X), X),
               S(P(X, X), X), S(B(P(X, X)), P(X, X)), P(S(X, X), B(X)), P(B(X), X)}

Parts == {"pipe", "console", "parser", "jobs", "heap"}

MCInit ==
  /\ part \in Parts
  /\ Init /\ C!ConsoleInit /\ RC!RunInit /\ UM!HeapInit
  /\ part # "pipe" => /\ "r" \in fds[CHOOSE p \in Procs : TRUE]
                      /\ ch = CHOOSE b \in Byte : TRUE
                      /\ data[0] = ch
  /\ IF part = "parser" THEN SP!ParserInit ELSE line = <<>>
  /\ part # "jobs" => tree[0] = X

MCNext ==
  \/ part = "pipe" /\ Next /\ UNCHANGED <<part, consoleVars, line, jobVars, heapVars>>
  \/ part = "console" /\ C!ConsoleNext /\ UNCHANGED <<part, vars, line, jobVars, heapVars>>
  \/ part = "jobs" /\ RC!RunNext /\ UNCHANGED <<part, vars, consoleVars, line, heapVars>>
  \/ part = "heap" /\ UM!HeapNext /\ UNCHANGED <<part, vars, consoleVars, line, jobVars>>
  \/ /\ part = "parser"
     /\ UNCHANGED <<part, vars, consoleVars, line, jobVars, heapVars>>

MCSpec == MCInit /\ [][MCNext]_<<part, vars, consoleVars, line, jobVars, heapVars>>

\* With the interrupt handler between any two of their steps, no reader
\* sleeps on finished input and no writer sleeps with room in the buffer; and
\* written characters never get stuck: whenever nobody is at work on the
\* transmit buffer and it is not empty, the UART is sending or will interrupt
\* (consoleread, uartputc, uartstart, consoleintr, uartintr).
ConsoleNoLostWakeup == part = "console" => C!ConsoleNoLostWakeup

\* Console input is a line discipline: editing never reaches finished input,
\* readers and the handler never lose, repeat or reorder it, also where the
\* indices wrap; and ^D makes exactly one read return 0 bytes (consoleintr,
\* consoleread).
IsLineDiscipline ==
  /\ C!LD!Init /\ [][part = "console" =>
                       C!LD!Next \/ UNCHANGED <<C!Ready, C!Line>>]_consoleVars
  /\ C!EofReturnsZero

\* Every line, the malformed ones included, is parsed as its separators say
\* and refused when they say nothing (parsecmd, parseline, parsepipe,
\* parseexec, parseblock, parseredirs).
ParsesTheLine == part = "parser" => SP!ParsesTheLine

\* No command hangs: whatever is in the pipes, lists, groups and background
\* jobs of a line, no set of its processes wait for each other.  Every end of
\* every pipe is closed in the processes that do not use it (runcmd).
PipelinesEnd == part = "jobs" => RC!PipelinesEnd

\* The heap is never corrupted by any order of calls: the list goes through
\* the free blocks once each, upwards and back to base; no two of them touch;
\* no unit is in two free or live blocks; and a block keeps the size it was
\* given out with (free, malloc, morecore).
HeapSound == part = "heap" => UM!HeapSound

\* The processes at a pipe are alike, and so are the bytes.
Symmetry == Permutations(Procs) \cup Permutations(Byte)
=============================================================================
