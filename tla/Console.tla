------------------------------ MODULE Console ------------------------------
(***************************************************************************)
(* The console of kernel/console.c over the UART driver of kernel/uart.c.  *)
(* User threads read lines (consoleread) and write characters              *)
(* (consolewrite, uartputc); the interrupt handler, one at a time because  *)
(* of plic_claim() and plic_complete(), takes what has been typed          *)
(* (uartintr, consoleintr) and sends what has been written (uartstart).    *)
(*                                                                         *)
(* A step ends where a lock is released or the device may act: consoleread *)
(* holds cons.lock from one character to the next, uartstart holds         *)
(* uart_tx_lock from one to the next.  The echo of an input character, one *)
(* or several bytes, is one transmission.                                  *)
(***************************************************************************)
EXTENDS Integers, Sequences, FiniteSets

CONSTANTS
  Users, NoUser,
  Plain,            \* ordinary characters
  INPUT_BUF_SIZE,
  UART_TX_BUF_SIZE,
  UintMod,          \* bound: indices count modulo this, a multiple of both sizes
  Readers, Writers, \* the users that read, and that write
  ReadSizes         \* the n of the reads

VARIABLES
  buf, r, w, e,     \* cons.buf, cons.r, cons.w, cons.e
  conslk,           \* the reader that holds cons.lock
  txn,              \* uart_tx_w - uart_tx_r: the bytes in uart_tx_buf
  txlk,             \* who holds uart_tx_lock: a writer, "intr" or NoUser
  rhr,              \* the UART has a typed character: LSR & 1
  thr,              \* the transmitter is busy: LSR_TX_IDLE is clear
  txirq,            \* the UART asks for an interrupt: transmitter empty
  hpc,              \* the next step of uartintr()
  upc, want, got,   \* per thread: next step, bytes wanted, bytes delivered
  slain,            \* p->killed
  panicked

consVars == <<buf, r, w, e, conslk>>
uartVars == <<txn, txlk>>
wireVars == <<rhr, thr, txirq>>
userVars == <<upc, want, got, slain>>
consoleVars == <<consVars, uartVars, wireVars, hpc, userVars, panicked>>

ConsoleInit ==
  /\ buf = [i \in 0 .. INPUT_BUF_SIZE - 1 |-> "nul"]
  /\ r = 0 /\ w = r /\ e = r
  /\ conslk = NoUser
  /\ txn = 0 /\ txlk = NoUser
  /\ rhr = FALSE /\ thr = FALSE /\ txirq = FALSE
  /\ hpc = "idle"
  /\ upc = [u \in Users |-> "user"] /\ want = [u \in Users |-> 0]
  /\ got = [u \in Users |-> 0]
  /\ slain = [u \in Users |-> FALSE]
  /\ panicked = FALSE

Inc(i) == (i + 1) % UintMod
Dec(i) == (i - 1) % UintMod
Minus(i, j) == (i - j) % UintMod
U(u, l) == upc' = [upc EXCEPT ![u] = l]
WokenUsers(l, m) == [u \in Users |-> IF upc[u] = l THEN m ELSE upc[u]]

-----------------------------------------------------------------------------
(* consoleread(). *)

consoleread(u, n) ==
  /\ upc[u] = "user"
  /\ U(u, "read")
  /\ want' = [want EXCEPT ![u] = n]
  /\ UNCHANGED <<consVars, uartVars, wireVars, hpc, got, slain, panicked>>

\* The reader has cons.lock from its last character, or takes it now.
Reading(u) == upc[u] = "read" /\ conslk \in {u, NoUser}

\* The inner loop: no input, so sleep, or return -1 when killed.  A process
\* that returns killed exits; another takes its place.
read_wait(u) ==
  /\ Reading(u) /\ r = w
  /\ U(u, IF slain[u] THEN "user" ELSE "r_asleep")
  /\ slain' = [slain EXCEPT ![u] = FALSE]
  /\ want' = [want EXCEPT ![u] = IF slain[u] THEN 0 ELSE @]
  /\ got' = [got EXCEPT ![u] = IF slain[u] THEN 0 ELSE @]
  /\ conslk' = NoUser
  /\ UNCHANGED <<buf, r, w, e, uartVars, wireVars, hpc, panicked>>

\* cons.r after end-of-file: put back unless nothing was delivered.
EofIndex(u) == IF got[u] > 0 THEN r ELSE Inc(r)

\* One character: ^D ends the read, a newline or the last wanted byte too,
\* and so does either_copyout() when it fails.
read_char(u, fails) ==
  LET c == buf[r % INPUT_BUF_SIZE]
      eof == c = "eof"
      ends == eof \/ fails \/ c = "nl" \/ want[u] = 1
  IN  /\ Reading(u) /\ r # w
      /\ r' = IF eof THEN EofIndex(u) ELSE Inc(r)
      /\ got' = [got EXCEPT ![u] = IF ends THEN 0 ELSE @ + 1]
      /\ want' = [want EXCEPT ![u] = IF ends THEN 0 ELSE @ - 1]
      /\ U(u, IF ends THEN "user" ELSE "read")
      /\ conslk' = IF ends THEN NoUser ELSE u
      /\ UNCHANGED <<buf, w, e, uartVars, wireVars, hpc, slain, panicked>>

\* kill(): a sleeping reader becomes RUNNABLE.
kill_reader(u) ==
  /\ upc[u] = "r_asleep" /\ ~ slain[u]
  /\ slain' = [slain EXCEPT ![u] = TRUE]
  /\ U(u, "read")
  /\ UNCHANGED <<consVars, uartVars, wireVars, hpc, want, got, panicked>>

-----------------------------------------------------------------------------
(* consolewrite() sends one character after another with uartputc(). *)

Full == txn = UART_TX_BUF_SIZE

\* A call, or a writer that was woken, finds the buffer full and sleeps.
uartputc_wait(u) ==
  /\ upc[u] = "put" /\ txlk = NoUser /\ ~ panicked
  /\ Full
  /\ U(u, "w_asleep")
  /\ UNCHANGED <<consVars, uartVars, wireVars, hpc, want, got, slain, panicked>>

consolewrite(u) ==
  /\ upc[u] = "user"
  /\ U(u, "put")
  /\ UNCHANGED <<consVars, uartVars, wireVars, hpc, want, got, slain, panicked>>

\* uartputc() goes on to uartstart() with the lock.
AfterPut(u) == U(u, "start") /\ txlk' = u

uartputc(u) ==
  /\ upc[u] = "put" /\ txlk = NoUser /\ ~ panicked
  /\ ~ Full
  /\ txn' = txn + 1
  /\ AfterPut(u)
  /\ UNCHANGED <<consVars, wireVars, hpc, want, got, slain, panicked>>

\* Mutant: uartstart() wakes nobody.
TxWakeup_none == upc

\* wakeup(&uart_tx_r).
TxWakeup == WokenUsers("w_asleep", "put")

\* uartstart(), one turn: send a character while the UART is idle.
start_send ==
  /\ txlk # NoUser /\ txn # 0 /\ ~ thr
  /\ txn' = txn - 1
  /\ upc' = TxWakeup
  /\ thr' = TRUE /\ txirq' = FALSE
  /\ UNCHANGED <<consVars, txlk, rhr, hpc, want, got, slain, panicked>>

\* uartstart() returns: nothing to send, which reads ISR and so withdraws the
\* interrupt, or the UART is busy.  Then uartputc() or uartintr() returns.
start_return ==
  /\ txlk # NoUser /\ (txn = 0 \/ thr)
  /\ txirq' = (txirq /\ txn # 0)
  /\ txlk' = NoUser
  /\ IF txlk = "intr" THEN hpc' = "idle" /\ UNCHANGED upc
                      ELSE U(txlk, "user") /\ UNCHANGED hpc
  /\ UNCHANGED <<consVars, txn, rhr, thr, want, got, slain, panicked>>

-----------------------------------------------------------------------------
(* uartintr(), called by devintr(). *)

\* plic_claim() says UART0_IRQ.
devintr_uart ==
  /\ hpc = "idle" /\ (rhr \/ txirq)
  /\ hpc' = "getc"
  /\ UNCHANGED <<consVars, uartVars, wireVars, userVars, panicked>>

\* uartgetc() returns -1.
uartgetc_none ==
  /\ hpc = "getc" /\ ~ rhr
  /\ hpc' = "tx"
  /\ UNCHANGED <<consVars, uartVars, wireVars, userVars, panicked>>

\* consputc(): uartputc_sync() spins until the UART is idle.
Echo == ~ thr /\ ~ panicked /\ thr' = TRUE /\ txirq' = FALSE
NoEcho == UNCHANGED <<thr, txirq>>

\* ^U: back to the last newline, or to what has been finished.
KillTo == CHOOSE i \in 0 .. UintMod - 1 :
  LET d == Minus(e, i) IN
    /\ d <= Minus(e, w)
    /\ \A k \in 1 .. d : buf[Minus(e, k) % INPUT_BUF_SIZE] # "nl"
    /\ i = w \/ buf[Dec(i) % INPUT_BUF_SIZE] = "nl"

\* Mutant: backspace goes on into the finished lines.
Erasable_ready == e # r

\* There is something to erase.
Erasable == e # w

Erases(i) ==
  /\ e' = i
  /\ Echo
  /\ UNCHANGED <<buf, r, w, upc>>

Nothing == NoEcho /\ UNCHANGED <<buf, r, w, e, upc>>

\* The character finishes the line.
Finishes(c) == c \in {"nl", "eof"} \/ Minus(Inc(e), r) = INPUT_BUF_SIZE

\* wakeup(&cons.r).
LineWakeup == WokenUsers("r_asleep", "read")

\* There is room for another character.
Room == Minus(e, r) < INPUT_BUF_SIZE

Stores(c) ==
  /\ Echo
  /\ buf' = [buf EXCEPT ![e % INPUT_BUF_SIZE] = c]
  /\ e' = Inc(e)
  /\ IF Finishes(c) THEN w' = Inc(e) /\ upc' = LineWakeup ELSE UNCHANGED <<w, upc>>
  /\ UNCHANGED r

Keys == Plain \cup {"nl", "cr", "eof", "bs", "kill", "dump", "nul"}

\* uartgetc() returns c and consoleintr(c) handles it: ^P only prints, ^U and
\* ^H edit, the rest is stored.
consoleintr(c) ==
  /\ hpc = "getc" /\ rhr /\ conslk = NoUser
  /\ CASE c = "dump" -> Nothing
       [] c = "kill" -> IF KillTo # e THEN Erases(KillTo) ELSE Nothing
       [] c = "bs"   -> IF Erasable THEN Erases(Dec(e)) ELSE Nothing
       [] OTHER      -> IF c # "nul" /\ Room
                          THEN Stores(IF c = "cr" THEN "nl" ELSE c) ELSE Nothing
  /\ rhr' = FALSE
  /\ UNCHANGED <<conslk, uartVars, hpc, want, got, slain, panicked>>

uartintr_start ==
  /\ hpc = "tx" /\ txlk = NoUser
  /\ txlk' = "intr" /\ hpc' = "start"
  /\ UNCHANGED <<consVars, txn, wireVars, userVars, panicked>>

-----------------------------------------------------------------------------
(* The UART, and panic(). *)

\* Someone types; the character is known when it is read.
uart_receives ==
  /\ ~ rhr /\ rhr' = TRUE
  /\ UNCHANGED <<consVars, uartVars, thr, txirq, hpc, userVars, panicked>>

uart_sent ==
  /\ thr
  /\ thr' = FALSE /\ txirq' = TRUE
  /\ UNCHANGED <<consVars, uartVars, rhr, hpc, userVars, panicked>>

\* Some CPU panics: uartputc() and uartputc_sync() spin from now on.
panic ==
  /\ ~ panicked /\ panicked' = TRUE
  /\ UNCHANGED <<consVars, uartVars, wireVars, hpc, userVars>>

\* After a panic the CPUs spin.
spin == panicked /\ UNCHANGED consoleVars

ConsoleNext ==
  \/ \E u \in Readers, n \in ReadSizes : consoleread(u, n)
  \/ \E u \in Writers : consolewrite(u)
  \/ \E u \in Users :
       \/ read_wait(u) \/ kill_reader(u)
       \/ \E f \in BOOLEAN : read_char(u, f)
       \/ uartputc_wait(u) \/ uartputc(u)
  \/ start_send \/ start_return
  \/ devintr_uart \/ uartgetc_none \/ uartintr_start \/ \E c \in Keys : consoleintr(c)
  \/ uart_receives \/ uart_sent \/ panic \/ spin

-----------------------------------------------------------------------------
(* Properties. *)

Span(i, j) == [k \in 1 .. Minus(j, i) |-> buf[((i + k - 1) % UintMod) % INPUT_BUF_SIZE]]
Ready == Span(r, w)
Line == Span(w, e)

\* With the interrupt handler between any two of their steps, no reader
\* sleeps on finished input and no writer sleeps with room in the buffer; and
\* whenever nobody is at work on the transmit buffer and it is not empty, the
\* UART is sending or will interrupt.
ConsoleNoLostWakeup ==
  /\ \A u \in Users : /\ upc[u] = "r_asleep" => r = w
                      /\ upc[u] = "w_asleep" => Full
  /\ txn # 0 /\ txlk = NoUser /\ hpc = "idle" => thr \/ txirq

\* ^D makes exactly one read return 0 bytes: it leaves the buffer only when
\* the read that takes it has delivered nothing.
EofReturnsZero ==
  [][\A u \in Users : r # r' /\ buf[r % INPUT_BUF_SIZE] = "eof" /\ upc[u] # upc'[u]
       => got[u] = 0]_consoleVars

LD == INSTANCE LineDiscipline WITH ready <- Ready, line <- Line, SIZE <- INPUT_BUF_SIZE

\* Input is a line discipline: editing never reaches finished input, readers
\* and the handler never lose, repeat or reorder it, also where the indices wrap.
IsLineDiscipline == LD!Spec
=============================================================================
