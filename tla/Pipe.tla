-------------------------------- MODULE Pipe --------------------------------
(***************************************************************************)
(* One pipe (kernel/pipe.c) and the two struct files that lead to it       *)
(* (kernel/file.c), shared by processes that fork, close descriptors,      *)
(* read, write, are killed and exit.  A process has at most one descriptor *)
(* for each end: dup() adds references just as fork() does.                *)
(*                                                                         *)
(* pi->lock is held in `lk' from acquire() to release() or sleep(): a      *)
(* process at "write" or "read" that does not hold it is in acquire().     *)
(* ftable.lock is taken and released within a step.                        *)
(***************************************************************************)
EXTENDS Integers, FiniteSets

CONSTANTS
  Procs,
  Nobody,
  Byte,
  PIPESIZE,       \* 512 in kernel/pipe.c
  UintMod,        \* 2^32: nread and nwrite are unsigned ints
  Sizes,          \* the lengths given to read() and write()
  MaxKills        \* bound: processes that are killed

ASSUME PipeAssumption ==
  /\ PIPESIZE \in Nat \ {0} /\ UintMod \in Nat
  /\ UintMod > PIPESIZE /\ UintMod % PIPESIZE = 0
  /\ IsFiniteSet(Procs) /\ Nobody \notin Procs
  /\ Sizes \subseteq Nat \ {0}

End == {"r", "w"}

VARIABLES
  fds,            \* the ends p has a descriptor for
  ref,            \* f->ref of the two files
  data, nread, nwrite, readopen, writeopen,
  lk,             \* the holder of pi->lock
  freed,          \* kfree(pi)
  pc,
  i, n,           \* locals of piperead() and pipewrite()
  killed,         \* p->killed
  ch,             \* the byte read last
  eof             \* history: a read has returned 0 at the end of the loop

pipeVars == <<data, nread, nwrite, readopen, writeopen, freed>>
vars == <<fds, ref, pipeVars, lk, pc, i, n, killed, ch, eof>>

\* One process has called pipe(): pipealloc() and two fdalloc() for it.
Init ==
  /\ \E first \in Procs :
       /\ fds = [p \in Procs |-> IF p = first THEN End ELSE {}]
       /\ pc = [p \in Procs |-> IF p = first THEN "user" ELSE "none"]
  /\ ref = [e \in End |-> 1]
  /\ data \in {[k \in 0 .. PIPESIZE - 1 |-> v] : v \in Byte}
  /\ nread = 0 /\ nwrite = 0
  /\ readopen = TRUE /\ writeopen = TRUE
  /\ lk = Nobody
  /\ freed = FALSE
  /\ i = [p \in Procs |-> 0] /\ n = [p \in Procs |-> 0]
  /\ killed = [p \in Procs |-> FALSE]
  /\ ch \in Byte
  /\ eof = FALSE

Go(p, l) == pc' = [pc EXCEPT ![p] = l]

\* wakeup() of everyone who sleeps at l, and p goes on at m.
Wakeup(l, p, m) ==
  pc' = [q \in Procs |-> IF q = p THEN m
                         ELSE IF pc[q] = l
                              THEN (IF l = "read_asleep" THEN "read" ELSE "write")
                              ELSE pc[q]]

\* Return to user space; the locals are dead.
Forget(p) == i' = [i EXCEPT ![p] = 0] /\ n' = [n EXCEPT ![p] = 0]

-----------------------------------------------------------------------------
(* kernel/file.c and its callers *)

\* The child gets every descriptor of its parent, with a filedup() for each.
\* A process that was killed keeps its name in the model.
fork(p, q) ==
  /\ pc[p] = "user" /\ ~ killed[p] /\ pc[q] = "none" /\ ~ killed[q]
  /\ fds' = [fds EXCEPT ![q] = fds[p]]
  /\ ref' = [e \in End |-> IF e \in fds[p] THEN ref[e] + 1 ELSE ref[e]]
  /\ Go(q, "user")
  /\ UNCHANGED <<pipeVars, lk, i, n, killed, ch, eof>>

\* Mutant: the count is compared before it is decremented.
fileclose_early(p, e) ==
  /\ pc[p] = "user" /\ e \in fds[p]
  /\ fds' = [fds EXCEPT ![p] = @ \ {e}]
  /\ ref' = [ref EXCEPT ![e] = @ - 1]
  /\ IF ref[e] <= 2 THEN Go(p, IF e = "w" THEN "close_w" ELSE "close_r")
                    ELSE UNCHANGED pc
  /\ UNCHANGED <<pipeVars, lk, i, n, killed, ch, eof>>

\* fileclose(): the last reference goes on to pipeclose().
fileclose(p, e) ==
  /\ pc[p] = "user" /\ e \in fds[p]
  /\ fds' = [fds EXCEPT ![p] = @ \ {e}]
  /\ ref' = [ref EXCEPT ![e] = @ - 1]
  /\ IF ref[e] = 1 THEN Go(p, IF e = "w" THEN "close_w" ELSE "close_r")
                   ELSE UNCHANGED pc
  /\ UNCHANGED <<pipeVars, lk, i, n, killed, ch, eof>>

\* exit(), once every descriptor is closed.
exit(p) ==
  /\ pc[p] = "user" /\ fds[p] = {}
  /\ Go(p, "none")
  /\ UNCHANGED <<fds, ref, pipeVars, lk, i, n, killed, ch, eof>>

\* kill() wakes a process that sleeps; it exits when it is back in usertrap().
kill(p) ==
  /\ pc[p] # "none" /\ ~ killed[p]
  /\ Cardinality({q \in Procs : killed[q]}) < MaxKills
  /\ killed' = [killed EXCEPT ![p] = TRUE]
  /\ Go(p, CASE pc[p] = "read_asleep" -> "read"
             [] pc[p] = "write_asleep" -> "write"
             [] OTHER -> pc[p])
  /\ UNCHANGED <<fds, ref, pipeVars, lk, i, n, ch, eof>>

-----------------------------------------------------------------------------
(* kernel/pipe.c *)

\* Mutant: closing the write end wakes the writers.
pipeclose_wrong(p) ==
  /\ pc[p] \in {"close_w", "close_r"} /\ lk = Nobody
  /\ IF pc[p] = "close_w"
       THEN /\ writeopen' = FALSE /\ Wakeup("write_asleep", p, "user")
            /\ UNCHANGED readopen
       ELSE /\ readopen' = FALSE /\ Wakeup("write_asleep", p, "user")
            /\ UNCHANGED writeopen
  /\ freed' = (~ readopen' /\ ~ writeopen')
  /\ UNCHANGED <<fds, ref, data, nread, nwrite, lk, i, n, killed, ch, eof>>

pipeclose(p) ==
  /\ pc[p] \in {"close_w", "close_r"} /\ lk = Nobody
  /\ IF pc[p] = "close_w"
       THEN /\ writeopen' = FALSE /\ Wakeup("read_asleep", p, "user")
            /\ UNCHANGED readopen
       ELSE /\ readopen' = FALSE /\ Wakeup("write_asleep", p, "user")
            /\ UNCHANGED writeopen
  /\ freed' = (~ readopen' /\ ~ writeopen')
  /\ UNCHANGED <<fds, ref, data, nread, nwrite, lk, i, n, killed, ch, eof>>

\* filewrite() or fileread() on a descriptor p has.
call(p, e, k) ==
  /\ pc[p] = "user" /\ ~ killed[p] /\ e \in fds[p]
  /\ n' = [n EXCEPT ![p] = k]
  /\ Go(p, IF e = "w" THEN "write" ELSE "read")
  /\ UNCHANGED <<fds, ref, pipeVars, lk, i, killed, ch, eof>>

\* acquire(&pi->lock), at the start and after sleep().
acquire(p) ==
  /\ pc[p] \in {"write", "read"} /\ lk = Nobody
  /\ lk' = p
  /\ UNCHANGED <<fds, ref, pipeVars, pc, i, n, killed, ch, eof>>

\* The top of pipewrite()'s loop: go on, or return -1.
write_check(p) ==
  /\ pc[p] = "write" /\ lk = p /\ i[p] < n[p]
  /\ IF ~ readopen \/ killed[p]
       THEN Go(p, "user") /\ lk' = Nobody /\ Forget(p)
       ELSE Go(p, "put") /\ UNCHANGED <<lk, i, n>>
  /\ UNCHANGED <<fds, ref, pipeVars, killed, ch, eof>>

Full == nwrite = (nread + PIPESIZE) % UintMod
Empty == nread = nwrite

\* wakeup(&pi->nread); sleep(&pi->nwrite, &pi->lock)
write_sleep(p) ==
  /\ pc[p] = "put" /\ Full
  /\ Wakeup("read_asleep", p, "write_asleep")
  /\ lk' = Nobody
  /\ UNCHANGED <<fds, ref, pipeVars, i, n, killed, ch, eof>>

write_byte(p, v) ==
  /\ pc[p] = "put" /\ ~ Full
  /\ data' = [data EXCEPT ![nwrite % PIPESIZE] = v]
  /\ nwrite' = (nwrite + 1) % UintMod
  /\ i' = [i EXCEPT ![p] = @ + 1]
  /\ Go(p, "write")
  /\ UNCHANGED <<fds, ref, nread, readopen, writeopen, freed, lk, n, killed, ch, eof>>

\* Everything is written, or copyin() failed: wakeup(&pi->nread), return.
write_done(p) ==
  /\ \/ pc[p] = "write" /\ lk = p /\ i[p] = n[p]
     \/ pc[p] = "put" /\ ~ Full
  /\ Wakeup("read_asleep", p, "user")
  /\ lk' = Nobody
  /\ Forget(p)
  /\ UNCHANGED <<fds, ref, pipeVars, killed, ch, eof>>

\* Mutant: an empty pipe is taken for the end of the data.
read_check_empty(p) ==
  /\ pc[p] = "read" /\ lk = p
  /\ Go(p, "copy")
  /\ UNCHANGED <<fds, ref, pipeVars, lk, i, n, killed, ch, eof>>

\* piperead(): wait while the pipe is empty and a writer is left.
read_check(p) ==
  /\ pc[p] = "read" /\ lk = p
  /\ IF Empty /\ writeopen
       THEN IF killed[p] THEN Go(p, "user") /\ lk' = Nobody /\ Forget(p)
                         ELSE Go(p, "read_sleep") /\ UNCHANGED <<lk, i, n>>
       ELSE Go(p, "copy") /\ UNCHANGED <<lk, i, n>>
  /\ UNCHANGED <<fds, ref, pipeVars, killed, ch, eof>>

\* sleep(&pi->nread, &pi->lock)
read_sleep(p) ==
  /\ pc[p] = "read_sleep"
  /\ Go(p, "read_asleep")
  /\ lk' = Nobody
  /\ UNCHANGED <<fds, ref, pipeVars, i, n, killed, ch, eof>>

\* Mutant: the byte is read after nread is incremented.
read_byte_next(p, fails) ==
  /\ pc[p] = "copy" /\ i[p] < n[p] /\ ~ Empty
  /\ ch' = data[(nread + 1) % PIPESIZE]
  /\ nread' = (nread + 1) % UintMod
  /\ i' = [i EXCEPT ![p] = IF fails THEN @ ELSE @ + 1]
  /\ Go(p, IF fails THEN "read_done" ELSE "copy")
  /\ UNCHANGED <<fds, ref, data, nwrite, readopen, writeopen, freed, lk, n, killed, eof>>

\* A byte is taken; copyout() may fail after that and end the loop.
read_byte(p, fails) ==
  /\ pc[p] = "copy" /\ i[p] < n[p] /\ ~ Empty
  /\ ch' = data[nread % PIPESIZE]
  /\ nread' = (nread + 1) % UintMod
  /\ i' = [i EXCEPT ![p] = IF fails THEN @ ELSE @ + 1]
  /\ Go(p, IF fails THEN "read_done" ELSE "copy")
  /\ UNCHANGED <<fds, ref, data, nwrite, readopen, writeopen, freed, lk, n, killed, eof>>

\* wakeup(&pi->nwrite), return the number of bytes.
read_done(p) ==
  /\ \/ pc[p] = "copy" /\ (i[p] = n[p] \/ Empty)
     \/ pc[p] = "read_done"
  /\ Wakeup("write_asleep", p, "user")
  /\ lk' = Nobody
  /\ eof' = (eof \/ (pc[p] = "copy" /\ i[p] = 0))
  /\ Forget(p)
  /\ UNCHANGED <<fds, ref, pipeVars, killed, ch>>

-----------------------------------------------------------------------------

Step(p) ==
  \/ pipeclose(p) \/ acquire(p)
  \/ write_check(p) \/ write_sleep(p) \/ write_done(p)
  \/ \E v \in Byte : write_byte(p, v)
  \/ read_check(p) \/ read_sleep(p) \/ read_done(p)
  \/ \E fails \in BOOLEAN : read_byte(p, fails)

Next == \E p \in Procs :
  \/ Step(p) \/ exit(p) \/ kill(p)
  \/ \E e \in End : fileclose(p, e) \/ \E k \in Sizes : call(p, e, k)
  \/ \E q \in Procs : fork(p, q)

Spec == Init /\ [][Next]_vars

-----------------------------------------------------------------------------
(* Properties. *)

InPipe(p) == pc[p] \in {"read", "copy", "read_done", "read_sleep", "read_asleep",
                        "write", "put", "write_asleep", "close_r", "close_w"}

\* Every variable has its type; the counters are within one buffer of each
\* other in unsigned arithmetic.
TypeOK ==
  /\ fds \in [Procs -> SUBSET End]
  /\ ref \in [End -> Nat]
  /\ data \in [0 .. PIPESIZE - 1 -> Byte]
  /\ nread \in 0 .. UintMod - 1 /\ nwrite \in 0 .. UintMod - 1
  /\ (nwrite - nread) % UintMod <= PIPESIZE
  /\ readopen \in BOOLEAN /\ writeopen \in BOOLEAN /\ freed \in BOOLEAN
  /\ lk \in Procs \cup {Nobody}
  /\ \A p \in Procs : pc[p] \in {"none", "user"} \/ InPipe(p)
  /\ i \in [Procs -> Nat] /\ n \in [Procs -> Nat] /\ \A p \in Procs : i[p] <= n[p]
  /\ killed \in [Procs -> BOOLEAN]
  /\ ch \in Byte /\ eof \in BOOLEAN

\* pipeclose() frees the pipe only when no process is inside piperead(),
\* pipewrite() or another pipeclose(), asleep or waiting for pi->lock.
NoUseAfterFree == freed => \A p \in Procs : ~ InPipe(p)

\* A read that returns 0 at the end of the data is final: no process holds a
\* descriptor of the write end any more, although descriptors are shared by
\* fork() and closed one at a time.
EofIsFinal == eof => \A p \in Procs : "w" \notin fds[p]

\* Until somebody is killed, no wakeup is lost: whenever pi->lock is free, a
\* reader sleeps only at an empty pipe that is open for writing, and a writer
\* only at a full one that is open for reading.
NoLostWakeup ==
  lk = Nobody /\ (\A p \in Procs : ~ killed[p]) =>
    \A p \in Procs : /\ pc[p] = "read_asleep" => Empty /\ writeopen
                     /\ pc[p] = "write_asleep" => Full /\ readopen

Q == INSTANCE ByteQueue WITH
       Capacity <- PIPESIZE, taken <- ch, ropen <- readopen, wopen <- writeopen,
       queue <- [k \in 1 .. (nwrite - nread) % UintMod |->
                   data[(nread + k - 1) % PIPESIZE]]

\* The ring buffer with its wrapping counters, its sleeping readers and
\* writers and its two ends is a bounded FIFO queue.
Fifo == Q!Spec
=============================================================================
