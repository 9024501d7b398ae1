-------------------------------- MODULE Log --------------------------------
(***************************************************************************)
(* The write-ahead log of kernel/log.c: begin_op(), log_write(), end_op()  *)
(* with commit(), and recovery at boot, with a crash possible between any  *)
(* two disk writes.                                                        *)
(*                                                                         *)
(* The buffer cache appears as the contents bread() finds in memory; the   *)
(* disk driver as block writes that happen entirely or not at all.         *)
(* log.lock is never held across a step.                                   *)
(***************************************************************************)
EXTENDS Integers, Sequences, FiniteSets

CONSTANTS
  Procs,        \* the processes that make file system calls
  Blocks,       \* the home blocks they write
  Data, Zero,   \* block contents
  NotCached,    \* no buffer holds the block
  LOGSIZE,      \* kernel/param.h
  MAXOPBLOCKS,
  Size,         \* log.size: nlog of the superblock, which mkfs sets to LOGSIZE
  MaxCrashes    \* bound: crashes

ASSUME LogAssumption ==
  /\ IsFiniteSet(Procs) /\ IsFiniteSet(Blocks)
  /\ LOGSIZE \in Nat /\ Size \in Nat /\ MaxCrashes \in Nat
  /\ MAXOPBLOCKS \in 0 .. LOGSIZE
  /\ Zero \in Data /\ NotCached \notin Data

VARIABLES
  disk,         \* the home blocks
  logblk,       \* the blocks after log.start
  hdr,          \* the header block: block[0..n-1]
  cache,        \* the data of b's buffer, or NotCached
  pin,          \* references bpin() holds on b's buffer
  lh,           \* log.lh: block[0..n-1]
  outstanding, committing,
  pc,           \* where process p is
  wrote,        \* the blocks p's operation has written
  tail,         \* the loop variable of write_log() and install_trans()
  mode,         \* "read_head", "recover" (at boot), "up" or "panic"
  crashes

diskVars == <<disk, logblk, hdr>>
memVars == <<cache, pin, lh, outstanding, committing, pc, wrote, tail>>
vars == <<diskVars, memVars, mode, crashes>>

\* The disk as mkfs makes it, with an empty log; the kernel boots.
Init == /\ disk = [b \in Blocks |-> Zero]
        /\ logblk = [i \in 1 .. LOGSIZE |-> Zero]
        /\ hdr = <<>>
        /\ cache = [b \in Blocks |-> NotCached]
        /\ pin = [b \in Blocks |-> 0]
        /\ lh = <<>>
        /\ outstanding = 0 /\ committing = FALSE
        /\ pc = [p \in Procs |-> "begin"]
        /\ wrote = [p \in Procs |-> {}]
        /\ tail = 0
        /\ mode = "read_head"
        /\ crashes = 0

\* The data of the buffer bread() returns.
bread(b) == IF cache[b] = NotCached THEN disk[b] ELSE cache[b]

\* wakeup(&log), and p goes on at l.
Wakeup(p, l) ==
  pc' = [q \in Procs |-> IF q = p THEN l
                         ELSE IF pc[q] = "asleep" THEN "begin" ELSE pc[q]]

-----------------------------------------------------------------------------
(* begin_op() *)

\* Mutant: the operation about to begin is not counted.
Mustwait_self ==
  committing \/ Len(lh) + outstanding * MAXOPBLOCKS > LOGSIZE

\* A commit is under way, or this operation might exhaust the log.
Mustwait == committing \/ Len(lh) + (outstanding + 1) * MAXOPBLOCKS > LOGSIZE

begin_op(p) ==
  /\ mode = "up" /\ pc[p] = "begin" /\ ~ Mustwait
  /\ outstanding' = outstanding + 1
  /\ pc' = [pc EXCEPT ![p] = "op"]
  /\ UNCHANGED <<diskVars, cache, pin, lh, committing, wrote, tail, mode, crashes>>

begin_op_sleep(p) ==
  /\ mode = "up" /\ pc[p] = "begin" /\ Mustwait
  /\ pc' = [pc EXCEPT ![p] = "asleep"]
  /\ UNCHANGED <<diskVars, cache, pin, lh, outstanding, committing, wrote, tail, mode, crashes>>

-----------------------------------------------------------------------------
(* log_write() *)

TooBig == Len(lh) >= LOGSIZE \/ Len(lh) >= Size - 1

\* The loop over log.lh.block finds b.
Logged(b) == \E i \in DOMAIN lh : lh[i] = b

\* Mutant: the buffer is not pinned.
log_write_nopin(p, b, v) ==
  /\ mode = "up" /\ pc[p] = "op"
  /\ Cardinality(wrote[p] \cup {b}) <= MAXOPBLOCKS
  /\ ~ TooBig
  /\ cache' = [cache EXCEPT ![b] = v]
  /\ lh' = IF Logged(b) THEN lh ELSE Append(lh, b)
  /\ wrote' = [wrote EXCEPT ![p] = @ \cup {b}]
  /\ UNCHANGED <<diskVars, pin, outstanding, committing, pc, tail, mode, crashes>>

\* bread(), a change of the data, log_write() and brelse(), under the buffer's
\* sleep lock.  A block that is in the log already is absorbed.  An operation
\* writes at most MAXOPBLOCKS blocks: that is what its callers promise.
log_write(p, b, v) ==
  /\ mode = "up" /\ pc[p] = "op"
  /\ Cardinality(wrote[p] \cup {b}) <= MAXOPBLOCKS
  /\ ~ TooBig
  /\ cache' = [cache EXCEPT ![b] = v]
  /\ IF Logged(b)
       THEN UNCHANGED <<lh, pin>>
       ELSE lh' = Append(lh, b) /\ pin' = [pin EXCEPT ![b] = @ + 1]
  /\ wrote' = [wrote EXCEPT ![p] = @ \cup {b}]
  /\ UNCHANGED <<diskVars, outstanding, committing, pc, tail, mode, crashes>>

\* panic("too big a transaction")
log_write_panic(p) ==
  /\ mode = "up" /\ pc[p] = "op"
  /\ \E b \in Blocks : Cardinality(wrote[p] \cup {b}) <= MAXOPBLOCKS
  /\ TooBig
  /\ mode' = "panic"
  /\ UNCHANGED <<diskVars, memVars, crashes>>

\* panic() spins for ever.
panic == mode = "panic" /\ UNCHANGED vars

\* bget() reuses the buffer of a block that nobody refers to.
bget_recycle(b) ==
  /\ mode = "up" /\ pin[b] = 0 /\ cache[b] # NotCached
  /\ cache' = [cache EXCEPT ![b] = NotCached]
  /\ UNCHANGED <<diskVars, pin, lh, outstanding, committing, pc, wrote, tail, mode, crashes>>

-----------------------------------------------------------------------------
(* end_op() and commit() *)

\* Not the last operation: begin_op() may now find room.
end_op(p) ==
  /\ mode = "up" /\ pc[p] = "op" /\ outstanding > 1
  /\ outstanding' = outstanding - 1
  /\ Wakeup(p, "begin")
  /\ wrote' = [wrote EXCEPT ![p] = {}]
  /\ UNCHANGED <<diskVars, cache, pin, lh, committing, tail, mode, crashes>>

\* The last one commits, if anything was written.
end_op_last(p) ==
  /\ mode = "up" /\ pc[p] = "op" /\ outstanding = 1
  /\ outstanding' = 0
  /\ committing' = TRUE
  /\ pc' = [pc EXCEPT ![p] = IF lh = <<>> THEN "committed" ELSE "write_log"]
  /\ wrote' = [wrote EXCEPT ![p] = {}]
  /\ UNCHANGED <<diskVars, cache, pin, lh, tail, mode, crashes>>

\* One block from the cache to the log.
write_log(p) ==
  /\ mode = "up" /\ pc[p] = "write_log" /\ tail < Len(lh)
  /\ logblk' = [logblk EXCEPT ![tail + 1] = bread(lh[tail + 1])]
  /\ tail' = tail + 1
  /\ UNCHANGED <<disk, hdr, cache, pin, lh, outstanding, committing, pc, wrote, mode, crashes>>

\* The write of the header, the real commit.
write_head(p) ==
  /\ mode = "up" /\ pc[p] = "write_log" /\ tail = Len(lh)
  /\ hdr' = lh
  /\ tail' = 0
  /\ pc' = [pc EXCEPT ![p] = "install"]
  /\ UNCHANGED <<disk, logblk, cache, pin, lh, outstanding, committing, wrote, mode, crashes>>

\* One block from the log to its home.
install_trans(p) ==
  LET b == lh[tail + 1] IN
  /\ mode = "up" /\ pc[p] = "install" /\ tail < Len(lh)
  /\ disk' = [disk EXCEPT ![b] = logblk[tail + 1]]
  /\ cache' = [cache EXCEPT ![b] = logblk[tail + 1]]
  /\ pin' = [pin EXCEPT ![b] = @ - 1]
  /\ tail' = tail + 1
  /\ UNCHANGED <<logblk, hdr, lh, outstanding, committing, pc, wrote, mode, crashes>>

\* lh.n = 0 and the second write_head().
erase_head(p) ==
  /\ mode = "up" /\ pc[p] = "install" /\ tail = Len(lh)
  /\ lh' = <<>> /\ hdr' = <<>> /\ tail' = 0
  /\ pc' = [pc EXCEPT ![p] = "committed"]
  /\ UNCHANGED <<disk, logblk, cache, pin, outstanding, committing, wrote, mode, crashes>>

\* Mutant: nobody is woken.
committed_quiet(p) ==
  /\ mode = "up" /\ pc[p] = "committed"
  /\ committing' = FALSE
  /\ pc' = [pc EXCEPT ![p] = "begin"]
  /\ UNCHANGED <<diskVars, cache, pin, lh, outstanding, wrote, tail, mode, crashes>>

\* The end of end_op().
committed(p) ==
  /\ mode = "up" /\ pc[p] = "committed"
  /\ committing' = FALSE
  /\ Wakeup(p, "begin")
  /\ UNCHANGED <<diskVars, cache, pin, lh, outstanding, wrote, tail, mode, crashes>>

-----------------------------------------------------------------------------
(* Crash, and recover_from_log() at boot. *)

\* Power fails, or the machine is reset after a panic: the memory is lost.
Crash ==
  /\ crashes < MaxCrashes
  /\ crashes' = crashes + 1
  /\ cache' = [b \in Blocks |-> NotCached]
  /\ pin' = [b \in Blocks |-> 0]
  /\ lh' = <<>>
  /\ outstanding' = 0 /\ committing' = FALSE
  /\ pc' = [p \in Procs |-> "begin"]
  /\ wrote' = [p \in Procs |-> {}]
  /\ tail' = 0
  /\ mode' = "read_head"
  /\ UNCHANGED diskVars

read_head ==
  /\ mode = "read_head"
  /\ lh' = hdr
  /\ mode' = "recover"
  /\ UNCHANGED <<diskVars, cache, pin, outstanding, committing, pc, wrote, tail, crashes>>

\* install_trans(1)
recover_install ==
  LET b == lh[tail + 1] IN
  /\ mode = "recover" /\ tail < Len(lh)
  /\ disk' = [disk EXCEPT ![b] = logblk[tail + 1]]
  /\ cache' = [cache EXCEPT ![b] = logblk[tail + 1]]
  /\ tail' = tail + 1
  /\ UNCHANGED <<logblk, hdr, pin, lh, outstanding, committing, pc, wrote, mode, crashes>>

\* Clear the log; processes may run.
recover_erase ==
  /\ mode = "recover" /\ tail = Len(lh)
  /\ lh' = <<>> /\ hdr' = <<>> /\ tail' = 0
  /\ mode' = "up"
  /\ UNCHANGED <<disk, logblk, cache, pin, outstanding, committing, pc, wrote, crashes>>

-----------------------------------------------------------------------------

Commit(p) == write_log(p) \/ write_head(p) \/ install_trans(p) \/ erase_head(p) \/ committed(p)
Recover == read_head \/ recover_install \/ recover_erase

Next ==
  \/ \E p \in Procs :
       \/ begin_op(p) \/ begin_op_sleep(p)
       \/ \E b \in Blocks, v \in Data : log_write(p, b, v)
       \/ log_write_panic(p)
       \/ end_op(p) \/ end_op_last(p) \/ Commit(p)
  \/ \E b \in Blocks : bget_recycle(b)
  \/ Recover \/ Crash \/ panic

Spec == Init /\ [][Next]_vars

-----------------------------------------------------------------------------
(* Properties. *)

\* Every variable has its type; the in-memory header fits the one on disk.
TypeOK ==
  /\ disk \in [Blocks -> Data]
  /\ logblk \in [1 .. LOGSIZE -> Data]
  /\ hdr \in Seq(Blocks) /\ lh \in Seq(Blocks)
  /\ Len(hdr) <= LOGSIZE /\ Len(lh) <= LOGSIZE
  /\ cache \in [Blocks -> Data \cup {NotCached}]
  /\ pin \in [Blocks -> Nat]
  /\ outstanding \in 0 .. Cardinality(Procs) /\ committing \in BOOLEAN
  /\ pc \in [Procs -> {"begin", "asleep", "op", "write_log", "install", "committed"}]
  /\ wrote \in [Procs -> SUBSET Blocks]
  /\ tail \in 0 .. LOGSIZE
  /\ mode \in {"read_head", "recover", "up", "panic"}
  /\ crashes \in 0 .. MaxCrashes

\* The log blocks that the operations under way may still need.
Reserved ==
  {r \in Procs \X (1 .. MAXOPBLOCKS) : pc[r[1]] = "op" /\ r[2] > Cardinality(wrote[r[1]])}

\* begin_op() counts on LOGSIZE data blocks, but of the log.size blocks on disk
\* one is the header: the blocks it may promise that are not there.  With
\* log.size = LOGSIZE, as mkfs sets it, that is one block.
Short == IF Size <= LOGSIZE THEN LOGSIZE - (Size - 1) ELSE 0

\* begin_op() keeps room in the log on disk for all that the admitted
\* operations, together, may still write, but for the Short last blocks: until
\* so few are left, log_write() does not panic, whoever calls it.
RoomReserved == TooBig => Cardinality(Reserved) <= Short

\* kernel/param.h: LOGSIZE is the "max data blocks in on-disk log", and
\* begin_op() waits when an operation "might exhaust log space".  So operations
\* that begin_op() admits, and that write no more than MAXOPBLOCKS blocks each,
\* never make log_write() panic with "too big a transaction".
AdmittedFits == mode # "panic"

\* A process asleep in begin_op() has somebody to wake it: an operation that
\* will end, or a commit that will finish.
NoLostWakeup ==
  mode = "up" /\ (\E p \in Procs : pc[p] = "asleep") =>
    \E p \in Procs : pc[p] \in {"op", "write_log", "install", "committed"}

\* The home blocks as recovery would leave them: the last log block the
\* header names for a block wins.
recovered ==
  [b \in Blocks |->
     LET named == {i \in DOMAIN hdr : hdr[i] = b}
     IN  IF named = {} THEN disk[b] ELSE logblk[CHOOSE i \in named : \A j \in named : j <= i]]

\* What the file system reads, or will read once recovery is done.
contents == IF mode \in {"up", "panic"} THEN [b \in Blocks |-> bread(b)] ELSE recovered

A == INSTANCE AtomicDisk WITH mem <- contents, durable <- recovered, open <- outstanding

\* The log, with crashes at any point, commits and recovery included, is an
\* atomic disk: what a crash leaves is the work of whole operations.
Atomic == A!Spec
=============================================================================
