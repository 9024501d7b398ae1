-------------------------------- MODULE Bio --------------------------------
(***************************************************************************)
(* The buffer cache of kernel/bio.c with the sleep locks of                *)
(* kernel/sleeplock.c, over the disk driver of VirtioDisk.  bcache.lock    *)
(* and a sleep lock's own spinlock are taken and released within a step.   *)
(*                                                                         *)
(* The threads are the callers in kernel/log.c and kernel/fs.c: between    *)
(* bread() and brelse() a thread changes nothing, or changes the block and *)
(* either writes it (bwrite) or pins it (log_write); a block that is       *)
(* pinned is later written and unpinned (install_trans).                   *)
(***************************************************************************)
EXTENDS VirtioDisk

CONSTANTS
  NoThread,
  Changed         \* bound: the blocks the threads change, the others they read

VARIABLES
  lru,            \* the list from head.next (most recent) to head.prev
  valid, refcnt,  \* fields of struct buf
  owner,          \* b->lock: its holder
  pins,           \* buffers the log has pinned
  wants,          \* per thread: the block it called bread() for
  nobufs          \* bget() has found no buffer and called panic()

cacheVars == <<lru, valid, refcnt, owner, pins, wants, nobufs>>
bioVars == <<drvVars, bufVars, dpc, cb, cw, hd, cacheVars>>

\* binit() with the buffers of S in its list: no buffer has a block yet, since
\* the device number 0 matches none.
binit(S) ==
  /\ DriverInit
  /\ blockno = [b \in Bufs |-> NoBlk]
  /\ \E v \in Vals : data = [b \in Bufs |-> v] /\ platter = [k \in Blks |-> v]
  /\ lru \in {s \in [1 .. Cardinality(S) -> S] : \A b \in S : \E i \in DOMAIN s : s[i] = b}
  /\ valid = [b \in Bufs |-> FALSE]
  /\ refcnt = [b \in Bufs |-> 0]
  /\ owner = [b \in Bufs |-> NoThread]
  /\ pins = {}
  /\ dpc = [t \in Threads |-> "user"]
  /\ cb = [t \in Threads |-> NoBuf]
  /\ cw = [t \in Threads |-> "read"]
  /\ hd = [t \in Threads |-> -1]
  /\ wants = [t \in Threads |-> NoBlk]
  /\ nobufs = FALSE

At(t, l) == dpc[t] = l /\ ~ nobufs
Goto(t, l) == dpc' = [dpc EXCEPT ![t] = l]

\* bget(), first loop: the block is cached.
bget_hit(t, k, b) ==
  /\ At(t, "user") /\ blockno[b] = k
  /\ refcnt' = [refcnt EXCEPT ![b] = @ + 1]
  /\ cb' = [cb EXCEPT ![t] = b]
  /\ wants' = [wants EXCEPT ![t] = k]
  /\ Goto(t, "lock")
  /\ UNCHANGED <<drvVars, bufVars, cw, hd, lru, valid, owner, pins, nobufs>>

\* Mutant: a buffer nobody has locked counts as unused.
Unused_unlocked == {i \in DOMAIN lru : owner[lru[i]] = NoThread}

\* Where in the list the second loop finds a buffer it may take.
Unused == {i \in DOMAIN lru : refcnt[lru[i]] = 0}

\* The first loop has not found block k.
Miss(k) == \A b \in Bufs : blockno[b] # k

\* b->valid of the recycled buffer.
Recycled(b) == [valid EXCEPT ![b] = FALSE]

\* bget(), second loop: recycle the least recently used buffer.
bget_miss(t, k) ==
  /\ At(t, "user") /\ Miss(k) /\ Unused # {}
  /\ LET b == lru[Max(Unused)] IN
       /\ blockno' = [blockno EXCEPT ![b] = k]
       /\ valid' = Recycled(b)
       /\ refcnt' = [refcnt EXCEPT ![b] = 1]
       /\ cb' = [cb EXCEPT ![t] = b]
  /\ wants' = [wants EXCEPT ![t] = k]
  /\ Goto(t, "lock")
  /\ UNCHANGED <<drvVars, data, cw, hd, lru, owner, pins, nobufs>>

bget_panic(t, k) ==
  /\ At(t, "user") /\ Miss(k) /\ Unused = {}
  /\ nobufs' = TRUE
  /\ UNCHANGED <<drvVars, bufVars, dpc, cb, cw, hd, lru, valid, refcnt, owner, pins, wants>>

\* panic() spins for ever.
bget_spin == nobufs /\ UNCHANGED bioVars

\* acquiresleep(&b->lock): sleep while another thread has the lock.
acquiresleep_wait(t) ==
  /\ At(t, "lock") /\ owner[cb[t]] # NoThread
  /\ Goto(t, "lock_asleep")
  /\ UNCHANGED <<drvVars, bufVars, cb, cw, hd, cacheVars>>

\* acquiresleep() gets the lock and bget() returns to bread(), which reads a
\* buffer that is not valid from the disk.
acquiresleep(t) ==
  /\ At(t, "lock") /\ owner[cb[t]] = NoThread
  /\ owner' = [owner EXCEPT ![cb[t]] = t]
  /\ Goto(t, IF valid[cb[t]] THEN "have" ELSE "rw")
  /\ UNCHANGED <<drvVars, bufVars, cb, cw, hd, lru, valid, refcnt, pins, wants, nobufs>>

\* virtio_disk_rw() returns: bread() sets b->valid, install_trans() unpins.
rw_return(t) ==
  LET b == cb[t] IN
  /\ ~ nobufs /\ rw_done(t)
  /\ valid' = [valid EXCEPT ![b] = TRUE]
  /\ IF cw[t] = "install"
       THEN pins' = pins \ {b} /\ refcnt' = [refcnt EXCEPT ![b] = @ - 1]
       ELSE UNCHANGED <<pins, refcnt>>
  /\ UNCHANGED <<lru, owner, wants, nobufs>>

\* The thread changes the block and calls bwrite().
bwrite(t, v) ==
  /\ At(t, "have") /\ cb[t] \notin pins /\ wants[t] \in Changed
  /\ data' = [data EXCEPT ![cb[t]] = v]
  /\ cw' = [cw EXCEPT ![t] = "write"]
  /\ Goto(t, "rw")
  /\ UNCHANGED <<drvVars, blockno, cb, hd, cacheVars>>

\* Mutant: log_write() does not pin the block.
bpin_none(b) == UNCHANGED <<pins, refcnt>>

\* bpin(), unless the block is in the log already.
bpin(b) ==
  IF b \in pins THEN UNCHANGED <<pins, refcnt>>
  ELSE pins' = pins \cup {b} /\ refcnt' = [refcnt EXCEPT ![b] = @ + 1]

\* The thread changes the block and calls log_write().
log_write_pin(t, v) ==
  /\ At(t, "have") /\ wants[t] \in Changed
  /\ data' = [data EXCEPT ![cb[t]] = v]
  /\ bpin(cb[t])
  /\ UNCHANGED <<drvVars, blockno, dpc, cb, cw, hd, lru, valid, owner, wants, nobufs>>

\* install_trans(): bwrite() of a block in the log, then bunpin().
install(t) ==
  /\ At(t, "have") /\ cb[t] \in pins
  /\ cw' = [cw EXCEPT ![t] = "install"]
  /\ Goto(t, "rw")
  /\ UNCHANGED <<drvVars, bufVars, cb, hd, cacheVars>>

\* wakeup(lk) of releasesleep().
LockWakeup(b) == Woken({u \in Threads : dpc[u] = "lock_asleep" /\ cb[u] = b}, "lock")

\* brelse(), first half: releasesleep().
brelse_unlock(t) ==
  /\ At(t, "have")
  /\ owner' = [owner EXCEPT ![cb[t]] = NoThread]
  /\ dpc' = [LockWakeup(cb[t]) EXCEPT ![t] = "rel"]
  /\ UNCHANGED <<drvVars, bufVars, cb, cw, hd, lru, valid, refcnt, pins, wants, nobufs>>

\* brelse() moves a buffer to the front of the list.
MruFirst(b) == <<b>> \o SelectSeq(lru, LAMBDA x : x # b)

\* brelse(), second half: an unused buffer becomes the most recently used.
brelse_lru(t) ==
  LET b == cb[t] IN
  /\ At(t, "rel")
  /\ refcnt' = [refcnt EXCEPT ![b] = @ - 1]
  /\ lru' = IF refcnt[b] = 1 THEN MruFirst(b) ELSE lru
  /\ cb' = [cb EXCEPT ![t] = NoBuf]
  /\ wants' = [wants EXCEPT ![t] = NoBlk]
  /\ Goto(t, "user")
  /\ UNCHANGED <<drvVars, bufVars, cw, hd, valid, owner, pins, nobufs>>

\* kill() makes a sleeping thread RUNNABLE before what it waits for.
kill_asleep(t) ==
  /\ \/ At(t, "b_asleep") /\ Goto(t, "rw_done")
     \/ At(t, "free_asleep") /\ Goto(t, "rw")
     \/ At(t, "lock_asleep") /\ Goto(t, "lock")
  /\ UNCHANGED <<drvVars, bufVars, cb, cw, hd, cacheVars>>

BioStep(t) ==
  \/ \E k \in Blks : bget_miss(t, k) \/ bget_panic(t, k) \/ \E b \in Bufs : bget_hit(t, k, b)
  \/ acquiresleep_wait(t) \/ acquiresleep(t) \/ rw_return(t) \/ install(t)
  \/ brelse_unlock(t) \/ brelse_lru(t) \/ kill_asleep(t)
  \/ \E v \in Vals : bwrite(t, v) \/ log_write_pin(t, v)

BioNext == \/ \E t \in Threads : BioStep(t)
           \/ ~ nobufs /\ DriverNext /\ UNCHANGED cacheVars
           \/ bget_spin

-----------------------------------------------------------------------------
(* Properties. *)

\* Two threads that miss on the same block at once, and the recycling of a
\* buffer that others look up, never leave a block in two buffers; and a thread
\* that waits for a buffer's lock finds, when it gets it, the block it asked
\* for: bget() drops bcache.lock before acquiresleep().
BufferStaysMine ==
  /\ \A b, c \in Bufs : b # c /\ blockno[b] # NoBlk => blockno[b] # blockno[c]
  /\ \A t \in Threads : cb[t] # NoBuf => blockno[cb[t]] = wants[t] /\ refcnt[cb[t]] > 0

\* Nobody sleeps for what has come: not for a lock that is free, for a buffer
\* the device is done with, or for descriptors that are there.  And the driver
\* never stops looking with a completion in the used ring: either it is in its
\* loop or another interrupt will come, although one interrupt may stand for
\* several completions and they race with the acknowledgement.
DiskNoLostWakeup ==
  /\ \A t \in Threads :
       /\ dpc[t] = "lock_asleep" => owner[cb[t]] # NoThread
       /\ dpc[t] = "b_asleep" => ondisk[cb[t]]
       /\ dpc[t] = "free_asleep" => Cardinality(free) < 3
  /\ used # <<>> => irq \/ vlock

\* The content of block k, and the threads between bread() and brelse() of it.
Content(k) == LET c == {b \in Bufs : blockno[b] = k /\ valid[b]} IN
  IF c = {} THEN platter[k] ELSE data[CHOOSE b \in c : TRUE]
Holder(k) == {t \in Threads : wants[t] = k /\ (dpc[t] = "have" \/ cw[t] # "read")}

BS == INSTANCE BlockStore WITH mem <- [k \in Blks |-> Content(k)],
                               holder <- [k \in Blks |-> Holder(k)]

\* The cache, the sleep locks and the driver together are one store of
\* blocks, each held by one thread at a time: a block is never read from the
\* disk while a newer content is in memory, and never changes under its holder.
IsBlockStore == BS!Spec
=============================================================================
