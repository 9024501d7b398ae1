----------------------------- MODULE VirtioDisk -----------------------------
(***************************************************************************)
(* The disk driver of kernel/virtio_disk.c: threads hand requests of three *)
(* descriptors to the device and sleep, the device completes them in any   *)
(* order, and the interrupt handler hands the buffers back.  Everything    *)
(* between acquire(&disk.vdisk_lock) and release() or sleep() is one step; *)
(* the handler takes several, with vlock set, because the device goes on   *)
(* completing requests meanwhile.  The two rings are the requests the      *)
(* device has not completed and the completions the driver has not seen.   *)
(***************************************************************************)
EXTENDS Integers, Sequences, FiniteSetsExt

CONSTANTS
  Threads,
  Bufs, NoBuf,
  Blks, NoBlk,
  Vals,           \* contents of a block
  NUM             \* descriptors, 8 in kernel/virtio.h

Desc == 0 .. NUM - 1

VARIABLES
  platter,        \* the blocks of the disk
  blockno, data,  \* fields of struct buf
  ondisk,         \* b->disk: the device owns the buffer
  free,           \* the descriptors with disk.free[i] set
  next,           \* desc[i].next, or -1 without VRING_DESC_F_NEXT
  info,           \* disk.info[i].b
  optype,         \* disk.ops[i].type
  avail,          \* chains handed to the device
  used,           \* the used ring from used_idx to used->idx
  irq,            \* the device asks for an interrupt
  vlock,          \* virtio_disk_intr() holds vdisk_lock
  dpc, cb, cw, hd \* per thread: next step, its buffer, "read", "write" or
                  \* "install", and idx[0]

bufVars == <<blockno, data>>
ringVars == <<free, next, info, optype, avail, used, irq>>
drvVars == <<platter, ondisk, ringVars, vlock>>

DriverInit ==
  /\ ondisk = [b \in Bufs |-> FALSE]
  /\ free = Desc
  /\ next = [i \in Desc |-> -1]
  /\ info = [i \in Desc |-> NoBuf]
  /\ optype = [i \in Desc |-> "in"]
  /\ avail = {} /\ used = <<>> /\ irq = FALSE /\ vlock = FALSE

\* wakeup() of the threads of S: they try again at l.
Woken(S, l) == [t \in Threads |-> IF t \in S THEN l ELSE dpc[t]]

AsleepOnFree == {t \in Threads : dpc[t] = "free_asleep"}
AsleepOnBuf(b) == {t \in Threads : dpc[t] = "b_asleep" /\ cb[t] = b}

\* Mutant: free_desc() wakes nobody.
FreeWakeup_none == dpc

\* wakeup(&disk.free[0]) of free_desc().
FreeWakeup == Woken(AsleepOnFree, "rw")

\* alloc3_desc() succeeds: the three lowest free descriptors become a chain.
\* The request is formatted, announced, and the thread sleeps on b.
rw_start(t) ==
  LET i0 == Min(free)
      i1 == Min(free \ {i0})
      i2 == Min(free \ {i0, i1})
  IN  /\ dpc[t] = "rw" /\ ~ vlock
      /\ Cardinality(free) >= 3
      /\ free' = free \ {i0, i1, i2}
      /\ next' = [next EXCEPT ![i0] = i1, ![i1] = i2, ![i2] = -1]
      /\ optype' = [optype EXCEPT ![i0] = IF cw[t] = "read" THEN "in" ELSE "out"]
      /\ ondisk' = [ondisk EXCEPT ![cb[t]] = TRUE]
      /\ info' = [info EXCEPT ![i0] = cb[t]]
      /\ avail' = avail \cup {i0}
      /\ hd' = [hd EXCEPT ![t] = i0]
      /\ dpc' = [dpc EXCEPT ![t] = "b_asleep"]
      /\ UNCHANGED <<platter, bufVars, used, irq, vlock, cb, cw>>

\* It fails: what it took is given back by free_desc(), which wakes everyone
\* who waits for descriptors, and the thread waits too.
rw_wait(t) ==
  /\ dpc[t] = "rw" /\ ~ vlock
  /\ Cardinality(free) < 3
  /\ dpc' = [(IF free = {} THEN dpc ELSE FreeWakeup)
               EXCEPT ![t] = "free_asleep"]
  /\ UNCHANGED <<drvVars, bufVars, cb, cw, hd>>

RECURSIVE Chain(_)

\* The descriptors free_chain(i) frees.
Chain(i) == {i} \cup (IF next[i] = -1 THEN {} ELSE Chain(next[i]))

\* Mutant: free_desc() clears the flags before they are read.
ChainShort(i) == {i}

Freed(i) == Chain(i)

\* Awake with b->disk still set: sleep again.
rw_again(t) ==
  /\ dpc[t] = "rw_done" /\ ~ vlock
  /\ ondisk[cb[t]]
  /\ dpc' = [dpc EXCEPT ![t] = "b_asleep"]
  /\ UNCHANGED <<drvVars, bufVars, cb, cw, hd>>

\* The request is finished: free the chain and return.
rw_done(t) ==
  /\ dpc[t] = "rw_done" /\ ~ vlock
  /\ ~ ondisk[cb[t]]
  /\ info' = [info EXCEPT ![hd[t]] = NoBuf]
  /\ free' = free \cup Freed(hd[t])
  /\ next' = [i \in Desc |-> IF i \in Freed(hd[t]) THEN -1 ELSE next[i]]
  /\ dpc' = [FreeWakeup EXCEPT ![t] = "have"]
  /\ cw' = [cw EXCEPT ![t] = "read"]
  /\ hd' = [hd EXCEPT ![t] = -1]
  /\ UNCHANGED <<platter, ondisk, bufVars, optype, avail, used, irq, vlock, cb>>

\* virtio_disk_intr() takes the lock and acknowledges the interrupt.
intr_ack ==
  /\ irq /\ ~ vlock
  /\ vlock' = TRUE /\ irq' = FALSE
  /\ UNCHANGED <<platter, ondisk, bufVars, free, next, info, optype, avail, used,
                 dpc, cb, cw, hd>>

\* One turn of its loop: a buffer is handed back.
intr_used ==
  /\ vlock /\ used # <<>>
  /\ LET b == info[Head(used)] IN
       /\ ondisk' = [ondisk EXCEPT ![b] = FALSE]
       /\ dpc' = Woken(AsleepOnBuf(b), "rw_done")
  /\ used' = Tail(used)
  /\ UNCHANGED <<platter, bufVars, free, next, info, optype, avail, irq, vlock, cb, cw, hd>>

IntrEmpty == used = <<>>

intr_exit ==
  /\ vlock /\ IntrEmpty
  /\ vlock' = FALSE
  /\ UNCHANGED <<platter, ondisk, bufVars, ringVars, dpc, cb, cw, hd>>

\* The device carries out any request it has and asks for an interrupt.  It
\* reports success: virtio_disk_intr() panics at any other status.
device(i) ==
  /\ i \in avail
  /\ IF optype[i] = "in"
       THEN /\ data' = [data EXCEPT ![info[i]] = platter[blockno[info[i]]]]
            /\ UNCHANGED platter
       ELSE /\ platter' = [platter EXCEPT ![blockno[info[i]]] = data[info[i]]]
            /\ UNCHANGED data
  /\ avail' = avail \ {i}
  /\ used' = Append(used, i)
  /\ irq' = TRUE
  /\ UNCHANGED <<blockno, ondisk, free, next, info, optype, vlock, dpc, cb, cw, hd>>

DriverStep(t) == rw_start(t) \/ rw_wait(t) \/ rw_again(t)
Intr == intr_ack \/ intr_used \/ intr_exit
DriverNext == (\E t \in Threads : DriverStep(t)) \/ Intr \/ \E i \in Desc : device(i)

-----------------------------------------------------------------------------

\* alloc3_desc(), free_chain() and the wakeups between them neither leak a
\* descriptor nor give one to two requests: the free ones and the chains of
\* the requests under way are a partition.
DescriptorsOwned ==
  LET heads == {i \in Desc : info[i] # NoBuf} IN
    /\ \A i, j \in heads : i # j => Chain(i) \cap Chain(j) = {}
    /\ Desc \ free = UNION {Chain(i) : i \in heads}
=============================================================================
