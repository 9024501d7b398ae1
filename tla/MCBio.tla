------------------------------- MODULE MCBio -------------------------------
(***************************************************************************)
(* For TLC: the buffer cache over the disk driver and the device.  In one  *)
(* part the threads share the buffers of Few, fewer than the blocks.  In   *)
(* the other every thread reads a block of its own, into a buffer of its   *)
(* own, and keeps it, so that there are more requests than descriptors.    *)
(***************************************************************************)
EXTENDS Bio, TLC

CONSTANT Few
VARIABLE part

MCInit == \/ part = "share" /\ binit(Few)
          \/ part = "keep" /\ binit(Bufs) /\ Head(lru) \notin Few

\* The steps of threads that keep different blocks.
Keep ==
  \/ \E t \in Threads :
       \/ \E k \in Blks : (\A u \in Threads : wants[u] # k) /\ bget_miss(t, k)
       \/ acquiresleep(t) \/ rw_return(t) \/ kill_asleep(t)
       \/ \E v \in Vals : bwrite(t, v)
  \/ DriverNext /\ UNCHANGED cacheVars

MCNext == \/ part = "share" /\ BioNext /\ UNCHANGED part
          \/ part = "keep" /\ Keep /\ UNCHANGED part

MCSpec == MCInit /\ [][MCNext]_<<part, bioVars>>

\* The threads are alike, the buffers of Few too, and the blocks nobody changes.
Symmetry == Permutations(Threads) \cup Permutations(Blks \ Changed) \cup Permutations(Few)
=============================================================================
