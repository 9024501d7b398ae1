----------------------------- MODULE BlockStore -----------------------------
(***************************************************************************)
(* What the buffer cache promises its callers (kernel/bio.c, Interface):   *)
(* a block has one content, and only the thread that has the block, between *)
(* bread() and brelse(), sees it or changes it.                            *)
(***************************************************************************)
CONSTANTS Threads, Blks, Vals

VARIABLES
  mem,     \* the content of each block
  holder   \* the threads that have it: at most one

Init == /\ mem \in [Blks -> Vals]
        /\ holder = [k \in Blks |-> {}]

Get(k) == /\ holder[k] = {}
          /\ \E t \in Threads : holder' = [holder EXCEPT ![k] = {t}]
          /\ UNCHANGED mem

\* By its holder.
Change(k) == /\ holder[k] # {}
             /\ \E v \in Vals : mem' = [mem EXCEPT ![k] = v]
             /\ UNCHANGED holder

Put(k) == /\ holder[k] # {}
          /\ holder' = [holder EXCEPT ![k] = {}]
          /\ UNCHANGED mem

Next == \E k \in Blks : Get(k) \/ Change(k) \/ Put(k)

Spec == Init /\ [][Next]_<<mem, holder>>
=============================================================================
