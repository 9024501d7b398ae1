---------------------------- MODULE MCLogMemory ----------------------------
(***************************************************************************)
(* For TLC: two parts of the kernel that have to undo or redo unfinished   *)
(* work: the log after a crash (Log), and the memory calls when kalloc()   *)
(* fails half way (Memory); with the copies to and from the memory those   *)
(* calls build (UserCopy).  `part' says which moves.                       *)
(***************************************************************************)
EXTENDS Log, TLC

CONSTANTS Slots, Init_, NPAGES, PGSIZE, FANOUT, USERSTACK, MaxSz, Steps, Programs, CopyPages
VARIABLES part,
          free, others, trapframe, tab, map, sz, inuse, memPanic, outcome,
          access, nuls, va, len

M == INSTANCE Memory WITH Procs <- Slots
UC == INSTANCE UserCopy

pageVars == <<free, others, trapframe, tab, map, sz, inuse, memPanic, outcome>>
copyVars == <<access, nuls, va, len>>

\* A program of two pages, one with a hole between its segments, and one
\* whose segment is not aligned to a page, which exec() refuses.
Seg(v, m, f) == [vaddr |-> v, memsz |-> m, filesz |-> f]
MCPrograms == {<<Seg(0, 2, 1)>>, <<Seg(0, 1, 1), Seg(2, 1, 0)>>, <<Seg(1, 1, 1)>>}
MCSteps == {-9, -1, 1, 4}

MCInit ==
  /\ part \in {"log", "memory", "copies"}
  /\ Init /\ M!MemoryInit
  /\ IF part = "copies" THEN UC!CopyInit
     ELSE access = [p \in 0..CopyPages - 1 |-> "rw"] /\ nuls = {} /\ va = 0 /\ len = 0

MCNext ==
  \/ part = "log" /\ Next /\ UNCHANGED <<part, pageVars, copyVars>>
  \/ part = "memory" /\ M!MemoryNext /\ UNCHANGED <<part, vars, copyVars>>
  \/ part = "copies" /\ UNCHANGED <<part, vars, pageVars, copyVars>>

MCSpec == MCInit /\ [][MCNext]_<<part, vars, pageVars, copyVars>>

\* Every page is accounted for after every call, failed ones included: free,
\* owned by a process that is in use, or with other kernel code; a process has
\* the pages below its size, and no panic of kernel/vm.c or kernel/kalloc.c is
\* reached (kalloc, kfree, uvmalloc, uvmdealloc, uvmcopy, growproc,
\* proc_pagetable, exec, sys_exec).
PagesAccounted == part = "memory" => M!PagesAccounted

\* A call that fails leaves the memory of every process as it was, although
\* exec(), fork() and sbrk() may have got far before they failed.
FailureKeepsImages == M!FailureKeepsImages

\* A copy succeeds exactly when the process may use every byte of its range,
\* and otherwise has copied the bytes before the first such page; a string is
\* copied to its NUL (copyin, copyout, copyinstr, walkaddr).
CopiesExactly == part = "copies" => UC!CopiesExactly

\* The processes at work on the disk are alike, and so are the blocks.
Symmetry == {f @@ g : f \in Permutations(Procs), g \in Permutations(Blocks)}
=============================================================================
