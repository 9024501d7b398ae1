------------------------------- MODULE Memory -------------------------------
(***************************************************************************)
(* Physical pages and who owns them: kernel/kalloc.c, the user page tables *)
(* of kernel/vm.c, and the calls that build and tear them down: fork() and *)
(* freeproc() of kernel/proc.c, growproc(), exec() with its argument pages *)
(* (kernel/exec.c, sys_exec).  kalloc() may fail at every call, and every  *)
(* error path has to give back exactly what was taken.                     *)
(*                                                                         *)
(* A system call is one step: page tables are private to their process,    *)
(* and other kernel code shows itself only in how many pages are free      *)
(* (others).  Which free page kalloc() returns makes no difference, so     *)
(* pages are counted, not named.                                           *)
(*                                                                         *)
(* Functions on page tables take and return a record: the free pages, the  *)
(* page table, ok (the C function succeeded) and panic (it called          *)
(* panic()).                                                               *)
(***************************************************************************)
EXTENDS Integers, Sequences, FiniteSetsExt, Functions, SequencesExt

CONSTANTS
  Procs, Init_,       \* process table entries and the first process
  NPAGES,             \* physical pages
  PGSIZE,             \* bytes in a page
  FANOUT,             \* entries of a page-table page, 512 in the code
  USERSTACK,
  MaxSz,              \* bound: memory runs out before sz reaches TRAPFRAME
  Steps,              \* bytes by which sbrk() grows or shrinks
  Programs            \* sequences of loadable segments

\* In pages.  (MAXVA is half of this in the code: bit 38 of an address is not used.)
MAXVA == FANOUT * FANOUT * FANOUT
TRAMPOLINE == MAXVA - 1
TRAPFRAME == MAXVA - 2

VARIABLES
  free,          \* pages on kmem.freelist
  others,        \* pages other kernel code has
  trapframe,     \* processes that have a trapframe page
  tab,           \* per process: its page-table pages, by the indices that lead there
  map,           \* per process: its leaf PTEs, by page number: what is there, and PTE_U
  sz,            \* p->sz
  inuse,         \* the processes that are not UNUSED
  memPanic,
  outcome        \* the last call: its process, and whether it succeeded

memVars == <<free, others, trapframe, tab, map, sz, inuse, memPanic, outcome>>

-----------------------------------------------------------------------------
(* kernel/kalloc.c *)

\* kalloc() that succeeds, and kfree().
kalloc(r) == [r EXCEPT !.free = @ - 1]
kfree(r) == [r EXCEPT !.free = @ + 1]
Failed(r) == [r EXCEPT !.ok = FALSE]
Panics(r) == [r EXCEPT !.panic = TRUE]

-----------------------------------------------------------------------------
(* kernel/vm.c *)

PGROUNDUP(n) == ((n + PGSIZE - 1) \div PGSIZE) * PGSIZE
NPages(n) == PGROUNDUP(n) \div PGSIZE

\* The page-table pages on the way to va below the root: levels 2 and 1.
Path(va) == << <<va \div (FANOUT * FANOUT)>>,
               <<va \div (FANOUT * FANOUT), (va \div FANOUT) % FANOUT>> >>

\* walk(pagetable, va, 1) from the k-th table on: add the tables that are
\* missing, stop when kalloc() fails.
RECURSIVE walk_alloc(_, _, _)
walk_alloc(r, va, k) ==
  IF k > 2 THEN r
  ELSE IF Path(va)[k] \in r.tab THEN walk_alloc(r, va, k + 1)
  ELSE IF r.free = 0 THEN Failed(r)
  ELSE walk_alloc([kalloc(r) EXCEPT !.tab = @ \cup {Path(va)[k]}], va, k + 1)

\* mappages() of one page, which is what every caller here asks for: the
\* PTE is set once walk() has found its place.
SetPte(w, va, page, user) ==
  IF ~ w.ok THEN w
  ELSE IF va \in DOMAIN w.map \/ va >= MAXVA THEN Panics(w)
  ELSE [w EXCEPT !.map = (va :> [page |-> page, u |-> user]) @@ @]

mappages(r, va, page, user) == SetPte(walk_alloc(r, va, 1), va, page, user)

RECURSIVE uvmunmap(_, _, _, _)
uvmunmap(r, va, npages, do_free) ==
  IF npages = 0 THEN r
  ELSE IF va \notin DOMAIN r.map THEN Panics(r)
  ELSE LET f == IF do_free THEN kfree(r) ELSE r IN
         uvmunmap([f EXCEPT !.map = Restrict(@, DOMAIN @ \ {va})], va + 1, npages - 1, do_free)

\* An empty page table: its root.
uvmcreate(r) ==
  IF r.free = 0 THEN Failed([r EXCEPT !.tab = {}, !.map = <<>>])
  ELSE [kalloc(r) EXCEPT !.tab = {<<>>}, !.map = <<>>]

\* The pages uvmdealloc() removes.
Released(oldsz, newsz) == NPages(oldsz) - NPages(newsz)

uvmdealloc(r, oldsz, newsz) ==
  IF newsz >= oldsz THEN r
  ELSE uvmunmap(r, NPages(newsz), Max({0, Released(oldsz, newsz)}), TRUE)

\* Mutant: the page that could not be mapped is not freed.
Unmapped_leak(r) == r

\* kfree(mem) where mappages() failed.
Unmapped(r) == kfree(r)

\* Mutant: the pages mapped so far stay.
Undone_not(r, a, first) == r

\* What uvmalloc() mapped before it failed is unmapped.
Undone(r, a, first) == uvmdealloc(r, a, first)

\* The loop of uvmalloc() at byte a; first is where it began.
\* m is the page table after mappages().
Grew(m, a, first) == IF m.ok \/ m.panic THEN m ELSE Failed(Undone(Unmapped(m), a, first))

RECURSIVE uvmalloc_from(_, _, _, _)
uvmalloc_from(r, a, first, newsz) ==
  IF a >= newsz \/ ~ r.ok \/ r.panic THEN r
  ELSE IF r.free = 0 THEN Failed(Undone(r, a, first))
  ELSE uvmalloc_from(Grew(mappages(kalloc(r), a \div PGSIZE, "user", TRUE), a, first),
                     a + PGSIZE, first, newsz)

\* ok iff the C function does not return 0.
uvmalloc(r, oldsz, newsz) ==
  IF newsz < oldsz THEN [r EXCEPT !.ok = oldsz # 0]
  ELSE [uvmalloc_from(r, PGROUNDUP(oldsz), PGROUNDUP(oldsz), newsz)
          EXCEPT !.ok = @ /\ newsz # 0]

\* freewalk() frees the tables; a leaf that is still there is a panic.
freewalk(r) ==
  [r EXCEPT !.free = @ + Cardinality(r.tab), !.tab = {}, !.panic = @ \/ r.map # <<>>]

uvmfree(r, size) == freewalk(uvmunmap(r, 0, NPages(size), TRUE))

\* uvmcopy() at page i, of the pages that old maps below size.
\* m is the page table after mappages().
Copied(m, i) == IF m.ok \/ m.panic THEN m ELSE Failed(uvmunmap(Unmapped(m), 0, i, TRUE))

RECURSIVE uvmcopy_from(_, _, _, _)
uvmcopy_from(r, old, size, i) ==
  IF i * PGSIZE >= size \/ ~ r.ok \/ r.panic THEN r
  ELSE IF i \notin DOMAIN old THEN Panics(r)
  ELSE IF r.free = 0 THEN Failed(uvmunmap(r, 0, i, TRUE))
  ELSE uvmcopy_from(Copied(mappages(kalloc(r), i, "user", old[i].u), i), old, size, i + 1)

uvmcopy(r, old, size) == uvmcopy_from(r, old, size, 0)

\* uvmclear(): the user may not touch the page.
uvmclear(r, va) == IF va \notin DOMAIN r.map THEN Panics(r) ELSE [r EXCEPT !.map[va].u = FALSE]

-----------------------------------------------------------------------------
(* kernel/proc.c *)

\* proc_pagetable(): the trampoline, then the trapframe, at the top.
MapTrapframe(t) ==
  IF t.ok THEN t ELSE Failed(uvmfree(uvmunmap(t, TRAMPOLINE, 1, FALSE), 0))

MapTrampoline(m) ==
  IF ~ m.ok THEN Failed(uvmfree(m, 0))
  ELSE MapTrapframe(mappages(m, TRAPFRAME, "trapframe", FALSE))

MapTop(c) ==
  IF ~ c.ok THEN c ELSE MapTrampoline(mappages(c, TRAMPOLINE, "trampoline", FALSE))

proc_pagetable(r) == MapTop(uvmcreate(r))

proc_freepagetable(r, size) ==
  uvmfree(uvmunmap(uvmunmap(r, TRAMPOLINE, 1, FALSE), TRAPFRAME, 1, FALSE), size)

\* freeproc(): the trapframe, and the page table if there is one.  (Of a
\* process that has neither it frees nothing.)
freeproc(r, size) == IF r.tab = {} THEN kfree(r) ELSE proc_freepagetable(kfree(r), size)

\* allocproc(), without its search for an UNUSED entry.
OrFreed(p) == IF p.ok THEN p ELSE Failed(freeproc(p, 0))

allocproc(r) == IF r.free = 0 THEN Failed(r) ELSE OrFreed(proc_pagetable(kalloc(r)))

Blank(f) == [free |-> f, tab |-> {}, map |-> <<>>, ok |-> TRUE, panic |-> FALSE]
Fresh == Blank(free)
Of(p) == [Fresh EXCEPT !.tab = tab[p], !.map = map[p]]

\* fork(): the child q, with all it owns, or nothing.
ForkImage(a, p) == IF ~ a.ok THEN a ELSE OrFreed(uvmcopy(a, map[p], sz[p]))

fork(p, q) ==
  \E r \in {ForkImage(allocproc(Fresh), p)} :
      /\ p \in inuse /\ q \notin inuse
      /\ free' = r.free
      /\ memPanic' = (memPanic \/ r.panic)
      /\ tab' = [tab EXCEPT ![q] = r.tab]
      /\ map' = [map EXCEPT ![q] = r.map]
      /\ trapframe' = IF r.ok THEN trapframe \cup {q} ELSE trapframe
      /\ sz' = [sz EXCEPT ![q] = IF r.ok THEN sz[p] ELSE 0]
      /\ inuse' = IF r.ok THEN inuse \cup {q} ELSE inuse
      /\ outcome' = [proc |-> p, ok |-> r.ok]
      /\ UNCHANGED others

\* The parent of a zombie frees it in wait().
reap(p) ==
  \E r \in {freeproc(Of(p), sz[p])} :
  /\ p \in inuse \ {Init_}
  /\ free' = r.free
  /\ memPanic' = (memPanic \/ r.panic)
  /\ tab' = [tab EXCEPT ![p] = r.tab]
  /\ map' = [map EXCEPT ![p] = r.map]
  /\ trapframe' = trapframe \ {p}
  /\ sz' = [sz EXCEPT ![p] = 0]
  /\ inuse' = inuse \ {p}
  /\ outcome' = [proc |-> p, ok |-> TRUE]
  /\ UNCHANGED others

\* growproc(): sz + n is unsigned, so shrinking below 0 is growing far: it
\* changes nothing.
Resized(p, n) ==
  IF n > 0 THEN uvmalloc(Of(p), sz[p], sz[p] + n)
  ELSE IF sz[p] + n < 0 THEN Of(p)
  ELSE uvmdealloc(Of(p), sz[p], sz[p] + n)

growproc(p, n) ==
  \E r \in {Resized(p, n)} :
      /\ p \in inuse /\ sz[p] + n <= MaxSz
      /\ free' = r.free
      /\ memPanic' = (memPanic \/ r.panic)
      /\ tab' = [tab EXCEPT ![p] = r.tab]
      /\ map' = [map EXCEPT ![p] = r.map]
      /\ sz' = [sz EXCEPT ![p] = IF r.ok /\ sz[p] + n >= 0 THEN @ + n ELSE @]
      /\ outcome' = [proc |-> p, ok |-> r.ok]
      /\ UNCHANGED <<others, trapframe, inuse>>

-----------------------------------------------------------------------------
(* kernel/exec.c *)

\* An image under construction: a page-table record with its size.
Sized(r, old, newsz) == [r |-> r, size |-> IF r.ok THEN Max({old, newsz}) ELSE old]
Grown(x, newsz) == Sized(uvmalloc(x.r, x.size, newsz), x.size, newsz)

\* loadseg() finds the pages of a segment, and reads it if it can.
loadseg(x, seg, canread) ==
  LET there == \A i \in 0 .. NPages(seg.filesz) - 1 : seg.vaddr \div PGSIZE + i \in DOMAIN x.r.map
  IN  [x EXCEPT !.r.panic = @ \/ (x.r.ok /\ ~ there), !.r.ok = @ /\ canread]

\* The segments from the k-th on; of the reads of a header and its segment, in
\* turn, the first `readable' succeed.
RECURSIVE LoadSegments(_, _, _, _)
LoadSegments(x, prog, readable, k) ==
  IF k > Len(prog) \/ ~ x.r.ok \/ x.r.panic THEN x
  ELSE IF readable < 2 * k - 1 \/ prog[k].vaddr % PGSIZE # 0 \/ prog[k].memsz < prog[k].filesz
    THEN [x EXCEPT !.r = Failed(@)]
  ELSE LoadSegments(loadseg(Grown(x, prog[k].vaddr + prog[k].memsz), prog[k], readable >= 2 * k),
                    prog, readable, k + 1)

\* sz at the label bad when there is no memory for the stack.
BadSize(size) == size

\* The label bad: the new image is given back.
Bad(r, size) == [r |-> Failed(proc_freepagetable(r, size)), size |-> 0]

\* The arguments go on the stack, if they fit.
PushArgs(x, fits) == IF fits THEN x ELSE Bad(x.r, x.size)

\* st has the pages of the guard and the stack; top was its size before.
GuardStack(st, top, fits) ==
  IF ~ st.r.ok THEN Bad(st.r, BadSize(top))
  ELSE PushArgs([st EXCEPT !.r = uvmclear(@, NPages(st.size) - (USERSTACK + 1))], fits)

AddStack(x, top, fits) ==
  IF ~ x.r.ok THEN Bad(x.r, x.size)
  ELSE GuardStack(Grown([x EXCEPT !.size = top], top + (USERSTACK + 1) * PGSIZE), top, fits)

Loaded(x, fits) == AddStack(x, PGROUNDUP(x.size), fits)

\* The new image, or failure with everything given back.  fits: the arguments
\* fit in the stack.
FillImage(pt, prog, readable, fits) ==
  IF ~ pt.ok THEN [r |-> pt, size |-> 0]
  ELSE Loaded(LoadSegments([r |-> pt, size |-> 0], prog, readable, 1), fits)

NewImage(r, prog, readable, fits) == FillImage(proc_pagetable(r), prog, readable, fits)

\* exec() of an image that is complete: the old one goes.
OldFreed(e, p) == proc_freepagetable([e.r EXCEPT !.tab = tab[p], !.map = map[p]], sz[p])

\* sys_exec(): args pages for the argument strings (fewer when kalloc() fails),
\* then exec(), then the pages are freed.  The old image goes only when the
\* new one is complete.
exec(p, prog, readable, args, fits) ==
  LET argv == Min({args, free}) IN
  \E e \in {IF argv < args THEN [r |-> Failed([Fresh EXCEPT !.free = @ - argv]), size |-> 0]
            ELSE NewImage([Fresh EXCEPT !.free = @ - argv], prog, readable, fits)} :
  \E r \in {IF e.r.ok THEN OldFreed(e, p) ELSE e.r} :
      /\ p \in inuse
      /\ free' = r.free + argv
      /\ memPanic' = (memPanic \/ r.panic)
      /\ tab' = [tab EXCEPT ![p] = IF e.r.ok THEN e.r.tab ELSE @]
      /\ map' = [map EXCEPT ![p] = IF e.r.ok THEN e.r.map ELSE @]
      /\ sz' = [sz EXCEPT ![p] = IF e.r.ok THEN e.size ELSE @]
      /\ outcome' = [proc |-> p, ok |-> e.r.ok]
      /\ UNCHANGED <<others, trapframe, inuse>>

-----------------------------------------------------------------------------

\* Pipes and other kernel code take and return pages.
others_kalloc ==
  /\ free > 0
  /\ free' = free - 1 /\ others' = others + 1
  /\ UNCHANGED <<trapframe, tab, map, sz, inuse, memPanic, outcome>>

others_kfree ==
  /\ others > 0
  /\ free' = free + 1 /\ others' = others - 1
  /\ UNCHANGED <<trapframe, tab, map, sz, inuse, memPanic, outcome>>

\* userinit(): allocproc() and uvmfirst(), with memory enough.
First == mappages(kalloc(allocproc(Blank(NPAGES))), 0, "user", TRUE)

MemoryInit ==
  /\ free = First.free /\ others = 0
  /\ trapframe = {Init_}
  /\ tab = [p \in Procs |-> IF p = Init_ THEN First.tab ELSE {}]
  /\ map = [p \in Procs |-> IF p = Init_ THEN First.map ELSE <<>>]
  /\ sz = [p \in Procs |-> IF p = Init_ THEN PGSIZE ELSE 0]
  /\ inuse = {Init_} /\ memPanic = First.panic
  /\ outcome = [proc |-> Init_, ok |-> TRUE]

MemoryNext ==
  \/ \E p, q \in Procs : fork(p, q)
  \/ \E p \in Procs :
       \/ reap(p)
       \/ \E n \in Steps : growproc(p, n)
       \/ \E prog \in Programs, args \in 0 .. 1, fits \in BOOLEAN :
            \E readable \in 0 .. 2 * Len(prog) : exec(p, prog, readable, args, fits)
  \/ others_kalloc \/ others_kfree

-----------------------------------------------------------------------------
(* Properties. *)

UserPages(p) == {va \in DOMAIN map[p] : va < TRAPFRAME}

\* The pages a process owns: its trapframe, page-table pages and user pages.
Owned(p) == Cardinality({p} \cap trapframe) + Cardinality(tab[p]) + Cardinality(UserPages(p))

\* Every page is accounted for after every call, failed ones included: free,
\* owned by a process that is in use, or with other kernel code.  Nothing
\* leaks, and nothing is freed twice.  The mapped user pages are those below
\* sz, and the two special pages are where trampoline.S expects them, so that
\* none of the panics of kernel/vm.c and kernel/kalloc.c is reached, on any
\* path of fork(), exec(), sbrk() and wait() with memory running out anywhere.
PagesAccounted ==
  /\ free + others + MapThenSumSet(Owned, Procs) = NPAGES
  /\ \A p \in Procs \ inuse : Owned(p) = 0
  /\ ~ memPanic
  /\ \A p \in inuse :
       /\ UserPages(p) = 0 .. NPages(sz[p]) - 1
       /\ map[p][TRAPFRAME].page = "trapframe" /\ map[p][TRAMPOLINE].page = "trampoline"

\* A call that fails leaves the memory of every process as it was, although
\* exec(), fork() and sbrk() may have got far before they failed.
FailureKeepsImages ==
  [][~ outcome'.ok
       => \A p \in inuse : p \in inuse' /\ sz'[p] = sz[p] /\ map'[p] = map[p]]_memVars
=============================================================================
