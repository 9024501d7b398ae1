# A TLA+ model of the xv6 kernel with lottery and stride scheduling

This directory holds TLA+ specifications of the kernel in `src/kernel`, TLC
configurations that check them on small instances, and TLAPS proofs for any
number of CPUs and processes. The repository is xv6 for RISC-V with two
schedulers added in `kernel/proc.c`: a lottery over four classes and a stride
scheduler. The models cover those schedulers, the process table and life cycle,
interrupts and locks, memory, the file system from path names down to the disk
driver, pipes, the console, and the two pieces of user code with an algorithm
worth checking: the shell and the allocator.

## The system

| Part | Code | Concurrency | Modelled in |
|---|---|---|---|
| stride scheduler | `proc.c:131-179` | one loop per CPU, `p->lock` | `StrideScheduler` |
| lottery scheduler | `proc.c:34-71, 92-126` | one loop per CPU, `p->lock`, unlocked `seed`, `last_index` | `LotteryScheduler`, `Sorteio`, `LotteryDraws` |
| process table, context switch | `proc.c`, `swtch.S` | `p->lock` handed across `swtch` | `Proc`, `Dispatch` |
| fork, forkprio, exit, wait, kill | `proc.c`, `sysproc.c`, `trap.c` | `wait_lock`, `p->lock`, sleep and wakeup | `ForkExitWait` |
| spinlocks, interrupts, ticks, `sys_sleep` | `spinlock.c`, `trap.c`, `sysproc.c` | interrupt handlers, several CPUs, `tickslock` | `Interrupts` |
| write-ahead log | `log.c` | `log.lock`, sleep and wakeup, crashes | `Log`, `AtomicDisk` |
| buffer cache, sleep locks | `bio.c`, `sleeplock.c` | `bcache.lock`, a sleep lock per buffer | `Bio`, `BlockStore` |
| virtio disk | `virtio_disk.c` | device, interrupt, `vdisk_lock` | `VirtioDisk` |
| inodes, directories, open files | `fs.c`, `sysfile.c`, `file.c` | `itable.lock`, inode sleep locks | `Namespace` |
| blocks and bytes of files | `fs.c`, `file.c` | inode sleep lock, one transaction per piece | `FileBlocks`, `ByteFile` |
| path names | `fs.c`, `string.c` | none | `PathNames` |
| pages, page tables, exec, sbrk | `kalloc.c`, `vm.c`, `exec.c`, `proc.c` | `kmem.lock`; error paths | `Memory` |
| copies to and from user memory | `vm.c` | none | `UserCopy` |
| pipes and their files | `pipe.c`, `file.c` | `pi->lock`, `ftable.lock`, sleep and wakeup | `Pipe`, `ByteQueue` |
| console, UART | `console.c`, `uart.c` | interrupts, `cons.lock`, `uart_tx_lock` | `Console`, `LineDiscipline` |
| shell | `user/sh.c` | the processes of a pipeline | `ShellParser`, `RunCmd` |
| user-level allocator | `user/umalloc.c` | none | `Umalloc` |

The parts meet in `p->lock` and in sleep and wakeup. A scheduler switches to a
process while holding its lock, and the process releases it; a process that
leaves the CPU acquires the lock and the scheduler releases it. Everything that
blocks (wait, pipes, log, buffers, devices) calls `sleep(chan, lk)`, which takes
`p->lock` before it drops `lk`.

## Modules

### Dispatch, Proc

`Proc` is the process table as a scheduler sees it. `state`, `pid`, `lock` are
the fields of `struct proc`; `cproc[c]` is `c->proc`; `pc[c]` says where CPU `c`
is: in its scheduler loop, on a process's stack with the lock still held
(`resume`), running (`run`) or inside `sched()` with the lock taken again. A
critical section that takes one lock and drops it is one step, enabled when the
lock is free; a lock that outlives a step is in `lock`. `np` remembers the child
between the two halves of `fork()`, where `np->lock` is dropped and interrupts
are on. `allocproc` may take any UNUSED slot, because slots it has passed may
become UNUSED while it scans. An interrupt handler calls `wakeup` only on a CPU
that holds no lock, since `acquire()` turns interrupts off.

`Dispatch` is the promise to the rest of the kernel: a process is picked only
when RUNNABLE, is off every CPU before it is picked again or freed, and changes
state only along the edges of the xv6 state diagram. `Proc!Dispatches` is the
refinement, with `visibleState`: a process counts as RUNNING until its CPU has
left its stack, that is, while the CPU is in `sched()`.

### StrideScheduler

`scheduler_stride`. `Visit` is one iteration of the scan: lock `proc[idx]`, keep
it if it beats the candidate `minp` (whose lock is released), otherwise release
it. `Dispatch` switches to the candidate, `SwtchBack` adds the stride to its
pass with the wrap of a C `int` and starts a new scan. `Fork` sets neither
`pass` nor `stride`, `Forkprio` sets both, as in the code. `stable[c]` is a
history variable: the processes RUNNABLE ever since `c`'s scan began.

### LotteryScheduler, Sorteio, LotteryDraws

`scheduler_loteria`: `Draw` a class, visit slots from `last_index` (`Skip` or
`Dispatch`), come back (`SwtchBack`), and only then, holding no lock, store
`last_index` (`Update`). A draw may be any ticket; `Sorteio` defines the 32-bit
generator by halves (TLC's integers have 32 bits) and the ticket intervals, and
`LotteryDraws` follows the generator from the kernel's seed.

### ForkExitWait

Each process is a kernel thread with a program counter; a step runs from one
`acquire()` to the next. `wlock` is `wait_lock`, `plock[p]` is `p->lock` where it
outlives a step. Which process runs is left open, as in `Dispatch`. `fork()` and
`forkprio()` differ where memory runs out (`CopyFails`). Closing files in
`exit()` and the address spaces are left out; so is the class argument.

### Log, AtomicDisk

The disk is the home blocks, the log blocks and the header; a block write
happens or does not. Memory is the cached data, the pins, `log.lh`, and each
process's place in `begin_op`, its operation, or `commit`. `Crash` can happen
between any two steps, in recovery too, and loses the memory. `bget_recycle`
lets the cache drop any block that is not pinned. An operation writes at most
`MAXOPBLOCKS` different blocks, which is what the comments of `file.c` and
`log.c` require of callers. The panic of `log_write` is a step into a state from
which only a reset leads. `AtomicDisk` is the promise: `mem` is what the file
system reads, `durable` what it would find after a crash, and `durable` becomes
`mem` only when no operation is under way. The mapping reads `durable` off the
disk as recovery would.

### Pipe, ByteQueue

One pipe and its two `struct file`s, shared by processes that fork, close, read,
write, are killed and exit. `pi->lock` is held from `acquire()` to `release()` or
`sleep()`, byte by byte, so that `kill()` can fall anywhere. `fileclose` drops
the last reference in one step and `pipeclose` follows in another, as
`ftable.lock` is released in between. `ByteQueue` is a bounded FIFO queue.

### Interrupts

Kernel threads and the schedulers' loops on several CPUs, each with its interrupt
enable bit, `noff` and `intena`. `acquire` and `release` are taken apart into
`push_off`, the spin on the lock, and `pop_off`; between any two of them an
interrupt may come if the bit is on, and the handler runs on the same stack. A
thread that goes through `sched()` may come back on another CPU. `clockintr`
advances `ticks`, modulo `TickMod`, on CPU 0 only, and `sys_sleep` waits for it.

### VirtioDisk, Bio, BlockStore

`VirtioDisk` is the driver: `free`, `next`, `info` and the two rings of `struct
disk`, the thread in `virtio_disk_rw` (`rw_wait`, `rw_start`, `rw_again`, `rw_done`)
and the handler, which acknowledges, empties the used ring and leaves
(`intr_ack`, `intr_used`, `intr_exit`). `device` is external: it takes any request
in the avail ring, moves the data and puts it in the used ring, at any time. `Bio`
extends it: the cache in LRU order, the buffers' reference counts and their sleep
locks, with the log's pins. `BlockStore` is the promise to the file system:
whoever has a block has it alone, sees what was last written to it, and a changed
block that is pinned is not forgotten.

### Namespace

`din` and `ent` are the inodes and directories on disk, `mem` the inode table, `ilk`
the inodes' locks. A step is what a process does between giving up one lock and
waiting for the next, so `namex` is one step per directory, `iput` three when it
frees the inode (`iput`, `iput_free`, `iput_drop`), `sys_link` and `sys_unlink`
three or four. Failures of `dirlink` for want of disk space are choices
(`create_undo`, `link_enter`). A directory's contents are a function from names to
inodes; `begin_op` is left to `Log`.

### FileBlocks, ByteFile

The bitmap, the inodes' block tables with one indirect block, and the words of the
blocks. The functions of `fs.c` are operators on a record of what they change;
`op` collects the blocks a transaction touches. One step is one piece of
`filewrite`, one read, or one truncation. `cached` and `logged` differ where a
piece failed to read its source after it had begun to change the buffer: nothing
logs that change, and it is lost or kept depending on what the cache and the log
do next (`evict`, `write_log`). `ByteFile` is the promise: a file is a sequence of
bytes.

### PathNames

`skipelem` on arrays of characters, `strncpy` into the directory entry and `strncmp`,
against a definition by where the slashes are.

### Memory, UserCopy

`Memory` counts pages: free, with other kernel code, and per process the
trapframe, the page-table pages (named by the indices that lead to them) and the
leaf entries. The functions of `vm.c` take and return a record with the free
pages, the page table, whether they succeeded and whether they panicked. A system
call is one step, since page tables are private. `UserCopy` computes `copyin`,
`copyout` and `copyinstr` for every choice of access rights, address and length.

### Console, LineDiscipline

`r`, `w`, `e` are the indices of `cons`, wrapping; `hpc` is where the handler is,
`upc` where each process is in `consoleread` or `consolewrite`. The UART is two
bits and an interrupt: a received character, the transmitter being empty. The
echo of `uartputc_sync` uses the transmitter without `uart_tx_lock`, as in the code.
`LineDiscipline` is the promise: finished input is a queue that editing does not
reach, and the unfinished line a stack.

### ShellParser, RunCmd, Umalloc

The parser as recursive operators on tokens, against a definition by where the
separators are. `RunCmd` has the processes of one command line with the pipe ends
each of them holds; a program reads until the end of its input and exits. `Umalloc`
is the circular free list, in units of a header.

## Runs

A run answers a question about several components where they share no state: the
variable `part` (or `built`) is chosen in the initial state, and only that
component moves. The states of such a run are the sum of its parts, not the
product, and each part is checked as if it were alone.

| Run | Expect | Instance | Shows |
|---|---|---|---|
| `schedulers` | pass | 2 CPUs, 3 slots, pids to 3; either scheduler | `NoSharedStack`: stacks are exclusive; `PicksMinimum`: every stride dispatch is of the minimum; `NoCircularWait`: no deadlock in the lock order; `Dispatches`: `Dispatch` is implemented, by both schedulers |
| `stride_starve` | violation | 1 CPU, 3 slots | a process made by `fork()` has stride 0 and is dispatched for ever |
| `stride_overflow` | violation | 1 CPU, `int` scaled to 399 | a wrapped pass starves a process with tickets |
| `one_cpu` | pass | 1 CPU, 3 slots, two classes; 6000 draws from the kernel's seed; 3 processes with kill and failing `uvmcopy` | `SharesFollowTickets`: shares follow the tickets and no class is passed over for long; `FairService`: round robin inside a class, and no starvation; `InitReaps`: every ZOMBIE child of init is reaped, unless the scheduler starves init |
| `lottery_race` | violation | 2 CPUs, one class | `last_index` is stale between CPUs: no round robin |
| `kernel` | pass | 4 slots on 2 CPUs with failing `uvmcopy`; 2 threads on 2 CPUs | `OrphansAdopted`; `NoChildMissed`: `wait()` overlooks no child and no wakeup is lost; `FreedOffCpu`: no slot is freed under a CPU; `LocksMaskInterrupts`: `noff` counts the locks, and `intena` belongs to the thread; `NoSelfDeadlock`: no handler finds its lock held below it; `SleepsLongEnough` |
| `forkprio_panic` | violation | 3 slots, failing `uvmcopy` in `forkprio` | the error path acquires a lock it holds |
| `log_memory` | pass | 3 processes, 3 blocks, 2 crashes; 2 process slots and 16 pages; copies in 3 pages of 2 bytes | `Atomic`: the log is an atomic disk; `RoomReserved`: `log_write` cannot panic while more than one block is still promised; `NoLostWakeup`; `PagesAccounted`: pages are neither leaked nor freed twice; `FailureKeepsImages`: a failed call changes nothing; `CopiesExactly`: copies stop where they must |
| `log_full` | violation | 3 processes, 6 blocks, a log of 6 for operations of 2 | the last promised block does not fit in the log on disk, and `log_write` panics |
| `cache` | pass | 3 threads, 3 blocks, 8 descriptors; 2 buffers that are shared, or 3 that are kept | `IsBlockStore`: cache, sleep locks and driver are a store of blocks; `BufferStaysMine`: a buffer in use is not recycled; `DescriptorsOwned`, `DiskNoLostWakeup`: no descriptor, interrupt or wakeup is lost |
| `files` | pass | 2 processes, 3 inodes, 9 calls; 2 writers, 3 blocks of 2 bytes; all pairs of paths of 3 characters | `RefsCounted`: references and links are exact; `InUseIsKept`: no freed inode is in use; `NoCircularWait`: no deadlock; `OrphansOnlyReused`; `BlocksAccounted`: blocks are neither leaked nor shared; `IsByteFile`: files are byte sequences; `FitsTransaction`: writes fit their transactions; `NamesFound` |
| `streams` | pass | 2 processes at a 2-byte pipe; 2 users at a console of 2 characters; lines of 4 tokens; 10 commands; a heap of 9 units | `Fifo`, `EofIsFinal`, `NoLostWakeup` and `NoUseAfterFree` of the pipe; `IsLineDiscipline`, `ConsoleNoLostWakeup` of the console; `ParsesTheLine`: lines are parsed as their separators say; `PipelinesEnd`: no pipeline hangs; `HeapSound` |

### Bounds

Two CPUs are enough for every race between a CPU and another; three slots give a
running process, a candidate and a better candidate, and let a slot be freed and
reused. `MaxPass` stops processes from yielding once their pass is past it. Four
slots in `kernel` give init, a parent, its child and a bystander; with three, the
exiting parent's own parent is init and the wakeup in `reparent()` would not
matter. Two operations of two blocks fill the log of four; three processes make
one wait; the third block makes the panic reachable. `log_full` has the kernel's
proportions: the log on disk has `LOGSIZE` blocks, three times `MAXOPBLOCKS`. A pipe's write of three bytes
does not fit in its buffer, and its counters wrap after four.

Two buffers for three blocks make every thread recycle. With a buffer each, three
threads have three requests, and eight descriptors hold two: in that part of `cache`
`alloc3_desc` fails, gives back the two descriptors it took, and the third thread
waits for `free_desc`; there the threads keep their blocks, and one of them writes
its own again and again. In `files` a disk of three blocks
fills up in the middle of a write; with one direct block every longer file has a
table; `MAXOPBLOCKS` of six makes `max` one block, so a write of three bytes takes
several pieces, and every block has a bitmap block of its own, so that the transaction's
count matters. Files, directories and the current directory are one level below
the root (see the next section). No call of the run makes a device, whose inode
differs only in being refused by `sys_open`; the table of inodes is never full,
so its panic stays out. Names of `DIRSIZ` and more characters, doubled and
trailing slashes occur in paths of three characters when `DIRSIZ` is two. In
`Memory` the free pages run out at every page of every call, since other code may
take any number of them; `FANOUT` is two, so page-table pages are missing at both
levels; `sz` stays below the special pages by `MaxSz`. Lines of four tokens hold a
group, a redirection, a pipe of three and every malformed neighbour.

`FirstSlot` (in `schedulers` and `kernel`) lets `allocproc()` take the first UNUSED
slot only, and `LastClosedFirst` (in `files`) lets a process use its second
descriptor only to close it; both keep the runs small. The proofs about the
schedulers and `ForkExitWait` do without `FirstSlot`. At the console one user
reads and another writes, which keeps that run small too.

Symmetry is used in the CPUs, processes, threads, blocks and bytes of the safety
runs; no property of these runs names an element. `streams` does not
check for deadlock: a process may wait at a pipe for bytes that only it could
write, a parsed line is parsed, and a pipeline that has ended has ended.

### Fairness

The liveness properties assume that a CPU keeps running its loop (weak fairness
of the scheduler's steps), that the timer interrupts every running process
(fairness of `Yield`; a pending timer interrupt stays pending until interrupts
are enabled), and that `fork()` finishes. `one_cpu` adds strong fairness of the draw
of each class in use: the generator has full period (its multiplier is 1 mod 4
and its increment odd), so every class comes up again and again; its other
properties show how soon.

`InitReaps` assumes no fairness of the choice of a process, since the scheduler the
kernel is built with (`scheduler_mode = 1`, stride) gives none: `stride_starve` shows
a RUNNABLE process that is never chosen, and init, whose pid is the smallest and
loses every tie, can be that process. What is assumed is that a CPU with somebody to
run runs somebody (weak fairness of `\E p : Dispatch(p)`), that a thread which has the
CPU again and again makes its next kernel step (strong fairness; a tick is longer than
a step, and no tick comes under a spinlock), and that init calls `wait()` again and
again, as `init.c` does. `InitReaps` says that then only starvation keeps a ZOMBIE
child of init from being reaped: init RUNNABLE for ever while there are others to
choose (`InitStarved`). No wakeup is lost, no orphan is forgotten, and `wait()` finds
every ZOMBIE, over all choices of the scheduler. Under the lottery on one CPU `FairService` excludes the
starvation. The instance has one CPU: a thread that spins on a lock with interrupts
off is not told apart from one that may be preempted there, so with two CPUs fairness
of its steps would not say what the machine does.

For the disk, the console, the pipes and the log, progress is stated as safety: nobody
is asleep when what they wait for has happened and nobody is left to wake them.

## What the models showed besides

Three things the passing properties are stated around:

- `iput` (`fs.c:341-360`) does not look at the links again after it has freed an
  inode and taken `itable.lock` back. If a `create` has meanwhile taken the same
  inode number and given it up because the disk is full, the number stays
  allocated with no name and no reference. `OrphansOnlyReused` says that this is
  the only way to an orphan.
- A directory that is removed while it is somebody's current directory keeps its
  `..`. When the parent is removed as well, looking up `..` reaches a freed inode
  and `ilock` panics (`fs.c:314`). The runs keep directories one level deep, where
  `..` is the root; with two levels the model reaches the panic.
- A writer killed in a full pipe returns without waking readers (`pipe.c:84`);
  `NoLostWakeup` of `Pipe` is about executions before a kill. And a write whose
  source turns out to be unreadable may leave a changed buffer that was not logged
  (`fs.c:522`), which `ByteFile` calls `loose`.

## What disagrees with the documentation

- `README.md:13` gives every process tickets and a share of the CPU. `fork()`
  gives none: stride 0, so the pass never grows (`stride_starve`).
- `pass` is an `int` that only grows. When it wraps, its process is the minimum
  for a whole cycle (`stride_overflow`). The run scales `INT_MAX` down.
- `README.md:11` says round robin inside a class. With `CPUS=2` or more it is not
  (`lottery_race`); with one CPU, the Makefile's default, it is
  (`one_cpu`).
- `forkprio()` acquires `np->lock`, which `allocproc()` returned held, when
  `uvmcopy()` fails, and the kernel panics (`forkprio_panic`).
- `param.h:10` calls `LOGSIZE` the "max data blocks in on-disk log", and `begin_op`
  admits operations by it. `mkfs` makes a log of `LOGSIZE` blocks, of which one is the
  header, and `log_write` panics when the blocks that are left are full, even for a
  block that is in the log already. Operations that keep to `MAXOPBLOCKS` can reach
  that panic with the last of their blocks (`log_full`), and `RoomReserved` says that
  they can reach it with no other. Whether three system calls ever log 29 different
  blocks at once is not decided here; `FitsTransaction` bounds the writes only.

## Proofs

The theorems hold for every value of the constants: any number of processes, CPUs,
slots, threads and blocks, any buffer sizes, and any values of the bounds that the
runs need. Where a run checks the same formula, its name is in the last column.

| Module | Theorem | Statement | Run |
|---|---|---|---|
| `StrideSchedulerProofs` | `TypeCorrect` | `[]TypeOK` | |
| | `StacksExclusive` | `[]NoSharedStack` | `schedulers` |
| | `RunningIsOnCpu` | `[]RunningHasCpu` | |
| | `SchedNeverPanics` | `[]SchedDiscipline` | |
| | `NoDeadlock` | `[]NoCircularWait` | `schedulers` |
| | `DispatchesMinimum` | `[]PicksMinimum` | `schedulers` |
| | `Refinement` | `Dispatches` | `schedulers` |
| `LotterySchedulerProofs` | `TypeCorrect`, `StacksExclusive`, `RunningIsOnCpu`, `SchedNeverPanics`, `Refinement` | as above, for `scheduler_loteria` | `schedulers` |
| | `OneCpuRoundRobin` | `[]RoundRobin`, given one CPU | `lottery_race` (two CPUs: violated) |
| `ForkExitWaitProofs` | `TypeCorrect` | `[]TypeOK`: no more threads on CPUs than CPUs | |
| | `Adoption` | `[]OrphansAdopted` | `kernel` |
| | `NoneMissed` | `[]NoChildMissed` | `kernel` |
| | `OffCpu` | `FreedOffCpu` (an action property) | `kernel` |
| `InterruptsProofs` | `LocksMask` | `[]LocksMaskInterrupts` | `kernel` |
| | `SelfDeadlockFree` | `[]NoSelfDeadlock` | `kernel` |
| | `SleepLength` | `[]SleepsLongEnough` | `kernel` |
| `LogProofs` | `TypeCorrect` | `[]TypeOK` | |
| | `WakeupComes` | `[]NoLostWakeup` | `log_memory` |
| | `RoomKept` | `[]RoomReserved` | `log_memory` |
| | `LogIsAtomic` | `Atomic`: refinement of `AtomicDisk` | `log_memory` |
| `PipeProofs` | `TypeCorrect` | `[]TypeOK` | |
| | `FreedIsUnused` | `[]NoUseAfterFree` | `streams` |
| | `EndOfFile` | `[]EofIsFinal` | `streams` |
| | `WakeupComes` | `[]NoLostWakeup` | `streams` |
| | `Refinement` | `Fifo`: refinement of `ByteQueue` | `streams` |

None of these properties is inductive. Each module defines an inductive invariant
`IInv`, shows that it holds initially and that every action keeps it, one step per
action, and derives the properties from it.

### The schedulers

`IInv` adds to `TypeOK` who holds which lock: a CPU in its scan holds the lock of its
candidate and no other (`LockInv`; the lottery's scan holds none), a CPU in `resume`
or `sched` that of its process; where the CPUs are (`CpuInv`); that a process between
the halves of `fork()` has a child in USED that no one else has (`ForkInv`); and that
no two CPUs are on one stack and RUNNING means on a CPU (`NoSharedStack`, `RunInv`).
The lock order of the stride scan gives `NoDeadlock`: a CPU that waits in its scan
holds a lower slot than the one it wants, so in any finite set of CPUs the one that
wants the highest slot waits for nobody in the set. `ScanInv` adds that the candidate
is at least as good as every process in `stable[c]` below `idx[c]`; `pass` and `pid`
of a RUNNABLE process do not change without its lock. The refinements go action by
action, with `OneVisible` for the steps that change one visible state.

`OneCpuRoundRobin` is about where processes lie around the table. `Dist(q, x)` is how
far a scan that starts after slot `q` goes to reach `x`. `TurnInv` says that those
that ran since `q` began to wait lie between `q` and the place the scan has reached,
so the scan comes to `q` before it comes to one of them again. The theorem assumes one CPU;
with two, `last_index` is stale and the property is false, as `lottery_race` shows.

### fork, exit, wait

`LifeInv` ties the position of a thread to the state of its process, `LockInv` to the
locks it holds, and `ForkInv` gives a child that is being made to one `fork()`.
`FamilyInv` says that parents live and that a process past `reparent()` has no
children: `exit()` takes `wait_lock` before it gives its children away and keeps it
until it is a ZOMBIE, and `fork()` sets `np->parent` while its own process is RUNNING.
`WaitInv` says that what a scan of `wait()` has seen stays so while it holds
`wait_lock`, that a process about to become a ZOMBIE has woken its parent, and that a
sleeper has a ZOMBIE child only if it is init and somebody is about to wake it in
`reparent()`. `OffCpu` follows from `p->lock`, which a ZOMBIE keeps through `sched()`.

### Interrupts

The code position on top of the running stack determines the rest of a CPU: which
locks it holds (`HoldAt`), `noff` (`CountAt`), whether interrupts are on and what
`intena` says (`MaskAt`). Below the top there is only code that was interrupted, which
has no lock and had interrupts on (`CpuAt`, `ThreadAt`); a thread in `sched()` has the
`intena` of its own code in `saved`. `SleepAt` says that `ticks0 + elapsed` is `ticks`,
or `ticks` plus the modulus. `InterruptsThreadProofs` holds the invariant and the steps
of threads and schedulers, `InterruptsProofs` the steps that both share, the handler's,
and the theorems.

### The log

`OpsInv` says that one process commits and only while no operation is under way,
`HeadInv` and `TailInv` what the headers in memory and on disk name, `CacheInv` that the
buffers that differ from the disk are exactly the pinned ones, `CopyInv` what the log
blocks hold at each stage of `commit()` and of recovery, and `WroteInv` that the blocks of
an operation are in the log. With them the refinement mapping, which reads `durable`
off the disk as recovery would, changes in one step only: the write of the header.
`RoomKept` rests on `Promised`: the logged blocks and those still promised are at most
`LOGSIZE`. Each new operation is counted with `MAXOPBLOCKS` by `begin_op`, and each
logged block uses up one that was promised. `Short` is what `LOGSIZE` promises beyond
the `log.size - 1` blocks on disk; the theorem holds for every `log.size`.
`LogControlProofs` has the invariant and its control part, `LogProofs` the data, the
refinement and the theorems.

### The pipe

`RefInv` counts the descriptors, `OpenInv` says which end is open and why, `LockInv`
what a process has seen under `pi->lock`, and `SleepInv` that a sleeper whose condition
is gone is about to be woken by the holder of the lock. The refinement maps the
counters to the sequence of bytes between them; that the wrapping counters index the ring
correctly rests on `UintMod` being a multiple of `PIPESIZE`, as 2^32 is of 512.

### Assumptions

They are the `ASSUME`s of the component modules, which TLC evaluates on every run.
`TableAssumption`, `StrideAssumption`, `UsedAssumption`: there is a slot, no CPU is
called `NoCpu`, the bounds are natural numbers. `ForkAssumption`: there is a slot, and
nobody kills init, which would then call `exit()`, and `exit()` panic.
`InterruptsAssumption`: the names of CPUs, threads and locks differ, and no process
sleeps through a whole cycle of `ticks` (`MaxTicks + MaxSleep < TickMod`).
`LogAssumption`: finitely many processes and blocks, and one operation fits in the log.
`PipeAssumption`: finitely many processes, and the modulus of the counters is a larger
multiple of `PIPESIZE`.

### Only model-checked

- All liveness (`FairService`, `InitReaps`) and with it the fairness: out of the
  prover's reach.
- `FileBlocks`, `Memory`, `UserCopy`, `PathNames`, `ShellParser`, `Umalloc`, and
  `VirtioDisk` with `Bio`, which extends it: they are built on recursive operators,
  whose results for every input the prover cannot reach by induction.
- `SharesFollowTickets`: a computation over the draws from one seed.
- `Namespace`, `Console` and `RunCmd`: their invariants count references and pipe ends
  over several tables or wrap around two buffers, and their proofs have not been
  attempted.

## Not modelled

- Boot, the PLIC, the kernel's own page table, `syscall.c` and `printf`: they run
  once, access registers, or pass values on.
- The assembly (`swtch.S`, `trampoline.S`, `kernelvec.S`): it saves and restores
  registers, and no model has registers.
- Memory ordering between CPUs: a step sees the steps before it. The code's shared
  data is under locks whose instructions order memory, except `seed` and
  `last_index` (in `LotteryScheduler`) and the echo (in `Console`).
- `pipealloc`'s failures, `sys_pipe`, `sys_fstat`, the device switch, `cd` and
  reading the command line in the shell, and the other user programs, which are
  sequential clients. The programs of `usertests.c` and `grind.c` are tests of the
  same calls.
- `mkfs`, which builds the disk image on the host.
- A disk that reports errors: `virtio_disk_intr` panics, and the device of the
  model reports success.
- Two inodes' pieces interleaved in the bitmap: a piece of `filewrite` is one step of
  `FileBlocks`, although pieces of different inodes share bitmap blocks and take their
  locks one at a time. The locks on the bitmap's buffers are those of `Bio`.
- Waiting in `create` for the lock of the inode it has just allocated: `Namespace`
  takes that lock within the step. Only an `iput` that is freeing the same number can
  hold it then, and it releases it without waiting for anybody.
