----------------------------- MODULE Namespace ------------------------------
(***************************************************************************)
(* Inodes, directories and open files: the inode table and path lookup of  *)
(* kernel/fs.c, the calls of kernel/sysfile.c that change names, and the   *)
(* file table of kernel/file.c, run by several processes at once.          *)
(*                                                                         *)
(* An inode is on disk (`din') and, while somebody refers to it, in the    *)
(* table (`mem'), where iget finds or makes its only entry under           *)
(* itable.lock; so an entry is named by its inode number, and NINODE       *)
(* bounds how many have references.  A step is what a process does between *)
(* giving up one sleep-lock or spin-lock and waiting for the next one.     *)
(* iput is three steps when it frees the inode, and a path is looked up    *)
(* one directory at a time.                                                *)
(***************************************************************************)
EXTENDS Integers, Sequences, FiniteSets

CONSTANTS Procs, NoProc,
          NInodes,     \* inodes of the disk, 1 is the root
          NINODE, NFILE, NOFILE,
          Names,       \* the names a path may create or look up
          Calls        \* the calls made: [what, path, kind, new], where a path is
                       \* [abs, elems], kind what create makes ("file", "dir",
                       \* "device", "nodevice") or how open opens ("read",
                       \* "write"), and new holds link's second path

VARIABLES din,       \* [Inums -> [type, nlink]], inodes on disk
          ent,       \* [Inums -> [Entries -> inum or 0]], contents of directories
          mem,       \* [Inums -> [ref, valid, type, nlink]], the inode table
          ilk,       \* [Inums -> process or NoProc], the inodes' sleep-locks
          cwd,       \* [Procs -> inum]
          ofile,     \* [Procs -> [fds -> index in ftable, or 0]]
          ftable,    \* [1..NFILE -> [ref, ip]]
          call,      \* [Procs -> where the system call is, and its variables]
          fsPanic    \* the kernel has panicked, and why

nsVars == <<din, ent, mem, ilk, cwd, ofile, ftable, call, fsPanic>>

Inums == 1..NInodes
ROOTINO == 1
Entries == Names \cup {".", ".."}
NoEntries == [e \in Entries |-> 0]
Absent == [ref |-> 0, valid |-> FALSE, type |-> "none", nlink |-> 0]

\* Between system calls.  puts are the inodes still to be given to iput, and
\* freeing says how far the first of them is.
Ready_ == [at |-> "user", path |-> <<>>, parent |-> FALSE, ip |-> 0, old |-> 0,
           new |-> <<>>, kind |-> "none", next |-> "user", fail |-> "user",
           puts |-> <<>>, freeing |-> "no"]

Done(puts) == [Ready_ EXCEPT !.puts = puts]

NamespaceInit ==
  /\ din = [i \in Inums |-> IF i = ROOTINO THEN [type |-> "dir", nlink |-> 1]
                            ELSE [type |-> "none", nlink |-> 0]]
  /\ ent = [i \in Inums |-> IF i = ROOTINO
                            THEN [e \in Entries |-> IF e \in Names THEN 0 ELSE ROOTINO]
                            ELSE NoEntries]
  /\ mem = [i \in Inums |-> IF i = ROOTINO THEN [Absent EXCEPT !.ref = Cardinality(Procs)]
                            ELSE Absent]
  /\ ilk = [i \in Inums |-> NoProc]
  /\ cwd = [p \in Procs |-> ROOTINO]
  /\ ofile = [p \in Procs |-> [fd \in 1..NOFILE |-> 0]]
  /\ ftable = [f \in 1..NFILE |-> [ref |-> 0, ip |-> 0]]
  /\ call = [p \in Procs |-> Ready_] /\ fsPanic = "no"

At(p, label) == call[p].at = label /\ call[p].puts = <<>> /\ fsPanic = "no"
Goto(p, c) == call' = [call EXCEPT ![p] = c]
Panic(why) == fsPanic' = why

\* iget on a table m, which must have an entry or room for one.
iget(m, i) == [m EXCEPT ![i] = IF m[i].ref > 0 THEN [@ EXCEPT !.ref = @ + 1]
                               ELSE [Absent EXCEPT !.ref = 1]]
Room(i) == mem[i].ref > 0 \/ Cardinality({j \in Inums : mem[j].ref > 0}) < NINODE

\* ilock: wait for the lock; the first time, read the inode.
Free(i) == ilk[i] = NoProc
ilock(m, i) == IF m[i].valid THEN m
               ELSE [m EXCEPT ![i].valid = TRUE, ![i].type = din[i].type,
                              ![i].nlink = din[i].nlink]
NoType(i) == ~mem[i].valid /\ din[i].type = "none"

\* A change of type or links, and the iupdate after it.
Update(m, i) == [d \in Inums |-> IF d = i THEN [type |-> m[i].type, nlink |-> m[i].nlink]
                                 ELSE din[d]]

-----------------------------------------------------------------------------
\* (mutant: the count is not looked at)
LastUse_shared(i) == mem[i].valid /\ mem[i].nlink = 0

\* (mutant: the count is tested as if it had been decremented already)
LastUse_zero(i) == mem[i].ref = 0 /\ mem[i].valid /\ mem[i].nlink = 0

\* iput, under itable.lock: the last reference to an inode with no links
\* frees it.  ref = 1 means that nobody can have it locked.
LastUse(i) == mem[i].ref = 1 /\ mem[i].valid /\ mem[i].nlink = 0

iput(p) ==
  LET i == Head(call[p].puts)
  IN  /\ call[p].puts # <<>> /\ call[p].freeing = "no" /\ fsPanic = "no"
      /\ IF LastUse(i)
         THEN /\ IF Free(i) THEN UNCHANGED fsPanic ELSE Panic("iput")
              /\ ilk' = [ilk EXCEPT ![i] = p]
              /\ Goto(p, [call[p] EXCEPT !.freeing = "locked"])
              /\ UNCHANGED mem
         ELSE /\ mem' = [mem EXCEPT ![i] = IF @.ref = 1 THEN Absent
                                           ELSE [@ EXCEPT !.ref = @ - 1]]
              /\ Goto(p, [call[p] EXCEPT !.puts = Tail(@)])
              /\ UNCHANGED <<ilk, fsPanic>>
      /\ UNCHANGED <<din, ent, cwd, ofile, ftable>>

Emptied(m) == [m EXCEPT !.type = "none", !.valid = FALSE]

\* itrunc, type = 0, iupdate, valid = 0, releasesleep
iput_free(p) ==
  LET i == Head(call[p].puts)
  IN  /\ call[p].freeing = "locked" /\ fsPanic = "no"
      /\ ent' = [ent EXCEPT ![i] = NoEntries]
      /\ din' = [din EXCEPT ![i].type = "none"]
      /\ mem' = [mem EXCEPT ![i] = Emptied(@)]
      /\ ilk' = [ilk EXCEPT ![i] = NoProc]
      /\ Goto(p, [call[p] EXCEPT !.freeing = "freed"])
      /\ UNCHANGED <<cwd, ofile, ftable, fsPanic>>

\* itable.lock again: another process may have found the inode by now
iput_drop(p) ==
  LET i == Head(call[p].puts)
  IN  /\ call[p].freeing = "freed" /\ fsPanic = "no"
      /\ mem' = [mem EXCEPT ![i] = IF @.ref = 1 THEN Absent ELSE [@ EXCEPT !.ref = @ - 1]]
      /\ Goto(p, [call[p] EXCEPT !.freeing = "no", !.puts = Tail(@)])
      /\ UNCHANGED <<din, ent, ilk, cwd, ofile, ftable, fsPanic>>

-----------------------------------------------------------------------------
\* The inode a process is about to lock.
Wants(p) == IF call[p].at \in {"unlink_ip", "link_bad"} THEN call[p].old ELSE call[p].ip
Locking == {"namex", "open", "create", "exists", "link", "link_enter", "link_bad",
            "unlink", "unlink_ip", "chdir"}

\* p reaches the label, has the inode it wants to lock to itself, and finds it
\* allocated.
Enter(p, label) == At(p, label) /\ Free(Wants(p)) /\ ~NoType(Wants(p))

ilock_panic(p) == /\ At(p, call[p].at) /\ call[p].at \in Locking
                  /\ Free(Wants(p)) /\ NoType(Wants(p)) /\ Panic("ilock: no type")
                  /\ UNCHANGED <<din, ent, mem, ilk, cwd, ofile, ftable, call>>

Failed(c) == [c EXCEPT !.at = c.fail, !.puts = <<c.ip>>, !.ip = 0]

Looked(c) == CASE c.path # <<>> -> [c EXCEPT !.at = "namex"]
               [] c.path = <<>> /\ c.parent -> Failed(c)
               [] OTHER -> [c EXCEPT !.at = c.next]

\* The start of a lookup: namex takes the root or the current directory.
Start(p, path) == IF path.abs THEN ROOTINO ELSE cwd[p]

\* One turn of namex's loop: lock a directory, look the name up, let it go.
Turn(p, m0, c) ==
  LET m == ilock(m0, c.ip)
      found == ent[c.ip][Head(c.path)]
      last == c.parent /\ Len(c.path) = 1
  IN  \/ /\ m[c.ip].type = "dir" /\ last
         /\ mem' = m /\ Goto(p, [c EXCEPT !.at = c.next]) /\ UNCHANGED fsPanic
      \/ /\ m[c.ip].type # "dir" \/ (found = 0 /\ ~last)
         /\ mem' = m /\ Goto(p, Failed(c)) /\ UNCHANGED fsPanic
      \/ /\ m[c.ip].type = "dir" /\ ~last /\ found # 0
         /\ IF ~Room(found) THEN Panic("iget: no inodes") /\ UNCHANGED <<mem, call>>
            ELSE /\ mem' = iget(m, found) /\ UNCHANGED fsPanic
                 /\ Goto(p, Looked([c EXCEPT !.path = Tail(@), !.ip = found,
                                             !.puts = <<c.ip>>]))

namex(p) == /\ Enter(p, "namex") /\ Turn(p, mem, call[p])
            /\ UNCHANGED <<din, ent, ilk, cwd, ofile, ftable>>

\* The system calls with a path: sys_open without and with O_CREATE, sys_mkdir,
\* sys_mknod, sys_chdir, sys_link and sys_unlink.  The process has a reference
\* to where it starts already, so the first turn is part of the step.
begin(p) ==
  /\ At(p, "user")
  /\ \E k \in Calls :
       LET from == Start(p, k.path)
           c == [Ready_ EXCEPT !.at = "namex", !.next = k.what, !.kind = k.kind,
                   !.new = k.new, !.path = k.path.elems, !.ip = from,
                   !.parent = k.what \in {"create", "unlink"}]
           m == iget(mem, from)
       IN  IF c.path = <<>> THEN mem' = m /\ Goto(p, Looked(c)) /\ UNCHANGED fsPanic
           ELSE Free(from) /\ ~NoType(from) /\ Turn(p, m, c)
  /\ UNCHANGED <<din, ent, ilk, cwd, ofile, ftable>>

-----------------------------------------------------------------------------
\* iunlockput, and the call fails
Refuse(p, i) == Goto(p, Done(<<i>>)) /\ UNCHANGED <<ofile, ftable>>

\* sys_open from filealloc on, with inode i locked: an error gives it up.
OpenFile(p, i) ==
  LET fs == {f \in 1..NFILE : ftable[f].ref = 0}
      fds == {fd \in 1..NOFILE : ofile[p][fd] = 0}
      first(set) == CHOOSE x \in set : \A y \in set : x <= y
  IN  IF fs = {} \/ fds = {} THEN Refuse(p, i)
      ELSE /\ ftable' = [ftable EXCEPT ![first(fs)] = [ref |-> 1, ip |-> i]]
           /\ ofile' = [ofile EXCEPT ![p][first(fds)] = first(fs)]
           /\ Goto(p, Done(<<>>))

\* A directory may only be opened for reading, and a device must exist.
open(p) ==
  LET c == call[p]
      m == ilock(mem, c.ip)
  IN  /\ Enter(p, "open") /\ mem' = m
      /\ IF m[c.ip].type = "nodevice" \/ (m[c.ip].type = "dir" /\ c.kind = "write")
         THEN Refuse(p, c.ip) ELSE OpenFile(p, c.ip)
      /\ UNCHANGED <<din, ent, ilk, cwd, fsPanic>>

chdir(p) ==
  LET i == call[p].ip
      m == ilock(mem, i)
  IN  /\ Enter(p, "chdir") /\ mem' = m
      /\ IF m[i].type # "dir" THEN Goto(p, Done(<<i>>)) /\ UNCHANGED cwd
         ELSE cwd' = [cwd EXCEPT ![p] = i] /\ Goto(p, Done(<<cwd[p]>>))
      /\ UNCHANGED <<din, ent, ilk, ofile, ftable, fsPanic>>

\* create, with the directory locked: the name is there,
create_found(p) ==
  LET c == call[p]
      e == ent[c.ip][Head(c.path)]
  IN  /\ Enter(p, "create") /\ e # 0
      /\ IF Room(e) THEN /\ mem' = iget(ilock(mem, c.ip), e) /\ UNCHANGED fsPanic
                         /\ Goto(p, [c EXCEPT !.at = "exists", !.ip = e, !.puts = <<c.ip>>])
         ELSE Panic("iget: no inodes") /\ UNCHANGED <<mem, call>>
      /\ UNCHANGED <<din, ent, ilk, cwd, ofile, ftable>>

exists(p) ==
  LET c == call[p]
      m == ilock(mem, c.ip)
  IN  /\ Enter(p, "exists") /\ mem' = m
      /\ IF c.kind = "file" /\ m[c.ip].type \in {"file", "device"}
         THEN OpenFile(p, c.ip) ELSE Refuse(p, c.ip)
      /\ UNCHANGED <<din, ent, ilk, cwd, fsPanic>>

\* or there is no inode left,
FreeInums == {i \in Inums : din[i].type = "none"}
create_full(p) ==
  LET c == call[p]
  IN  /\ Enter(p, "create") /\ ent[c.ip][Head(c.path)] = 0 /\ FreeInums = {}
      /\ mem' = ilock(mem, c.ip) /\ Goto(p, Done(<<c.ip>>))
      /\ UNCHANGED <<din, ent, ilk, cwd, ofile, ftable, fsPanic>>

\* The table after ialloc, iget and ilock of inode i, and nlink set.
Made(m, i, kind, n) ==
  LET m1 == iget(m, i)
  IN  [m1 EXCEPT ![i] = [@ EXCEPT !.valid = TRUE, !.nlink = n,
                                  !.type = IF m1[i].valid THEN @ ELSE kind]]

\* or it is made: ialloc, the entries, and ".." counts as a link to the parent.
ParentLinks(kind) == IF kind = "dir" THEN 1 ELSE 0

create_new(p) ==
  LET c == call[p]
      i == CHOOSE x \in FreeInums : \A y \in FreeInums : x <= y
      m1 == Made(ilock(mem, c.ip), i, c.kind, 1)
      m == [m1 EXCEPT ![c.ip].nlink = @ + ParentLinks(c.kind)]
  IN  /\ Enter(p, "create") /\ ent[c.ip][Head(c.path)] = 0 /\ FreeInums # {}
      /\ IF ~Room(i) THEN /\ Panic("iget: no inodes")
                          /\ UNCHANGED <<mem, din, ent, ilk, call>>
         ELSE /\ mem' = m
              /\ din' = [d \in Inums |-> IF d \in {i, c.ip}
                           THEN [type |-> m[d].type, nlink |-> m[d].nlink] ELSE din[d]]
              /\ ent' = [ent EXCEPT ![c.ip][Head(c.path)] = i,
                   ![i] = IF c.kind = "dir" THEN [NoEntries EXCEPT !["."] = i, ![".."] = c.ip]
                          ELSE NoEntries]
              /\ ilk' = [ilk EXCEPT ![i] = p]
              /\ Goto(p, [c EXCEPT !.at = "created", !.ip = i, !.puts = <<c.ip>>])
              /\ UNCHANGED fsPanic
      /\ UNCHANGED <<cwd, ofile, ftable>>

\* dirlink finds no room on the disk: the new inode loses its only link and is
\* put while the directory is still locked.
create_undo(p) ==
  LET c == call[p]
      i == CHOOSE x \in FreeInums : \A y \in FreeInums : x <= y
      m == Made(ilock(mem, c.ip), i, c.kind, 0)
  IN  /\ Enter(p, "create") /\ ent[c.ip][Head(c.path)] = 0 /\ FreeInums # {} /\ Room(i)
      /\ mem' = m
      /\ din' = [din EXCEPT ![i] = [type |-> m[i].type, nlink |-> 0]]
      /\ ilk' = [ilk EXCEPT ![c.ip] = p]
      /\ Goto(p, [c EXCEPT !.at = "undone", !.puts = <<i>>])
      /\ UNCHANGED <<ent, cwd, ofile, ftable, fsPanic>>

undone(p) == /\ At(p, "undone") /\ ilk' = [ilk EXCEPT ![call[p].ip] = NoProc]
             /\ Goto(p, Done(<<call[p].ip>>))
             /\ UNCHANGED <<din, ent, mem, cwd, ofile, ftable, fsPanic>>

\* The caller of create: sys_open goes on, sys_mkdir and sys_mknod are done.
created(p) ==
  LET i == call[p].ip
  IN  /\ At(p, "created") /\ ilk' = [ilk EXCEPT ![i] = NoProc]
      /\ IF call[p].kind = "file" THEN OpenFile(p, i)
         ELSE Goto(p, Done(<<i>>)) /\ UNCHANGED <<ofile, ftable>>
      /\ UNCHANGED <<din, ent, mem, cwd, fsPanic>>

-----------------------------------------------------------------------------
\* sys_link: count the link first, then look for the place,
link(p) ==
  LET c == call[p]
      l == ilock(mem, c.ip)
      m == [l EXCEPT ![c.ip].nlink = @ + 1]
  IN  /\ Enter(p, "link")
      /\ IF l[c.ip].type = "dir"
         THEN mem' = l /\ Goto(p, Done(<<c.ip>>)) /\ UNCHANGED din
         ELSE /\ din' = Update(m, c.ip) /\ mem' = iget(m, Start(p, Head(c.new)))
              /\ Goto(p, Looked([Ready_ EXCEPT !.next = "link_enter", !.fail = "link_bad",
                   !.path = Head(c.new).elems, !.parent = TRUE,
                   !.ip = Start(p, Head(c.new)), !.old = c.ip]))
      /\ UNCHANGED <<ent, ilk, cwd, ofile, ftable, fsPanic>>

\* enter the name, unless it is taken or the disk is full,
link_enter(p) ==
  LET c == call[p]
      e == ent[c.ip][Head(c.path)]
  IN  /\ Enter(p, "link_enter") /\ mem' = ilock(mem, c.ip)
      /\ \/ /\ e = 0 /\ ent' = [ent EXCEPT ![c.ip][Head(c.path)] = c.old]
            /\ Goto(p, Done(<<c.ip, c.old>>)) /\ UNCHANGED fsPanic
         \/ /\ IF e # 0 /\ ~Room(e) THEN Panic("iget: no inodes") ELSE UNCHANGED fsPanic
            /\ Goto(p, [c EXCEPT !.at = "link_bad", !.ip = 0, !.puts = <<c.ip>>])
            /\ UNCHANGED ent
      /\ UNCHANGED <<din, ilk, cwd, ofile, ftable>>

\* (mutant: iunlock where the code has iunlockput)
BadPuts_none(c) == <<>>

BadPuts(c) == <<c.old>>

\* and take the link back.
link_bad(p) ==
  LET c == call[p]
      m == [ilock(mem, c.old) EXCEPT ![c.old].nlink = @ - 1]
  IN  /\ Enter(p, "link_bad")
      /\ mem' = m /\ din' = Update(m, c.old) /\ Goto(p, Done(BadPuts(c)))
      /\ UNCHANGED <<ent, ilk, cwd, ofile, ftable, fsPanic>>

\* (mutant: the names are not compared)
Undeletable_none == {}

\* sys_unlink: the directory stays locked while the inode is locked.
Undeletable == {".", ".."}

unlink(p) ==
  LET c == call[p]
      e == ent[c.ip][Head(c.path)]
      m == ilock(mem, c.ip)
  IN  /\ Enter(p, "unlink")
      /\ CASE Head(c.path) \in Undeletable \/ e = 0 ->
                mem' = m /\ Goto(p, Done(<<c.ip>>)) /\ UNCHANGED <<ilk, fsPanic>>
           [] ~(Head(c.path) \in Undeletable \/ e = 0) /\ ~Room(e) ->
                Panic("iget: no inodes") /\ UNCHANGED <<mem, ilk, call>>
           [] OTHER ->
                /\ mem' = iget(m, e) /\ ilk' = [ilk EXCEPT ![c.ip] = p]
                /\ Goto(p, [c EXCEPT !.at = "unlink_ip", !.old = e]) /\ UNCHANGED fsPanic
      /\ UNCHANGED <<din, ent, cwd, ofile, ftable>>

isdirempty(i) == \A n \in Names : ent[i][n] = 0

unlink_ip(p) ==
  LET c == call[p]
      l == ilock(mem, c.old)
      m == [l EXCEPT ![c.ip].nlink = @ - ParentLinks(l[c.old].type)]
  IN  /\ Enter(p, "unlink_ip")
      /\ IF l[c.old].nlink < 1
         THEN Panic("unlink: nlink < 1") /\ UNCHANGED <<mem, din, ent, ilk, call>>
         ELSE IF l[c.old].type = "dir" /\ ~isdirempty(c.old)
         THEN /\ mem' = l /\ ilk' = [ilk EXCEPT ![c.ip] = NoProc]
              /\ Goto(p, Done(<<c.old, c.ip>>)) /\ UNCHANGED <<din, ent, fsPanic>>
         ELSE /\ mem' = m /\ din' = Update(m, c.ip)
              /\ ent' = [ent EXCEPT ![c.ip][Head(c.path)] = 0]
              /\ ilk' = [ilk EXCEPT ![c.ip] = NoProc, ![c.old] = p]
              /\ Goto(p, [c EXCEPT !.at = "unlink_dec", !.ip = 0, !.puts = <<c.ip>>])
              /\ UNCHANGED fsPanic
      /\ UNCHANGED <<cwd, ofile, ftable>>

unlink_dec(p) ==
  LET c == call[p]
      m == [mem EXCEPT ![c.old].nlink = @ - 1]
  IN  /\ At(p, "unlink_dec") /\ mem' = m /\ din' = Update(m, c.old)
      /\ ilk' = [ilk EXCEPT ![c.old] = NoProc] /\ Goto(p, Done(<<c.old>>))
      /\ UNCHANGED <<ent, cwd, ofile, ftable, fsPanic>>

\* sys_close and sys_dup
close(p, fd) ==
  LET f == ofile[p][fd]
  IN  /\ At(p, "user") /\ f # 0 /\ ofile' = [ofile EXCEPT ![p][fd] = 0]
      /\ IF ftable[f].ref = 1
         THEN /\ ftable' = [ftable EXCEPT ![f] = [ref |-> 0, ip |-> 0]]
              /\ Goto(p, Done(<<ftable[f].ip>>))
         ELSE ftable' = [ftable EXCEPT ![f].ref = @ - 1] /\ UNCHANGED call
      /\ UNCHANGED <<din, ent, mem, ilk, cwd, fsPanic>>

dup(p, fd, new) ==
  LET f == ofile[p][fd]
  IN  /\ At(p, "user") /\ f # 0 /\ ofile[p][new] = 0
      /\ \A x \in 1..new - 1 : ofile[p][x] # 0
      /\ ofile' = [ofile EXCEPT ![p][new] = f]
      /\ ftable' = [ftable EXCEPT ![f].ref = @ + 1]
      /\ UNCHANGED <<din, ent, mem, ilk, cwd, call, fsPanic>>

spin == fsPanic # "no" /\ UNCHANGED nsVars

NamespaceNext ==
  \/ \E p \in Procs :
       \/ begin(p) \/ namex(p) \/ ilock_panic(p)
       \/ iput(p) \/ iput_free(p) \/ iput_drop(p)
       \/ open(p) \/ chdir(p)
       \/ create_found(p) \/ exists(p) \/ create_full(p) \/ create_new(p)
       \/ create_undo(p) \/ undone(p) \/ created(p)
       \/ link(p) \/ link_enter(p) \/ link_bad(p)
       \/ unlink(p) \/ unlink_ip(p) \/ unlink_dec(p)
       \/ \E fd \in 1..NOFILE : close(p, fd) \/ \E new \in 1..NOFILE : dup(p, fd, new)
  \/ spin

-----------------------------------------------------------------------------
Held(i) == {p \in Procs : cwd[p] = i}
Opened(i) == {f \in 1..NFILE : ftable[f].ref > 0 /\ ftable[f].ip = i}
InCall(i, p) == Cardinality({k \in DOMAIN call[p].puts : call[p].puts[k] = i})
                + (IF call[p].ip = i THEN 1 ELSE 0) + (IF call[p].old = i THEN 1 ELSE 0)

\* Every reference count is the number of its holders: an entry of the table
\* by the current directories, the open files and the system calls in
\* progress, an open file by the descriptors.  No path through the calls, the
\* failing ones included, forgets an iput or does one too many.
RefsCounted ==
  /\ \A i \in Inums : mem[i].ref =
       Cardinality(Held(i)) + Cardinality(Opened(i))
         + Cardinality({<<p, k>> \in Procs \X (1..3) : InCall(i, p) >= k})
  /\ \A f \in 1..NFILE : ftable[f].ref =
       Cardinality({<<p, fd>> \in Procs \X (1..NOFILE) : ofile[p][fd] = f})

\* An inode with no link and nobody who has it in memory, which no iput will
\* ever free.
Orphan(i) == din[i].type # "none" /\ din[i].nlink = 0 /\ mem[i].ref = 0

\* iput frees an inode whose last link and last user are gone, in whatever
\* order they go, with one exception: iput_drop, which no longer looks at the
\* links, may have been overtaken by a create that took the freed inode's
\* number, found the disk full and gave it up (iput, create's fail, sys_unlink).
OrphansOnlyReused ==
  [][\A i \in Inums : Orphan(i)' /\ ~Orphan(i) =>
       \E p \in Procs : call[p].freeing = "freed" /\ Head(call[p].puts) = i]_nsVars

NamesOf(i) == {<<d, n>> \in Inums \X Names : ent[d][n] = i}

\* An inode that a name, a current directory or an open file leads to stays
\* allocated, with a link for every name, while links, removals and creations
\* of the same names go on (sys_link counts first and enters afterwards,
\* sys_unlink the other way round).  An entry of the table nobody has locked
\* agrees with the disk; ilock never meets a freed inode and sys_unlink never
\* one without links (their panics); and iput, which sleeps for an inode with
\* itable.lock held, never finds it locked ("ref == 1 means no other process
\* can have ip locked").
InUseIsKept ==
  /\ \A i \in Inums :
       /\ Held(i) # {} \/ Opened(i) # {} \/ NamesOf(i) # {} => din[i].type # "none"
       /\ NamesOf(i) # {} => din[i].nlink >= Cardinality(NamesOf(i))
  /\ \A i \in Inums : mem[i].valid /\ Free(i) =>
       mem[i].type = din[i].type /\ mem[i].nlink = din[i].nlink
  /\ fsPanic \notin {"iput", "ilock: no type", "unlink: nlink < 1"}

Blocked(p) == call[p].at \in Locking /\ At(p, call[p].at) /\ ~Free(Wants(p))

\* No processes wait for each other's inodes, and none for its own: the order
\* in which create, link and unlink lock a directory and what is in it.
NoCircularWait ==
  \A S \in SUBSET Procs :
    S # {} => \E p \in S : ~(Blocked(p) /\ ilk[Wants(p)] \in S)
=============================================================================
