----------------------------- MODULE FileBlocks -----------------------------
(***************************************************************************)
(* The contents of files (kernel/fs.c: the block allocator, bmap, itrunc,  *)
(* readi and writei; kernel/file.c: fileread and filewrite).  A file is a  *)
(* table of block numbers, the last of them a block of block numbers; 0 is *)
(* no block.  A word of a block holds either a byte of a file, which is    *)
(* the process that wrote it, or a block number.                           *)
(*                                                                         *)
(* An inode is locked and a transaction open while a piece of a write is   *)
(* stored, so a piece is one step; filewrite gives up both between pieces. *)
(* A copy from user memory may find that memory missing part of the way:   *)
(* `there' is how many bytes of the caller's buffer are mapped.            *)
(***************************************************************************)
EXTENDS Integers, Sequences, FiniteSets, FiniteSetsExt

CONSTANTS Files, Opens, Procs,
          NBlocks,       \* data blocks of the disk, numbered from 1
          NDIRECT, BSIZE, MAXOPBLOCKS,
          UintSize,      \* sizeof(uint)
          BPB,           \* blocks one bitmap block speaks for
          UintMod,       \* one more than the largest unsigned integer
          MaxWrite       \* bound: bytes asked of one write

VARIABLES ip,        \* [Files -> [addrs, size]], the inodes in memory
          dip,       \* the same inodes in the blocks of the disk
          used,      \* the blocks marked in the bitmap
          cached,    \* [Blocks -> [Words -> word]], in the buffer cache
          logged,    \* what log_write was last called with
          off,       \* [Opens -> Nat]
          file,      \* [Opens -> Files], the inode of an open file
          writing,   \* [Procs -> filewrite's variables, or Idle]
          fbPanic

fbVars == <<ip, dip, used, cached, logged, off, file, writing, fbPanic>>

Blocks == 1..NBlocks
Words == 0..BSIZE - 1
NINDIRECT == BSIZE \div UintSize
MAXFILE == NDIRECT + NINDIRECT
Idle == [busy |-> FALSE]
Zero == [w \in Words |-> 0]
Empty == [addrs |-> [i \in 0..NDIRECT |-> 0], size |-> 0]
BBLOCK(b) == <<"bitmap", b \div BPB>>
IBLOCK(f) == <<"inode", f>>

\* (fs.c works on an inode, the bitmap and the buffers: one record here)
State(f) == [addrs |-> ip[f].addrs, used |-> used, cached |-> cached,
             logged |-> logged, op |-> {}, panic |-> fbPanic]

log_write(s, b) == [s EXCEPT !.logged[b] = s.cached[b], !.op = @ \cup {<<"data", b>>}]

bzero(s, b) == log_write([s EXCEPT !.cached[b] = Zero], b)

balloc(s) ==
  LET b == Min(Blocks \ s.used)
  IN  IF s.used = Blocks THEN [s |-> s, addr |-> 0]
      ELSE [s |-> bzero([s EXCEPT !.used = @ \cup {b}, !.op = @ \cup {BBLOCK(b)}], b),
            addr |-> b]

bfree(s, b) ==
  IF b \notin s.used THEN [s EXCEPT !.panic = TRUE]
  ELSE [s EXCEPT !.used = @ \ {b}, !.op = @ \cup {BBLOCK(b)}]

\* The block in slot i of the inode, allocated if there is none.
Direct(s, i) ==
  IF s.addrs[i] # 0 THEN [s |-> s, addr |-> s.addrs[i]]
  ELSE LET a == balloc(s) IN [s |-> [a.s EXCEPT !.addrs[i] = a.addr], addr |-> a.addr]

Entered(s, t, i, b) == log_write([s EXCEPT !.cached[t][i] = b], t)

Indirect(s, t, i) ==
  LET a == balloc(s)
  IN  CASE s.cached[t][i] # 0 -> [s |-> s, addr |-> s.cached[t][i]]
        [] a.addr = 0 -> a
        [] OTHER -> [s |-> Entered(a.s, t, i, a.addr), addr |-> a.addr]

bmap(s, bn) ==
  LET t == Direct(s, NDIRECT)
  IN  CASE bn < NDIRECT -> Direct(s, bn)
        [] bn >= MAXFILE -> [s |-> [s EXCEPT !.panic = TRUE], addr |-> 0]
        [] t.addr = 0 -> t
        [] OTHER -> Indirect(t.s, t.addr, bn - NDIRECT)

\* (mutant: the blocks named in the table are forgotten)
Held_direct(s) == {s.addrs[i] : i \in 0..NDIRECT} \ {0}

\* The blocks an inode with these addresses holds, the table's included.
Table(s) == {s.cached[s.addrs[NDIRECT]][i] : i \in Words} \ {0}
Held(s) == ({s.addrs[i] : i \in 0..NDIRECT} \ {0})
             \cup (IF s.addrs[NDIRECT] = 0 THEN {} ELSE Table(s))

itrunc(s) == [FoldSet(LAMBDA b, t : bfree(t, b), s, Held(s))
                EXCEPT !.addrs = Empty.addrs]

Piece(o, left) == Min({left, BSIZE - (o % BSIZE)})

Filled(block, from, n, p) ==
  [w \in Words |-> IF w \in from..from + n - 1 THEN p ELSE block[w]]

\* writei's loop: n bytes of p's, of which the first `there' can be read, from
\* offset o; tot of them are written.  either_copyin fills the buffer up to
\* the byte it cannot read and the buffer is given back with no log_write.
RECURSIVE Write(_, _, _, _, _, _)
Write(s, o, n, there, p, tot) ==
  LET m == Piece(o, n - tot)
      a == bmap(s, o \div BSIZE)
      into(k) == [a.s EXCEPT !.cached[a.addr] = Filled(@, o % BSIZE, k, p)]
  IN  CASE tot = n \/ a.addr = 0 -> [s |-> IF tot = n THEN s ELSE a.s, tot |-> tot]
        [] there < tot + m -> [s |-> into(Max({0, there - tot})), tot |-> tot]
        [] OTHER -> Write(log_write(into(m), a.addr), o + m, n, there, p, tot + m)

\* readi's loop: the bytes found, and the state bmap leaves
RECURSIVE ReadBytes(_, _, _)
ReadBytes(s, o, n) ==
  LET m == Piece(o, n)
      a == bmap(s, o \div BSIZE)
      here == [k \in 1..m |-> a.s.cached[a.addr][(o % BSIZE) + k - 1]]
      rest == ReadBytes(a.s, o + m, n - m)
  IN  IF n = 0 \/ a.addr = 0 THEN [s |-> s, data |-> <<>>]
      ELSE [s |-> rest.s, data |-> here \o rest.data]

\* The end of an operation on file f: iupdate writes the inode.
Commit(f, s, size) ==
  /\ ip' = [ip EXCEPT ![f] = [addrs |-> s.addrs, size |-> size]]
  /\ dip' = [dip EXCEPT ![f] = [addrs |-> s.addrs, size |-> size]]
  /\ used' = s.used /\ cached' = s.cached /\ logged' = s.logged
  /\ fbPanic' = s.panic

FileBlocksInit ==
  /\ ip = [f \in Files |-> Empty] /\ dip = ip /\ used = {}
  /\ cached = [b \in Blocks |-> Zero] /\ logged = cached
  /\ off = [o \in Opens |-> 0] /\ file \in [Opens -> Files]
  /\ writing = [p \in Procs |-> Idle] /\ fbPanic = FALSE

\* (mutant: no allowance for a write that begins inside a block)
max_no_slop == ((MAXOPBLOCKS - 1 - 1) \div 2) * BSIZE

\* The most one transaction of filewrite is given.
max == ((MAXOPBLOCKS - 1 - 1 - 2) \div 2) * BSIZE

\* writei's early returns
TooFar(f, at, n) == \/ at > ip[f].size \/ (at + n) % UintMod < at
                    \/ at + n > MAXFILE * BSIZE

\* (mutant: a write inside the file ends the file)
NewSize_here(f, at) == at

NewSize(f, at) == Max({ip[f].size, at})

\* The shared offset moves by what was written.
Advance(at, r) == at + r

\* What writei does for p's call j, which has written j.i bytes.
Stored(p, j) ==
  Write(State(file[j.o]), off[j.o], Min({j.n - j.i, max}), j.there - j.i, p, 0)

\* One turn of filewrite's loop: writei under the inode's lock.
Turn(p, j) ==
  LET f == file[j.o]
      at == off[j.o]
      n1 == Min({j.n - j.i, max})
      w == Stored(p, j)
      r == IF TooFar(f, at, n1) THEN -1 ELSE w.tot
  IN  /\ IF r = -1 THEN UNCHANGED <<ip, dip, used, cached, logged, off, fbPanic>>
         ELSE /\ Commit(f, w.s, NewSize(f, at + r))
              /\ off' = [off EXCEPT ![j.o] = Advance(at, r)]
      /\ writing' = [writing EXCEPT ![p] =
           IF r # n1 \/ j.i + r = j.n THEN Idle ELSE [j EXCEPT !.i = @ + r]]
      /\ UNCHANGED file

\* A call for n bytes, `short' of which are past the end of user memory.
Call(o, n, short) == [busy |-> TRUE, o |-> o, n |-> n, i |-> 0, there |-> n - short]
FileCalls == {Call(o, n, short) : o \in Opens, n \in {1, MaxWrite}, short \in {0, 1}}

\* filewrite up to the end of its first piece, and each piece after it.
filewrite(p) == /\ ~writing[p].busy
                /\ \E j \in FileCalls : Turn(p, j)

write_piece(p) == writing[p].busy /\ Turn(p, writing[p])

\* fileread: readi under the inode's lock.  Nothing writes the inode back, so
\* a block that bmap had to allocate would be in the memory copy only.
fileread(o, n, there) ==
  LET f == file[o]
      at == off[o]
      len == IF at > ip[f].size \/ (at + n) % UintMod < at THEN 0
             ELSE Min({n, ip[f].size - at})
      r == ReadBytes(State(f), at, len)
  IN  /\ off' = [off EXCEPT ![o] = @ + (IF there < len THEN 0 ELSE Len(r.data))]
      /\ ip' = [ip EXCEPT ![f].addrs = r.s.addrs]
      /\ used' = r.s.used /\ cached' = r.s.cached /\ logged' = r.s.logged
      /\ fbPanic' = r.s.panic
      /\ UNCHANGED <<dip, file, writing>>

\* open with O_TRUNC, and iput of a file with no name: itrunc.
truncate(f) == /\ Commit(f, itrunc(State(f)), 0)
               /\ UNCHANGED <<off, file, writing>>

\* A buffer that was changed and not logged: bget may give it to another
\* block, and the next bread reads the old contents back;
evict(b) == /\ cached[b] # logged[b]
            /\ cached' = [cached EXCEPT ![b] = logged[b]]
            /\ UNCHANGED <<ip, dip, used, logged, off, file, writing, fbPanic>>

\* or the block is in the log already and the commit copies the buffer.
write_log(b) == /\ cached[b] # logged[b]
                /\ logged' = [logged EXCEPT ![b] = cached[b]]
                /\ UNCHANGED <<ip, dip, used, cached, off, file, writing, fbPanic>>

FileBlocksNext ==
  \/ \E p \in Procs : filewrite(p) \/ write_piece(p)
  \/ \E o \in Opens, n \in {1, UintMod - 1}, there \in {0, UintMod} :
       fileread(o, n, there)
  \/ \E f \in Files : truncate(f)
  \/ \E b \in Blocks : evict(b) \/ write_log(b)

-----------------------------------------------------------------------------
Counted(b) == Cardinality({<<f, i>> \in Files \X (0..NDIRECT) : ip[f].addrs[i] = b})
            + Cardinality({<<f, i>> \in Files \X Words :
                 /\ ip[f].addrs[NDIRECT] # 0
                 /\ cached[ip[f].addrs[NDIRECT]][i] = b})

\* Every block marked in the bitmap is in exactly one place of one file, no
\* file holds a block that is not marked, the inodes and tables on disk are
\* the ones in memory, and bfree and bmap never panic: no write that ends
\* early, for want of blocks or of its source, leaks or shares a block
\* (balloc, bfree, bmap, itrunc, iupdate in writei).
BlocksAccounted ==
  /\ ~fbPanic /\ ip = dip
  /\ \A b \in Blocks : Counted(b) = IF b \in used THEN 1 ELSE 0
  /\ \A f \in Files : LET t == ip[f].addrs[NDIRECT]
                      IN  t # 0 => cached[t] = logged[t]

\* No piece of a write changes more blocks than begin_op reserved for it, the
\* bitmap blocks, the table and the inode counted (the constant max in
\* filewrite).
FitsTransaction ==
  \A p \in Procs, j \in FileCalls :
    LET f == file[j.o]
    IN  off[j.o] <= ip[f].size =>
          Cardinality(Stored(p, j).s.op \cup {IBLOCK(f)}) <= MAXOPBLOCKS

AddrOf(f, bn) == CASE bn < NDIRECT -> ip[f].addrs[bn]
                   [] ip[f].addrs[NDIRECT] = 0 -> 0
                   [] OTHER -> cached[ip[f].addrs[NDIRECT]][bn - NDIRECT]
ByteAt(where, f, k) == LET a == AddrOf(f, k \div BSIZE)
                       IN  IF a = 0 THEN 0 ELSE where[a][k % BSIZE]

Contents(f) == [k \in 1..ip[f].size |-> ByteAt(cached, f, k - 1)]

Bytes == INSTANCE ByteFile WITH
  bytes <- [f \in Files |-> Contents(f)],
  loose <- [f \in Files |-> {k \in 1..ip[f].size :
              ByteAt(cached, f, k - 1) # ByteAt(logged, f, k - 1)}],
  pos <- off, MaxPiece <- max

\* Files are sequences of bytes: whatever two writers, a reader and a
\* truncation do in between, across the direct and indirect blocks, at the end
\* of the disk and of the largest file, each piece of a write lands whole at
\* the offset and two writers that share an open file never write over each
\* other (writei, fileread, filewrite).
IsByteFile == Bytes!Spec

\* A read from any offset, of any length, returns the bytes of the file from
\* there on and finds every block in place: it allocates nothing (readi, bmap).
ReadsBack ==
  \A f \in Files : \A at \in 0..ip[f].size :
    LET r == ReadBytes(State(f), at, ip[f].size - at)
    IN  /\ r.data = SubSeq(Contents(f), at + 1, ip[f].size)
        /\ r.s = State(f)
=============================================================================
