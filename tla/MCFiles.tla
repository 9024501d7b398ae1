------------------------------ MODULE MCFiles ------------------------------
(***************************************************************************)
(* The file system for TLC: the tree of names and the inodes behind it     *)
(* (Namespace), the bytes of files and the blocks that hold them           *)
(* (FileBlocks), and how paths are cut into names (PathNames).  `part'     *)
(* says which of the three moves.                                          *)
(***************************************************************************)
EXTENDS Namespace, TLC

CONSTANTS Files, Opens, NBlocks, NDIRECT, BSIZE, UintSize, MAXOPBLOCKS, BPB, UintMod, MaxWrite,
          DIRSIZ, Chars, MaxPath
VARIABLES part,
          ip, dip, used, cached, logged, off, file, writing, fbPanic,
          path, entered, junk

FB == INSTANCE FileBlocks
PN == INSTANCE PathNames

blockVars == <<ip, dip, used, cached, logged, off, file, writing, fbPanic>>
pathVars == <<path, entered, junk>>

\* The system calls of the model.
Abs(elems) == [abs |-> TRUE, elems |-> elems]
Rel(elems) == [abs |-> FALSE, elems |-> elems]
Open(mode, to) == [what |-> "open", path |-> to, kind |-> mode, new |-> <<>>]
Sys(what, to) == [what |-> what, path |-> to, kind |-> "none", new |-> <<>>]
Create(kind, to) == [what |-> "create", path |-> to, kind |-> kind, new |-> <<>>]
Link(to, new) == [what |-> "link", path |-> to, kind |-> "none", new |-> <<new>>]

MCCalls == {Create("dir", Abs(<<"a">>)), Create("file", Rel(<<"b">>)),
            Open("write", Abs(<<"a">>)), Link(Rel(<<"..", "b">>), Abs(<<"a">>)),
            Sys("chdir", Abs(<<"a">>)),
            Sys("unlink", Abs(<<"a">>)), Sys("unlink", Rel(<<"b">>)),
            Sys("unlink", Rel(<<".">>))}

MCInit == /\ part \in {"names", "blocks", "paths"}
          /\ NamespaceInit /\ FB!FileBlocksInit
          /\ file[CHOOSE o \in Opens : TRUE] = CHOOSE f \in Files : TRUE   \* the files are alike
          /\ part # "blocks" => file = [o \in Opens |-> CHOOSE f \in Files : TRUE]
          /\ IF part = "paths" THEN PN!PathsInit
             ELSE path = <<>> /\ entered = <<>> /\ junk = <<>>

\* Bound: a process closes the descriptors it got last first, and does
\* nothing else while it has more than one.
LastClosedFirst ==
  \A p \in Procs : \A fd \in 2..NOFILE :
    ofile'[p][fd] # 0 => ofile'[p][fd - 1] # 0 /\ call'[p] = Ready_

MCNext ==
  \/ part = "names" /\ NamespaceNext /\ LastClosedFirst /\ UNCHANGED <<part, blockVars, pathVars>>
  \/ part = "blocks" /\ FB!FileBlocksNext /\ UNCHANGED <<part, nsVars, pathVars>>
  \/ part = "paths" /\ UNCHANGED <<part, nsVars, blockVars, pathVars>>

MCSpec == MCInit /\ [][MCNext]_<<part, nsVars, blockVars, pathVars>>

\* Every block marked in the bitmap is in exactly one place of one file, no
\* file holds a block that is not marked, the inodes and tables on disk are
\* the ones in memory, and bfree and bmap never panic: no write that ends
\* early, for want of blocks or of its source, leaks or shares a block
\* (balloc, bfree, bmap, itrunc, iupdate in writei).
BlocksAccounted == part = "blocks" => FB!BlocksAccounted

\* No piece of a write changes more blocks than begin_op reserved for it, the
\* bitmap blocks, the table and the inode counted (the constant max in
\* filewrite).
FitsTransaction == part = "blocks" => FB!FitsTransaction

\* Files are sequences of bytes: whatever two writers, a reader and a
\* truncation do in between, across the direct and indirect blocks, at the end
\* of the disk and of the largest file, each piece of a write lands whole at
\* the offset and two writers that share an open file never write over each
\* other; and a read from any offset returns those bytes and allocates nothing
\* (writei, readi, bmap, fileread, filewrite).
IsByteFile == /\ FB!Bytes!Init /\ [][part = "blocks" => FB!Bytes!Next]_blockVars
              /\ [](part = "blocks" => FB!ReadsBack)

\* A path is looked up as the names between its slashes, each cut to DIRSIZ
\* characters, whatever an earlier name left in the buffer; and a name finds
\* an entry exactly when the two agree up to DIRSIZ (namex, skipelem, dirlink,
\* namecmp).
NamesFound == part = "paths" => PN!NamesFound

\* The processes are alike.
Symmetry == Permutations(Procs)
=============================================================================
