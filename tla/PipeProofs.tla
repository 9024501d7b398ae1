----------------------------- MODULE PipeProofs -----------------------------
(***************************************************************************)
(* Proofs about Pipe, for every number of processes, every PIPESIZE and    *)
(* every multiple of it at which nread and nwrite wrap: the pipe is freed  *)
(* unused, the end of file is final, no wakeup is lost until somebody is   *)
(* killed, and the ring buffer is a bounded queue (ByteQueue).             *)
(*                                                                         *)
(* IInv is the inductive invariant.  What the properties lack: the counts  *)
(* of the struct files against the descriptors that exist (RefInv), which  *)
(* end is open and why (OpenInv), who has pi->lock and what it has checked *)
(* under it (LockInv), and that a sleeper whose condition is gone is about *)
(* to be woken by the holder of pi->lock (SleepInv).                       *)
(***************************************************************************)
EXTENDS Pipe, Sequences, FiniteSetTheorems, TLAPS

\* The positions of a process, and those inside piperead() and pipewrite().
PC == {"none", "user", "read", "copy", "read_done", "read_sleep", "read_asleep",
       "write", "put", "write_asleep", "close_r", "close_w"}
Reading == {"read", "copy", "read_done", "read_sleep", "read_asleep"}
Writing == {"write", "put", "write_asleep"}

\* The processes with a descriptor for the end e.
Holders(e) == {p \in Procs : e \in fds[p]}

\* f->ref counts the descriptors, a process that is not there has none, and
\* one that is inside piperead() or pipewrite() keeps its own.
RefInv ==
  /\ pc \in [Procs -> PC]
  /\ \A e \in End : ref[e] = Cardinality(Holders(e))
  /\ \A p \in Procs : /\ pc[p] = "none" => fds[p] = {}
                      /\ pc[p] \in Reading => "r" \in fds[p]
                      /\ pc[p] \in Writing => "w" \in fds[p]
                      /\ pc[p] \in Reading \cup Writing => n[p] > 0
                      /\ pc[p] \in {"none", "user", "close_r", "close_w"} => i[p] = 0

\* An end is open while it has a descriptor or its last one is being closed,
\* and pipeclose() of an end is called once.
OpenInv ==
  /\ readopen <=> (Holders("r") # {} \/ \E p \in Procs : pc[p] = "close_r")
  /\ writeopen <=> (Holders("w") # {} \/ \E p \in Procs : pc[p] = "close_w")
  /\ \A p, q \in Procs : /\ pc[p] = "close_r" => "r" \notin fds[q] /\ (pc[q] = "close_r" => q = p)
                         /\ pc[p] = "close_w" => "w" \notin fds[q] /\ (pc[q] = "close_w" => q = p)
  /\ freed <=> (~ readopen /\ ~ writeopen)

\* Who holds pi->lock, and what was seen under it and is still true.
LockInv ==
  \A p \in Procs :
    /\ pc[p] \in {"put", "copy", "read_done", "read_sleep"} => lk = p
    /\ lk = p => pc[p] \in {"read", "write", "put", "copy", "read_done", "read_sleep"}
    /\ pc[p] = "put" => readopen /\ i[p] < n[p]
    /\ pc[p] = "read_sleep" => Empty /\ writeopen
    /\ pc[p] = "copy" /\ i[p] = 0 => ~ Empty \/ ~ writeopen

\* The end of file is reported only when no writer is left.
EofInv == eof => ~ writeopen

\* A sleeper's condition still holds, or the holder of pi->lock will wake it.
SleepInv ==
  (\A p \in Procs : ~ killed[p]) =>
    \A p \in Procs :
      /\ pc[p] = "read_asleep" =>
           \/ Empty /\ writeopen
           \/ \E q \in Procs : lk = q /\ pc[q] \in {"write", "put"}
      /\ pc[p] = "write_asleep" =>
           \/ Full /\ readopen
           \/ \E q \in Procs : lk = q /\ pc[q] \in {"copy", "read_done"}

\* The inductive invariant.
IInv == TypeOK /\ RefInv /\ OpenInv /\ LockInv /\ EofInv /\ SleepInv

-----------------------------------------------------------------------------
(* Arithmetic of the ring. *)

\* x % m, written out for the x that occur.
LEMMA ModRange ==
  ASSUME NEW m \in Nat \ {0}, NEW x \in Int
  PROVE  /\ x % m \in 0 .. m - 1
         /\ 0 <= x /\ x < m => x % m = x
         /\ m <= x /\ x < m + m => x % m = x - m
         /\ - m <= x /\ x < 0 => x % m = x + m
OBVIOUS

\* A remainder is unique.
LEMMA Remainder ==
  ASSUME NEW m \in Nat \ {0}, NEW a \in Int, NEW r \in 0 .. m - 1
  PROVE  (m * a + r) % m = r
OBVIOUS

\* Division with remainder.
LEMMA Quotient == \A m \in Nat \ {0}, x \in Int : x = m * (x \div m) + (x % m)
OBVIOUS

\* The same with the quotient as a witness.
LEMMA Division ==
  ASSUME NEW m \in Nat \ {0}, NEW x \in Int
  PROVE  \E a \in Int : x = m * a + (x % m)
<1>1. x \div m \in Int
  OBVIOUS
<1> QED BY Zenon, <1>1, Quotient

\* Multiplication distributes.
LEMMA Distribute ==
  ASSUME NEW m \in Int, NEW a \in Int, NEW b \in Int
  PROVE  m * (a + b) = m * a + m * b /\ m * (a - b) = m * a - m * b
         /\ m * a \in Int /\ m * b \in Int
OBVIOUS

\* Adding a multiple of m does not change the remainder.
LEMMA AddMultiple ==
  ASSUME NEW m \in Nat \ {0}, NEW M \in Nat, M % m = 0, NEW x \in Nat
  PROVE  (x + M) % m = x % m
<1> DEFINE r == x % m
<1>0. x \in Int /\ M \in Int
  OBVIOUS
<1>1. PICK a \in Int : x = m * a + r
  BY <1>0, Division, Zenon
<1>2. PICK b \in Int : M = m * b + 0
  BY <1>0, Division, Zenon
<1>3. r \in 0 .. m - 1
  OBVIOUS
<1>4. m * (a + b) = m * a + m * b /\ m * a \in Int /\ m * b \in Int
  BY Distribute
<1> HIDE DEF r
<1>5. x + M = m * (a + b) + r
  BY <1>1, <1>2, <1>3, <1>4
<1>6. (m * (a + b) + r) % m = r
  BY <1>3, Remainder
<1> QED BY <1>5, <1>6 DEF r

\* Numbers less than m apart have different remainders.
LEMMA Apart ==
  ASSUME NEW m \in Nat \ {0}, NEW x \in Nat, NEW y \in Nat, x < y, y < x + m
  PROVE  x % m # y % m
<1> SUFFICES ASSUME x % m = y % m PROVE FALSE
  OBVIOUS
<1> DEFINE r == x % m
<1>0. x \in Int /\ y \in Int
  OBVIOUS
<1>1. PICK a \in Int : x = m * a + r
  BY <1>0, Division, Zenon
<1>2. PICK b \in Int : y = m * b + r
  BY <1>0, Division, Zenon
<1>3. r \in Int
  OBVIOUS
<1>4. m * (b - a) = m * b - m * a /\ m * a \in Int /\ m * b \in Int
  BY Distribute
<1> HIDE DEF r
<1>5. y - x = m * (b - a) + 0
  BY <1>1, <1>2, <1>3, <1>4
<1>6. (y - x) % m = 0
  BY <1>5, Remainder
<1>7. y - x \in Int /\ 0 <= y - x /\ y - x < m /\ y - x # 0
  OBVIOUS
<1>8. (y - x) % m = y - x
  BY Zenon, <1>7, ModRange
<1> QED BY <1>6, <1>7, <1>8

\* The number of bytes in the pipe.
Length == (nwrite - nread) % UintMod

\* What Full, Empty and the two increments say of Length.
LEMMA Ring ==
  ASSUME nread \in 0 .. UintMod - 1, nwrite \in 0 .. UintMod - 1
  PROVE  /\ Length \in 0 .. UintMod - 1
         /\ Full <=> Length = PIPESIZE
         /\ Empty <=> Length = 0
         /\ Length < PIPESIZE => (((nwrite + 1) % UintMod) - nread) % UintMod = Length + 1
         /\ Length > 0 => (nwrite - ((nread + 1) % UintMod)) % UintMod = Length - 1
         /\ nwrite = nread + Length \/ nwrite + UintMod = nread + Length
<1>a. UintMod \in Nat \ {0} /\ PIPESIZE \in Nat \ {0} /\ PIPESIZE < UintMod
  BY PipeAssumption
<1>m. \A x \in Int :
        /\ 0 <= x /\ x < UintMod => x % UintMod = x
        /\ UintMod <= x /\ x < UintMod + UintMod => x % UintMod = x - UintMod
        /\ - UintMod <= x /\ x < 0 => x % UintMod = x + UintMod
  BY Zenon, <1>a, ModRange
<1>w. \A x \in Nat : x <= UintMod => x % UintMod = IF x < UintMod THEN x ELSE 0
  BY <1>a, <1>m
<1>d. \A x, y \in 0 .. UintMod - 1 :
        (x - y) % UintMod = IF y <= x THEN x - y ELSE x - y + UintMod
  <2> SUFFICES ASSUME NEW x \in 0 .. UintMod - 1, NEW y \in 0 .. UintMod - 1
               PROVE  (x - y) % UintMod = IF y <= x THEN x - y ELSE x - y + UintMod
    OBVIOUS
  <2>1. /\ x - y \in Int /\ - UintMod <= x - y /\ x - y < UintMod
        /\ y <= x <=> 0 <= x - y
    BY <1>a
  <2> QED BY <1>m, <2>1
<1> DEFINE w == (nwrite + 1) % UintMod
           r == (nread + 1) % UintMod
<1>1. Length = IF nread <= nwrite THEN nwrite - nread ELSE nwrite - nread + UintMod
  BY <1>d DEF Length
<1>2. (nread + PIPESIZE) % UintMod
        = IF nread + PIPESIZE < UintMod THEN nread + PIPESIZE ELSE nread + PIPESIZE - UintMod
  <2>1. nread + PIPESIZE \in Int /\ 0 <= nread + PIPESIZE /\ nread + PIPESIZE < UintMod + UintMod
    BY <1>a
  <2> QED BY <1>a, <1>m, <2>1
<1>3. w = (IF nwrite + 1 < UintMod THEN nwrite + 1 ELSE 0) /\ w \in 0 .. UintMod - 1
  BY SMTT(60), <1>a, <1>w
<1>4. r = (IF nread + 1 < UintMod THEN nread + 1 ELSE 0) /\ r \in 0 .. UintMod - 1
  BY SMTT(60), <1>a, <1>w
<1> HIDE DEF w, r
<1>5. Length < PIPESIZE => (w - nread) % UintMod = Length + 1
  <2>1. (w - nread) % UintMod = IF nread <= w THEN w - nread ELSE w - nread + UintMod
    BY <1>d, <1>3
  <2> QED BY <1>a, <1>1, <1>3, <2>1
<1>6. Length > 0 => (nwrite - r) % UintMod = Length - 1
  <2>1. (nwrite - r) % UintMod = IF r <= nwrite THEN nwrite - r ELSE nwrite - r + UintMod
    BY <1>d, <1>4
  <2> QED BY <1>a, <1>1, <1>4, <2>1
<1>7. /\ Length \in 0 .. UintMod - 1
      /\ Full <=> Length = PIPESIZE
      /\ Empty <=> Length = 0
      /\ nwrite = nread + Length \/ nwrite + UintMod = nread + Length
  BY <1>a, <1>1, <1>2 DEF Full, Empty
<1> QED BY <1>5, <1>6, <1>7 DEF w, r

-----------------------------------------------------------------------------
(* The invariant. *)

\* pipealloc() establishes the invariant.
LEMMA InitIInv == Init => IInv
<1> SUFFICES ASSUME Init PROVE IInv
  OBVIOUS
<1>a. PIPESIZE \in Nat \ {0} /\ UintMod \in Nat /\ UintMod > PIPESIZE /\ Nobody \notin Procs
  BY PipeAssumption
<1>0. PICK first \in Procs :
        /\ fds = [p \in Procs |-> IF p = first THEN End ELSE {}]
        /\ pc = [p \in Procs |-> IF p = first THEN "user" ELSE "none"]
  BY DEF Init
<1>1. TypeOK
  <2>1. (0 - 0) % UintMod = 0
    BY <1>a, ModRange
  <2>2. data \in [0 .. PIPESIZE - 1 -> Byte]
    BY DEF Init
  <2>3. fds \in [Procs -> SUBSET End] /\ ref \in [End -> Nat]
    BY <1>0 DEF Init, End
  <2>4. /\ nread \in 0 .. UintMod - 1 /\ nwrite \in 0 .. UintMod - 1
        /\ (nwrite - nread) % UintMod <= PIPESIZE
    BY <1>a, <2>1 DEF Init
  <2>5. /\ readopen \in BOOLEAN /\ writeopen \in BOOLEAN /\ freed \in BOOLEAN
        /\ lk \in Procs \cup {Nobody} /\ killed \in [Procs -> BOOLEAN]
        /\ ch \in Byte /\ eof \in BOOLEAN
    BY Zenon DEF Init
  <2>7. i \in [Procs -> Nat] /\ n \in [Procs -> Nat] /\ \A p \in Procs : i[p] <= n[p]
    BY DEF Init
  <2>6. \A p \in Procs : pc[p] \in {"none", "user"}
    BY <1>0
  <2> QED BY <2>2, <2>3, <2>4, <2>5, <2>6, <2>7 DEF TypeOK
<1>2. \A e \in End : Holders(e) = {first}
  BY <1>0 DEF Holders
<1>3. RefInv
  <2>1. \A e \in End : ref[e] = Cardinality(Holders(e))
    BY Zenon, <1>2, FS_Singleton DEF Init
  <2>2. \A p \in Procs : i[p] = 0
    BY DEF Init
  <2> QED BY <1>0, <2>1, <2>2 DEF RefInv, PC, Reading, Writing
<1>4. OpenInv
  BY <1>0, <1>2 DEF Init, OpenInv, End
<1>5. LockInv /\ EofInv /\ SleepInv
  BY <1>a, <1>0 DEF Init, LockInv, EofInv, SleepInv
<1> QED BY <1>1, <1>3, <1>4, <1>5 DEF IInv

\* A count of one means that the process has the only descriptor.
LEMMA Counted ==
  ASSUME IInv, NEW e \in End
  PROVE  /\ IsFiniteSet(Holders(e)) /\ ref[e] \in Nat /\ ref[e] = Cardinality(Holders(e))
         /\ \A p \in Procs : e \in fds[p] => ref[e] >= 1 /\ (ref[e] = 1 => Holders(e) = {p})
<1>1. IsFiniteSet(Holders(e))
  BY PipeAssumption, FS_Subset DEF Holders
<1>2. ref[e] = Cardinality(Holders(e)) /\ ref[e] \in Nat
  BY DEF IInv, TypeOK, RefInv
<1>3. ASSUME NEW p \in Procs, e \in fds[p]
      PROVE  ref[e] >= 1 /\ (ref[e] = 1 => Holders(e) = {p})
  <2>1. p \in Holders(e)
    BY <1>3 DEF Holders
  <2>2. Cardinality(Holders(e)) # 0
    BY <1>1, <2>1, FS_EmptySet
  <2>3. ASSUME Cardinality(Holders(e)) = 1 PROVE Holders(e) = {p}
    BY <1>1, <2>1, <2>3, FS_Singleton
  <2> QED BY <1>2, <2>2, <2>3
<1> QED BY <1>1, <1>2, <1>3

\* Every step keeps the types; the counters stay within one buffer of each
\* other although they wrap.
LEMMA TypeStep == IInv /\ [Next]_vars => TypeOK' /\ pc' \in [Procs -> PC]
<1> SUFFICES ASSUME IInv, [Next]_vars
             PROVE  TypeOK' /\ pc' \in [Procs -> PC]
  OBVIOUS
<1>a. /\ PIPESIZE \in Nat \ {0} /\ UintMod \in Nat \ {0} /\ UintMod > PIPESIZE
      /\ Sizes \subseteq Nat \ {0} /\ Nobody \notin Procs
  BY PipeAssumption
<1>b. /\ fds \in [Procs -> SUBSET End]
      /\ ref \in [End -> Nat]
      /\ data \in [0 .. PIPESIZE - 1 -> Byte]
  BY DEF IInv, TypeOK
<1>c. /\ nread \in 0 .. UintMod - 1 /\ nwrite \in 0 .. UintMod - 1
      /\ (nwrite - nread) % UintMod <= PIPESIZE
  BY DEF IInv, TypeOK
<1>d. /\ readopen \in BOOLEAN /\ writeopen \in BOOLEAN /\ freed \in BOOLEAN
      /\ lk \in Procs \cup {Nobody} /\ killed \in [Procs -> BOOLEAN]
      /\ ch \in Byte /\ eof \in BOOLEAN
      /\ i \in [Procs -> Nat] /\ n \in [Procs -> Nat] /\ \A p \in Procs : i[p] <= n[p]
  BY DEF IInv, TypeOK
<1>e. pc \in [Procs -> PC]
  BY DEF IInv, RefInv
\* Go() and Wakeup() keep the positions inside PC.
<1>g. ASSUME NEW p \in Procs, NEW l \in PC, Go(p, l)
      PROVE  pc' \in [Procs -> PC]
  BY <1>e, <1>g DEF Go
<1>w. ASSUME NEW p \in Procs, NEW l \in {"read_asleep", "write_asleep"}, NEW m \in PC,
             Wakeup(l, p, m)
      PROVE  pc' \in [Procs -> PC]
  BY <1>e, <1>w DEF Wakeup, PC
\* A step that leaves the buffer and the counters alone.
<1>k. ASSUME pc' \in [Procs -> PC], UNCHANGED <<data, nread, nwrite>>,
             fds' \in [Procs -> SUBSET End], ref' \in [End -> Nat],
             readopen' \in BOOLEAN, writeopen' \in BOOLEAN, freed' \in BOOLEAN,
             lk' \in Procs \cup {Nobody}, killed' \in [Procs -> BOOLEAN],
             ch' \in Byte, eof' \in BOOLEAN,
             i' \in [Procs -> Nat], n' \in [Procs -> Nat], \A p \in Procs : i'[p] <= n'[p]
      PROVE  TypeOK'
  <2>1. \A p \in Procs : pc'[p] \in PC
    BY <1>k
  <2>2. \A p \in Procs : pc'[p] \in {"none", "user"} \/ InPipe(p)'
    BY <2>1 DEF PC, InPipe
  <2>3. /\ data' \in [0 .. PIPESIZE - 1 -> Byte]
        /\ nread' \in 0 .. UintMod - 1 /\ nwrite' \in 0 .. UintMod - 1
        /\ (nwrite' - nread') % UintMod <= PIPESIZE
    BY <1>b, <1>c, <1>k
  <2> QED BY <1>k, <2>2, <2>3 DEF TypeOK
<1>f. ASSUME NEW p \in Procs, Forget(p)
      PROVE  i' \in [Procs -> Nat] /\ n' \in [Procs -> Nat] /\ \A q \in Procs : i'[q] <= n'[q]
  BY <1>d, <1>f DEF Forget
<1>1. ASSUME NEW p \in Procs, NEW q \in Procs, fork(p, q)
      PROVE  TypeOK' /\ pc' \in [Procs -> PC]
  <2>1. fds' \in [Procs -> SUBSET End] /\ ref' \in [End -> Nat]
    BY <1>1, <1>b DEF fork
  <2>2. pc' \in [Procs -> PC]
    BY <1>1, <1>g DEF fork, PC
  <2> QED BY <1>1, <1>d, <1>k, <2>1, <2>2 DEF fork, pipeVars
<1>2. ASSUME NEW p \in Procs, NEW e \in End, fileclose(p, e)
      PROVE  TypeOK' /\ pc' \in [Procs -> PC]
  <2>1. fds' \in [Procs -> SUBSET End]
    BY <1>2, <1>b DEF fileclose
  <2>3. ref' \in [End -> Nat]
    <3>1. ref[e] >= 1
      BY <1>2, Counted DEF fileclose
    <3> QED BY <1>2, <1>b, <3>1 DEF fileclose
  <2>2. pc' \in [Procs -> PC]
    BY <1>2, <1>e, <1>g DEF fileclose, PC
  <2> QED BY <1>2, <1>d, <1>k, <2>1, <2>2, <2>3 DEF fileclose, pipeVars
<1>3. ASSUME NEW p \in Procs, exit(p)
      PROVE  TypeOK' /\ pc' \in [Procs -> PC]
  <2>1. pc' \in [Procs -> PC]
    BY <1>3, <1>g DEF exit, PC
  <2> QED BY <1>3, <1>b, <1>d, <1>k, <2>1 DEF exit, pipeVars
<1>4. ASSUME NEW p \in Procs, kill(p)
      PROVE  TypeOK' /\ pc' \in [Procs -> PC]
  <2>1. PICK l \in PC : Go(p, l)
    <3>1. (CASE pc[p] = "read_asleep" -> "read" [] pc[p] = "write_asleep" -> "write"
             [] OTHER -> pc[p]) \in PC
      BY <1>e DEF PC
    <3> QED BY <1>4, <3>1 DEF kill
  <2>2. pc' \in [Procs -> PC]
    BY <1>g, <2>1
  <2> QED BY <1>4, <1>b, <1>d, <1>k, <2>2 DEF kill, pipeVars
<1>5. ASSUME NEW p \in Procs, pipeclose(p)
      PROVE  TypeOK' /\ pc' \in [Procs -> PC]
  <2>1. pc' \in [Procs -> PC]
    BY <1>5, <1>w DEF pipeclose, PC
  <2>2. readopen' \in BOOLEAN /\ writeopen' \in BOOLEAN /\ freed' \in BOOLEAN
    BY Zenon, <1>5, <1>d DEF pipeclose
  <2> QED BY <1>5, <1>b, <1>d, <1>k, <2>1, <2>2 DEF pipeclose
<1>6. ASSUME NEW p \in Procs, NEW e \in End, NEW k \in Sizes, call(p, e, k)
      PROVE  TypeOK' /\ pc' \in [Procs -> PC]
  <2>1. pc' \in [Procs -> PC]
    BY <1>6, <1>g DEF call, PC
  <2>2. n' \in [Procs -> Nat] /\ i' = i /\ \A q \in Procs : i[q] <= n'[q]
    <3>1. i[p] = 0
      BY <1>6 DEF call, IInv, RefInv
    <3> QED BY <1>6, <1>a, <1>d, <3>1 DEF call
  <2> QED BY <1>6, <1>b, <1>d, <1>k, <2>1, <2>2 DEF call, pipeVars
<1>7. ASSUME NEW p \in Procs, acquire(p)
      PROVE  TypeOK' /\ pc' \in [Procs -> PC]
  <2>1. pc' \in [Procs -> PC]
    BY <1>7, <1>e DEF acquire, PC
  <2> QED BY <1>7, <1>b, <1>d, <1>k, <2>1 DEF acquire, pipeVars
<1>8. ASSUME NEW p \in Procs, write_check(p)
      PROVE  TypeOK' /\ pc' \in [Procs -> PC]
  <2>1. pc' \in [Procs -> PC]
    BY <1>8, <1>e, <1>g DEF write_check, PC
  <2>2. /\ i' \in [Procs -> Nat] /\ n' \in [Procs -> Nat] /\ \A q \in Procs : i'[q] <= n'[q]
        /\ lk' \in Procs \cup {Nobody}
    BY <1>8, <1>d, <1>f DEF write_check
  <2> QED BY <1>8, <1>b, <1>d, <1>k, <2>1, <2>2 DEF write_check, pipeVars
<1>9. ASSUME NEW p \in Procs, write_sleep(p)
      PROVE  TypeOK' /\ pc' \in [Procs -> PC]
  <2>1. pc' \in [Procs -> PC]
    BY <1>9, <1>w DEF write_sleep, PC
  <2>2. /\ i' \in [Procs -> Nat] /\ n' \in [Procs -> Nat] /\ \A q \in Procs : i'[q] <= n'[q]
        /\ lk' \in Procs \cup {Nobody}
    BY <1>9, <1>d, <1>f DEF write_sleep
  <2> QED BY <1>9, <1>b, <1>d, <1>k, <2>1, <2>2 DEF write_sleep, pipeVars
<1>10. ASSUME NEW p \in Procs, write_done(p)
      PROVE  TypeOK' /\ pc' \in [Procs -> PC]
  <2>1. pc' \in [Procs -> PC]
    BY <1>10, <1>w DEF write_done, PC
  <2>2. /\ i' \in [Procs -> Nat] /\ n' \in [Procs -> Nat] /\ \A q \in Procs : i'[q] <= n'[q]
        /\ lk' \in Procs \cup {Nobody}
    BY <1>10, <1>d, <1>f DEF write_done
  <2> QED BY <1>10, <1>b, <1>d, <1>k, <2>1, <2>2 DEF write_done, pipeVars
<1>11. ASSUME NEW p \in Procs, read_check(p)
      PROVE  TypeOK' /\ pc' \in [Procs -> PC]
  <2>1. pc' \in [Procs -> PC]
    BY <1>11, <1>e, <1>g DEF read_check, PC
  <2>2. /\ i' \in [Procs -> Nat] /\ n' \in [Procs -> Nat] /\ \A q \in Procs : i'[q] <= n'[q]
        /\ lk' \in Procs \cup {Nobody}
    BY <1>11, <1>d, <1>f DEF read_check
  <2> QED BY <1>11, <1>b, <1>d, <1>k, <2>1, <2>2 DEF read_check, pipeVars
<1>12. ASSUME NEW p \in Procs, read_sleep(p)
      PROVE  TypeOK' /\ pc' \in [Procs -> PC]
  <2>1. pc' \in [Procs -> PC]
    BY <1>12, <1>g DEF read_sleep, PC
  <2>2. /\ i' \in [Procs -> Nat] /\ n' \in [Procs -> Nat] /\ \A q \in Procs : i'[q] <= n'[q]
        /\ lk' \in Procs \cup {Nobody}
    BY <1>12, <1>d, <1>f DEF read_sleep
  <2> QED BY <1>12, <1>b, <1>d, <1>k, <2>1, <2>2 DEF read_sleep, pipeVars
<1>13. ASSUME NEW p \in Procs, read_done(p)
      PROVE  TypeOK' /\ pc' \in [Procs -> PC]
  <2>1. pc' \in [Procs -> PC]
    BY <1>13, <1>w DEF read_done, PC
  <2>2. /\ i' \in [Procs -> Nat] /\ n' \in [Procs -> Nat] /\ \A q \in Procs : i'[q] <= n'[q]
        /\ lk' \in Procs \cup {Nobody}
    BY <1>13, <1>d, <1>f DEF read_done
  <2> QED BY <1>13, <1>b, <1>d, <1>k, <2>1, <2>2 DEF read_done, pipeVars
<1>14. ASSUME NEW p \in Procs, NEW v \in Byte, write_byte(p, v)
      PROVE  TypeOK' /\ pc' \in [Procs -> PC]
  <2>1. pc' \in [Procs -> PC]
    BY <1>14, <1>g DEF write_byte, PC
  <2>2. \A q \in Procs : pc'[q] \in {"none", "user"} \/ InPipe(q)'
    BY <2>1 DEF PC, InPipe
  <2>3. /\ nwrite' \in 0 .. UintMod - 1 /\ nread' = nread
        /\ (nwrite' - nread') % UintMod <= PIPESIZE
    <3>1. Length \in Nat /\ Length < PIPESIZE
      BY <1>14, <1>a, <1>c, Ring DEF write_byte, Length
    <3>2. (((nwrite + 1) % UintMod) - nread) % UintMod = Length + 1
      BY <1>c, <3>1, Ring, Zenon
    <3>3. nwrite' = (nwrite + 1) % UintMod /\ nread' = nread
      BY <1>14 DEF write_byte
    <3>4. (nwrite + 1) % UintMod \in 0 .. UintMod - 1
      BY <1>a, <1>c, ModRange
    <3> QED BY <1>a, <1>c, <3>1, <3>2, <3>3, <3>4
  <2>4. data' \in [0 .. PIPESIZE - 1 -> Byte]
    BY Zenon, <1>14, <1>b DEF write_byte
  <2>5. i' \in [Procs -> Nat] /\ n' = n /\ \A q \in Procs : i'[q] <= n[q]
    <3>1. i[p] < n[p]
      BY <1>14 DEF write_byte, IInv, LockInv
    <3> QED BY <1>14, <1>d, <3>1 DEF write_byte
  <2>6. UNCHANGED <<fds, ref, readopen, writeopen, freed, lk, killed, ch, eof>>
    BY <1>14 DEF write_byte
  <2> QED BY SMTT(60), <1>b, <1>c, <1>d, <2>1, <2>2, <2>3, <2>4, <2>5, <2>6 DEF TypeOK
<1>15. ASSUME NEW p \in Procs, NEW fails \in BOOLEAN, read_byte(p, fails)
      PROVE  TypeOK' /\ pc' \in [Procs -> PC]
  <2>1. pc' \in [Procs -> PC]
    BY <1>15, <1>g DEF read_byte, PC
  <2>2. \A q \in Procs : pc'[q] \in {"none", "user"} \/ InPipe(q)'
    BY <2>1 DEF PC, InPipe
  <2>3. /\ nread' \in 0 .. UintMod - 1 /\ nwrite' = nwrite
        /\ (nwrite' - nread') % UintMod <= PIPESIZE
    <3>1. Length \in Nat /\ Length > 0 /\ Length <= PIPESIZE
      BY <1>15, <1>a, <1>c, Ring DEF read_byte, Length
    <3>2. (nwrite - ((nread + 1) % UintMod)) % UintMod = Length - 1
      BY <1>c, <3>1, Ring, Zenon
    <3>3. nread' = (nread + 1) % UintMod /\ nwrite' = nwrite
      BY <1>15 DEF read_byte
    <3>4. (nread + 1) % UintMod \in 0 .. UintMod - 1
      BY <1>a, <1>c, ModRange
    <3> QED BY <1>a, <1>c, <3>1, <3>2, <3>3, <3>4
  <2>4. ch' \in Byte
    <3>1. nread % PIPESIZE \in 0 .. PIPESIZE - 1
      BY <1>a, <1>c, ModRange
    <3> QED BY <1>15, <1>b, <3>1 DEF read_byte
  <2>5. i' \in [Procs -> Nat] /\ n' = n /\ \A q \in Procs : i'[q] <= n[q]
    BY <1>15, <1>d DEF read_byte
  <2>6. UNCHANGED <<fds, ref, data, readopen, writeopen, freed, lk, killed, eof>>
    BY <1>15 DEF read_byte
  <2> QED BY SMTT(60), <1>b, <1>c, <1>d, <2>1, <2>2, <2>3, <2>4, <2>5, <2>6 DEF TypeOK
<1>16. CASE UNCHANGED vars
  BY <1>16, <1>b, <1>c, <1>d, <1>e, <1>k DEF vars, pipeVars
<1> QED
  BY <1>1, <1>2, <1>3, <1>4, <1>5, <1>6, <1>7, <1>8, <1>9, <1>10, <1>11, <1>12, <1>13, <1>14,
     <1>15, <1>16 DEF Next, Step

\* f->ref keeps counting the descriptors through fork() and fileclose().
LEMMA RefStep == IInv /\ [Next]_vars => RefInv'
<1> SUFFICES ASSUME IInv, [Next]_vars
             PROVE  RefInv'
  OBVIOUS
<1>a. Sizes \subseteq Nat \ {0}
  BY PipeAssumption
<1>b. fds \in [Procs -> SUBSET End] /\ ref \in [End -> Nat]
  BY DEF IInv, TypeOK
<1>c. i \in [Procs -> Nat] /\ n \in [Procs -> Nat] /\ pc \in [Procs -> PC]
  BY DEF IInv, TypeOK, RefInv
<1>p. pc' \in [Procs -> PC]
  BY TypeStep
<1>r. \A p \in Procs : /\ pc[p] = "none" => fds[p] = {}
                       /\ pc[p] \in Reading => "r" \in fds[p]
                       /\ pc[p] \in Writing => "w" \in fds[p]
                       /\ pc[p] \in Reading \cup Writing => n[p] > 0
                       /\ pc[p] \in {"none", "user", "close_r", "close_w"} => i[p] = 0
  BY DEF IInv, RefInv
\* A step that moves no descriptor.
<1>k. ASSUME UNCHANGED <<fds, ref>>,
             \A q \in Procs : /\ pc'[q] = "none" => fds[q] = {}
                              /\ pc'[q] \in Reading => "r" \in fds[q]
                              /\ pc'[q] \in Writing => "w" \in fds[q]
                              /\ pc'[q] \in Reading \cup Writing => n'[q] > 0
                              /\ pc'[q] \in {"none", "user", "close_r", "close_w"} => i'[q] = 0
      PROVE  RefInv'
  <2>1. \A e \in End : ref'[e] = Cardinality(Holders(e)')
    <3>1. \A e \in End : Holders(e)' = Holders(e)
      BY <1>k DEF Holders
    <3> QED BY <1>k, <3>1 DEF IInv, RefInv
  <2> QED BY <1>k, <1>p, <2>1 DEF RefInv
\* pc of the others after Go() and after wakeup().
<1>g. ASSUME NEW p \in Procs, NEW l, Go(p, l)
      PROVE  \A q \in Procs : pc'[q] = IF q = p THEN l ELSE pc[q]
  BY <1>c, <1>g DEF Go
<1>w. ASSUME NEW p \in Procs, NEW l \in {"read_asleep", "write_asleep"}, NEW m, Wakeup(l, p, m)
      PROVE  \A q \in Procs : pc'[q] = IF q = p THEN m ELSE IF pc[q] = l
                                THEN (IF l = "read_asleep" THEN "read" ELSE "write") ELSE pc[q]
  BY <1>w DEF Wakeup
<1>f. ASSUME NEW p \in Procs, Forget(p)
      PROVE  \A q \in Procs : /\ i'[q] = (IF q = p THEN 0 ELSE i[q])
                              /\ n'[q] = (IF q = p THEN 0 ELSE n[q])
  BY <1>c, <1>f DEF Forget
<1>1. ASSUME NEW p \in Procs, NEW q \in Procs, fork(p, q)
      PROVE  RefInv'
  <2>1. ASSUME NEW e \in End
        PROVE  ref'[e] = Cardinality(Holders(e)')
    <3>1. q \notin Holders(e) /\ IsFiniteSet(Holders(e)) /\ ref[e] = Cardinality(Holders(e))
      BY <1>1, <1>r, Counted DEF fork, Holders
    <3>2. CASE e \in fds[p]
      <4>1. Holders(e)' = Holders(e) \cup {q}
        BY <1>1, <1>b, <3>2 DEF fork, Holders
      <4>2. Cardinality(Holders(e) \cup {q}) = Cardinality(Holders(e)) + 1
        BY Zenon, <3>1, FS_AddElement
      <4>3. ref'[e] = ref[e] + 1
        BY <1>1, <3>2 DEF fork
      <4> QED BY <3>1, <4>1, <4>2, <4>3
    <3>3. CASE e \notin fds[p]
      <4>1. Holders(e)' = Holders(e)
        BY <1>1, <1>b, <3>1, <3>3 DEF fork, Holders
      <4>2. ref'[e] = ref[e]
        BY <1>1, <3>3 DEF fork
      <4> QED BY <3>1, <4>1, <4>2
    <3> QED BY <3>2, <3>3
  <2>2. \A x \in Procs : /\ fds'[x] = IF x = q THEN fds[p] ELSE fds[x]
                         /\ pc'[x] = IF x = q THEN "user" ELSE pc[x]
                         /\ i'[x] = i[x] /\ n'[x] = n[x]
    BY <1>1, <1>b, <1>c DEF fork, Go
  <2>3. pc[q] = "none"
    BY <1>1 DEF fork
  <2> QED BY <1>p, <1>r, <2>1, <2>2, <2>3 DEF RefInv, Reading, Writing
<1>2. ASSUME NEW p \in Procs, NEW e \in End, fileclose(p, e)
      PROVE  RefInv'
  <2>1. ASSUME NEW d \in End
        PROVE  ref'[d] = Cardinality(Holders(d)')
    <3>1. IsFiniteSet(Holders(d)) /\ ref[d] = Cardinality(Holders(d))
      BY Counted
    <3>2. CASE d = e
      <4>1. Holders(e)' = Holders(e) \ {p} /\ p \in Holders(e)
        BY <1>2, <1>b DEF fileclose, Holders
      <4>2. Cardinality(Holders(e) \ {p}) = Cardinality(Holders(e)) - 1
        BY Zenon, <3>1, <3>2, <4>1, FS_RemoveElement
      <4>3. ref'[e] = ref[e] - 1
        BY <1>2, <1>b DEF fileclose
      <4> QED BY <3>1, <3>2, <4>1, <4>2, <4>3
    <3>3. CASE d # e
      <4>1. Holders(d)' = Holders(d)
        BY <1>2, <1>b, <3>3 DEF fileclose, Holders
      <4>2. ref'[d] = ref[d]
        BY <1>2, <1>b, <3>3 DEF fileclose
      <4> QED BY <3>1, <4>1, <4>2
    <3> QED BY <3>2, <3>3
  <2>2. \A x \in Procs : /\ fds'[x] = IF x = p THEN fds[x] \ {e} ELSE fds[x]
                         /\ pc'[x] = pc[x] \/ (x = p /\ pc'[x] \in {"close_w", "close_r"})
                         /\ i'[x] = i[x] /\ n'[x] = n[x]
    BY Zenon, <1>2, <1>b, <1>c DEF fileclose, Go
  <2>3. pc[p] = "user"
    BY <1>2 DEF fileclose
  <2> QED BY ZenonT(60), <1>p, <1>r, <2>1, <2>2, <2>3 DEF RefInv, Reading, Writing
<1>3. ASSUME NEW p \in Procs, exit(p)
      PROVE  RefInv'
  BY <1>3, <1>g, <1>k, <1>r DEF exit, Reading, Writing
<1>4. ASSUME NEW p \in Procs, kill(p)
      PROVE  RefInv'
  <2>1. \A q \in Procs : \/ pc'[q] = pc[q]
                         \/ pc[q] = "read_asleep" /\ pc'[q] = "read"
                         \/ pc[q] = "write_asleep" /\ pc'[q] = "write"
    BY <1>4, <1>c DEF kill, Go
  <2> QED BY <1>4, <1>k, <1>r, <2>1 DEF kill, Reading, Writing
<1>5. ASSUME NEW p \in Procs, pipeclose(p)
      PROVE  RefInv'
  BY <1>5, <1>w, <1>k, <1>r DEF pipeclose, Reading, Writing
<1>6. ASSUME NEW p \in Procs, NEW e \in End, NEW k \in Sizes, call(p, e, k)
      PROVE  RefInv'
  <2>1. \A q \in Procs : n'[q] = (IF q = p THEN k ELSE n[q]) /\ i'[q] = i[q]
    BY <1>6, <1>c DEF call
  <2>2. \A q \in Procs : pc'[q] = IF q = p THEN (IF e = "w" THEN "write" ELSE "read") ELSE pc[q]
    BY <1>6, <1>g DEF call
  <2>3. e \in fds[p] /\ (e = "r" \/ e = "w") /\ k \in Nat /\ k > 0
    BY <1>6, <1>a DEF call, End
  <2> QED BY <1>6, <1>k, <1>r, <2>1, <2>2, <2>3 DEF call, Reading, Writing
<1>7. ASSUME NEW p \in Procs, acquire(p)
      PROVE  RefInv'
  BY <1>7, <1>k, <1>r DEF acquire
<1>8. ASSUME NEW p \in Procs, write_check(p)
      PROVE  RefInv'
  BY <1>8, <1>g, <1>f, <1>k, <1>r DEF write_check, Reading, Writing
<1>9. ASSUME NEW p \in Procs, write_sleep(p)
      PROVE  RefInv'
  BY <1>9, <1>w, <1>k, <1>r DEF write_sleep, Reading, Writing
<1>10. ASSUME NEW p \in Procs, write_done(p)
      PROVE  RefInv'
  BY <1>10, <1>w, <1>f, <1>k, <1>r DEF write_done, Reading, Writing
<1>11. ASSUME NEW p \in Procs, read_check(p)
      PROVE  RefInv'
  BY <1>11, <1>g, <1>f, <1>k, <1>r DEF read_check, Reading, Writing
<1>12. ASSUME NEW p \in Procs, read_sleep(p)
      PROVE  RefInv'
  BY <1>12, <1>g, <1>k, <1>r DEF read_sleep, Reading, Writing
<1>13. ASSUME NEW p \in Procs, read_done(p)
      PROVE  RefInv'
  BY <1>13, <1>w, <1>f, <1>k, <1>r DEF read_done, Reading, Writing
<1>14. ASSUME NEW p \in Procs, NEW v \in Byte, write_byte(p, v)
      PROVE  RefInv'
  <2>1. \A q \in Procs : i'[q] = (IF q = p THEN i[q] + 1 ELSE i[q]) /\ n'[q] = n[q]
    BY <1>14, <1>c DEF write_byte
  <2> QED BY <1>14, <1>g, <1>k, <1>r, <2>1 DEF write_byte, Reading, Writing
<1>15. ASSUME NEW p \in Procs, NEW fails \in BOOLEAN, read_byte(p, fails)
      PROVE  RefInv'
  <2>1. \A q \in Procs : (q # p => i'[q] = i[q]) /\ n'[q] = n[q]
    BY <1>15, <1>c DEF read_byte
  <2> QED BY <1>15, <1>g, <1>k, <1>r, <2>1 DEF read_byte, Reading, Writing
<1>16. CASE UNCHANGED vars
  BY <1>16, <1>k, <1>r DEF vars
<1> QED
  BY <1>1, <1>2, <1>3, <1>4, <1>5, <1>6, <1>7, <1>8, <1>9, <1>10, <1>11, <1>12, <1>13, <1>14,
     <1>15, <1>16 DEF Next, Step

\* The steps that neither move a descriptor nor close an end.
Inside(p) ==
  \/ exit(p) \/ acquire(p) \/ write_check(p) \/ write_sleep(p) \/ write_done(p)
  \/ read_check(p) \/ read_sleep(p) \/ read_done(p)
  \/ \E v \in Byte : write_byte(p, v)
  \/ \E fails \in BOOLEAN : read_byte(p, fails)
  \/ \E e \in End, k \in Sizes : call(p, e, k)

\* They kill nobody, and neither enter nor leave pipeclose().
LEMMA InsideKeeps ==
  ASSUME pc \in [Procs -> PC], NEW p \in Procs, Inside(p)
  PROVE  /\ UNCHANGED <<fds, ref, readopen, writeopen, freed, killed>>
         /\ \A q \in Procs : (pc'[q] = "close_r" <=> pc[q] = "close_r")
         /\ \A q \in Procs : (pc'[q] = "close_w" <=> pc[q] = "close_w")
<1> DEFINE Kept == /\ UNCHANGED <<fds, ref, readopen, writeopen, freed, killed>>
                   /\ \A q \in Procs : (pc'[q] = "close_r" <=> pc[q] = "close_r")
                   /\ \A q \in Procs : (pc'[q] = "close_w" <=> pc[q] = "close_w")
<1>1. exit(p) => Kept
  BY DEF exit, Go, pipeVars
<1>2. acquire(p) => Kept
  BY DEF acquire, pipeVars
<1>3. write_check(p) => Kept
  BY DEF write_check, Go, pipeVars
<1>4. write_sleep(p) => Kept
  BY DEF write_sleep, Wakeup, pipeVars
<1>5. write_done(p) => Kept
  BY DEF write_done, Wakeup, pipeVars
<1>6. read_check(p) => Kept
  BY DEF read_check, Go, pipeVars
<1>7. read_sleep(p) => Kept
  BY DEF read_sleep, Go, pipeVars
<1>8. read_done(p) => Kept
  BY DEF read_done, Wakeup, pipeVars
<1>9. ASSUME NEW v \in Byte PROVE write_byte(p, v) => Kept
  BY DEF write_byte, Go
<1>10. ASSUME NEW fails \in BOOLEAN PROVE read_byte(p, fails) => Kept
  BY DEF read_byte, Go
<1>11. ASSUME NEW e \in End, NEW k \in Sizes PROVE call(p, e, k) => Kept
  BY DEF call, Go, pipeVars
<1> HIDE DEF Kept
<1> SUFFICES Kept
  BY DEF Kept
<1> QED BY <1>1, <1>2, <1>3, <1>4, <1>5, <1>6, <1>7, <1>8, <1>9, <1>10, <1>11 DEF Inside

\* An end stays open until pipeclose() by the process that closed its last
\* descriptor.
LEMMA OpenStep == IInv /\ [Next]_vars => OpenInv'
<1> SUFFICES ASSUME IInv, [Next]_vars
             PROVE  OpenInv'
  OBVIOUS
<1>b. fds \in [Procs -> SUBSET End]
  BY DEF IInv, TypeOK
<1>c. pc \in [Procs -> PC] /\ \A p \in Procs : pc[p] = "none" => fds[p] = {}
  BY DEF IInv, RefInv
<1>o. /\ readopen <=> (\E p \in Procs : "r" \in fds[p] \/ pc[p] = "close_r")
      /\ writeopen <=> (\E p \in Procs : "w" \in fds[p] \/ pc[p] = "close_w")
  BY DEF IInv, OpenInv, Holders
<1>u. \A p, q \in Procs : /\ pc[p] = "close_r" => "r" \notin fds[q] /\ (pc[q] = "close_r" => q = p)
                          /\ pc[p] = "close_w" => "w" \notin fds[q] /\ (pc[q] = "close_w" => q = p)
  BY DEF IInv, OpenInv
<1>v. freed <=> (~ readopen /\ ~ writeopen)
  BY DEF IInv, OpenInv
\* What is to be shown, without the set of holders.
<1> DEFINE Reads == readopen' <=> (\E p \in Procs : "r" \in fds'[p] \/ pc'[p] = "close_r")
           Writes == writeopen' <=> (\E p \in Procs : "w" \in fds'[p] \/ pc'[p] = "close_w")
           OnceR == \A p, q \in Procs : pc'[p] = "close_r" =>
                       "r" \notin fds'[q] /\ (pc'[q] = "close_r" => q = p)
           OnceW == \A p, q \in Procs : pc'[p] = "close_w" =>
                       "w" \notin fds'[q] /\ (pc'[q] = "close_w" => q = p)
           Freed == freed' <=> (~ readopen' /\ ~ writeopen')
<1>i. Reads /\ Writes /\ OnceR /\ OnceW /\ Freed => OpenInv'
  BY DEF OpenInv, Holders
<1> DEFINE Quiet == /\ UNCHANGED <<fds, readopen, writeopen, freed>>
                    /\ \A q \in Procs : (pc'[q] = "close_r" <=> pc[q] = "close_r")
                    /\ \A q \in Procs : (pc'[q] = "close_w" <=> pc[q] = "close_w")
<1>k. ASSUME Quiet
      PROVE  OpenInv'
  <2>1. Reads /\ Writes
    BY <1>k, <1>o
  <2>2. OnceR /\ OnceW
    BY <1>k, <1>u
  <2>3. Freed
    BY <1>k, <1>v
  <2> QED BY <1>i, <2>1, <2>2, <2>3
<1>1. ASSUME NEW p \in Procs, NEW q \in Procs, fork(p, q)
      PROVE  OpenInv'
  <2>1. \A x \in Procs : /\ fds'[x] = IF x = q THEN fds[p] ELSE fds[x]
                         /\ pc'[x] = IF x = q THEN "user" ELSE pc[x]
    BY <1>1, <1>b, <1>c DEF fork, Go
  <2>2. pc[q] = "none" /\ fds[q] = {}
    BY <1>1, <1>c DEF fork
  <2>3. UNCHANGED <<readopen, writeopen, freed>>
    BY <1>1 DEF fork, pipeVars
  <2>4. Reads /\ Writes
    BY <1>o, <2>1, <2>2, <2>3
  <2>5. OnceR /\ OnceW
    BY <1>u, <2>1
  <2> QED BY <1>i, <1>v, <2>3, <2>4, <2>5
<1>2. ASSUME NEW p \in Procs, NEW e \in End, fileclose(p, e)
      PROVE  OpenInv'
  <2>1. \A x \in Procs : fds'[x] = IF x = p THEN fds[x] \ {e} ELSE fds[x]
    BY Zenon, <1>2, <1>b DEF fileclose
  <2>2. pc[p] = "user" /\ e \in fds[p] /\ (e = "r" \/ e = "w")
    BY <1>2 DEF fileclose, End
  <2>3. UNCHANGED <<readopen, writeopen, freed>> /\ Freed
    BY <1>2, <1>v DEF fileclose, pipeVars
  <2>4. CASE ref[e] = 1
    <3>1. \A q \in Procs : e \in fds[q] => q = p
      BY Zenon, <2>2, <2>4, Counted DEF Holders
    <3>2. \A x \in Procs : pc'[x] = IF x = p THEN (IF e = "w" THEN "close_w" ELSE "close_r")
                                          ELSE pc[x]
      BY <1>2, <1>c, <2>4 DEF fileclose, Go
    <3>3. CASE e = "w"
      <4>1. \A x \in Procs : "w" \notin fds'[x] /\ ("r" \in fds'[x] <=> "r" \in fds[x])
        BY Zenon, <2>1, <3>1, <3>3
      <4>2. /\ pc'[p] = "close_w" /\ pc[p] = "user" /\ writeopen
            /\ \A x \in Procs \ {p} : pc'[x] = pc[x] /\ pc[x] # "close_w"
        BY <1>o, <1>u, <2>2, <3>2, <3>3
      <4>3. Reads /\ OnceR
        BY <1>o, <1>u, <2>3, <4>1, <4>2
      <4>4. Writes /\ OnceW
        BY <2>3, <4>1, <4>2
      <4> QED BY <1>i, <2>3, <4>3, <4>4
    <3>4. CASE e = "r"
      <4>1. \A x \in Procs : "r" \notin fds'[x] /\ ("w" \in fds'[x] <=> "w" \in fds[x])
        BY Zenon, <2>1, <3>1, <3>4
      <4>2. /\ pc'[p] = "close_r" /\ pc[p] = "user" /\ readopen
            /\ \A x \in Procs \ {p} : pc'[x] = pc[x] /\ pc[x] # "close_r"
        BY <1>o, <1>u, <2>2, <3>2, <3>4
      <4>3. Writes /\ OnceW
        BY <1>o, <1>u, <2>3, <4>1, <4>2
      <4>4. Reads /\ OnceR
        BY <2>3, <4>1, <4>2
      <4> QED BY <1>i, <2>3, <4>3, <4>4
    <3> QED BY <2>2, <3>3, <3>4
  <2>5. CASE ref[e] # 1
    <3>1. PICK q \in Procs : q # p /\ e \in fds[q]
      <4>1. SUFFICES ASSUME Holders(e) = {p} PROVE FALSE
        BY <2>2 DEF Holders
      <4> QED BY <2>5, <4>1, Counted, FS_Singleton
    <3>2. pc' = pc
      BY <1>2, <2>5 DEF fileclose
    <3>3. Reads /\ Writes
      BY Zenon, <1>o, <2>1, <2>2, <2>3, <3>1, <3>2
    <3>4. OnceR /\ OnceW
      BY Zenon, <1>u, <2>1, <3>2
    <3> QED BY <1>i, <2>3, <3>3, <3>4
  <2> QED BY <2>4, <2>5
<1>3. ASSUME NEW p \in Procs, kill(p)
      PROVE  OpenInv'
  <2>1. \A q \in Procs : \/ pc'[q] = pc[q]
                         \/ pc[q] = "read_asleep" /\ pc'[q] = "read"
                         \/ pc[q] = "write_asleep" /\ pc'[q] = "write"
    BY <1>3, <1>c DEF kill, Go
  <2>2. UNCHANGED <<fds, readopen, writeopen, freed>>
    BY <1>3 DEF kill, pipeVars
  <2> QED BY <1>k, <2>1, <2>2
<1>4. ASSUME NEW p \in Procs, pipeclose(p), pc[p] = "close_w"
      PROVE  OpenInv'
  <2>1. \A q \in Procs : pc'[q] = IF q = p THEN "user" ELSE IF pc[q] = "read_asleep"
                                  THEN "read" ELSE pc[q]
    BY <1>4 DEF pipeclose, Wakeup
  <2>2. fds' = fds /\ readopen' = readopen /\ writeopen' = FALSE /\ Freed
    BY Zenon, <1>4 DEF pipeclose
  <2>3. Reads /\ OnceR
    BY <1>o, <1>u, <1>4, <2>1, <2>2
  <2>4. Writes /\ OnceW
    BY <1>u, <1>4, <2>1, <2>2
  <2> QED BY <1>i, <2>2, <2>3, <2>4
<1>5. ASSUME NEW p \in Procs, pipeclose(p), pc[p] = "close_r"
      PROVE  OpenInv'
  <2>1. \A q \in Procs : pc'[q] = IF q = p THEN "user" ELSE IF pc[q] = "write_asleep"
                                  THEN "write" ELSE pc[q]
    BY <1>5 DEF pipeclose, Wakeup
  <2>2. fds' = fds /\ readopen' = FALSE /\ writeopen' = writeopen /\ Freed
    BY Zenon, <1>5 DEF pipeclose
  <2>3. Reads /\ OnceR
    BY <1>u, <1>5, <2>1, <2>2
  <2>4. Writes /\ OnceW
    BY <1>o, <1>u, <1>5, <2>1, <2>2
  <2> QED BY <1>i, <2>2, <2>3, <2>4
<1>6. ASSUME NEW p \in Procs, Inside(p)
      PROVE  OpenInv'
  <2>1. UNCHANGED <<fds, ref, readopen, writeopen, freed, killed>>
    BY <1>6, <1>c, InsideKeeps
  <2>2. \A q \in Procs : (pc'[q] = "close_r" <=> pc[q] = "close_r")
    BY <1>6, <1>c, InsideKeeps
  <2>3. \A q \in Procs : (pc'[q] = "close_w" <=> pc[q] = "close_w")
    BY <1>6, <1>c, InsideKeeps
  <2>4. Quiet
    BY <2>1, <2>2, <2>3
  <2> HIDE DEF Quiet
  <2> QED BY <1>k, <2>4
<1>7. CASE UNCHANGED vars
  BY <1>7, <1>k DEF vars, pipeVars
<1> HIDE DEF Reads, Writes, OnceR, OnceW, Freed, Quiet
<1>8. ASSUME NEW p \in Procs, pipeclose(p)
      PROVE  OpenInv'
  BY Zenon, <1>8, <1>4, <1>5 DEF pipeclose
<1> QED BY <1>1, <1>2, <1>3, <1>6, <1>7, <1>8 DEF Next, Step, Inside

\* pi->lock has one holder, and what it has checked stays true while it has it.
LEMMA LockStep == IInv /\ [Next]_vars => LockInv'
<1> SUFFICES ASSUME IInv, [Next]_vars
             PROVE  LockInv'
  OBVIOUS
<1>a. Nobody \notin Procs
  BY PipeAssumption
<1>c. pc \in [Procs -> PC] /\ i \in [Procs -> Nat] /\ n \in [Procs -> Nat]
  BY DEF IInv, TypeOK, RefInv
<1>l. LockInv
  BY DEF IInv
<1>g. ASSUME NEW p \in Procs, NEW l, Go(p, l)
      PROVE  \A q \in Procs : pc'[q] = IF q = p THEN l ELSE pc[q]
  BY <1>c, <1>g DEF Go
<1>w. ASSUME NEW p \in Procs, NEW l \in {"read_asleep", "write_asleep"}, NEW m, Wakeup(l, p, m)
      PROVE  \A q \in Procs : pc'[q] = IF q = p THEN m ELSE IF pc[q] = l
                                THEN (IF l = "read_asleep" THEN "read" ELSE "write") ELSE pc[q]
  BY <1>w DEF Wakeup
\* A step that leaves pi->lock and what it protects alone.
<1>k. ASSUME UNCHANGED <<lk, nread, nwrite, readopen, writeopen>>,
             \A q \in Procs :
               \/ pc'[q] = pc[q] /\ i'[q] = i[q] /\ n'[q] = n[q]
               \/ /\ pc'[q] \notin {"put", "copy", "read_done", "read_sleep"}
                  /\ lk # q
      PROVE  LockInv'
  BY <1>k, <1>l DEF LockInv, Empty
\* The holder p releases pi->lock.
<1>e. ASSUME NEW p \in Procs, lk = p, lk' = Nobody,
             UNCHANGED <<nread, nwrite, readopen, writeopen>>,
             pc'[p] \notin {"put", "copy", "read_done", "read_sleep"},
             \A q \in Procs \ {p} : \/ pc'[q] = pc[q]
                                    \/ pc'[q] \notin {"put", "copy", "read_done", "read_sleep"}
      PROVE  LockInv'
  <2>1. \A q \in Procs : pc'[q] \notin {"put", "copy", "read_done", "read_sleep"}
    BY <1>e, <1>l DEF LockInv
  <2> QED BY <1>a, <1>e, <2>1 DEF LockInv
\* The holder p keeps it.
<1>h. ASSUME NEW p \in Procs, lk = p, lk' = p, UNCHANGED <<readopen, writeopen>>,
             \A q \in Procs \ {p} : pc'[q] = pc[q],
             pc'[p] \in {"read", "write", "put", "copy", "read_done", "read_sleep"},
             pc'[p] = "put" => readopen /\ i'[p] < n'[p],
             pc'[p] = "read_sleep" => Empty' /\ writeopen,
             pc'[p] = "copy" /\ i'[p] = 0 => ~ Empty' \/ ~ writeopen
      PROVE  LockInv'
  <2>1. \A q \in Procs \ {p} : pc'[q] \notin {"put", "copy", "read_done", "read_sleep"}
    BY <1>h, <1>l DEF LockInv
  <2> QED BY <1>h, <2>1 DEF LockInv
<1>1. ASSUME NEW p \in Procs, NEW q \in Procs, fork(p, q)
      PROVE  LockInv'
  <2>1. pc[q] = "none" /\ lk # q
    BY <1>1, <1>l DEF fork, LockInv
  <2> QED BY <1>1, <1>g, <1>k, <2>1 DEF fork, pipeVars
<1>2. ASSUME NEW p \in Procs, NEW e \in End, fileclose(p, e)
      PROVE  LockInv'
  <2>1. pc[p] = "user" /\ lk # p
    BY <1>2, <1>l DEF fileclose, LockInv
  <2>2. \A q \in Procs : pc'[q] = pc[q] \/ (q = p /\ pc'[q] \in {"close_w", "close_r"})
    BY <1>2, <1>g DEF fileclose
  <2> QED BY <1>2, <1>k, <2>1, <2>2 DEF fileclose, pipeVars
<1>3. ASSUME NEW p \in Procs, exit(p)
      PROVE  LockInv'
  <2>1. pc[p] = "user" /\ lk # p
    BY <1>3, <1>l DEF exit, LockInv
  <2> QED BY <1>3, <1>g, <1>k, <2>1 DEF exit, pipeVars
<1>4. ASSUME NEW p \in Procs, kill(p)
      PROVE  LockInv'
  <2>1. \A q \in Procs : \/ pc'[q] = pc[q]
                         \/ pc[q] = "read_asleep" /\ pc'[q] = "read"
                         \/ pc[q] = "write_asleep" /\ pc'[q] = "write"
    BY <1>4, <1>c DEF kill, Go
  <2>2. \A q \in Procs : pc[q] \in {"read_asleep", "write_asleep"} => lk # q
    BY <1>l DEF LockInv
  <2> QED BY <1>4, <1>k, <2>1, <2>2 DEF kill, pipeVars
<1>5. ASSUME NEW p \in Procs, pipeclose(p)
      PROVE  LockInv'
  <2>1. lk = Nobody /\ lk' = lk
    BY <1>5 DEF pipeclose
  <2>2. \A q \in Procs : pc[q] \notin {"put", "copy", "read_done", "read_sleep"}
    BY <1>a, <1>l, <2>1 DEF LockInv
  <2>3. \A q \in Procs : pc'[q] = pc[q] \/ pc'[q] \in {"user", "read", "write"}
    BY <1>5, <1>w DEF pipeclose
  <2>4. \A q \in Procs : pc'[q] \notin {"put", "copy", "read_done", "read_sleep"}
    BY <2>2, <2>3
  <2> QED BY <1>a, <2>1, <2>4 DEF LockInv
<1>6. ASSUME NEW p \in Procs, NEW e \in End, NEW k \in Sizes, call(p, e, k)
      PROVE  LockInv'
  <2>1. pc[p] = "user" /\ lk # p
    BY <1>6, <1>l DEF call, LockInv
  <2>2. \A q \in Procs \ {p} : n'[q] = n[q]
    BY <1>6, <1>c DEF call
  <2> QED BY <1>6, <1>g, <1>k, <2>1, <2>2 DEF call, pipeVars
<1>7. ASSUME NEW p \in Procs, acquire(p)
      PROVE  LockInv'
  <2>1. lk = Nobody /\ lk' = p /\ pc' = pc /\ pc[p] \in {"write", "read"}
    BY <1>7 DEF acquire
  <2>2. \A q \in Procs : pc[q] \notin {"put", "copy", "read_done", "read_sleep"}
    BY <1>a, <1>l, <2>1 DEF LockInv
  <2> QED BY <2>1, <2>2 DEF LockInv
<1>8. ASSUME NEW p \in Procs, write_check(p)
      PROVE  LockInv'
  <2>1. CASE ~ readopen \/ killed[p]
    BY <1>8, <1>g, <1>e, <2>1 DEF write_check, pipeVars
  <2>2. CASE ~ (~ readopen \/ killed[p])
    <3>1. /\ lk = p /\ lk' = p /\ UNCHANGED <<readopen, writeopen, i, n>>
          /\ readopen /\ i[p] < n[p]
          /\ \A q \in Procs : pc'[q] = IF q = p THEN "put" ELSE pc[q]
      BY <1>8, <1>c, <2>2 DEF write_check, pipeVars, Go
    <3> QED BY <1>h, <3>1
  <2> QED BY <2>1, <2>2
<1>9. ASSUME NEW p \in Procs, write_sleep(p)
      PROVE  LockInv'
  <2>1. lk = p
    BY <1>9, <1>l DEF write_sleep, LockInv
  <2> QED BY <1>9, <1>w, <1>e, <2>1 DEF write_sleep, pipeVars
<1>10. ASSUME NEW p \in Procs, write_done(p)
      PROVE  LockInv'
  <2>1. lk = p
    BY <1>10, <1>l DEF write_done, LockInv
  <2> QED BY <1>10, <1>w, <1>e, <2>1 DEF write_done, pipeVars
<1>11. ASSUME NEW p \in Procs, read_check(p)
      PROVE  LockInv'
  <2>1. CASE Empty /\ writeopen /\ killed[p]
    <3>1. /\ lk = p /\ lk' = Nobody /\ UNCHANGED <<nread, nwrite, readopen, writeopen>>
          /\ \A q \in Procs : pc'[q] = IF q = p THEN "user" ELSE pc[q]
      BY <1>11, <1>c, <2>1 DEF read_check, pipeVars, Go
    <3> QED BY <1>e, <3>1
  <2>2. CASE Empty /\ writeopen /\ ~ killed[p]
    <3>1. /\ lk = p /\ lk' = p /\ UNCHANGED <<nread, nwrite, readopen, writeopen>>
          /\ \A q \in Procs : pc'[q] = IF q = p THEN "read_sleep" ELSE pc[q]
      BY <1>11, <1>c, <2>2 DEF read_check, pipeVars, Go
    <3> QED BY <1>h, <2>2, <3>1 DEF Empty
  <2>3. CASE ~ (Empty /\ writeopen)
    <3>1. /\ lk = p /\ lk' = p /\ UNCHANGED <<nread, nwrite, readopen, writeopen>>
          /\ \A q \in Procs : pc'[q] = IF q = p THEN "copy" ELSE pc[q]
      BY <1>11, <1>c, <2>3 DEF read_check, pipeVars, Go
    <3> QED BY <1>h, <2>3, <3>1 DEF Empty
  <2> QED BY <2>1, <2>2, <2>3
<1>12. ASSUME NEW p \in Procs, read_sleep(p)
      PROVE  LockInv'
  <2>1. lk = p
    BY <1>12, <1>l DEF read_sleep, LockInv
  <2> QED BY <1>12, <1>g, <1>e, <2>1 DEF read_sleep, pipeVars
<1>13. ASSUME NEW p \in Procs, read_done(p)
      PROVE  LockInv'
  <2>1. lk = p
    BY <1>13, <1>l DEF read_done, LockInv
  <2> QED BY <1>13, <1>w, <1>e, <2>1 DEF read_done, pipeVars
<1>14. ASSUME NEW p \in Procs, NEW v \in Byte, write_byte(p, v)
      PROVE  LockInv'
  <2>1. lk = p
    BY <1>14, <1>l DEF write_byte, LockInv
  <2>2. /\ lk' = lk /\ UNCHANGED <<readopen, writeopen>>
        /\ \A q \in Procs : pc'[q] = IF q = p THEN "write" ELSE pc[q]
    BY <1>14, <1>c DEF write_byte, Go
  <2> QED BY <1>h, <2>1, <2>2
<1>15. ASSUME NEW p \in Procs, NEW fails \in BOOLEAN, read_byte(p, fails)
      PROVE  LockInv'
  <2>1. lk = p
    BY <1>15, <1>l DEF read_byte, LockInv
  <2>2. pc'[p] = "copy" => i'[p] # 0
    BY <1>15, <1>c, <1>g DEF read_byte
  <2> QED BY <1>15, <1>g, <1>h, <2>1, <2>2 DEF read_byte
<1>16. CASE UNCHANGED vars
  BY <1>16, <1>k DEF vars, pipeVars
<1> QED
  BY <1>1, <1>2, <1>3, <1>4, <1>5, <1>6, <1>7, <1>8, <1>9, <1>10, <1>11, <1>12, <1>13, <1>14,
     <1>15, <1>16 DEF Next, Step

\* Only an empty pipe without writers makes piperead() return 0 at its end.
LEMMA EofStep == IInv /\ [Next]_vars => EofInv'
<1> SUFFICES ASSUME IInv, [Next]_vars
             PROVE  EofInv'
  OBVIOUS
<1>1. ASSUME NEW p \in Procs, read_done(p)
      PROVE  EofInv'
  <2>1. writeopen' = writeopen /\ (eof' => eof \/ (pc[p] = "copy" /\ i[p] = 0))
    BY Zenon, <1>1 DEF read_done, pipeVars
  <2>2. ASSUME pc[p] = "copy", i[p] = 0
        PROVE  ~ writeopen
    <3>1. n[p] > 0
      BY <2>2 DEF IInv, RefInv, Reading
    <3>2. Empty
      BY <1>1, <2>2, <3>1 DEF read_done
    <3> QED BY <2>2, <3>2 DEF IInv, LockInv
  <2> QED BY <2>1, <2>2 DEF IInv, EofInv
<1>2. ASSUME NEW p \in Procs, pipeclose(p)
      PROVE  EofInv'
  BY <1>2 DEF pipeclose, IInv, EofInv
<1>3. ASSUME UNCHANGED <<eof, writeopen>>
      PROVE  EofInv'
  BY <1>3 DEF IInv, EofInv
<1>4. ASSUME NEW p \in Procs,
             \/ acquire(p) \/ write_check(p) \/ write_sleep(p) \/ write_done(p)
             \/ read_check(p) \/ read_sleep(p) \/ exit(p) \/ kill(p)
      PROVE  UNCHANGED <<eof, writeopen>>
  BY <1>4 DEF acquire, write_check, write_sleep, write_done, read_check, read_sleep, exit, kill,
       pipeVars
<1>5. ASSUME NEW p \in Procs, NEW v \in Byte, write_byte(p, v)
      PROVE  EofInv'
  BY <1>3, <1>5 DEF write_byte
<1>6. ASSUME NEW p \in Procs, NEW f \in BOOLEAN, read_byte(p, f)
      PROVE  EofInv'
  BY <1>3, <1>6 DEF read_byte
<1>7. ASSUME NEW p \in Procs, NEW q \in Procs, fork(p, q)
      PROVE  EofInv'
  BY <1>3, <1>7 DEF fork, pipeVars
<1>8. ASSUME NEW p \in Procs, NEW e \in End, fileclose(p, e)
      PROVE  EofInv'
  BY <1>3, <1>8 DEF fileclose, pipeVars
<1>9. ASSUME NEW p \in Procs, NEW e \in End, NEW k \in Sizes, call(p, e, k)
      PROVE  EofInv'
  BY <1>3, <1>9 DEF call, pipeVars
<1>10. CASE UNCHANGED vars
  BY <1>3, <1>10 DEF vars, pipeVars
<1> QED BY <1>1, <1>2, <1>3, <1>4, <1>5, <1>6, <1>7, <1>8, <1>9, <1>10 DEF Next, Step

\* No step makes a sleeper's condition false without being about to wake it.
LEMMA SleepStep == IInv /\ [Next]_vars => SleepInv'
<1> SUFFICES ASSUME IInv, [Next]_vars, \A p \in Procs : ~ killed'[p]
             PROVE  \A p \in Procs :
                      /\ pc'[p] = "read_asleep" =>
                           \/ Empty' /\ writeopen'
                           \/ \E q \in Procs : lk' = q /\ pc'[q] \in {"write", "put"}
                      /\ pc'[p] = "write_asleep" =>
                           \/ Full' /\ readopen'
                           \/ \E q \in Procs : lk' = q /\ pc'[q] \in {"copy", "read_done"}
  BY DEF SleepInv
<1> DEFINE Goal == \A p \in Procs :
                      /\ pc'[p] = "read_asleep" =>
                           \/ Empty' /\ writeopen'
                           \/ \E q \in Procs : lk' = q /\ pc'[q] \in {"write", "put"}
                      /\ pc'[p] = "write_asleep" =>
                           \/ Full' /\ readopen'
                           \/ \E q \in Procs : lk' = q /\ pc'[q] \in {"copy", "read_done"}
<1> SUFFICES Goal
  OBVIOUS
<1>a. Nobody \notin Procs
  BY PipeAssumption
<1>c. pc \in [Procs -> PC] /\ killed \in [Procs -> BOOLEAN]
  BY DEF IInv, TypeOK, RefInv
<1>l. LockInv
  BY DEF IInv
<1>g. ASSUME NEW p \in Procs, NEW l, Go(p, l)
      PROVE  \A q \in Procs : pc'[q] = IF q = p THEN l ELSE pc[q]
  BY <1>c, <1>g DEF Go
<1>w. ASSUME NEW p \in Procs, NEW l \in {"read_asleep", "write_asleep"}, NEW m, Wakeup(l, p, m)
      PROVE  \A q \in Procs : pc'[q] = IF q = p THEN m ELSE IF pc[q] = l
                                THEN (IF l = "read_asleep" THEN "read" ELSE "write") ELSE pc[q]
  BY <1>w DEF Wakeup
\* Nobody is killed in this state, and kill() is not the step.
<1>n. ~ (\E p \in Procs : kill(p)) /\ \A p \in Procs : ~ killed[p]
  <2>1. \A p \in Procs : kill(p) => killed'[p]
    BY <1>c DEF kill
  <2>2. ~ \E p \in Procs : kill(p)
    BY <2>1
  <2>3. \A p \in Procs : Inside(p) => killed' = killed
    BY <1>c, InsideKeeps
  <2>4. \A p, q \in Procs : fork(p, q) => killed' = killed
    BY DEF fork
  <2>5. \A p \in Procs, e \in End : fileclose(p, e) => killed' = killed
    BY Zenon DEF fileclose
  <2>6. \A p \in Procs : pipeclose(p) => killed' = killed
    BY DEF pipeclose
  <2>7. UNCHANGED vars => killed' = killed
    BY DEF vars
  <2>8. killed' = killed
    BY <2>2, <2>3, <2>4, <2>5, <2>6, <2>7 DEF Next, Step, Inside
  <2> QED BY <2>2, <2>8
<1>s. \A p \in Procs :
        /\ pc[p] = "read_asleep" => \/ Empty /\ writeopen
                                   \/ \E q \in Procs : lk = q /\ pc[q] \in {"write", "put"}
        /\ pc[p] = "write_asleep" => \/ Full /\ readopen
                                    \/ \E q \in Procs : lk = q /\ pc[q] \in {"copy", "read_done"}
  BY <1>n DEF IInv, SleepInv
\* The sleepers keep their descriptors, so the ends are open.
<1>o. \A p \in Procs : /\ pc[p] = "read_asleep" => readopen
                       /\ pc[p] = "write_asleep" => writeopen
                       /\ pc[p] = "read_asleep" => \A q \in Procs : pc[q] # "close_r"
                       /\ pc[p] = "write_asleep" => \A q \in Procs : pc[q] # "close_w"
  BY DEF IInv, RefInv, OpenInv, Reading, Writing, Holders
\* A step of a process that does not hold pi->lock, and wakes nobody.
<1>k. ASSUME UNCHANGED <<lk, nread, nwrite, readopen, writeopen>>,
             \A q \in Procs : \/ pc'[q] = pc[q]
                              \/ lk # q /\ pc'[q] \notin {"read_asleep", "write_asleep"}
      PROVE  Goal
  <2>1. Empty' = Empty /\ Full' = Full
    BY <1>k DEF Empty, Full
  <2> QED BY <1>k, <1>s, <2>1
<1>1. ASSUME NEW p \in Procs, NEW q \in Procs, fork(p, q)
      PROVE  Goal
  <2>1. pc[q] = "none" /\ lk # q
    BY <1>1, <1>l DEF fork, LockInv
  <2> QED BY <1>1, <1>g, <1>k, <2>1 DEF fork, pipeVars
<1>2. ASSUME NEW p \in Procs, NEW e \in End, fileclose(p, e)
      PROVE  Goal
  <2>1. pc[p] = "user" /\ lk # p
    BY <1>2, <1>l DEF fileclose, LockInv
  <2>2. \A q \in Procs : pc'[q] = pc[q] \/ (q = p /\ pc'[q] \in {"close_w", "close_r"})
    BY <1>2, <1>g DEF fileclose
  <2> QED BY Zenon, <1>2, <1>k, <2>1, <2>2 DEF fileclose, pipeVars
<1>3. ASSUME NEW p \in Procs, exit(p)
      PROVE  Goal
  <2>1. pc[p] = "user" /\ lk # p
    BY <1>3, <1>l DEF exit, LockInv
  <2> QED BY <1>3, <1>g, <1>k, <2>1 DEF exit, pipeVars
<1>5. ASSUME NEW p \in Procs, pipeclose(p)
      PROVE  Goal
  <2>1. lk = Nobody /\ lk' = lk /\ Empty' = Empty /\ Full' = Full
    BY <1>5 DEF pipeclose, Empty, Full
  <2>2. CASE pc[p] = "close_w"
    <3>1. \A q \in Procs : /\ pc'[q] # "read_asleep"
                           /\ pc'[q] = "write_asleep" => pc[q] = "write_asleep"
      BY <1>5, <1>w, <2>2 DEF pipeclose
    <3>2. readopen' = readopen
      BY <1>5, <2>2 DEF pipeclose
    <3> QED BY <1>a, <1>s, <2>1, <3>1, <3>2
  <2>3. CASE pc[p] = "close_r"
    <3>1. \A q \in Procs : /\ pc'[q] # "write_asleep"
                           /\ pc'[q] = "read_asleep" => pc[q] = "read_asleep"
      BY <1>5, <1>w, <2>3 DEF pipeclose
    <3>2. writeopen' = writeopen
      BY <1>5, <2>3 DEF pipeclose
    <3> QED BY <1>a, <1>s, <2>1, <3>1, <3>2
  <2> QED BY <1>5, <2>2, <2>3 DEF pipeclose
<1>6. ASSUME NEW p \in Procs, NEW e \in End, NEW k \in Sizes, call(p, e, k)
      PROVE  Goal
  <2>1. pc[p] = "user" /\ lk # p
    BY <1>6, <1>l DEF call, LockInv
  <2>2. /\ UNCHANGED <<lk, nread, nwrite, readopen, writeopen>>
        /\ \A q \in Procs : pc'[q] = IF q = p THEN (IF e = "w" THEN "write" ELSE "read") ELSE pc[q]
    BY <1>6, <1>c DEF call, pipeVars, Go
  <2> QED BY <1>k, <2>1, <2>2
<1>7. ASSUME NEW p \in Procs, acquire(p)
      PROVE  Goal
  <2>1. lk = Nobody /\ pc' = pc /\ Empty' = Empty /\ Full' = Full
    BY <1>7 DEF acquire, pipeVars, Empty, Full
  <2>2. UNCHANGED <<readopen, writeopen>>
    BY <1>7 DEF acquire, pipeVars
  <2> QED BY <1>a, <1>s, <2>1, <2>2
<1>8. ASSUME NEW p \in Procs, write_check(p)
      PROVE  Goal
  <2>1. /\ lk = p /\ pc[p] = "write" /\ Empty' = Empty /\ Full' = Full
        /\ UNCHANGED <<readopen, writeopen>>
    BY Zenon, <1>8 DEF write_check, pipeVars, Empty, Full
  <2>2. CASE ~ readopen
    <3>1. \A q \in Procs : pc'[q] = IF q = p THEN "user" ELSE pc[q]
      BY <1>8, <1>g, <2>2 DEF write_check
    <3>2. \A q \in Procs : pc[q] # "read_asleep"
      BY <1>o, <2>2
    <3> QED BY <1>s, <2>1, <3>1, <3>2
  <2>3. CASE readopen
    <3>1. (\A q \in Procs : pc'[q] = IF q = p THEN "put" ELSE pc[q]) /\ lk' = p
      BY <1>8, <1>g, <1>n, <2>1, <2>3 DEF write_check
    <3> QED BY <1>s, <2>1, <3>1
  <2> QED BY <2>2, <2>3
<1>9. ASSUME NEW p \in Procs, write_sleep(p)
      PROVE  Goal
  <2>1. /\ lk = p /\ Full /\ Full' = Full /\ readopen /\ readopen' = readopen /\ pc[p] = "put"
    BY <1>9, <1>l DEF write_sleep, LockInv, pipeVars, Full
  <2>2. \A q \in Procs : pc'[q] # "read_asleep"
    BY <1>9, <1>w DEF write_sleep
  <2> QED BY <2>1, <2>2
<1>10. ASSUME NEW p \in Procs, write_done(p)
      PROVE  Goal
  <2>1. /\ lk = p /\ Full' = Full /\ readopen' = readopen /\ pc[p] \in {"write", "put"}
    BY <1>10, <1>l DEF write_done, LockInv, pipeVars, Full
  <2>2. \A q \in Procs : /\ pc'[q] # "read_asleep"
                         /\ pc'[q] = "write_asleep" => pc[q] = "write_asleep"
    BY <1>10 DEF write_done, Wakeup
  <2> QED BY <1>s, <2>1, <2>2
<1>11. ASSUME NEW p \in Procs, read_check(p)
      PROVE  Goal
  <2>1. /\ lk = p /\ pc[p] = "read" /\ Empty' = Empty /\ Full' = Full
        /\ UNCHANGED <<readopen, writeopen>>
    BY <1>11 DEF read_check, pipeVars, Empty, Full
  <2>2. \A q \in Procs : pc'[q] \in {"read_asleep", "write_asleep"} => pc'[q] = pc[q]
    BY <1>11, <1>g DEF read_check
  <2> QED BY <1>s, <2>1, <2>2
<1>12. ASSUME NEW p \in Procs, read_sleep(p)
      PROVE  Goal
  <2>1. /\ lk = p /\ pc[p] = "read_sleep" /\ Empty /\ writeopen /\ Empty' = Empty /\ Full' = Full
        /\ UNCHANGED <<readopen, writeopen>>
    BY <1>12, <1>l DEF read_sleep, LockInv, pipeVars, Empty, Full
  <2>2. \A q \in Procs : pc'[q] = IF q = p THEN "read_asleep" ELSE pc[q]
    BY <1>12, <1>g DEF read_sleep
  <2> QED BY <1>s, <2>1, <2>2
<1>13. ASSUME NEW p \in Procs, read_done(p)
      PROVE  Goal
  <2>1. /\ lk = p /\ Empty' = Empty /\ writeopen' = writeopen /\ pc[p] \in {"copy", "read_done"}
    BY <1>13, <1>l DEF read_done, LockInv, pipeVars, Empty
  <2>2. \A q \in Procs : /\ pc'[q] # "write_asleep"
                         /\ pc'[q] = "read_asleep" => pc[q] = "read_asleep"
    BY <1>13 DEF read_done, Wakeup
  <2> QED BY <1>s, <2>1, <2>2
<1>14. ASSUME NEW p \in Procs, NEW v \in Byte, write_byte(p, v)
      PROVE  Goal
  <2>1. lk = p /\ lk' = p /\ pc[p] = "put" /\ ~ Full
    BY <1>14, <1>l DEF write_byte, LockInv
  <2>2. \A q \in Procs : pc'[q] = IF q = p THEN "write" ELSE pc[q]
    BY <1>14, <1>g DEF write_byte
  <2>3. \A q \in Procs : pc[q] # "write_asleep"
    BY <1>s, <2>1
  <2> QED BY <2>1, <2>2, <2>3
<1>15. ASSUME NEW p \in Procs, NEW fails \in BOOLEAN, read_byte(p, fails)
      PROVE  Goal
  <2>1. lk = p /\ lk' = p /\ pc[p] = "copy" /\ ~ Empty
    BY <1>15, <1>l DEF read_byte, LockInv
  <2>2. \A q \in Procs : pc'[q] = IF q = p THEN (IF fails THEN "read_done" ELSE "copy") ELSE pc[q]
    BY <1>15, <1>g DEF read_byte
  <2>3. \A q \in Procs : pc[q] # "read_asleep"
    BY <1>s, <2>1
  <2> QED BY <2>1, <2>2, <2>3
<1>16. CASE UNCHANGED vars
  BY <1>16, <1>k DEF vars, pipeVars
<1> HIDE DEF Goal
<1> QED
  BY Zenon, <1>n, <1>1, <1>2, <1>3, <1>5, <1>6, <1>7, <1>8, <1>9, <1>10, <1>11, <1>12, <1>13, <1>14,
     <1>15, <1>16 DEF Next, Step

\* IInv holds in every reachable state.
THEOREM Inductive == Spec => []IInv
<1>1. IInv /\ [Next]_vars => IInv'
  BY TypeStep, RefStep, OpenStep, LockStep, EofStep, SleepStep DEF IInv
<1> QED BY <1>1, InitIInv, PTL DEF Spec

\* Every variable of the pipe keeps its type, and nwrite - nread stays at most
\* PIPESIZE in unsigned arithmetic.
THEOREM TypeCorrect == Spec => []TypeOK
BY Inductive, PTL DEF IInv

\* pipeclose() frees the pipe only when no process is in piperead(),
\* pipewrite() or pipeclose(), asleep or waiting for pi->lock.
THEOREM FreedIsUnused == Spec => []NoUseAfterFree
<1>1. IInv => NoUseAfterFree
  BY DEF IInv, OpenInv, RefInv, NoUseAfterFree, InPipe, Holders, Reading, Writing
<1> QED BY <1>1, Inductive, PTL

\* After a read() that returned 0 at the end of piperead() no process has a
\* descriptor of the write end, however descriptors were shared and closed.
THEOREM EndOfFile == Spec => []EofIsFinal
<1>1. IInv => EofIsFinal
  BY DEF IInv, OpenInv, EofInv, EofIsFinal, Holders
<1> QED BY <1>1, Inductive, PTL

\* Until somebody is killed, whenever pi->lock is free a reader sleeps only at
\* an empty pipe with a writer, a writer only at a full one with a reader.
THEOREM WakeupComes == Spec => []NoLostWakeup
<1>1. IInv => NoLostWakeup
  BY PipeAssumption DEF IInv, SleepInv, NoLostWakeup
<1> QED BY <1>1, Inductive, PTL

-----------------------------------------------------------------------------
(* The ring buffer is a queue. *)

\* Sequences with the same elements are equal.
LEMMA SameSequence ==
  ASSUME NEW S, NEW s \in Seq(S), NEW t \in Seq(S),
         Len(s) = Len(t), \A k \in 1 .. Len(s) : s[k] = t[k]
  PROVE  s = t
OBVIOUS

\* A function on 1 .. m is a sequence.
LEMMA FunctionSequence ==
  ASSUME NEW S, NEW m \in Nat, NEW f \in [1 .. m -> S]
  PROVE  f \in Seq(S) /\ Len(f) = m
OBVIOUS

\* How to recognise an Append.
LEMMA IsAppend ==
  ASSUME NEW S, NEW s \in Seq(S), NEW e \in S, NEW m \in Nat, Len(s) = m,
         NEW t \in [1 .. m + 1 -> S], \A k \in 1 .. m : t[k] = s[k], t[m + 1] = e
  PROVE  t = Append(s, e)
<1>1. t \in Seq(S) /\ Len(t) = m + 1
  BY FunctionSequence
<1>2. /\ Append(s, e) \in Seq(S) /\ Len(Append(s, e)) = m + 1
      /\ \A k \in 1 .. m : Append(s, e)[k] = s[k]
      /\ Append(s, e)[m + 1] = e
  OBVIOUS
<1>3. \A k \in 1 .. m + 1 : t[k] = Append(s, e)[k]
  BY <1>2
<1> QED BY <1>1, <1>2, <1>3, SameSequence

\* How to recognise a Tail.
LEMMA IsTail ==
  ASSUME NEW S, NEW s \in Seq(S), NEW m \in Nat, Len(s) = m, m > 0,
         NEW t \in [1 .. m - 1 -> S], \A k \in 1 .. m - 1 : t[k] = s[k + 1]
  PROVE  t = Tail(s)
<1>1. t \in Seq(S) /\ Len(t) = m - 1
  BY FunctionSequence
<1>2. /\ Tail(s) \in Seq(S) /\ Len(Tail(s)) = m - 1
      /\ \A k \in 1 .. m - 1 : Tail(s)[k] = s[k + 1]
  OBVIOUS
<1> QED BY <1>1, <1>2, SameSequence

\* The places of the ring: the counters wrap at a multiple of PIPESIZE.
LEMMA Places ==
  /\ \A x \in Nat : x % PIPESIZE \in 0 .. PIPESIZE - 1
  /\ \A x \in Nat : (x + UintMod) % PIPESIZE = x % PIPESIZE
  /\ \A x, y \in Nat : x < y /\ y < x + PIPESIZE => x % PIPESIZE # y % PIPESIZE
  /\ \A x \in 0 .. UintMod - 1 : (x + 1) % UintMod = IF x + 1 < UintMod THEN x + 1 ELSE 0
<1>a. PIPESIZE \in Nat \ {0} /\ UintMod \in Nat \ {0} /\ UintMod \in Nat /\ UintMod % PIPESIZE = 0
  BY PipeAssumption
<1>1. ASSUME NEW x \in Nat PROVE x % PIPESIZE \in 0 .. PIPESIZE - 1
  BY <1>a, ModRange
<1>2. ASSUME NEW x \in Nat PROVE (x + UintMod) % PIPESIZE = x % PIPESIZE
  BY <1>a, AddMultiple, Zenon
<1>3. ASSUME NEW x \in Nat, NEW y \in Nat, x < y, y < x + PIPESIZE
      PROVE  x % PIPESIZE # y % PIPESIZE
  BY <1>a, <1>3, Apart, Zenon
<1>4. ASSUME NEW x \in 0 .. UintMod - 1
      PROVE  (x + 1) % UintMod = IF x + 1 < UintMod THEN x + 1 ELSE 0
  <2> DEFINE y == x + 1
  <2>1. y \in Nat /\ y <= UintMod
    BY <1>a
  <2> HIDE DEF y
  <2>2. y % UintMod = IF y < UintMod THEN y ELSE 0
    BY <1>a, <2>1
  <2> QED BY <2>2 DEF y
<1> QED BY <1>1, <1>2, <1>3, <1>4

\* What the ring holds, oldest byte first.
Contents == [k \in 1 .. Length |-> data[(nread + k - 1) % PIPESIZE]]

\* Contents is a sequence of Length bytes.
LEMMA ContentsType ==
  ASSUME IInv
  PROVE  /\ Length \in Nat /\ Length <= PIPESIZE
         /\ Contents \in [1 .. Length -> Byte]
         /\ Contents \in Seq(Byte) /\ Len(Contents) = Length
<1>1. /\ nread \in 0 .. UintMod - 1 /\ nwrite \in 0 .. UintMod - 1
      /\ data \in [0 .. PIPESIZE - 1 -> Byte] /\ Length <= PIPESIZE
  BY DEF IInv, TypeOK, Length
<1>2. Length \in Nat
  BY <1>1, Ring, PipeAssumption
<1>3. \A x \in Nat : x % PIPESIZE \in 0 .. PIPESIZE - 1
  BY PipeAssumption, ModRange
<1>4. Contents \in [1 .. Length -> Byte]
  <2>1. \A k \in 1 .. Length : nread + k - 1 \in Nat
    BY <1>1, <1>2
  <2>2. \A k \in 1 .. Length : data[(nread + k - 1) % PIPESIZE] \in Byte
    BY Zenon, <1>1, <1>3, <2>1
  <2> QED BY <2>2 DEF Contents
<1> QED BY <1>1, <1>2, <1>4

\* The byte that is written goes behind the last one.
LEMMA PutSim ==
  ASSUME IInv, NEW p \in Procs, NEW v \in Byte, write_byte(p, v)
  PROVE  Contents' = Append(Contents, v) /\ Length < PIPESIZE
<1>a. PIPESIZE \in Nat \ {0} /\ UintMod \in Nat \ {0} /\ UintMod % PIPESIZE = 0
  BY PipeAssumption
<1>c. nread \in 0 .. UintMod - 1 /\ nwrite \in 0 .. UintMod - 1
  BY DEF IInv, TypeOK
<1>n. nread \in Nat /\ nwrite \in Nat
  BY <1>c
<1>d. data \in [0 .. PIPESIZE - 1 -> Byte]
  BY DEF IInv, TypeOK
<1>1. Length \in Nat /\ Length < PIPESIZE
  BY <1>a, <1>c, Ring, ContentsType DEF write_byte
<1>2. Length' = Length + 1
  BY <1>c, <1>1, Ring, Zenon DEF write_byte, Length
<1>3. nwrite % PIPESIZE = (nread + Length) % PIPESIZE
  <2>1. nwrite = nread + Length \/ nwrite + UintMod = nread + Length
    BY <1>c, Ring
  <2>2. (nwrite + UintMod) % PIPESIZE = nwrite % PIPESIZE
    BY <1>n, Places, Zenon
  <2> QED BY <2>1, <2>2
<1>4. nwrite % PIPESIZE \in 0 .. PIPESIZE - 1
  BY <1>a, <1>c, ModRange
<1>5. data' = [data EXCEPT ![nwrite % PIPESIZE] = v] /\ nread' = nread
  BY DEF write_byte
<1>6. ASSUME NEW k \in 1 .. Length
      PROVE  data'[(nread + k - 1) % PIPESIZE] = Contents[k]
  <2> DEFINE x == nread + k - 1
             y == nread + Length
  <2>1. x \in Nat /\ y \in Nat /\ x < y /\ y < x + PIPESIZE
    BY <1>a, <1>c, <1>1
  <2> HIDE DEF x, y
  <2>2. x % PIPESIZE # y % PIPESIZE /\ x % PIPESIZE \in 0 .. PIPESIZE - 1
    BY <2>1, Places, Zenon
  <2>3. data'[x % PIPESIZE] = data[x % PIPESIZE]
    BY <1>3, <1>4, <1>5, <1>d, <2>2 DEF y
  <2> QED BY <2>3 DEF x, Contents
<1>7. data'[(nread + Length) % PIPESIZE] = v
  BY <1>3, <1>4, <1>5, <1>d
<1>8. Contents' = [k \in 1 .. Length + 1 |-> data'[(nread + k - 1) % PIPESIZE]]
  BY <1>2, <1>5 DEF Contents
<1>9. \A k \in 1 .. Length : Contents'[k] = Contents[k]
  BY <1>1, <1>6, <1>8
<1>10. Contents'[Length + 1] = v
  <2>1. nread + (Length + 1) - 1 = nread + Length /\ Length + 1 \in 1 .. Length + 1
    BY <1>c, <1>1
  <2> QED BY <1>7, <1>8, <2>1
<1>11. Contents' \in [1 .. Length + 1 -> Byte]
  <2>1. \A k \in 1 .. Length + 1 : k = Length + 1 \/ k \in 1 .. Length
    BY <1>1
  <2>2. \A k \in 1 .. Length + 1 : Contents'[k] \in Byte
    BY <1>9, <1>10, <2>1, ContentsType
  <2> QED BY <1>8, <2>2
<1> QED BY <1>1, <1>9, <1>10, <1>11, ContentsType, IsAppend

\* The byte that is read is the first one.
LEMMA GetSim ==
  ASSUME IInv, NEW p \in Procs, NEW fails \in BOOLEAN, read_byte(p, fails)
  PROVE  Contents # <<>> /\ Contents' = Tail(Contents) /\ ch' = Head(Contents)
<1>a. PIPESIZE \in Nat \ {0} /\ UintMod \in Nat \ {0} /\ UintMod % PIPESIZE = 0
  BY PipeAssumption
<1>c. nread \in 0 .. UintMod - 1 /\ nwrite \in 0 .. UintMod - 1
  BY DEF IInv, TypeOK
<1>1. Length \in Nat /\ Length > 0
  BY <1>a, <1>c, Ring, ContentsType DEF read_byte
<1>2. Length' = Length - 1
  BY <1>c, <1>1, Ring, Zenon DEF read_byte, Length
<1>3. nread' = (nread + 1) % UintMod /\ data' = data /\ ch' = data[nread % PIPESIZE]
  BY DEF read_byte
<1>4. ASSUME NEW k \in 1 .. Length - 1
      PROVE  data'[(nread' + k - 1) % PIPESIZE] = Contents[k + 1]
  <2>1. Contents[k + 1] = data[(nread + (k + 1) - 1) % PIPESIZE]
    BY <1>1 DEF Contents
  <2>2. nread + (k + 1) - 1 = nread + k
    BY <1>c
  <2>3. (nread' + k - 1) % PIPESIZE = (nread + k) % PIPESIZE
    <3>1. CASE nread + 1 < UintMod
      <4>1. nread' = nread + 1
        BY <1>c, <1>3, <3>1, Places
      <4>2. nread' + k - 1 = nread + k
        BY <1>c, <4>1
      <4> QED BY <4>2
    <3>2. CASE nread + 1 = UintMod
      <4>1. nread' = 0
        BY <1>a, <1>c, <1>3, <3>2, Places
      <4>2. nread' + k - 1 = k - 1 /\ k - 1 \in Nat /\ nread + k = (k - 1) + UintMod
        BY <1>a, <1>c, <3>2, <4>1
      <4> QED BY <4>2, Places
    <3> QED BY <1>a, <1>c, <3>1, <3>2
  <2> QED BY <1>3, <2>1, <2>2, <2>3
<1>5. Contents' = [k \in 1 .. Length - 1 |-> data'[(nread' + k - 1) % PIPESIZE]]
  BY <1>2 DEF Contents
<1>6. Contents' = Tail(Contents)
  <2>1. \A k \in 1 .. Length - 1 : Contents'[k] = Contents[k + 1] /\ k + 1 \in 1 .. Length
    BY <1>1, <1>4, <1>5
  <2>2. Contents' \in [1 .. Length - 1 -> Byte]
    <3>1. \A k \in 1 .. Length - 1 : Contents'[k] \in Byte
      BY <2>1, ContentsType
    <3> QED BY <1>5, <3>1
  <2> QED BY <1>1, <2>1, <2>2, ContentsType, IsTail
<1>7. Head(Contents) = Contents[1] /\ Contents # <<>>
  BY <1>1, ContentsType
<1>8. Contents[1] = data[nread % PIPESIZE]
  <2>1. nread + 1 - 1 = nread
    BY <1>c
  <2> QED BY <1>1, <2>1 DEF Contents
<1> QED BY <1>3, <1>6, <1>7, <1>8

\* Put, Get and the two closes of ByteQueue are write_byte, read_byte and
\* pipeclose; every other step of the pipe is invisible.
THEOREM Refinement == Spec => Fifo
<1>1. Init => Q!Init
  <2> SUFFICES ASSUME Init PROVE Q!Init
    OBVIOUS
  <2>1. Length = 0
    <3>1. Length = (0 % UintMod)
      BY DEF Init, Length
    <3>2. UintMod \in Nat \ {0}
      BY PipeAssumption
    <3>3. (0 % UintMod) = 0
      BY <3>2
    <3> QED BY <3>1, <3>3
  <2>2. Contents = <<>>
    BY <2>1 DEF Contents
  <2> QED BY <2>2 DEF Init, Q!Init, Contents, Length
<1>2. ASSUME IInv, [Next]_vars
      PROVE  [Q!Next]_(Q!vars)
  <2>1. ASSUME NEW p \in Procs, NEW v \in Byte, write_byte(p, v)
        PROVE  Q!Put(v)
    <3>1. readopen /\ writeopen
      BY <1>2, <2>1 DEF write_byte, IInv, LockInv, RefInv, OpenInv, Holders, Writing
    <3>2. Len(Contents) < PIPESIZE /\ Contents' = Append(Contents, v)
      BY <1>2, <2>1, PutSim, ContentsType
    <3>3. UNCHANGED <<ch, readopen, writeopen>>
      BY <2>1 DEF write_byte
    <3> QED BY Zenon, <3>1, <3>2, <3>3 DEF Q!Put, Contents, Length
  <2>2. ASSUME NEW p \in Procs, NEW fails \in BOOLEAN, read_byte(p, fails)
        PROVE  Q!Get
    <3>1. readopen
      BY <1>2, <2>2 DEF read_byte, IInv, RefInv, OpenInv, Holders, Reading
    <3>2. UNCHANGED <<readopen, writeopen>>
      BY <2>2 DEF read_byte
    <3> QED BY Zenon, <1>2, <2>2, <3>1, <3>2, GetSim DEF Q!Get, Contents, Length
  <2>3. ASSUME NEW p \in Procs, pipeclose(p)
        PROVE  Q!CloseRead \/ Q!CloseWrite
    <3>1. /\ pc[p] = "close_w" => writeopen
          /\ pc[p] = "close_r" => readopen
      BY <1>2 DEF IInv, OpenInv
    <3>2. UNCHANGED <<Contents, ch>>
      BY <2>3 DEF pipeclose, Contents, Length
    <3> QED BY <2>3, <3>1, <3>2 DEF pipeclose, Q!CloseRead, Q!CloseWrite, Contents, Length
  <2>4. ASSUME UNCHANGED <<data, nread, nwrite, ch, readopen, writeopen>>
        PROVE  UNCHANGED Q!vars
    BY <2>4 DEF Q!vars
  <2> QED BY ZenonT(60), <1>2, <2>1, <2>2, <2>3, <2>4 DEF Next, Step, Q!Next, vars, pipeVars, fork, fileclose,
            exit, kill, call, acquire, write_check, write_sleep, write_done, read_check,
            read_sleep, read_done
<1> QED BY <1>1, <1>2, Inductive, PTL DEF Spec, Fifo, Q!Spec
=============================================================================
