----------------------------- MODULE LogProofs -----------------------------
(***************************************************************************)
(* Theorems about Log, for any number of processes, blocks and crashes and *)
(* any size of the log.                                                    *)
(*                                                                         *)
(* First the part of the inductive invariant that is about the data: what  *)
(* the cache, the log and the home blocks hold at each stage of commit()   *)
(* and of recovery.  With it, every step of Log is a step of AtomicDisk or *)
(* changes nothing there.                                                  *)
(***************************************************************************)
EXTENDS LogControlProofs

USE LogAssumption

LEMMA CacheStep == IInv /\ Next => CacheInv'
<1> SUFFICES ASSUME IInv, Next PROVE CacheInv'
  OBVIOUS
<1> USE Types
\* A step that leaves the cache, the disk and the blocks in the log alone.
<1>1. ASSUME UNCHANGED <<cache, pin, disk>>, \A b \in Blocks : Pinned(b)' <=> Pinned(b)
      PROVE  CacheInv'
  BY <1>1 DEF CacheInv
<1>2. ASSUME NEW p \in Procs, \/ begin_op(p) \/ begin_op_sleep(p) \/ log_write_panic(p)
                              \/ end_op(p) \/ end_op_last(p)
      PROVE  CacheInv'
  <2>1. UNCHANGED <<cache, pin, disk, lh, tail>> /\ (Booting' <=> Booting)
    BY <1>2 DEF begin_op, begin_op_sleep, log_write_panic, end_op, end_op_last, diskVars,
                memVars, Booting
  <2>2. \A q \in Procs : pc'[q] = "install" <=> pc[q] = "install"
    BY SMTT(60), <1>2 DEF begin_op, begin_op_sleep, log_write_panic, end_op, end_op_last, Wakeup, memVars, TypeOK
  <2> QED
    BY <1>1, <2>1, <2>2 DEF Pinned, Installing
<1>3. ASSUME NEW p \in Procs, NEW b \in Blocks, NEW v \in Data, log_write(p, b, v)
      PROVE  CacheInv'
  <2>1. /\ pc[p] = "op" /\ UNCHANGED <<disk, mode, pc, tail>> /\ cache' = [cache EXCEPT ![b] = v]
        /\ ~ Booting /\ ~ Installing /\ ~ Booting' /\ ~ Installing'
    BY <1>3, OpFacts, Zenon DEF log_write, diskVars, Booting, Installing
  <2>2. /\ \A c \in Blocks : Pinned(c) <=> \E i \in DOMAIN lh : lh[i] = c
        /\ \A c \in Blocks : Pinned(c)' <=> \E i \in DOMAIN lh' : lh'[i] = c
    BY <2>1 DEF Pinned
  <2>3. v # NotCached
    OBVIOUS
  <2>4. CASE Logged(b)
    <3>1. UNCHANGED <<lh, pin>> /\ Pinned(b)
      BY <1>3, <2>2, <2>4 DEF log_write, Logged
    <3> QED
      <4>1. cache \in [Blocks -> Data \cup {NotCached}]
        BY DEF TypeOK
      <4>2. cache'[b] = v /\ \A c \in Blocks : c # b => cache'[c] = cache[c]
        BY <2>1, <4>1
      <4>3. \A c \in Blocks : Pinned(c)' <=> Pinned(c)
        BY <2>2, <3>1
      <4> QED
        BY <2>1, <2>3, <3>1, <4>2, <4>3 DEF CacheInv
  <2>5. CASE ~ Logged(b)
    <3>1. lh' = Append(lh, b) /\ pin' = [pin EXCEPT ![b] = @ + 1] /\ ~ Pinned(b)
      BY <1>3, <2>2, <2>5 DEF log_write, Logged
    <3>2. lh'[Len(lh) + 1] = b /\ \A i \in DOMAIN lh : lh'[i] = lh[i]
      BY <3>1, AppendFacts, LogTypes
    <3>3. \A i : i \in DOMAIN lh' <=> i \in DOMAIN lh \/ i = Len(lh) + 1
      BY <3>1, AppendFacts, LogTypes
    <3>4. \A c \in Blocks : Pinned(c)' <=> Pinned(c) \/ c = b
      BY <2>2, <3>2, <3>3
    <3>5. pin'[b] = 1 /\ \A c \in Blocks : c # b => pin'[c] = pin[c]
      BY <3>1 DEF CacheInv, TypeOK
    <3> QED
      BY SMTT(60), <2>1, <2>3, <3>1, <3>4, <3>5 DEF CacheInv, TypeOK
  <2> QED
    BY <2>4, <2>5
<1>4. ASSUME NEW p \in Procs, write_log(p) PROVE CacheInv'
  <2>1. pc[p] \in Committing /\ pc[p] # "install" /\ UNCHANGED <<cache, pin, disk, lh, pc, mode>>
    BY <1>4 DEF write_log, Committing
  <2>2. ~ Installing /\ ~ Installing' /\ (Booting' <=> Booting)
    BY <2>1, CommitFacts DEF Installing, Committing, Booting
  <2> QED
    BY <1>1, <2>1, <2>2 DEF Pinned
<1>5. ASSUME NEW p \in Procs, write_head(p) PROVE CacheInv'
  <2>1. pc[p] \in Committing /\ pc[p] # "install" /\ UNCHANGED <<cache, pin, disk, lh, mode>> /\ tail' = 0
    BY <1>5 DEF write_head, Committing
  <2>2. ~ Installing /\ (Booting' <=> Booting)
    BY <2>1, CommitFacts DEF Installing, Committing, Booting
  <2>3. \A i \in DOMAIN lh : i > 0
    BY DEF TypeOK
  <2> QED
    BY <1>1, <2>1, <2>2, <2>3 DEF Pinned
<1>6. ASSUME NEW p \in Procs, install_trans(p) PROVE CacheInv'
  <2> DEFINE b == lh[tail + 1]
  <2>1. /\ Installing /\ Installing' /\ ~ Booting /\ ~ Booting'
        /\ lh' = lh /\ tail' = tail + 1 /\ tail + 1 \in DOMAIN lh
    BY <1>6, NextBlock DEF install_trans, Installing, Booting
  <2>t. tail < Len(lh)
    BY <1>6 DEF install_trans
  <2>2. b \in Blocks
    BY <2>t, NextBlock
  <2>3. logblk[tail + 1] \in Data
    BY <2>t, NextBlock
  <2>4. /\ disk' = [disk EXCEPT ![b] = logblk[tail + 1]]
        /\ cache' = [cache EXCEPT ![b] = logblk[tail + 1]]
        /\ pin' = [pin EXCEPT ![b] = @ - 1]
    BY <1>6 DEF install_trans
  <2>5. \A i \in DOMAIN lh : (i > tail + 1) <=> i > tail /\ i # tail + 1
    <3>1. tail \in Int /\ \A i \in DOMAIN lh : i \in Int
      BY DEF TypeOK
    <3> QED
      BY <3>1
  <2>6. Pinned(b) /\ \A c \in Blocks : Pinned(c)' <=> Pinned(c) /\ c # b
    <3>1. tail + 1 > tail /\ \A i, j \in DOMAIN lh : lh[i] = lh[j] => i = j
      BY DEF HeadInv, TypeOK
    <3> QED
      BY <2>1, <2>5, <3>1 DEF Pinned
  <2>7. pin[b] = 1
    BY <2>2, <2>6 DEF CacheInv
  <2> HIDE DEF b
  <2> QED
    BY <2>2, <2>3, <2>4, <2>6, <2>7 DEF CacheInv, TypeOK
<1>7. ASSUME NEW p \in Procs, erase_head(p) PROVE CacheInv'
  <2>1. Installing /\ tail = Len(lh) /\ lh' = <<>> /\ UNCHANGED <<cache, pin, disk>>
    BY <1>7 DEF erase_head, Installing
  <2>2. \A b \in Blocks : ~ Pinned(b)
    BY <2>1 DEF Pinned, TypeOK
  <2>3. \A b \in Blocks : ~ Pinned(b)'
    BY <2>1 DEF Pinned
  <2> QED
    BY <1>1, <2>1, <2>2, <2>3
<1>8. ASSUME NEW p \in Procs, committed(p) PROVE CacheInv'
  <2>1. lh = <<>> /\ UNCHANGED <<cache, pin, disk, lh>>
    BY <1>8 DEF committed, HeadInv, diskVars
  <2> QED
    BY <1>1, <2>1 DEF Pinned
<1>9. ASSUME NEW b \in Blocks, bget_recycle(b) PROVE CacheInv'
  <2>1. UNCHANGED <<pin, disk, lh, tail, pc, mode>> /\ cache' = [cache EXCEPT ![b] = NotCached] /\ pin[b] = 0
    BY <1>9 DEF bget_recycle, diskVars
  <2>2. ~ Pinned(b)
    BY <2>1 DEF CacheInv
  <2>3. \A c \in Blocks : Pinned(c)' <=> Pinned(c)
    BY <2>1 DEF Pinned, Booting, Installing
  <2> QED
    BY <2>1, <2>2, <2>3 DEF CacheInv, TypeOK
<1>10. CASE Crash
  <2>1. \A b \in Blocks : ~ Pinned(b)'
    BY <1>10 DEF Crash, Pinned, Booting
  <2> QED
    BY <1>10, <2>1 DEF Crash, CacheInv
<1>11. CASE read_head
  <2>1. Booting /\ Booting' /\ UNCHANGED <<cache, pin, disk>>
    BY <1>11 DEF read_head, Booting, diskVars
  <2> QED
    BY <1>1, <2>1 DEF Pinned
<1>12. CASE recover_install
  <2>1. Booting /\ Booting' /\ lh[tail + 1] \in Blocks /\ UNCHANGED pin
    BY SMTT(60), <1>12 DEF recover_install, Booting, TypeOK
  <2>2. \A c \in Blocks : ~ Pinned(c) /\ ~ Pinned(c)'
    BY <2>1 DEF Pinned
  <2> QED
    BY <1>12, <2>1, <2>2 DEF recover_install, CacheInv, TypeOK
<1>13. CASE recover_erase
  <2>1. Booting /\ lh' = <<>> /\ UNCHANGED <<cache, pin, disk>>
    BY <1>13 DEF recover_erase, Booting
  <2> QED
    BY <1>1, <2>1 DEF Pinned
<1>14. CASE panic
  BY <1>1, <1>14 DEF panic, vars, memVars, diskVars, Pinned, Booting, Installing
<1> QED
  BY <1>2, <1>3, <1>4, <1>5, <1>6, <1>7, <1>8, <1>9, <1>10, <1>11, <1>12, <1>13, <1>14
     DEF Next, Commit, Recover

LEMMA CopyStep == IInv /\ Next => CopyInv'
<1> SUFFICES ASSUME IInv, Next PROVE CopyInv'
  OBVIOUS
<1> USE Types
\* A step after which nobody writes or installs the log.
<1>1. ASSUME \A q \in Procs : pc'[q] \notin {"write_log", "install"}, mode' # "recover"
      PROVE  CopyInv'
  BY <1>1 DEF CopyInv, Installing
<1>2. ASSUME NEW p \in Procs, \/ begin_op(p) \/ begin_op_sleep(p) \/ log_write_panic(p) \/ end_op(p)
      PROVE  CopyInv'
  <2>1. /\ UNCHANGED <<cache, disk, logblk, lh, tail>>
        /\ mode' = "recover" <=> mode = "recover"
    BY <1>2 DEF begin_op, begin_op_sleep, log_write_panic, end_op, diskVars, memVars
  <2>2. \A q \in Procs : /\ pc'[q] = "install" <=> pc[q] = "install"
                         /\ pc'[q] = "write_log" <=> pc[q] = "write_log"
    BY ZenonT(60), <1>2 DEF begin_op, begin_op_sleep, log_write_panic, end_op, Wakeup, memVars, TypeOK
  <2> QED
    BY <2>1, <2>2 DEF CopyInv, Installing
<1>3. ASSUME NEW p \in Procs, NEW b \in Blocks, NEW v \in Data, log_write(p, b, v)
      PROVE  CopyInv'
  <2>1. pc[p] = "op" /\ pc' = pc /\ mode' = "up"
    BY <1>3 DEF log_write
  <2> QED
    BY <1>1, <2>1, OpFacts DEF Committing
<1>4. ASSUME NEW p \in Procs, end_op_last(p) PROVE CopyInv'
  <2>1. tail' = 0 /\ mode' = "up" /\ \A q \in Procs : pc'[q] # "install"
    BY <1>4, OpFacts DEF end_op_last, Committing, TypeOK
  <2>2. ~ \E i : i \in 1 .. tail'
    BY <2>1
  <2> QED
    BY <2>1, <2>2, Zenon DEF CopyInv, Installing
<1>5. ASSUME NEW p \in Procs, write_log(p) PROVE CopyInv'
  <2>1. /\ pc[p] = "write_log" /\ mode = "up" /\ UNCHANGED <<cache, lh, pc, mode>>
        /\ tail + 1 \in 1 .. LOGSIZE /\ tail + 1 \in DOMAIN lh /\ tail' = tail + 1
        /\ logblk' = [logblk EXCEPT ![tail + 1] = bread(lh[tail + 1])]
    BY <1>5, NextBlock DEF write_log
  <2>2. ~ Booting /\ ~ Installing
    BY <2>1, CommitFacts DEF Installing, Committing
  <2>3. lh[tail + 1] \in Blocks /\ Pinned(lh[tail + 1])
    BY SMTT(60), <2>1, <2>2 DEF Pinned, TypeOK
  <2>4. bread(lh[tail + 1]) = cache[lh[tail + 1]]
    BY <2>3 DEF bread, CacheInv
  <2>5. \A i \in 1 .. tail : logblk'[i] = cache[lh[i]]
    BY SMTT(60), <2>1 DEF CopyInv, TypeOK
  <2>6. logblk'[tail + 1] = cache[lh[tail + 1]]
    BY <2>1, <2>4 DEF TypeOK
  <2>7. \A i \in 1 .. tail' : logblk'[i] = cache'[lh'[i]]
    BY SMTT(60), <2>1, <2>5, <2>6 DEF TypeOK
  <2> QED
    BY <2>1, <2>2, <2>7, Zenon DEF CopyInv, Installing
<1>6. ASSUME NEW p \in Procs, write_head(p) PROVE CopyInv'
  <2>1. /\ pc[p] = "write_log" /\ pc[p] \in Committing /\ mode' = "up" /\ UNCHANGED <<cache, lh, logblk>>
        /\ tail = Len(lh) /\ tail' = 0
    BY <1>6, Zenon DEF write_head, Committing
  <2>2. \A q \in Procs : pc'[q] # "write_log"
    BY <1>6, <2>1, CommitFacts DEF write_head, Committing, TypeOK
  <2>3. \A i \in DOMAIN lh : logblk[i] = cache[lh[i]]
    BY <2>1 DEF CopyInv, TypeOK
  <2> QED
    BY <2>1, <2>2, <2>3 DEF CopyInv
<1>7. ASSUME NEW p \in Procs, install_trans(p) PROVE CopyInv'
  <2> DEFINE b == lh[tail + 1]
  <2>1. /\ Installing /\ pc[p] \in Committing /\ pc[p] = "install"
        /\ UNCHANGED <<lh, logblk, pc, mode>> /\ tail' = tail + 1 /\ tail + 1 \in DOMAIN lh
    BY <1>7, NextBlock DEF install_trans, Installing, Committing
  <2>2. b \in Blocks
    BY <2>1 DEF TypeOK
  <2>3. /\ disk' = [disk EXCEPT ![b] = logblk[tail + 1]]
        /\ cache' = [cache EXCEPT ![b] = logblk[tail + 1]]
    BY <1>7 DEF install_trans
  <2>4. \A i \in DOMAIN lh : i # tail + 1 => lh[i] \in Blocks /\ lh[i] # b
    BY <2>1 DEF HeadInv, TypeOK
  <2>5. \A q \in Procs : pc'[q] # "write_log"
    BY <2>1, CommitFacts DEF Committing
  <2>6. \A i \in DOMAIN lh' : i > tail' => logblk'[i] = cache'[lh'[i]]
    <3> HIDE DEF b
    <3> SUFFICES ASSUME NEW i \in DOMAIN lh, i > tail + 1 PROVE logblk[i] = cache'[lh[i]]
      BY <2>1
    <3>1. i > tail /\ i # tail + 1
      BY LogTypes
    <3>2. logblk[i] = cache[lh[i]]
      BY <2>1, <3>1 DEF CopyInv
    <3> QED
      BY <2>3, <2>4, <3>1, <3>2 DEF TypeOK
  <2>7. \A i \in 1 .. tail' : disk'[lh'[i]] = logblk'[i]
    <3> SUFFICES ASSUME NEW i \in 1 .. tail + 1 PROVE disk'[lh[i]] = logblk[i]
      BY <2>1
    <3>1. CASE i = tail + 1
      BY <2>2, <2>3, <3>1 DEF TypeOK
    <3>2. CASE i # tail + 1
      <4>0. tail \in Nat /\ Len(lh) \in Nat /\ DOMAIN lh = 1 .. Len(lh)
        BY DEF TypeOK
      <4>1. i \in 1 .. tail /\ i \in DOMAIN lh
        BY <2>1, <3>2, <4>0
      <4>2. disk[lh[i]] = logblk[i]
        BY <2>1, <4>1 DEF CopyInv
      <4> HIDE DEF b
      <4> QED
        BY <2>3, <2>4, <3>2, <4>1, <4>2 DEF TypeOK
    <3> QED
      BY <3>1, <3>2
  <2> QED
    BY <2>5, <2>6, <2>7 DEF CopyInv
<1>8. ASSUME NEW p \in Procs, erase_head(p) \/ committed(p) PROVE CopyInv'
  <2>1. pc[p] \in Committing /\ mode' = "up"
    BY <1>8 DEF erase_head, committed, Committing
  <2>2. \A q \in Procs : pc'[q] \notin {"write_log", "install"}
    BY ZenonT(60), <1>8, <2>1, CommitFacts DEF erase_head, committed, Wakeup, Committing, TypeOK
  <2> QED
    BY <1>1, <2>1, <2>2
<1>9. ASSUME NEW b \in Blocks, bget_recycle(b) PROVE CopyInv'
  <2>1. /\ UNCHANGED <<disk, logblk, lh, tail, pc, mode>> /\ mode = "up"
        /\ cache' = [cache EXCEPT ![b] = NotCached] /\ pin[b] = 0
    BY <1>9, Zenon DEF bget_recycle, diskVars
  <2>2. ~ Pinned(b) /\ ~ Booting
    BY <2>1 DEF CacheInv, Booting
  <2>3. \A i \in DOMAIN lh : lh[i] \in Blocks
    BY DEF TypeOK
  <2>4. ASSUME NEW p \in Procs, pc[p] = "write_log", NEW i \in 1 .. tail
        PROVE  logblk'[i] = cache'[lh'[i]]
    <3>1. ~ Installing
      BY <2>4, CommitFacts DEF Installing, Committing
    <3>2. i \in DOMAIN lh
      BY DEF TailInv, TypeOK
    <3>3. lh[i] # b
      BY <2>2, <3>1, <3>2 DEF Pinned
    <3>4. logblk[i] = cache[lh[i]]
      BY <2>4 DEF CopyInv
    <3> QED
      BY <2>1, <2>3, <3>2, <3>3, <3>4 DEF TypeOK
  <2>5. ASSUME Installing, NEW i \in DOMAIN lh, i > tail PROVE logblk'[i] = cache'[lh'[i]]
    <3>1. lh[i] # b
      BY <2>2, <2>5 DEF Pinned
    <3>2. logblk[i] = cache[lh[i]]
      BY <2>5 DEF CopyInv
    <3> QED
      BY <2>1, <2>3, <3>1, <3>2 DEF TypeOK
  <2> QED
    BY <2>1, <2>4, <2>5, Zenon DEF CopyInv, Installing
<1>10. CASE Crash
  BY <1>1, <1>10 DEF Crash
<1>11. CASE read_head
  <2>1. \A q \in Procs : pc'[q] = "begin"
    BY <1>11 DEF read_head, OpsInv, Booting
  <2>2. tail' = 0
    BY <1>11, <2>1 DEF read_head, TailInv
  <2> QED
    BY <2>1, <2>2 DEF CopyInv, Installing
<1>12. CASE recover_install
  <2> DEFINE b == lh[tail + 1]
  <2>1. /\ UNCHANGED <<lh, logblk, pc>> /\ tail' = tail + 1 /\ tail + 1 \in DOMAIN lh
        /\ disk' = [disk EXCEPT ![b] = logblk[tail + 1]] /\ mode = "recover"
    BY <1>12, NextBlock DEF recover_install
  <2>2. \A i \in DOMAIN lh : lh[i] \in Blocks /\ (i # tail + 1 => lh[i] # b)
    BY SMTT(60), <2>1 DEF HeadInv, TypeOK
  <2>3. \A i \in 1 .. tail' : disk'[lh'[i]] = logblk'[i]
    <3> SUFFICES ASSUME NEW i \in 1 .. tail + 1 PROVE disk'[lh[i]] = logblk[i]
      BY <2>1
    <3>1. CASE i = tail + 1
      BY <2>1, <2>2, <3>1 DEF TypeOK
    <3>2. CASE i # tail + 1
      <4>0. tail \in Nat /\ Len(lh) \in Nat /\ DOMAIN lh = 1 .. Len(lh)
        BY DEF TypeOK
      <4>1. i \in 1 .. tail /\ i \in DOMAIN lh
        BY <2>1, <3>2, <4>0
      <4>2. disk[lh[i]] = logblk[i]
        BY <2>1, <4>1 DEF CopyInv
      <4> HIDE DEF b
      <4> QED
        BY SMTT(60), <2>1, <2>2, <3>2, <4>1, <4>2 DEF TypeOK
    <3> QED
      BY <3>1, <3>2
  <2>4. \A q \in Procs : pc'[q] = "begin"
    BY <2>1 DEF OpsInv, Booting
  <2> QED
    BY <2>3, <2>4 DEF CopyInv, Installing
<1>13. CASE recover_erase
  <2>1. \A q \in Procs : pc'[q] = "begin"
    BY <1>13 DEF recover_erase, OpsInv, Booting
  <2> QED
    BY <1>1, <1>13, <2>1 DEF recover_erase
<1>14. CASE panic
  BY <1>14 DEF panic, vars, memVars, diskVars, CopyInv, Installing
<1> QED
  BY <1>2, <1>3, <1>4, <1>5, <1>6, <1>7, <1>8, <1>9, <1>10, <1>11, <1>12, <1>13, <1>14
     DEF Next, Commit, Recover

LEMMA StepInv == IInv /\ [Next]_vars /\ Counted' => IInv'
<1>1. IInv /\ Next /\ Counted' => IInv'
  BY TypeStep, OpsStep, HeadStep, TailStep, CacheStep, CopyStep, WroteStep DEF IInv
<1>2. IInv /\ UNCHANGED vars /\ Counted' => IInv'
  <2> SUFFICES ASSUME IInv, UNCHANGED vars, Counted' PROVE IInv'
    OBVIOUS
  <2> USE DEF vars, diskVars, memVars, Booting, Installing
  <2>1. TypeOK' /\ HeadInv' /\ TailInv' /\ CopyInv' /\ WroteInv'
    BY SMTT(60), Types DEF TypeOK, HeadInv, TailInv, CopyInv, WroteInv
  <2>2. OpsInv'
    BY Types DEF OpsInv
  <2>3. CacheInv'
    BY Types DEF CacheInv, Pinned
  <2> QED
    BY <2>1, <2>2, <2>3 DEF IInv
<1> QED
  BY <1>1, <1>2

-----------------------------------------------------------------------------
(* Log implements AtomicDisk. *)

\* recovered, of any header h, log l and home blocks d.
RecoveredOf(h, l, d) ==
  [b \in Blocks |->
     LET named == {i \in DOMAIN h : h[i] = b}
     IN  IF named = {} THEN d[b] ELSE l[CHOOSE i \in named : \A j \in named : j <= i]]

\* A header that names no block twice decides what recovery makes of a block.
LEMMA LastWins ==
  ASSUME NEW h \in Seq(Blocks), \A i, j \in DOMAIN h : h[i] = h[j] => i = j,
         NEW l, NEW d
  PROVE  /\ \A j \in DOMAIN h : RecoveredOf(h, l, d)[h[j]] = l[j]
         /\ \A b \in Blocks : (\A j \in DOMAIN h : h[j] # b) => RecoveredOf(h, l, d)[b] = d[b]
<1>1. ASSUME NEW j \in DOMAIN h PROVE RecoveredOf(h, l, d)[h[j]] = l[j]
  <2> DEFINE named == {i \in DOMAIN h : h[i] = h[j]}
  <2>1. named = {j} /\ h[j] \in Blocks /\ j <= j
    OBVIOUS
  <2>2. (CHOOSE i \in named : \A k \in named : k <= i) = j
    BY <2>1
  <2> QED
    BY <2>1, <2>2 DEF RecoveredOf
<1>2. ASSUME NEW b \in Blocks, \A j \in DOMAIN h : h[j] # b PROVE RecoveredOf(h, l, d)[b] = d[b]
  BY <1>2 DEF RecoveredOf
<1> QED
  BY <1>1, <1>2

LEMMA RecoveredNow ==
  ASSUME IInv
  PROVE  /\ \A j \in DOMAIN hdr : recovered[hdr[j]] = logblk[j]
         /\ \A b \in Blocks : (\A j \in DOMAIN hdr : hdr[j] # b) => recovered[b] = disk[b]
<1>1. hdr \in Seq(Blocks) /\ \A i, j \in DOMAIN hdr : hdr[i] = hdr[j] => i = j
  BY Types DEF TypeOK, HeadInv
<1>2. recovered = RecoveredOf(hdr, logblk, disk)
  BY DEF recovered, RecoveredOf
<1> QED
  BY <1>1, <1>2, LastWins

LEMMA RecoveredNext ==
  ASSUME IInv'
  PROVE  /\ \A j \in DOMAIN hdr' : recovered'[hdr'[j]] = logblk'[j]
         /\ \A b \in Blocks : (\A j \in DOMAIN hdr' : hdr'[j] # b) => recovered'[b] = disk'[b]
<1>1. hdr' \in Seq(Blocks) /\ \A i, j \in DOMAIN hdr' : hdr'[i] = hdr'[j] => i = j
  BY DEF IInv, TypeOK, HeadInv
<1>2. recovered' = RecoveredOf(hdr', logblk', disk')
  BY DEF recovered, RecoveredOf
<1> QED
  BY <1>1, <1>2, LastWins

\* recovered is a function on the blocks, so it is enough to look at each.
LEMMA RecoveredSame ==
  ASSUME \A b \in Blocks : recovered'[b] = recovered[b]
  PROVE  recovered' = recovered
BY SMTT(60) DEF recovered

\* Once every block of the log is installed, the home blocks are what
\* recovery would make of them.
LEMMA Installed ==
  ASSUME IInv, hdr = lh, tail = Len(lh), Installing \/ mode = "recover"
  PROVE  \A b \in Blocks : recovered[b] = disk[b]
<1> USE Types
<1> SUFFICES ASSUME NEW b \in Blocks PROVE recovered[b] = disk[b]
  OBVIOUS
<1>1. CASE \E j \in DOMAIN hdr : hdr[j] = b
  <2>1. PICK j \in DOMAIN hdr : hdr[j] = b
    BY <1>1
  <2>2. j \in 1 .. tail
    BY DEF TypeOK
  <2>3. disk[lh[j]] = logblk[j]
    BY <2>2 DEF CopyInv
  <2> QED
    BY <2>1, <2>3, RecoveredNow
<1>2. CASE \A j \in DOMAIN hdr : hdr[j] # b
  BY <1>2, RecoveredNow
<1> QED
  BY <1>1, <1>2

LEMMA InitSim == Init => A!Init
<1> SUFFICES ASSUME Init PROVE A!Init
  OBVIOUS
<1>1. recovered = [b \in Blocks |-> Zero]
  BY DEF Init, recovered
<1>2. contents = recovered
  BY DEF Init, contents
<1>3. outstanding = 0
  BY DEF Init
<1> QED
  BY <1>1, <1>2, <1>3 DEF A!Init

LEMMA StepSim == IInv /\ IInv' /\ [Next]_vars => [A!Next]_(A!vars)
<1> SUFFICES ASSUME IInv, IInv', [Next]_vars PROVE [A!Next]_(A!vars)
  OBVIOUS
<1> USE Types
<1>i. IInv'
  OBVIOUS
<1>r. ASSUME UNCHANGED <<disk, logblk, hdr>> PROVE recovered' = recovered
  <2>1. recovered = RecoveredOf(hdr, logblk, disk)
    BY DEF recovered, RecoveredOf
  <2>2. recovered' = RecoveredOf(hdr', logblk', disk')
    BY DEF recovered, RecoveredOf
  <2> QED
    BY <1>r, <2>1, <2>2
<1>c. ASSUME UNCHANGED <<disk, cache>>, mode \in {"up", "panic"}, mode' \in {"up", "panic"}
      PROVE  contents' = contents
  BY <1>c DEF contents, bread
<1>s. ASSUME recovered' = recovered, contents' = contents, outstanding' = outstanding
      PROVE  [A!Next]_(A!vars)
  BY <1>s DEF A!vars
<1>1. ASSUME NEW p \in Procs, begin_op(p) PROVE A!Next
  <2>1. UNCHANGED <<disk, logblk, hdr, cache, mode>> /\ mode = "up" /\ outstanding' = outstanding + 1
    BY <1>1 DEF begin_op, diskVars
  <2> QED
    BY <1>r, <1>c, <2>1 DEF A!Next, A!BeginOp
<1>2. ASSUME NEW p \in Procs, begin_op_sleep(p) \/ log_write_panic(p) \/ committed(p)
      PROVE  [A!Next]_(A!vars)
  <2>1. /\ UNCHANGED <<disk, logblk, hdr, cache, outstanding>>
        /\ mode \in {"up", "panic"} /\ mode' \in {"up", "panic"}
    BY <1>2 DEF begin_op_sleep, log_write_panic, committed, diskVars, memVars
  <2> QED
    BY <1>r, <1>c, <1>s, <2>1
<1>3. ASSUME NEW p \in Procs, NEW b \in Blocks, NEW v \in Data, log_write(p, b, v)
      PROVE  A!Next
  <2>1. /\ UNCHANGED <<disk, logblk, hdr, mode, outstanding>> /\ mode = "up" /\ pc[p] = "op"
        /\ cache' = [cache EXCEPT ![b] = v]
    BY <1>3 DEF log_write, diskVars
  <2>2. contents' = [contents EXCEPT ![b] = v]
    BY Zenon, <2>1 DEF contents, bread, TypeOK
  <2>3. outstanding > 0
    BY <2>1, OpFacts
  <2>4. A!Write(b, v)
    BY <1>r, <2>1, <2>2, <2>3 DEF A!Write
  <2> QED
    BY <2>4 DEF A!Next
<1>4. ASSUME NEW p \in Procs, end_op(p) \/ end_op_last(p) PROVE A!Next
  <2>1. /\ UNCHANGED <<disk, logblk, hdr, cache, mode>> /\ mode = "up"
        /\ outstanding > 0 /\ outstanding' = outstanding - 1
    BY <1>4 DEF end_op, end_op_last, diskVars, TypeOK
  <2> QED
    BY <1>r, <1>c, <2>1 DEF A!Next, A!EndOp
<1>5. ASSUME NEW p \in Procs, write_log(p) PROVE [A!Next]_(A!vars)
  <2>1. /\ UNCHANGED <<disk, hdr, cache, mode, outstanding>> /\ mode = "up"
        /\ pc[p] = "write_log" /\ pc[p] \in Committing
    BY <1>5 DEF write_log, Committing
  <2>2. ~ Installing /\ ~ Booting
    BY <2>1, CommitFacts DEF Installing, Committing
  <2>3. hdr = <<>>
    BY <2>2 DEF HeadInv
  <2>4. recovered' = recovered
    BY <2>1, <2>3 DEF recovered
  <2> QED
    BY <1>c, <1>s, <2>1, <2>4
<1>6. ASSUME NEW p \in Procs, write_head(p) PROVE A!Next
  <2>1. /\ UNCHANGED <<disk, logblk, cache, mode, outstanding, lh>> /\ mode = "up"
        /\ hdr' = lh /\ tail = Len(lh)
        /\ pc[p] = "write_log" /\ pc[p] \in Committing
    BY <1>6 DEF write_head, Committing
  <2>2. outstanding = 0 /\ ~ Installing /\ ~ Booting
    BY <2>1, CommitFacts DEF Installing, Committing
  <2>3. ASSUME NEW b \in Blocks PROVE recovered'[b] = bread(b)
    <3>1. CASE \E j \in DOMAIN lh : lh[j] = b
      <4>1. PICK j \in DOMAIN lh : lh[j] = b
        BY <3>1
      <4>2. j \in 1 .. tail
        BY <2>1 DEF TypeOK
      <4>3. logblk[j] = cache[b]
        BY <2>1, <4>1, <4>2 DEF CopyInv
      <4>4. Pinned(b)
        BY <2>2, <4>1 DEF Pinned
      <4>5. bread(b) = cache[b]
        BY <4>4 DEF bread, CacheInv
      <4> QED
        BY <1>i, <2>1, <4>1, <4>3, <4>5, RecoveredNext
    <3>2. CASE \A j \in DOMAIN lh : lh[j] # b
      <4>1. ~ Pinned(b)
        BY <3>2 DEF Pinned
      <4>2. bread(b) = disk[b]
        BY <4>1 DEF bread, CacheInv
      <4> QED
        BY <1>i, <2>1, <3>2, <4>2, RecoveredNext
    <3> QED
      BY <3>1, <3>2
  <2>4. recovered' = contents
    <3>1. contents = [b \in Blocks |-> bread(b)]
      BY <2>1 DEF contents
    <3>2. recovered' = [b \in Blocks |-> recovered'[b]]
      BY DEF recovered
    <3> QED
      BY <2>3, <3>1, <3>2
  <2> QED
    BY <1>c, <2>1, <2>2, <2>4 DEF A!Next, A!Commit
<1>7. ASSUME tail + 1 \in DOMAIN lh, hdr = lh, UNCHANGED <<lh, hdr, logblk>>,
             disk' = [disk EXCEPT ![lh[tail + 1]] = logblk[tail + 1]]
      PROVE  recovered' = recovered
  <2>1. ASSUME NEW b \in Blocks PROVE recovered'[b] = recovered[b]
    <3>1. CASE \E j \in DOMAIN hdr : hdr[j] = b
      BY <1>7, <1>i, <3>1, RecoveredNow, RecoveredNext
    <3>2. CASE \A j \in DOMAIN hdr : hdr[j] # b
      <4>1. disk'[b] = disk[b]
        BY <1>7, <3>2 DEF TypeOK
      <4> QED
        BY <1>7, <1>i, <3>2, <4>1, RecoveredNow, RecoveredNext
    <3> QED
      BY <3>1, <3>2
  <2> QED
    BY <2>1, RecoveredSame
<1>8. ASSUME NEW p \in Procs, install_trans(p) PROVE [A!Next]_(A!vars)
  <2> DEFINE b == lh[tail + 1]
  <2>1. /\ UNCHANGED <<lh, hdr, logblk, mode, outstanding>> /\ mode = "up" /\ Installing
        /\ tail + 1 \in DOMAIN lh /\ tail + 1 > tail
        /\ disk' = [disk EXCEPT ![b] = logblk[tail + 1]]
        /\ cache' = [cache EXCEPT ![b] = logblk[tail + 1]]
    BY <1>8, NextBlock DEF install_trans, Installing
  <2>2. hdr = lh
    BY <2>1 DEF HeadInv
  <2>3. b \in Blocks
    BY <2>1 DEF TypeOK
  <2>4. logblk[tail + 1] = cache[b]
    BY <2>1 DEF CopyInv
  <2>5. logblk[tail + 1] # NotCached
    BY SMTT(60), <2>1 DEF TypeOK
  <2>6. recovered' = recovered
    BY <1>7, <2>1, <2>2
  <2> HIDE DEF b
  <2>7. \A c \in Blocks : IF cache'[c] = NotCached THEN disk'[c] = bread(c) ELSE cache'[c] = bread(c)
    BY SMTT(60), <2>1, <2>3, <2>4, <2>5 DEF bread, TypeOK
  <2>8. contents' = contents
    BY <2>1, <2>7 DEF contents, bread
  <2> QED
    BY <1>s, <2>1, <2>6, <2>8
<1>9. ASSUME NEW p \in Procs, erase_head(p) PROVE [A!Next]_(A!vars)
  <2>1. /\ UNCHANGED <<disk, cache, mode, outstanding>> /\ mode = "up" /\ Installing
        /\ tail = Len(lh) /\ hdr' = <<>>
    BY <1>9 DEF erase_head, Installing
  <2>2. \A b \in Blocks : recovered[b] = disk[b]
    BY <2>1, Installed DEF HeadInv
  <2>3. \A b \in Blocks : recovered'[b] = disk[b]
    BY <2>1 DEF recovered
  <2>4. recovered' = recovered
    BY <2>2, <2>3, RecoveredSame
  <2> QED
    BY <1>c, <1>s, <2>1, <2>4
<1>10. ASSUME NEW b \in Blocks, bget_recycle(b) PROVE [A!Next]_(A!vars)
  <2>1. /\ UNCHANGED <<disk, logblk, hdr, mode, outstanding>> /\ mode = "up" /\ pin[b] = 0
        /\ cache' = [cache EXCEPT ![b] = NotCached]
    BY <1>10 DEF bget_recycle, diskVars
  <2>2. bread(b) = disk[b]
    BY <2>1 DEF CacheInv, bread
  <2>3. \A c \in Blocks : IF cache'[c] = NotCached THEN disk'[c] = bread(c) ELSE cache'[c] = bread(c)
    BY SMTT(60), <2>1, <2>2 DEF bread, TypeOK
  <2>4. contents' = contents
    BY <2>1, <2>3 DEF contents, bread
  <2> QED
    BY <1>r, <1>s, <2>1, <2>4
<1>11. CASE Crash
  <2>1. UNCHANGED <<disk, logblk, hdr>> /\ mode' = "read_head" /\ outstanding' = 0
    BY <1>11 DEF Crash, diskVars
  <2>2. contents' = recovered'
    BY <2>1 DEF contents
  <2> QED
    BY <1>r, <2>1, <2>2 DEF A!Next, A!Crash
<1>12. CASE read_head
  <2>1. UNCHANGED <<disk, logblk, hdr, outstanding>> /\ mode = "read_head" /\ mode' = "recover"
    BY <1>12 DEF read_head, diskVars
  <2>2. recovered' = recovered
    BY <1>r, <2>1
  <2>3. contents = recovered /\ contents' = recovered'
    BY <2>1 DEF contents
  <2> QED
    BY <1>s, <2>1, <2>2, <2>3
<1>13. CASE recover_install
  <2>1. /\ UNCHANGED <<lh, hdr, logblk, mode, outstanding>> /\ mode = "recover"
        /\ tail + 1 \in DOMAIN lh
        /\ disk' = [disk EXCEPT ![lh[tail + 1]] = logblk[tail + 1]]
    BY <1>13, NextBlock DEF recover_install
  <2>2. recovered' = recovered
    BY <1>7, <2>1 DEF HeadInv
  <2>3. contents = recovered /\ contents' = recovered'
    BY <2>1 DEF contents
  <2> QED
    BY <1>s, <2>1, <2>2, <2>3
<1>14. CASE recover_erase
  <2>1. /\ UNCHANGED <<disk, cache, outstanding>> /\ mode = "recover" /\ mode' = "up"
        /\ tail = Len(lh) /\ hdr' = <<>>
    BY <1>14 DEF recover_erase
  <2>2. \A b \in Blocks : recovered[b] = disk[b]
    BY <2>1, Installed DEF HeadInv
  <2>3. \A b \in Blocks : recovered'[b] = disk[b]
    BY <2>1 DEF recovered
  <2>4. recovered' = recovered
    BY <2>2, <2>3, RecoveredSame
  <2>5. \A b \in Blocks : bread(b) = disk[b]
    BY <2>1 DEF CacheInv, Pinned, Booting, bread
  <2>6. contents' = [b \in Blocks |-> disk[b]]
    BY <2>1, <2>5 DEF contents, bread
  <2>7. contents = recovered
    BY <2>1 DEF contents
  <2>8. contents' = contents
    BY SMTT(60), <2>2, <2>6, <2>7 DEF recovered
  <2> QED
    BY <1>s, <2>1, <2>4, <2>8
<1>15. CASE panic \/ UNCHANGED vars
  <2>1. UNCHANGED <<disk, logblk, hdr, cache, mode, outstanding>>
    BY <1>15 DEF panic, vars, diskVars, memVars
  <2>2. recovered' = recovered
    BY <1>r, <2>1
  <2>3. contents' = contents
    BY <2>1, <2>2 DEF contents, bread
  <2> QED
    BY <1>s, <2>1, <2>2, <2>3
<1> QED
  BY <1>1, <1>2, <1>3, <1>4, <1>5, <1>6, <1>8, <1>9, <1>10, <1>11, <1>12, <1>13, <1>14, <1>15
     DEF Next, Commit, Recover

-----------------------------------------------------------------------------
(* log.outstanding counts the operations under way. *)

INSTANCE FiniteSetTheorems

InOp == {p \in Procs : pc[p] = "op"}

CountInv ==
  /\ pc \in [Procs -> {"begin", "asleep", "op", "write_log", "install", "committed"}]
  /\ outstanding = Cardinality(InOp)

LEMMA InOpFinite ==
  /\ Cardinality(Procs) \in Nat
  /\ IsFiniteSet(InOp) /\ Cardinality(InOp) \in 0 .. Cardinality(Procs)
BY FS_Subset, FS_CardinalityType DEF InOp

LEMMA CountImplies == CountInv => Counted
<1> SUFFICES ASSUME CountInv PROVE Counted
  OBVIOUS
<1>1. Cardinality(InOp) > 0 <=> InOp # {}
  BY InOpFinite, FS_EmptySet
<1>2. InOp # {} <=> \E p \in Procs : pc[p] = "op"
  BY DEF InOp
<1> QED
  BY <1>1, <1>2, InOpFinite DEF CountInv, Counted

LEMMA CountInit == Init => CountInv
<1> SUFFICES ASSUME Init PROVE CountInv
  OBVIOUS
<1>1. InOp = {}
  BY DEF Init, InOp
<1>2. Cardinality(InOp) = 0
  BY <1>1, FS_EmptySet
<1> QED
  BY <1>2 DEF Init, CountInv

LEMMA CountStep == CountInv /\ [Next]_vars => CountInv'
<1> SUFFICES ASSUME CountInv, [Next]_vars PROVE CountInv'
  OBVIOUS
<1>1. ASSUME NEW p \in Procs, begin_op(p) PROVE CountInv'
  <2>1. InOp' = InOp \cup {p} /\ p \notin InOp
    BY <1>1 DEF begin_op, InOp, CountInv
  <2>2. Cardinality(InOp') = Cardinality(InOp) + 1
    BY Zenon, <2>1, InOpFinite, FS_AddElement
  <2> QED
    BY <1>1, <2>2 DEF begin_op, CountInv
<1>2. ASSUME NEW p \in Procs, end_op(p) \/ end_op_last(p) PROVE CountInv'
  <2>1. InOp' = InOp \ {p} /\ p \in InOp
    BY <1>2 DEF end_op, end_op_last, Wakeup, InOp, CountInv
  <2>2. Cardinality(InOp') = Cardinality(InOp) - 1
    BY Zenon, <2>1, InOpFinite, FS_RemoveElement
  <2>3. outstanding' = outstanding - 1
    <3>1. CASE end_op(p)
      BY <3>1 DEF end_op
    <3>2. CASE end_op_last(p)
      <4>1. outstanding = 1 /\ outstanding' = 0
        BY <3>2 DEF end_op_last
      <4> QED BY <4>1
    <3> QED BY <1>2, <3>1, <3>2
  <2> QED
    BY <1>2, <2>2, <2>3 DEF end_op, end_op_last, Wakeup, CountInv
<1>3. ASSUME outstanding' = outstanding,
             pc' \in [Procs -> {"begin", "asleep", "op", "write_log", "install", "committed"}],
             \A q \in Procs : pc'[q] = "op" <=> pc[q] = "op"
      PROVE  CountInv'
  <2>1. InOp' = InOp
    BY <1>3 DEF InOp
  <2> QED
    BY <1>3, <2>1 DEF CountInv
<1>4. ASSUME NEW p \in Procs, begin_op_sleep(p) \/ write_head(p) \/ erase_head(p) \/ committed(p)
      PROVE  CountInv'
  <2>1. /\ outstanding' = outstanding
        /\ pc' \in [Procs -> {"begin", "asleep", "op", "write_log", "install", "committed"}]
    BY <1>4 DEF begin_op_sleep, write_head, erase_head, committed, Wakeup, CountInv
  <2>2. \A q \in Procs : pc'[q] = "op" <=> pc[q] = "op"
    BY <1>4 DEF begin_op_sleep, write_head, erase_head, committed, Wakeup, CountInv
  <2> QED
    BY <1>3, <2>1, <2>2
<1>5. ASSUME UNCHANGED <<pc, outstanding>> PROVE CountInv'
  BY <1>3, <1>5 DEF CountInv
<1>6. ASSUME NEW p \in Procs, write_log(p) \/ install_trans(p) \/ log_write_panic(p) PROVE CountInv'
  BY Zenon, <1>5, <1>6 DEF write_log, install_trans, log_write_panic, memVars
<1>7. ASSUME NEW p \in Procs, NEW b \in Blocks, NEW v \in Data, log_write(p, b, v) PROVE CountInv'
  BY <1>5, <1>7 DEF log_write
<1>8. ASSUME NEW b \in Blocks, bget_recycle(b) PROVE CountInv'
  BY Zenon, <1>5, <1>8 DEF bget_recycle
<1>9. CASE Recover \/ panic \/ UNCHANGED vars
  BY <1>5, <1>9 DEF Recover, read_head, recover_install, recover_erase, panic, vars, memVars
<1>10. CASE Crash
  <2>1. outstanding' = 0 /\ pc' = [p \in Procs |-> "begin"]
    BY <1>10 DEF Crash
  <2>2. InOp' = {}
    BY <2>1 DEF InOp
  <2>3. Cardinality(InOp') = 0
    BY <2>2, FS_EmptySet
  <2> QED
    BY <2>1, <2>3 DEF CountInv
<1> QED
  BY <1>1, <1>2, <1>4, <1>6, <1>7, <1>8, <1>9, <1>10 DEF Next, Commit

\* The inductive invariant, with the count it depends on.
LEMMA Inductive == Spec => [](CountInv /\ IInv)
<1>1. Init => CountInv /\ IInv
  BY CountInit, CountImplies, InitInv
<1>2. CountInv /\ CountInv' /\ IInv /\ [Next]_vars => IInv'
  <2>1. CountInv' => Counted'
    BY CountImplies, PTL
  <2> QED
    BY <2>1, StepInv
<1>3. CountInv /\ IInv /\ [Next]_vars => (CountInv /\ IInv)'
  BY <1>2, CountStep
<1> QED
  BY <1>1, <1>3, PTL DEF Spec

-----------------------------------------------------------------------------
(* Room in the log. *)

LEMMA ReservedFinite ==
  ASSUME NEW S \in SUBSET (Procs \X (1 .. MAXOPBLOCKS))
  PROVE  IsFiniteSet(S) /\ Cardinality(S) \in Nat
<1>1. IsFiniteSet(1 .. MAXOPBLOCKS)
  BY FS_Interval
<1>2. IsFiniteSet(Procs \X (1 .. MAXOPBLOCKS))
  BY <1>1, FS_Product
<1> QED
  BY <1>2, FS_Subset, FS_CardinalityType

\* What begin_op() counts: the blocks in the log and those still promised to the
\* admitted operations are at most LOGSIZE.
Promised == Len(lh) + Cardinality(Reserved) <= LOGSIZE

LEMMA PromisedStep == CountInv /\ IInv /\ IInv' /\ Promised /\ [Next]_vars => Promised'
<1> SUFFICES ASSUME CountInv, IInv, IInv', Promised, [Next]_vars PROVE Promised'
  OBVIOUS
<1> USE Types
<1>t. TypeOK'
  BY DEF IInv
<1>f. /\ IsFiniteSet(Reserved) /\ Cardinality(Reserved) \in Nat
      /\ IsFiniteSet(Reserved') /\ Cardinality(Reserved') \in Nat
  <2>1. Reserved \in SUBSET (Procs \X (1 .. MAXOPBLOCKS))
    BY DEF Reserved
  <2>2. Reserved' \in SUBSET (Procs \X (1 .. MAXOPBLOCKS))
    BY DEF Reserved
  <2> QED
    BY <2>1, <2>2, ReservedFinite
<1>1. ASSUME Reserved' \subseteq Reserved, Len(lh') <= Len(lh) PROVE Promised'
  <2>1. Cardinality(Reserved') <= Cardinality(Reserved)
    BY <1>1, <1>f, FS_Subset
  <2> QED
    <3>1. Len(lh) \in Nat /\ Len(lh') \in Nat
      <4>1. lh \in Seq(Blocks) /\ lh' \in Seq(Blocks)
        BY <1>t DEF TypeOK
      <4> QED
        BY <4>1
    <3> QED
      BY <1>1, <1>f, <2>1, <3>1 DEF Promised
<1>2. ASSUME NEW p \in Procs, begin_op(p) PROVE Promised'
  <2>1. InOp' = InOp \cup {p} /\ p \notin InOp
    BY <1>2 DEF begin_op, InOp, TypeOK
  <2>2. IsFiniteSet(InOp') /\ Cardinality(InOp') = outstanding + 1
    BY <2>1, InOpFinite, FS_AddElement DEF CountInv
  <2>3. IsFiniteSet(1 .. MAXOPBLOCKS) /\ Cardinality(1 .. MAXOPBLOCKS) = MAXOPBLOCKS
    BY FS_Interval
  <2>4. /\ IsFiniteSet(InOp' \X (1 .. MAXOPBLOCKS))
        /\ Cardinality(InOp' \X (1 .. MAXOPBLOCKS)) = (outstanding + 1) * MAXOPBLOCKS
    <3>1. /\ IsFiniteSet(InOp' \X (1 .. MAXOPBLOCKS))
          /\ Cardinality(InOp' \X (1 .. MAXOPBLOCKS)) = Cardinality(InOp') * Cardinality(1 .. MAXOPBLOCKS)
      BY <2>2, <2>3, FS_Product, Zenon
    <3> QED
      BY <2>2, <2>3, <3>1, Zenon
  <2>5. Reserved' \subseteq InOp' \X (1 .. MAXOPBLOCKS)
    <3> SUFFICES ASSUME NEW r \in Procs \X (1 .. MAXOPBLOCKS), pc'[r[1]] = "op"
                 PROVE  r \in InOp' \X (1 .. MAXOPBLOCKS)
      BY DEF Reserved
    <3>1. PICK q \in Procs, k \in 1 .. MAXOPBLOCKS : r = <<q, k>>
      OBVIOUS
    <3>2. q \in InOp'
      BY <3>1 DEF InOp
    <3> QED
      BY <3>1, <3>2
  <2>6. Cardinality(Reserved') <= (outstanding + 1) * MAXOPBLOCKS
    BY <2>4, <2>5, FS_Subset
  <2>7. Len(lh) + (outstanding + 1) * MAXOPBLOCKS <= LOGSIZE /\ lh' = lh
    BY SMTT(60), <1>2 DEF begin_op, Mustwait, TypeOK
  <2> QED
    <3>1. Len(lh) \in Nat /\ (outstanding + 1) * MAXOPBLOCKS \in Nat
      BY SMTT(60) DEF TypeOK
    <3> QED
      BY <1>f, <2>6, <2>7, <3>1 DEF Promised
<1>3. ASSUME NEW p \in Procs, NEW b \in Blocks, NEW v \in Data, log_write(p, b, v)
      PROVE  Promised'
  <2> DEFINE n == Cardinality(wrote[p])
  <2>1. /\ pc[p] = "op" /\ pc' = pc /\ wrote' = [wrote EXCEPT ![p] = @ \cup {b}]
        /\ Cardinality(wrote[p] \cup {b}) <= MAXOPBLOCKS
    BY <1>3 DEF log_write
  <2>2. IsFiniteSet(wrote[p]) /\ n \in Nat
    BY FS_Subset, FS_CardinalityType DEF TypeOK
  <2>3. Cardinality(wrote'[p]) = IF b \in wrote[p] THEN n ELSE n + 1
    BY ZenonT(60), <2>1, <2>2, FS_AddElement DEF TypeOK
  <2>4. \A q \in Procs : q # p => wrote'[q] = wrote[q]
    BY <2>1 DEF TypeOK
  <2> HIDE DEF n
  <2>5. Reserved' \subseteq Reserved
    <3> SUFFICES ASSUME NEW r \in Procs \X (1 .. MAXOPBLOCKS), pc'[r[1]] = "op",
                        r[2] > Cardinality(wrote'[r[1]])
                 PROVE  pc[r[1]] = "op" /\ r[2] > Cardinality(wrote[r[1]])
      BY DEF Reserved
    <3>1. CASE r[1] = p
      BY <2>1, <2>2, <2>3, <3>1 DEF n
    <3>2. CASE r[1] # p
      BY <2>1, <2>4, <3>2
    <3> QED
      BY <3>1, <3>2
  <2>6. CASE Logged(b)
    BY <1>1, <1>3, <2>5, <2>6 DEF log_write, TypeOK
  <2>7. CASE ~ Logged(b)
    <3>1. lh' = Append(lh, b)
      BY <1>3, <2>7 DEF log_write
    <3>2. Len(lh') = Len(lh) + 1
      BY <3>1 DEF TypeOK
    <3>3. b \notin wrote[p]
      BY <2>7 DEF WroteInv, Logged
    <3>4. n + 1 \in 1 .. MAXOPBLOCKS
      <4>1. Cardinality(wrote[p] \cup {b}) = n + 1
        BY Zenon, <2>2, <3>3, FS_AddElement DEF n
      <4> QED
        BY <2>1, <2>2, <4>1
    <3>5. <<p, n + 1>> \in Reserved /\ <<p, n + 1>> \notin Reserved'
      BY SMTT(60), <2>1, <2>2, <2>3, <3>3, <3>4 DEF Reserved, n
    <3>6. Reserved' \subseteq Reserved \ {<<p, n + 1>>}
      BY <2>5, <3>5
    <3>7. /\ IsFiniteSet(Reserved \ {<<p, n + 1>>})
          /\ Cardinality(Reserved \ {<<p, n + 1>>}) = Cardinality(Reserved) - 1
      <4> DEFINE R == Reserved
                 r == <<p, n + 1>>
      <4>1. IsFiniteSet(R) /\ r \in R
        BY <1>f, <3>5
      <4> HIDE DEF R, r
      <4>2. IsFiniteSet(R \ {r}) /\ Cardinality(R \ {r}) = Cardinality(R) - 1
        BY SMTT(60), <4>1, FS_RemoveElement
      <4> QED
        BY <4>2 DEF R, r
    <3>8. Cardinality(Reserved') <= Cardinality(Reserved) - 1
      <4>1. Cardinality(Reserved') <= Cardinality(Reserved \ {<<p, n + 1>>})
        BY <3>6, <3>7, FS_Subset, Zenon
      <4> QED
        BY <3>7, <4>1
    <3> QED
      BY <1>f, <3>2, <3>8, LogTypes DEF Promised
  <2> QED
    BY <2>6, <2>7
<1>4. ASSUME \A q \in Procs : pc'[q] # "op", Len(lh') <= LOGSIZE PROVE Promised'
  <2>1. Reserved' = {}
    BY <1>4 DEF Reserved
  <2>2. Cardinality(Reserved') = 0
    BY <2>1, FS_EmptySet
  <2> QED
    BY <1>4, <1>t, <2>2 DEF Promised, TypeOK
<1>5. ASSUME \A q \in Procs : pc'[q] = "op" => pc[q] = "op" /\ wrote'[q] = wrote[q], lh' = lh
      PROVE  Promised'
  <2>1. Reserved' \subseteq Reserved
    BY <1>5 DEF Reserved
  <2> QED
    BY <1>1, <1>5, <2>1 DEF TypeOK
<1>6. ASSUME NEW p \in Procs, begin_op_sleep(p) \/ log_write_panic(p) \/ end_op(p) \/ end_op_last(p)
      PROVE  Promised'
  <2>1. lh' = lh /\ \A q \in Procs : pc'[q] = "op" => pc[q] = "op" /\ wrote'[q] = wrote[q]
    BY <1>6 DEF begin_op_sleep, log_write_panic, end_op, end_op_last, Wakeup, memVars, TypeOK
  <2> QED
    BY <1>5, <2>1
<1>7. ASSUME NEW p \in Procs, Commit(p) PROVE Promised'
  <2>1. pc[p] \in Committing
    BY <1>7 DEF Commit, write_log, write_head, install_trans, erase_head, committed, Committing
  <2>2. \A q \in Procs : pc'[q] # "op"
    BY <1>7, <2>1, CommitFacts
       DEF Commit, write_log, write_head, install_trans, erase_head, committed, Wakeup, TypeOK
  <2> QED
    BY <1>4, <1>t, <2>2 DEF TypeOK
<1>8. CASE Recover
  <2>1. \A q \in Procs : pc'[q] = "begin"
    BY Zenon, <1>8 DEF Recover, read_head, recover_install, recover_erase, OpsInv, Booting
  <2> QED
    BY SMTT(60), <1>4, <1>t, <2>1 DEF TypeOK
<1>9. CASE Crash
  BY <1>4, <1>t, <1>9 DEF Crash, TypeOK
<1>10. ASSUME NEW b \in Blocks, bget_recycle(b) PROVE Promised'
  BY Zenon, <1>5, <1>10 DEF bget_recycle
<1>11. CASE panic \/ UNCHANGED vars
  BY <1>5, <1>11 DEF panic, vars, memVars
<1> QED
  BY <1>2, <1>3, <1>6, <1>7, <1>8, <1>9, <1>10, <1>11 DEF Next

-----------------------------------------------------------------------------
(* The theorems. *)

\* The variables of kernel/log.c keep their types in every reachable state;
\* in particular log.lh never outgrows the header block, whatever the number
\* of processes and wherever the machine crashes.
THEOREM TypeCorrect == Spec => []TypeOK
<1>1. IInv => TypeOK
  BY DEF IInv
<1> QED
  BY Inductive, <1>1, PTL

\* begin_op() never sleeps for ever because nobody is left to call wakeup():
\* while a process sleeps there, another one is in its operation or commits,
\* and end_op() wakes the sleeper.
THEOREM WakeupComes == Spec => []NoLostWakeup
<1>1. Init => NoLostWakeup
  BY DEF Init, NoLostWakeup
<1> QED
  BY Inductive, WakeStep, <1>1, PTL DEF Spec

\* For every number of operations, every limit and every size of the log on
\* disk: log_write() panics only when the admitted operations together have at
\* most Short blocks left to write, one with the sizes mkfs and the kernel use.
THEOREM RoomKept == Spec => []RoomReserved
<1>1. Init => Promised
  <2> SUFFICES ASSUME Init PROVE Promised
    OBVIOUS
  <2>1. Reserved = {} /\ Len(lh) = 0
    BY DEF Init, Reserved
  <2>2. Cardinality(Reserved) = 0
    BY <2>1, FS_EmptySet
  <2> QED
    BY <2>1, <2>2 DEF Promised
<1>2. IInv /\ Promised => RoomReserved
  <2> SUFFICES ASSUME IInv, Promised, TooBig PROVE Cardinality(Reserved) <= Short
    BY DEF RoomReserved
  <2>1. Cardinality(Reserved) \in Nat
    <3>1. Reserved \in SUBSET (Procs \X (1 .. MAXOPBLOCKS))
      BY DEF Reserved
    <3> QED
      BY <3>1, ReservedFinite
  <2>2. Len(lh) \in Nat
    <3>1. lh \in Seq(Blocks)
      BY DEF IInv, TypeOK
    <3> QED
      BY <3>1
  <2>3. LOGSIZE \in Nat /\ Size \in Nat
    BY LogAssumption
  <2> QED
    BY <2>1, <2>2, <2>3 DEF Promised, TooBig, Short
<1> QED
  BY Inductive, PromisedStep, <1>1, <1>2, PTL DEF Spec

\* The log of kernel/log.c implements the atomic disk: wherever the machine
\* crashes, in commit() and in recover_from_log() too, the file system finds
\* the effects of whole operations, and of all of those committed before.
THEOREM LogIsAtomic == Spec => Atomic
BY Inductive, InitSim, StepSim, PTL DEF Spec, Atomic, A!Spec
=============================================================================
