-------------------------- MODULE LogControlProofs --------------------------
(***************************************************************************)
(* The inductive invariant of Log, and the part of it that is about the    *)
(* control of kernel/log.c: who is in an operation, who commits, and what  *)
(* the headers in memory and on disk name.  log.outstanding is taken to    *)
(* count the operations here; LogProofs shows that it does.                *)
(***************************************************************************)
EXTENDS Log, TLAPS

USE LogAssumption

-----------------------------------------------------------------------------
(* The inductive invariant. *)

Booting == mode \in {"read_head", "recover"}
Committing == {"write_log", "install", "committed"}
Installing == \E p \in Procs : pc[p] = "install"

\* What matters of log.outstanding: it is zero when no operation is under way,
\* and only then.
Counted ==
  /\ outstanding \in 0 .. Cardinality(Procs) /\ Cardinality(Procs) \in Nat
  /\ outstanding > 0 <=> \E p \in Procs : pc[p] = "op"

\* At most one process commits, while no operation is under way.
OpsInv ==
  /\ committing => outstanding = 0
  /\ committing <=> \E p \in Procs : pc[p] \in Committing
  /\ \A p, q \in Procs : pc[p] \in Committing /\ pc[q] \in Committing => p = q
  /\ Booting => \A p \in Procs : pc[p] = "begin"
  /\ mode = "panic" => ~ committing

\* The header on disk is the one in memory while its blocks are installed,
\* and empty while operations run; neither names a block twice.
HeadInv ==
  /\ \A i, j \in DOMAIN lh : lh[i] = lh[j] => i = j
  /\ \A i, j \in DOMAIN hdr : hdr[i] = hdr[j] => i = j
  /\ mode = "read_head" => lh = <<>>
  /\ mode = "recover" \/ Installing => hdr = lh
  /\ ~ Booting /\ ~ Installing => hdr = <<>>
  /\ \A p \in Procs : pc[p] = "committed" => lh = <<>>
  /\ mode = "up" /\ outstanding = 0 /\ ~ committing => lh = <<>>

\* The loop variable of write_log() and install_trans().
TailInv ==
  /\ tail <= Len(lh)
  /\ tail # 0 => mode = "recover" \/ \E p \in Procs : pc[p] \in {"write_log", "install"}

\* Block b waits for its installation: its buffer is newer than its home.
Pinned(b) == ~ Booting /\ \E i \in DOMAIN lh : lh[i] = b /\ (Installing => i > tail)

\* log_write() pins each block once and install_trans() unpins it; only the
\* buffers of the blocks in between differ from the disk.
CacheInv ==
  \A b \in Blocks :
    /\ pin[b] = IF Pinned(b) THEN 1 ELSE 0
    /\ IF Pinned(b) THEN cache[b] # NotCached ELSE cache[b] \in {NotCached, disk[b]}

\* What the log blocks hold at each stage of commit() and of recovery.
CopyInv ==
  /\ \A p \in Procs : pc[p] = "write_log" => \A i \in 1 .. tail : logblk[i] = cache[lh[i]]
  /\ Installing => \A i \in DOMAIN lh : i > tail => logblk[i] = cache[lh[i]]
  /\ Installing \/ mode = "recover" => \A i \in 1 .. tail : disk[lh[i]] = logblk[i]

\* An operation's blocks are in the log until it ends.
WroteInv ==
  \A p \in Procs : /\ pc[p] # "op" => wrote[p] = {}
                  /\ \A b \in wrote[p] : \E i \in DOMAIN lh : lh[i] = b

IInv == /\ Counted /\ TypeOK
        /\ OpsInv /\ HeadInv /\ TailInv /\ CacheInv /\ CopyInv /\ WroteInv

-----------------------------------------------------------------------------
(* Lemmas. *)

LEMMA Types ==
  ASSUME IInv
  PROVE  Counted /\ TypeOK /\ OpsInv /\ HeadInv /\ TailInv /\ CacheInv /\ CopyInv /\ WroteInv
BY DEF IInv

LEMMA AppendFacts ==
  ASSUME NEW s \in Seq(Blocks), NEW b \in Blocks
  PROVE  /\ Append(s, b) \in Seq(Blocks) /\ Len(Append(s, b)) = Len(s) + 1
         /\ Append(s, b)[Len(s) + 1] = b
         /\ \A i \in DOMAIN s : i \in DOMAIN Append(s, b) /\ Append(s, b)[i] = s[i]
         /\ \A i \in DOMAIN Append(s, b) : i \in DOMAIN s \/ i = Len(s) + 1
         /\ Len(s) + 1 \in DOMAIN Append(s, b)
OBVIOUS

\* The block that write_log() and install_trans() copy next.
LEMMA LogTypes ==
  ASSUME TypeOK
  PROVE  /\ lh \in Seq(Blocks) /\ Len(lh) \in Nat /\ Len(lh) <= LOGSIZE
         /\ DOMAIN lh = 1 .. Len(lh)
         /\ pin \in [Blocks -> Nat] /\ tail \in Nat
  BY DEF TypeOK

LEMMA NextBlock ==
  ASSUME TypeOK, tail < Len(lh)
  PROVE  /\ tail + 1 \in DOMAIN lh /\ tail + 1 \in 1 .. LOGSIZE /\ tail + 1 > tail
         /\ lh[tail + 1] \in Blocks /\ logblk[tail + 1] \in Data
<1>1. tail \in Nat /\ Len(lh) \in Nat /\ Len(lh) <= LOGSIZE /\ DOMAIN lh = 1 .. Len(lh)
  BY DEF TypeOK
<1>2. tail + 1 \in DOMAIN lh /\ tail + 1 \in 1 .. LOGSIZE /\ tail + 1 > tail
  BY <1>1
<1> QED
  BY <1>2 DEF TypeOK

\* While an operation is under way nothing is committed or installed.
LEMMA OpFacts ==
  ASSUME IInv, NEW p \in Procs, pc[p] = "op"
  PROVE  /\ outstanding > 0 /\ ~ committing
         /\ \A q \in Procs : pc[q] \notin Committing
         /\ ~ Booting /\ ~ Installing
         /\ mode = "up" => tail = 0
<1> USE Types
<1>1. outstanding > 0
  BY DEF Counted
<1>2. ~ committing
  BY <1>1 DEF OpsInv
<1>3. \A q \in Procs : pc[q] \notin Committing
  BY <1>2 DEF OpsInv
<1>4. ~ Booting
  BY DEF OpsInv
<1>5. ~ Installing
  BY <1>3 DEF Installing, Committing
<1>6. mode = "up" => tail = 0
  BY <1>3 DEF TailInv, Committing
<1> QED
  BY <1>1, <1>2, <1>3, <1>4, <1>5, <1>6

\* While a process commits, every other process is before its operation.
LEMMA CommitFacts ==
  ASSUME IInv, NEW p \in Procs, pc[p] \in Committing
  PROVE  /\ outstanding = 0 /\ committing
         /\ \A q \in Procs : pc[q] # "op" /\ wrote[q] = {}
         /\ \A q \in Procs : q # p => pc[q] \notin Committing
         /\ ~ Booting /\ mode = "up"
<1> USE Types
<1>1. committing /\ outstanding = 0
  BY DEF OpsInv
<1>2. \A q \in Procs : pc[q] # "op"
  BY <1>1, OpFacts
<1>3. \A q \in Procs : wrote[q] = {}
  BY <1>2 DEF WroteInv
<1>4. \A q \in Procs : q # p => pc[q] \notin Committing
  BY DEF OpsInv
<1>5. ~ Booting
  BY DEF OpsInv, Committing
<1>6. mode = "up"
  BY <1>1, <1>5 DEF OpsInv, TypeOK, Booting
<1> QED
  BY <1>1, <1>2, <1>3, <1>4, <1>5, <1>6

-----------------------------------------------------------------------------
(* The inductive invariant holds initially and is kept by every step. *)

LEMMA InitInv == Init /\ Counted => IInv
<1> SUFFICES ASSUME Init, Counted PROVE IInv
  OBVIOUS
<1>2. TypeOK
  <2>1. hdr \in Seq(Blocks) /\ lh \in Seq(Blocks) /\ Len(hdr) = 0 /\ Len(lh) = 0
    BY DEF Init
  <2>2. cache \in [Blocks -> Data \cup {NotCached}] /\ wrote \in [Procs -> SUBSET Blocks]
    BY DEF Init
  <2>3. pin \in [Blocks -> Nat] /\ disk \in [Blocks -> Data] /\ logblk \in [1 .. LOGSIZE -> Data]
    BY DEF Init
  <2>4. pc \in [Procs -> {"begin", "asleep", "op", "write_log", "install", "committed"}]
    BY DEF Init
  <2>5. outstanding \in 0 .. Cardinality(Procs) /\ crashes \in 0 .. MaxCrashes /\ tail \in 0 .. LOGSIZE
    BY DEF Init, Counted
  <2>6. committing \in BOOLEAN /\ mode \in {"read_head", "recover", "up", "panic"}
    BY Zenon DEF Init
  <2> QED
    BY <2>1, <2>2, <2>3, <2>4, <2>5, <2>6 DEF TypeOK
<1>3. OpsInv
  BY DEF Init, OpsInv, Booting, Committing
<1>4. HeadInv
  BY DEF Init, HeadInv, Booting, Installing
<1>5. TailInv /\ CacheInv /\ CopyInv /\ WroteInv
  BY DEF Init, TailInv, CacheInv, CopyInv, WroteInv, Pinned, Booting, Installing
<1> QED
  BY <1>2, <1>3, <1>4, <1>5 DEF IInv

LEMMA TypeStep == IInv /\ Next /\ Counted' => TypeOK'
<1> SUFFICES ASSUME IInv, Next, Counted' PROVE TypeOK'
  OBVIOUS
<1> USE Types
<1>1. ASSUME NEW p \in Procs, begin_op(p) PROVE TypeOK'
  BY SMTT(60), <1>1 DEF begin_op, TypeOK, Counted, diskVars
<1>2. ASSUME NEW p \in Procs, begin_op_sleep(p) PROVE TypeOK'
  BY <1>2 DEF begin_op_sleep, TypeOK, diskVars
<1>3. ASSUME NEW p \in Procs, NEW b \in Blocks, NEW v \in Data, log_write(p, b, v)
      PROVE  TypeOK'
  <2>1. lh' \in Seq(Blocks) /\ Len(lh') <= LOGSIZE /\ pin' \in [Blocks -> Nat]
    <3>1. CASE Logged(b)
      BY <1>3, <3>1, LogTypes DEF log_write
    <3>2. CASE ~ Logged(b)
      <4>1. lh' = Append(lh, b) /\ pin' = [pin EXCEPT ![b] = @ + 1] /\ Len(lh) < LOGSIZE
        BY <1>3, <3>2, LogTypes DEF log_write, TooBig
      <4>2. lh' \in Seq(Blocks) /\ Len(lh') = Len(lh) + 1
        BY <4>1, LogTypes
      <4>3. pin' \in [Blocks -> Nat]
        BY <4>1, LogTypes
      <4> QED
        BY <4>1, <4>2, <4>3, LogTypes
    <3> QED
      BY <3>1, <3>2
  <2> QED
    BY Zenon, <1>3, <2>1 DEF log_write, TypeOK, diskVars
<1>4. ASSUME NEW p \in Procs, log_write_panic(p) PROVE TypeOK'
  BY <1>4 DEF log_write_panic, TypeOK, diskVars, memVars
<1>5. ASSUME NEW p \in Procs, end_op(p) PROVE TypeOK'
  BY SMTT(60), <1>5 DEF end_op, Wakeup, TypeOK, Counted, diskVars
<1>6. ASSUME NEW p \in Procs, end_op_last(p) PROVE TypeOK'
  BY <1>6 DEF end_op_last, TypeOK, Counted, diskVars
<1>7. ASSUME NEW p \in Procs, write_log(p) PROVE TypeOK'
  <2>1. lh[tail + 1] \in Blocks /\ tail + 1 \in 1 .. LOGSIZE
    <3>1. tail < Len(lh)
      BY <1>7 DEF write_log
    <3> QED
      BY <3>1, NextBlock
  <2>2. bread(lh[tail + 1]) \in Data
    <3>1. disk \in [Blocks -> Data] /\ cache \in [Blocks -> Data \cup {NotCached}]
      BY DEF TypeOK
    <3> QED
      BY <2>1, <3>1 DEF bread
  <2> QED
    <3>1. /\ tail' = tail + 1 /\ logblk' = [logblk EXCEPT ![tail + 1] = bread(lh[tail + 1])]
          /\ UNCHANGED <<disk, hdr, cache, pin, lh, outstanding, committing, pc, wrote, mode, crashes>>
      BY <1>7 DEF write_log
    <3>2. logblk' \in [1 .. LOGSIZE -> Data]
      <4>1. logblk \in [1 .. LOGSIZE -> Data]
        BY DEF TypeOK
      <4> QED
        BY Zenon, <2>2, <3>1, <4>1
    <3>3. tail' \in 0 .. LOGSIZE
      BY <2>1, <3>1
    <3> QED
      BY SMTT(60), <3>1, <3>2, <3>3 DEF TypeOK
<1>8. ASSUME NEW p \in Procs, write_head(p) PROVE TypeOK'
  BY <1>8 DEF write_head, TypeOK
<1>9. ASSUME NEW p \in Procs, install_trans(p) PROVE TypeOK'
  <2>1. lh[tail + 1] \in Blocks /\ tail + 1 \in 1 .. LOGSIZE
    <3>1. tail < Len(lh)
      BY <1>9 DEF install_trans
    <3> QED
      BY <3>1, NextBlock
  <2>2. Pinned(lh[tail + 1])
    BY SMTT(60), <1>9, <2>1 DEF install_trans, TypeOK, Pinned, Booting, Installing
  <2>3. pin[lh[tail + 1]] - 1 \in Nat
    BY <2>1, <2>2 DEF CacheInv
  <2>4. pin' \in [Blocks -> Nat]
    BY <1>9, <2>1, <2>3 DEF install_trans, TypeOK
  <2>5. logblk[tail + 1] \in Data
    BY <2>1 DEF TypeOK
  <2>6. disk' \in [Blocks -> Data] /\ cache' \in [Blocks -> Data \cup {NotCached}]
    BY SMTT(60), <1>9, <2>5 DEF install_trans, TypeOK
  <2>7. tail' \in 0 .. LOGSIZE
    BY <1>9, <2>1 DEF install_trans
  <2>8. UNCHANGED <<logblk, hdr, lh, outstanding, committing, pc, wrote, mode, crashes>>
    BY <1>9 DEF install_trans
  <2> QED
    BY <2>4, <2>6, <2>7, <2>8 DEF TypeOK
<1>10. ASSUME NEW p \in Procs, erase_head(p) PROVE TypeOK'
  BY <1>10 DEF erase_head, TypeOK
<1>11. ASSUME NEW p \in Procs, committed(p) PROVE TypeOK'
  <2>1. pc' \in [Procs -> {"begin", "asleep", "op", "write_log", "install", "committed"}]
    BY <1>11 DEF committed, Wakeup, TypeOK
  <2>2. committing' \in BOOLEAN /\ UNCHANGED <<disk, logblk, hdr, cache, pin, lh, outstanding, wrote, tail, mode, crashes>>
    BY Zenon, <1>11 DEF committed, diskVars
  <2> QED
    BY <2>1, <2>2 DEF TypeOK
<1>12. ASSUME NEW b \in Blocks, bget_recycle(b) PROVE TypeOK'
  BY <1>12 DEF bget_recycle, TypeOK, diskVars
<1>13. CASE Crash
  <2>1. lh' \in Seq(Blocks) /\ Len(lh') = 0
    BY <1>13 DEF Crash
  <2>2. cache' \in [Blocks -> Data \cup {NotCached}] /\ wrote' \in [Procs -> SUBSET Blocks]
    BY <1>13 DEF Crash
  <2>3. pin' \in [Blocks -> Nat]
    BY <1>13 DEF Crash
  <2>4. pc' \in [Procs -> {"begin", "asleep", "op", "write_log", "install", "committed"}]
    BY <1>13 DEF Crash
  <2>5. outstanding' \in 0 .. Cardinality(Procs) /\ crashes' \in 0 .. MaxCrashes /\ tail' \in 0 .. LOGSIZE
    BY SMTT(60), <1>13 DEF Crash, TypeOK, Counted
  <2>6. committing' \in BOOLEAN /\ mode' \in {"read_head", "recover", "up", "panic"}
    BY Zenon, <1>13 DEF Crash
  <2>7. UNCHANGED <<disk, logblk, hdr>>
    BY <1>13 DEF Crash, diskVars
  <2> QED
    BY SMTT(60), <2>1, <2>2, <2>3, <2>4, <2>5, <2>6, <2>7 DEF TypeOK
<1>14. CASE read_head
  BY <1>14 DEF read_head, TypeOK, diskVars
<1>15. CASE recover_install
  <2>1. lh[tail + 1] \in Blocks /\ tail + 1 \in 1 .. LOGSIZE
    <3>1. tail < Len(lh)
      BY <1>15 DEF recover_install
    <3> QED
      BY <3>1, NextBlock
  <2> QED
    BY SMTT(60), <1>15, <2>1 DEF recover_install, TypeOK
<1>16. CASE recover_erase
  BY <1>16 DEF recover_erase, TypeOK
<1>17. CASE panic
  BY <1>17 DEF panic, vars, diskVars, memVars, TypeOK
<1> QED
  BY <1>1, <1>2, <1>3, <1>4, <1>5, <1>6, <1>7, <1>8, <1>9, <1>10, <1>11, <1>12, <1>13,
     <1>14, <1>15, <1>16, <1>17 DEF Next, Commit, Recover

LEMMA OpsStep == IInv /\ Next => OpsInv'
<1> SUFFICES ASSUME IInv, Next PROVE OpsInv'
  OBVIOUS
<1> USE Types
<1>1. ASSUME NEW p \in Procs, begin_op(p) PROVE OpsInv'
  <2>3. ~ committing /\ ~ committing' /\ mode = "up" /\ mode' = "up"
    BY <1>1 DEF begin_op, Mustwait
  <2>4. \A q \in Procs : pc'[q] \notin Committing
    BY <1>1, <2>3 DEF begin_op, OpsInv, TypeOK, Committing
  <2> QED
    BY <2>3, <2>4 DEF OpsInv, Booting
<1>2. ASSUME NEW p \in Procs, begin_op_sleep(p) PROVE OpsInv'
  <2>1. mode = "up" /\ UNCHANGED <<outstanding, committing, mode>>
    BY <1>2 DEF begin_op_sleep
  <2>2. \A q \in Procs : pc'[q] \in Committing <=> pc[q] \in Committing
    BY <1>2 DEF begin_op_sleep, TypeOK, Committing
  <2> QED
    BY <2>1, <2>2 DEF OpsInv, Booting
<1>3. ASSUME UNCHANGED <<outstanding, committing, pc>>, mode' = mode PROVE OpsInv'
  BY <1>3 DEF OpsInv, Booting
<1>4. ASSUME NEW p \in Procs, log_write_panic(p) PROVE OpsInv'
  BY <1>4, OpFacts DEF log_write_panic, memVars, OpsInv, Booting
<1>5. ASSUME NEW p \in Procs, end_op(p) PROVE OpsInv'
  <2>3. ~ committing /\ ~ committing' /\ mode = "up" /\ mode' = "up"
    BY <1>5, OpFacts DEF end_op
  <2>4. \A q \in Procs : pc'[q] \notin Committing
    BY <1>5, <2>3 DEF end_op, Wakeup, OpsInv, TypeOK, Committing
  <2> QED
    BY <2>3, <2>4 DEF OpsInv, Booting
<1>6. ASSUME NEW p \in Procs, end_op_last(p) PROVE OpsInv'
  <2>3. committing' /\ outstanding' = 0 /\ mode = "up" /\ mode' = "up" /\ \A q \in Procs : pc[q] \notin Committing
    BY <1>6, OpFacts DEF end_op_last
  <2>4. \A q \in Procs : pc'[q] \in Committing <=> q = p
    BY <1>6, <2>3 DEF end_op_last, TypeOK, Committing
  <2> QED
    BY <2>3, <2>4 DEF OpsInv, Booting
<1>7. ASSUME NEW p \in Procs, write_head(p) \/ erase_head(p) PROVE OpsInv'
  <2>1. pc[p] \in Committing /\ pc'[p] \in Committing /\ \A q \in Procs : q # p => pc'[q] = pc[q]
    BY <1>7 DEF write_head, erase_head, TypeOK, Committing
  <2>3. UNCHANGED <<outstanding, committing, mode>> /\ mode = "up"
    BY <1>7 DEF write_head, erase_head
  <2> QED
    BY <2>1, <2>3 DEF OpsInv, Booting
<1>8. ASSUME NEW p \in Procs, committed(p) PROVE OpsInv'
  <2>1. pc[p] \in Committing
    BY <1>8 DEF committed, Committing
  <2>2. \A q \in Procs : pc'[q] \notin Committing /\ pc'[q] # "op"
    BY <1>8, <2>1, CommitFacts DEF committed, Wakeup, Committing
  <2>4. UNCHANGED <<outstanding, mode>> /\ mode = "up" /\ ~ committing'
    BY <1>8 DEF committed
  <2> QED
    BY <2>2, <2>4 DEF OpsInv, Booting
<1>9. CASE Crash
  <2>1. \A q \in Procs : pc'[q] = "begin"
    BY <1>9 DEF Crash
  <2>4. outstanding' = 0 /\ ~ committing' /\ mode' = "read_head"
    BY <1>9 DEF Crash
  <2> QED
    BY <2>1, <2>4 DEF OpsInv, Committing
<1>10. CASE read_head \/ recover_erase
  <2>1. Booting /\ mode' # "panic" /\ UNCHANGED <<outstanding, committing, pc>>
    BY <1>10 DEF read_head, recover_erase, Booting
  <2> QED
    BY <2>1 DEF OpsInv
<1>11. ASSUME NEW p \in Procs, NEW b \in Blocks, NEW v \in Data, log_write(p, b, v)
       PROVE  OpsInv'
  BY <1>3, <1>11 DEF log_write
<1>12. ASSUME NEW p \in Procs, write_log(p) \/ install_trans(p) PROVE OpsInv'
  BY <1>3, <1>12 DEF write_log, install_trans
<1>13. ASSUME NEW b \in Blocks, bget_recycle(b) PROVE OpsInv'
  BY <1>3, <1>13 DEF bget_recycle
<1>14. CASE recover_install \/ panic
  BY <1>3, <1>14 DEF recover_install, panic, vars, memVars
<1> QED
  BY <1>1, <1>2, <1>4, <1>5, <1>6, <1>7, <1>8, <1>9, <1>10, <1>11, <1>12, <1>13, <1>14
     DEF Next, Commit, Recover

LEMMA HeadStep == IInv /\ Next => HeadInv'
<1> SUFFICES ASSUME IInv, Next PROVE HeadInv'
  OBVIOUS
<1> USE Types
<1>1. ASSUME NEW p \in Procs, begin_op(p) PROVE HeadInv'
  <2>1. \A q \in Procs : /\ pc'[q] = "install" <=> pc[q] = "install"
                         /\ pc'[q] = "committed" <=> pc[q] = "committed"
    BY <1>1 DEF begin_op, TypeOK
  <2>2. outstanding' # 0 /\ UNCHANGED <<lh, hdr, mode>>
    BY <1>1 DEF begin_op, diskVars, TypeOK
  <2> QED
    BY <2>1, <2>2 DEF HeadInv, Booting, Installing
<1>2. ASSUME NEW p \in Procs, begin_op_sleep(p) PROVE HeadInv'
  <2>1. \A q \in Procs : /\ pc'[q] = "install" <=> pc[q] = "install"
                         /\ pc'[q] = "committed" <=> pc[q] = "committed"
    BY <1>2 DEF begin_op_sleep, TypeOK
  <2>2. UNCHANGED <<lh, hdr, mode, outstanding, committing>>
    BY <1>2 DEF begin_op_sleep, diskVars, TypeOK
  <2> QED
    BY <2>1, <2>2 DEF HeadInv, Booting, Installing
<1>3. ASSUME UNCHANGED <<outstanding, committing, pc, mode, lh, hdr>> PROVE HeadInv'
  BY <1>3 DEF HeadInv, Booting, Installing
<1>4. ASSUME NEW p \in Procs, NEW b \in Blocks, NEW v \in Data, log_write(p, b, v)
       PROVE  HeadInv'
  <2>1. CASE Logged(b)
    BY <1>3, <1>4, <2>1 DEF log_write, diskVars
  <2>2. CASE ~ Logged(b)
    <3>1. lh' = Append(lh, b) /\ pc[p] = "op" /\ UNCHANGED <<hdr, pc, mode, outstanding, committing>>
      BY <1>4, <2>2 DEF log_write, diskVars
    <3>2. \A i \in DOMAIN lh : lh[i] # b
      BY <2>2 DEF Logged
    <3>3. \A i, j \in DOMAIN lh' : lh'[i] = lh'[j] => i = j
      <4>1. /\ \A i \in DOMAIN lh' : i \in DOMAIN lh \/ i = Len(lh) + 1
            /\ lh'[Len(lh) + 1] = b /\ \A i \in DOMAIN lh : lh'[i] = lh[i]
        BY SMTT(60), <3>1, AppendFacts DEF TypeOK
      <4> QED
        BY <3>2, <4>1 DEF HeadInv
    <3>4. outstanding > 0 /\ ~ Booting /\ ~ Installing /\ \A q \in Procs : pc[q] # "committed"
      BY <3>1, OpFacts DEF Committing
    <3> QED
      BY <3>1, <3>3, <3>4 DEF HeadInv, Booting, Installing
  <2> QED
    BY <2>1, <2>2
<1>5. ASSUME NEW p \in Procs, log_write_panic(p) PROVE HeadInv'
  BY <1>5 DEF log_write_panic, diskVars, memVars, HeadInv, Booting, Installing
<1>6. ASSUME NEW p \in Procs, end_op(p) PROVE HeadInv'
  <2>1. \A q \in Procs : /\ pc'[q] = "install" <=> pc[q] = "install"
                         /\ pc'[q] = "committed" <=> pc[q] = "committed"
    BY <1>6 DEF end_op, Wakeup, TypeOK
  <2>2. outstanding' # 0 /\ UNCHANGED <<lh, hdr, mode>>
    BY <1>6 DEF end_op, diskVars, TypeOK
  <2> QED
    BY <2>1, <2>2 DEF HeadInv, Booting, Installing
<1>7. ASSUME NEW p \in Procs, end_op_last(p) PROVE HeadInv'
  <2>1. \A q \in Procs : /\ pc'[q] = "install" <=> pc[q] = "install"
                         /\ pc'[q] = "committed" => pc[q] = "committed" \/ lh = <<>>
    BY <1>7 DEF end_op_last, TypeOK
  <2>2. committing' /\ UNCHANGED <<lh, hdr, mode>>
    BY <1>7 DEF end_op_last, diskVars
  <2> QED
    BY <2>1, <2>2 DEF HeadInv, Booting, Installing
<1>8. ASSUME NEW p \in Procs, write_head(p) PROVE HeadInv'
  <2>1. /\ pc[p] \in Committing /\ pc'[p] = "install" /\ hdr' = lh /\ lh' = lh
        /\ UNCHANGED <<mode, outstanding, committing>>
    BY <1>8 DEF write_head, TypeOK, Committing
  <2>2. \A q \in Procs : pc'[q] # "committed"
    BY <1>8, <2>1, CommitFacts DEF write_head, TypeOK, Committing
  <2>3. ~ Booting /\ committing
    BY <2>1, CommitFacts
  <2> QED
    BY <2>1, <2>2, <2>3 DEF HeadInv, Booting, Installing
<1>9. ASSUME NEW p \in Procs, erase_head(p) PROVE HeadInv'
  <2>1. /\ pc[p] \in Committing /\ hdr' = <<>> /\ lh' = <<>>
        /\ UNCHANGED <<mode, outstanding, committing>>
    BY <1>9 DEF erase_head, TypeOK, Committing
  <2> QED
    BY <2>1 DEF HeadInv
<1>10. ASSUME NEW p \in Procs, committed(p) PROVE HeadInv'
  <2>1. pc[p] \in Committing /\ lh = <<>> /\ UNCHANGED <<lh, hdr, mode, outstanding>>
    BY <1>10 DEF committed, Committing, HeadInv, diskVars
  <2>2. \A q \in Procs : pc'[q] # "install" /\ pc[q] # "install"
    BY <1>10, <2>1, CommitFacts DEF committed, Wakeup, Committing
  <2> QED
    BY <2>1, <2>2 DEF HeadInv, Booting, Installing
<1>11. CASE Crash
  BY <1>11 DEF Crash, diskVars, HeadInv, Booting, Installing
<1>12. CASE read_head
  <2>1. \A q \in Procs : pc[q] = "begin"
    BY <1>12 DEF read_head, OpsInv, Booting
  <2>2. lh' = hdr /\ hdr' = hdr /\ mode' = "recover" /\ pc' = pc
    BY <1>12 DEF read_head, diskVars
  <2> QED
    BY <2>1, <2>2 DEF HeadInv, Booting, Installing
<1>13. CASE recover_erase
  <2>1. hdr' = <<>> /\ lh' = <<>> /\ mode' = "up"
    BY <1>13 DEF recover_erase
  <2> QED
    BY <2>1 DEF HeadInv
<1>14. ASSUME NEW p \in Procs, write_log(p) \/ install_trans(p) PROVE HeadInv'
  BY <1>3, <1>14 DEF write_log, install_trans
<1>15. ASSUME NEW b \in Blocks, bget_recycle(b) PROVE HeadInv'
  BY <1>3, <1>15 DEF bget_recycle, diskVars
<1>16. CASE recover_install \/ panic
  BY <1>3, <1>16 DEF recover_install, panic, vars, memVars, diskVars
<1> QED
  BY <1>1, <1>2, <1>4, <1>5, <1>6, <1>7, <1>8, <1>9, <1>10, <1>11, <1>12, <1>13, <1>14,
     <1>15, <1>16 DEF Next, Commit, Recover

LEMMA TailStep == IInv /\ Next /\ Counted' => TailInv'
<1> SUFFICES ASSUME IInv, Next, Counted' PROVE TailInv'
  OBVIOUS
<1> USE Types
<1>1. ASSUME NEW p \in Procs, \/ begin_op(p) \/ begin_op_sleep(p) \/ end_op(p)
                              \/ end_op_last(p) \/ committed(p)
      PROVE  TailInv'
  <2>1. UNCHANGED <<lh, tail, mode>> /\ pc[p] \notin {"write_log", "install"}
    BY <1>1 DEF begin_op, begin_op_sleep, end_op, end_op_last, committed
  <2>2. \A q \in Procs : q # p /\ pc[q] \in {"write_log", "install"} => pc'[q] = pc[q]
    BY <1>1 DEF begin_op, begin_op_sleep, end_op, end_op_last, committed, Wakeup, TypeOK
  <2> QED
    BY <2>1, <2>2 DEF TailInv
<1>2. ASSUME NEW p \in Procs, NEW b \in Blocks, NEW v \in Data, log_write(p, b, v)
       PROVE  TailInv'
  <2>1. pc[p] = "op" /\ mode = "up" /\ UNCHANGED <<tail, mode, pc>>
    BY <1>2 DEF log_write
  <2>2. tail' = 0 /\ Len(lh') \in Nat
    BY <2>1, OpFacts, TypeStep DEF TypeOK
  <2> QED
    BY <2>2 DEF TailInv
<1>3. ASSUME NEW p \in Procs, log_write_panic(p) PROVE TailInv'
  BY <1>3, OpFacts DEF log_write_panic, memVars, TailInv
<1>4. ASSUME NEW p \in Procs, write_log(p) \/ install_trans(p) PROVE TailInv'
  <2>1. pc[p] \in {"write_log", "install"} /\ pc' = pc /\ lh' = lh /\ tail' = tail + 1 /\ tail < Len(lh)
    BY <1>4 DEF write_log, install_trans
  <2> QED
    BY SMTT(60), <2>1 DEF TailInv, TypeOK
<1>5. ASSUME tail' = 0 PROVE TailInv'
  BY <1>5, TypeStep DEF TailInv, TypeOK
<1>6. ASSUME NEW p \in Procs, write_head(p) \/ erase_head(p) PROVE TailInv'
  BY <1>5, <1>6 DEF write_head, erase_head
<1>7. ASSUME NEW b \in Blocks, bget_recycle(b) PROVE TailInv'
  BY <1>7 DEF bget_recycle, TailInv
<1>8. CASE read_head
  <2>1. \A q \in Procs : pc[q] = "begin"
    BY <1>8 DEF read_head, OpsInv, Booting
  <2>2. tail = 0
    BY <1>8, <2>1 DEF read_head, TailInv
  <2> QED
    BY <1>5, <1>8, <2>2 DEF read_head
<1>9. CASE recover_install
  BY <1>9 DEF recover_install, TailInv, TypeOK
<1>10. CASE recover_erase \/ Crash
  BY <1>5, <1>10 DEF recover_erase, Crash
<1>11. CASE panic
  BY <1>11 DEF panic, vars, memVars, TailInv
<1> QED
  BY <1>1, <1>2, <1>3, <1>4, <1>6, <1>7, <1>8, <1>9, <1>10, <1>11 DEF Next, Commit, Recover

LEMMA WroteStep == IInv /\ Next => WroteInv'
<1> SUFFICES ASSUME IInv, Next PROVE WroteInv'
  OBVIOUS
<1> USE Types
<1>1. ASSUME NEW p \in Procs, begin_op(p) \/ begin_op_sleep(p) PROVE WroteInv'
  <2>1. pc[p] # "op" /\ \A q \in Procs : q # p => pc'[q] = pc[q]
    BY <1>1 DEF begin_op, begin_op_sleep, TypeOK
  <2>2. UNCHANGED <<lh, wrote>>
    BY <1>1 DEF begin_op, begin_op_sleep
  <2> QED
    BY <2>1, <2>2 DEF WroteInv
<1>2. ASSUME NEW p \in Procs, NEW b \in Blocks, NEW v \in Data, log_write(p, b, v)
       PROVE  WroteInv'
  <2>1. pc[p] = "op" /\ pc' = pc /\ wrote' = [wrote EXCEPT ![p] = @ \cup {b}]
    BY <1>2 DEF log_write
  <2>2. \A c \in Blocks : c = b \/ (\E i \in DOMAIN lh : lh[i] = c) => \E i \in DOMAIN lh' : lh'[i] = c
    <3>1. CASE Logged(b)
      BY <1>2, <3>1 DEF log_write, Logged
    <3>2. CASE ~ Logged(b)
      <4>1. lh' = Append(lh, b)
        BY <1>2, <3>2 DEF log_write
      <4>2. /\ Len(lh) + 1 \in DOMAIN lh' /\ lh'[Len(lh) + 1] = b
            /\ \A i \in DOMAIN lh : i \in DOMAIN lh' /\ lh'[i] = lh[i]
        BY <4>1, AppendFacts DEF TypeOK
      <4> QED
        BY <4>2
    <3> QED
      BY <3>1, <3>2
  <2>3. wrote \in [Procs -> SUBSET Blocks]
    BY DEF TypeOK
  <2>4. wrote'[p] = wrote[p] \cup {b}
    BY <2>1, <2>3, Zenon
  <2>5. ASSUME NEW q \in Procs, q # p PROVE wrote'[q] = wrote[q]
    BY <2>1, <2>3, <2>5, Zenon
  <2>6. ASSUME NEW q \in Procs, NEW c \in wrote'[q]
        PROVE  \E i \in DOMAIN lh' : lh'[i] = c
    <3>1. c \in wrote[q] \/ c = b
      BY <2>4, <2>5, <2>6
    <3>2. c \in Blocks
      BY <2>3, <3>1
    <3>3. c = b \/ \E i \in DOMAIN lh : lh[i] = c
      BY <2>1, <2>6, <3>1 DEF WroteInv
    <3> QED
      BY <2>2, <3>2, <3>3, Zenon
  <2>7. ASSUME NEW q \in Procs, pc'[q] # "op" PROVE wrote'[q] = {}
    BY <2>1, <2>5, <2>7 DEF WroteInv
  <2> QED
    BY <2>6, <2>7 DEF WroteInv
<1>3. ASSUME UNCHANGED <<pc, wrote, lh>> PROVE WroteInv'
  BY <1>3 DEF WroteInv
<1>4. ASSUME NEW p \in Procs, end_op(p) \/ end_op_last(p) PROVE WroteInv'
  <2>1. lh' = lh /\ wrote' = [wrote EXCEPT ![p] = {}]
    BY <1>4 DEF end_op, end_op_last
  <2>2. \A q \in Procs : q # p /\ pc'[q] # "op" => pc[q] # "op"
    BY <1>4 DEF end_op, end_op_last, Wakeup, TypeOK
  <2> QED
    BY <2>1, <2>2 DEF WroteInv, TypeOK
<1>5. ASSUME \A q \in Procs : wrote'[q] = {} PROVE WroteInv'
  BY <1>5 DEF WroteInv
<1>6. ASSUME NEW p \in Procs, Commit(p) PROVE WroteInv'
  <2>1. pc[p] \in Committing /\ wrote' = wrote
    BY <1>6 DEF Commit, write_log, write_head, install_trans, erase_head, committed, Committing
  <2> QED
    BY <1>5, <2>1, CommitFacts
<1>7. ASSUME NEW p \in Procs, log_write_panic(p) PROVE WroteInv'
  BY <1>3, <1>7 DEF log_write_panic, memVars
<1>8. ASSUME NEW b \in Blocks, bget_recycle(b) PROVE WroteInv'
  BY <1>3, <1>8 DEF bget_recycle
<1>9. CASE Recover
  <2>1. Booting /\ wrote' = wrote
    BY <1>9 DEF Recover, read_head, recover_install, recover_erase, Booting
  <2>2. \A q \in Procs : wrote[q] = {}
    BY <2>1 DEF OpsInv, WroteInv
  <2> QED
    BY <1>5, <2>1, <2>2
<1>10. CASE Crash
  BY <1>5, <1>10 DEF Crash
<1>11. CASE panic
  BY <1>3, <1>11 DEF panic, vars, memVars
<1> QED
  BY <1>1, <1>2, <1>4, <1>6, <1>7, <1>8, <1>9, <1>10, <1>11 DEF Next

-----------------------------------------------------------------------------
(* begin_op() and wakeup(). *)

LEMMA WakeStep == IInv /\ NoLostWakeup /\ [Next]_vars => NoLostWakeup'
<1> SUFFICES ASSUME IInv, NoLostWakeup, [Next]_vars PROVE NoLostWakeup'
  OBVIOUS
<1> USE Types
<1> DEFINE Waker == {"op", "write_log", "install", "committed"}
<1>1. ASSUME NEW p \in Procs, pc'[p] \in Waker PROVE NoLostWakeup'
  BY <1>1 DEF NoLostWakeup
<1>2. ASSUME \A q \in Procs : pc'[q] # "asleep" PROVE NoLostWakeup'
  BY <1>2 DEF NoLostWakeup
<1>3. ASSUME NEW p \in Procs, begin_op_sleep(p) PROVE NoLostWakeup'
  <2>1. \E q \in Procs : pc[q] \in Waker
    <3>1. CASE committing
      BY <3>1 DEF OpsInv, Committing
    <3>2. CASE ~ committing
      <4>1. Len(lh) + (outstanding + 1) * MAXOPBLOCKS > LOGSIZE /\ mode = "up"
        BY <1>3, <3>2 DEF begin_op_sleep, Mustwait
      <4>2. outstanding # 0
        <5> SUFFICES ASSUME outstanding = 0 PROVE FALSE
          OBVIOUS
        <5>1. lh = <<>>
          BY <3>2, <4>1 DEF HeadInv
        <5>2. Len(lh) = 0
          BY <5>1
        <5>3. (outstanding + 1) * MAXOPBLOCKS = MAXOPBLOCKS
          OBVIOUS
        <5> QED
          BY <4>1, <5>2, <5>3
      <4>3. outstanding > 0
        BY <4>2 DEF Counted
      <4> QED
        BY <4>3 DEF Counted
    <3> QED
      BY <3>1, <3>2
  <2>2. PICK q \in Procs : pc[q] \in Waker
    BY <2>1
  <2>3. pc'[q] = pc[q]
    BY <1>3, <2>2 DEF begin_op_sleep, TypeOK
  <2> QED
    BY <1>1, <2>2, <2>3
<1>4. ASSUME NEW p \in Procs, begin_op(p) \/ end_op_last(p) PROVE NoLostWakeup'
  <2>1. pc'[p] \in Waker
    BY <1>4 DEF begin_op, end_op_last, TypeOK
  <2> QED
    BY <1>1, <2>1
<1>5. ASSUME NEW p \in Procs, write_log(p) \/ write_head(p) \/ install_trans(p) \/ erase_head(p)
      PROVE  NoLostWakeup'
  <2>1. pc'[p] \in Waker
    BY <1>5 DEF write_log, write_head, install_trans, erase_head, TypeOK
  <2> QED
    BY <1>1, <2>1
<1>6. ASSUME NEW p \in Procs, end_op(p) \/ committed(p) PROVE NoLostWakeup'
  <2>1. \A q \in Procs : pc'[q] # "asleep"
    BY <1>6 DEF end_op, committed, Wakeup
  <2> QED
    BY <1>2, <2>1
<1>7. ASSUME pc' = pc, mode' = mode PROVE NoLostWakeup'
  BY <1>7 DEF NoLostWakeup
<1>8. ASSUME NEW p \in Procs, NEW b \in Blocks, NEW v \in Data, log_write(p, b, v)
      PROVE  NoLostWakeup'
  BY <1>7, <1>8 DEF log_write
<1>9. ASSUME NEW p \in Procs, log_write_panic(p) PROVE NoLostWakeup'
  BY <1>9 DEF log_write_panic, NoLostWakeup
<1>10. ASSUME NEW b \in Blocks, bget_recycle(b) PROVE NoLostWakeup'
  BY <1>7, <1>10 DEF bget_recycle
<1>11. CASE Recover
  <2>1. \A q \in Procs : pc'[q] = "begin"
    BY <1>11 DEF Recover, read_head, recover_install, recover_erase, OpsInv, Booting
  <2> QED
    BY <1>2, <2>1
<1>12. CASE Crash
  BY <1>2, <1>12 DEF Crash
<1>13. CASE panic \/ UNCHANGED vars
  BY <1>7, <1>13 DEF panic, vars, memVars
<1> QED
  BY <1>3, <1>4, <1>5, <1>6, <1>8, <1>9, <1>10, <1>11, <1>12, <1>13 DEF Next, Commit
=============================================================================
