------------------------- MODULE InterruptsProofs -------------------------
(***************************************************************************)
(* Theorems about Interrupts, for any number of CPUs and threads.          *)
(***************************************************************************)
EXTENDS InterruptsThreadProofs

USE InterruptsAssumption

-----------------------------------------------------------------------------
(* The steps of both: the locks, and the interrupt handler. *)

\* Code goes on, with its scheduler or its thread on the CPU.
LEMMA CodeKept ==
  ASSUME Types, CpuInv, ThreadInv, ClockInv, NEW c \in CPUs, NEW l, NEW m, Go(c, l, m), Frame(c),
         on'[c] = on[c], on[c] = c \/ pick'[c] = pick[c], UNCHANGED <<saved, kstate, clockVars>>,
         \/ l \in Plain \cup Sleeping /\ m \in Plain \cup Sleeping
         \/ l \in Scheduling /\ m \in Scheduling
         \/ l \in Handling \cup Yielding /\ m \in Handling \cup Yielding
              /\ (m \in Yielding => on[c] \in Kthreads),
         l \in Early => m \in Early,
         m \in {"nap", "nap_spin", "nap_held"} => l \in {"nap", "nap_spin", "nap_held"},
         m \in {"h_tick", "tick_spin", "tick_held"} => l \in {"h_tick", "tick_spin", "tick_held"}
  PROVE  CpuInv' /\ ThreadInv' /\ ClockInv'
<1>1. Stays(c) /\ top[on[c]] = l /\ top'[on[c]] = m /\ below'[on[c]] = below[on[c]]
  BY DEF Go
<1>2. (on[c] = c \/ on[c] \in Kthreads) /\ on[c] \in Contexts
  BY Whose DEF Types
<1>3. CpuInv'
  <2>1. CASE on[c] = c
    <3>1. CpuAt(c)
      BY DEF CpuInv
    <3>2. CpuAt(c)'
      BY <1>1, <2>1, <3>1 DEF CpuAt, Plain, Sleeping, Handling, Yielding, Scheduling
    <3> QED BY <1>1, <3>2, CpuKept
  <2>2. CASE on[c] \in Kthreads
    BY <1>1, <2>2, CpuOfThread
  <2> QED BY <1>2, <2>1, <2>2
<1>4. ThreadInv'
  <2>1. ASSUME NEW t \in Kthreads, t = on[c] PROVE ThreadAt(t)'
    <3>1. ThreadAt(t)
      BY DEF ThreadInv
    <3>2. \/ below[t] = "none" /\ m \in Plain \cup Sleeping
          \/ below[t] # "none" /\ m \in Handling \cup Yielding
      BY <1>1, <2>1, <3>1 DEF ThreadAt, Plain, Sleeping, Handling, Yielding, Scheduling
    <3>3. l # "sched"
      BY DEF Plain, Sleeping, Handling, Yielding, Scheduling
    <3> QED BY <1>1, <2>1, <3>2, <3>3, ThreadHere
  <2> QED BY <1>1, <2>1, ThreadKept
<1>5. ClockInv'
  <2>1. TickAt(c)'
    BY <1>1 DEF TickAt, ClockInv, clockVars
  <2>2. ASSUME NEW t \in Kthreads, t = on[c] PROVE SleepAt(t)'
    BY <1>1, <2>2, SleepHere
  <2> QED BY <1>1, <2>1, <2>2, ClockKept DEF clockVars
<1> QED BY <1>3, <1>4, <1>5

\* push_off(),
LEMMA push_offStep ==
  ASSUME IInv, NEW c \in CPUs, push_off(c)
  PROVE  CpuInv' /\ ThreadInv' /\ LockInv' /\ ClockInv'
<1>1. Types /\ CpuInv /\ ThreadInv /\ LockInv /\ ClockInv
  BY DEF IInv
<1>2. PICK l \in Positions, m \in Positions : Calls(l, m) /\ Go(c, l, m)
  BY <1>1, push_offGoes
<1>3. Stays(c) /\ top[on[c]] = l /\ top'[on[c]] = m /\ below'[on[c]] = below[on[c]]
  BY <1>2 DEF Go
<1>4. /\ on'[c] = on[c] /\ on[c] \in Contexts /\ ~ intr'[c] /\ noff'[c] = noff[c] + 1
      /\ intena'[c] = (IF noff[c] = 0 THEN intr[c] ELSE intena[c])
      /\ UNCHANGED <<saved, kstate, clockVars>> /\ holder' = holder
  BY <1>1 DEF push_off, intr_off, Types
<1>5. (top[on[c]] # "s_scan" => pick' = pick) /\ (\A d \in CPUs : d # c => pick'[d] = pick[d])
  BY <1>1, <1>4, Tops DEF push_off, Runs, Types
<1>6. Frame(c)
  BY <1>1, <1>5 DEF push_off, intr_off, Frame, Types
<1>7. on[c] = c \/ pick' = pick
  BY <1>1, <1>5, Whose DEF Scheduling
<1>8. CpuInv' /\ ThreadInv' /\ ClockInv'
  <2>1. \/ l \in Plain \cup Sleeping /\ m \in Plain \cup Sleeping
        \/ l \in Scheduling /\ m \in Scheduling
        \/ l \in Handling \cup Yielding /\ m \in Handling \cup Yielding
             /\ (m \in Yielding => l \in Yielding)
    BY <1>2 DEF Calls, Plain, Sleeping, Handling, Yielding, Scheduling
  <2>2. l \in Yielding => on[c] \in Kthreads
    BY <1>1, <1>3, Whose
  <2>3. /\ l \in Early => m \in Early
        /\ m \in {"nap", "nap_spin", "nap_held"} => l \in {"nap", "nap_spin", "nap_held"}
        /\ m \in {"h_tick", "tick_spin", "tick_held"} => l \in {"h_tick", "tick_spin", "tick_held"}
    BY <1>2 DEF Calls, Early
  <2> QED BY <1>1, <1>2, <1>4, <1>6, <1>7, <2>1, <2>2, <2>3, CodeKept
<1>9. LockInv'
  <2>1. HoldAt(c) /\ CountAt(c) /\ MaskAt(c)
    BY <1>1 DEF LockInv
  <2>2. LockFrame(c)
    BY <1>4 DEF LockFrame
  <2>3. top'[on'[c]] = m
    BY <1>3, <1>4
  <2>4. l \notin PickHeld /\ m \notin PickHeld
    BY <1>2 DEF Calls, PickHeld
  <2>5. (l \in TickHeld <=> m \in TickHeld) /\ l \notin OwnHeld /\ m \notin OwnHeld
    BY <1>2 DEF Calls, TickHeld, OwnHeld
  <2>6. HoldAt(c)'
    BY <1>3, <1>4, <2>1, <2>3, <2>4, <2>5 DEF HoldAt
  <2>7. l \notin Spins /\ m \in Spins
    BY <1>2 DEF Calls, Spins
  <2>8. CountAt(c)'
    BY <1>3, <1>4, <2>1, <2>3, <2>4, <2>5, <2>7 DEF CountAt, Count
  <2>9. noff[c] = 0 <=> l # "nap"
    BY <1>2, <1>3, <2>1, Counts DEF CountAt, Calls, Plain
  <2>10. MaskAt(c)'
    BY <1>2, <1>3, <1>4, <2>1, <2>3, <2>9 DEF MaskAt, Calls, Plain, Sleeping
  <2> QED BY <1>1, <1>3, <1>6, <2>2, <2>6, <2>8, <2>10, LockKept
<1> QED BY <1>8, <1>9

\* acquire(),
LEMMA acquireStep ==
  ASSUME IInv, NEW c \in CPUs, acquire(c)
  PROVE  CpuInv' /\ ThreadInv' /\ LockInv' /\ ClockInv'
<1>1. Types /\ CpuInv /\ ThreadInv /\ LockInv /\ ClockInv
  BY DEF IInv
<1>2. PICK l \in Positions, m \in Positions : Takes(l, m) /\ Go(c, l, m)
  BY <1>1, acquireGoes
<1>3. Stays(c) /\ top[on[c]] = l /\ top'[on[c]] = m /\ below'[on[c]] = below[on[c]]
  BY <1>2 DEF Go
<1>4. /\ Frame(c) /\ on'[c] = on[c] /\ pick'[c] = pick[c]
      /\ intr'[c] = intr[c] /\ noff'[c] = noff[c] /\ intena'[c] = intena[c]
      /\ UNCHANGED <<saved, kstate, clockVars>>
  BY <1>1 DEF acquire, cpuVars, Frame, Types
<1>5. /\ l \in {"nap_spin", "yield_spin"} => on[c] \in Kthreads
      /\ l = "scan_spin" => on[c] = c
  BY <1>1, <1>3, Whose DEF Sleeping, Yielding, Scheduling
<1>6. CpuInv' /\ ThreadInv' /\ ClockInv'
  <2>1. \/ l \in Plain \cup Sleeping /\ m \in Plain \cup Sleeping
        \/ l \in Scheduling /\ m \in Scheduling
        \/ l \in Handling \cup Yielding /\ m \in Handling \cup Yielding
             /\ (m \in Yielding => l = "yield_spin")
    BY <1>2 DEF Takes, Plain, Sleeping, Handling, Yielding, Scheduling
  <2>2. /\ l \in Early => m \in Early
        /\ m \in {"nap", "nap_spin", "nap_held"} => l \in {"nap", "nap_spin", "nap_held"}
        /\ m \in {"h_tick", "tick_spin", "tick_held"} => l \in {"h_tick", "tick_spin", "tick_held"}
    BY <1>2 DEF Takes, Early
  <2> QED BY <1>1, <1>2, <1>4, <1>5, <2>1, <2>2, CodeKept
<1>7. LockInv'
  <2> DEFINE k == Wanted(c)
  <2>1. k = IF l \in {"sys_spin", "again_spin", "tick_spin"} THEN "tickslock"
            ELSE IF l \in {"nap_spin", "yield_spin"} THEN on[c] ELSE pick[c]
    BY <1>1, <1>3, WantedIs
  <2>2. holder[k] = NoCPU /\ holder' = [holder EXCEPT ![k] = c]
    BY DEF acquire
  <2> HIDE DEF k
  <2>3. k \in Locks
    BY <1>1, <1>2, <1>5, <2>1 DEF Types, Locks, Takes
  <2>4. \A x \in Locks : holder'[x] = c <=> holder[x] = c \/ x = k
    BY <1>1, <2>2, <2>3 DEF Types
  <2>5. LockFrame(c)
    BY <1>1, <2>2, <2>3 DEF LockFrame, Types
  <2>6. HoldAt(c) /\ CountAt(c) /\ MaskAt(c)
    BY <1>1 DEF LockInv
  <2>7. top'[on'[c]] = m
    BY <1>3, <1>4
  <2>8. /\ m \in TickHeld <=> l \in TickHeld \/ l \in {"sys_spin", "again_spin", "tick_spin"}
        /\ m \in OwnHeld <=> l \in {"nap_spin", "yield_spin"}
        /\ m \in PickHeld <=> l = "scan_spin"
        /\ l \notin OwnHeld /\ l \notin PickHeld
    BY <1>2 DEF Takes, TickHeld, OwnHeld, PickHeld
  <2>9. HoldAt(c)'
    <3>1. "tickslock" \in Locks /\ Kthreads \subseteq Locks /\ pick[c] \in Kthreads
      BY <1>1 DEF Locks, Types
    <3>2. k = "tickslock" <=> l \in {"sys_spin", "again_spin", "tick_spin"}
      BY <1>2, <1>5, <2>1, <3>1 DEF Takes
    <3>3. holder'["tickslock"] = c <=> top'[on'[c]] \in TickHeld
      BY <1>3, <2>4, <2>6, <2>7, <2>8, <3>1, <3>2 DEF HoldAt
    <3>4. ASSUME NEW t \in Kthreads
          PROVE  holder'[t] = c <=> \/ on'[c] = t /\ top'[on'[c]] \in OwnHeld
                                    \/ on'[c] = c /\ top'[on'[c]] \in PickHeld /\ pick'[c] = t
      <4>1. holder[t] # c
        BY <1>3, <2>6, <2>8 DEF HoldAt
      <4>2. t = k <=> \/ l \in {"nap_spin", "yield_spin"} /\ on[c] = t
                      \/ l = "scan_spin" /\ pick[c] = t
        BY <1>2, <2>1 DEF Takes
      <4> QED BY <1>4, <1>5, <2>4, <2>7, <2>8, <3>1, <4>1, <4>2
    <3> QED BY <3>3, <3>4 DEF HoldAt
  <2>10. CountAt(c)'
    <3>1. Count(l) = Count(m)
      BY <1>2, Counts DEF Takes
    <3> QED BY <1>3, <1>4, <2>6, <2>7, <3>1 DEF CountAt
  <2>11. MaskAt(c)'
    BY <1>2, <1>3, <1>4, <2>6, <2>7 DEF MaskAt, Takes, Plain, Sleeping
  <2> QED BY <1>1, <1>3, <1>4, <2>5, <2>9, <2>10, <2>11, LockKept
<1> QED BY <1>6, <1>7

\* an interrupt,
LEMMA trapStep ==
  ASSUME IInv, NEW c \in CPUs, trap(c)
  PROVE  CpuInv' /\ ThreadInv' /\ LockInv' /\ ClockInv'
<1>1. Types /\ CpuInv /\ ThreadInv /\ LockInv /\ ClockInv
  BY DEF IInv
<1>2. PICK h \in {"h_tick", "h_back"} : Trap(c, h) /\ (h = "h_tick" => c = CPU0)
  BY <1>1, trapGoes
<1>3. /\ Stays(c) /\ top[on[c]] \in Plain \cup {"s_top", "s_scan"} /\ below[on[c]] = "none"
      /\ top'[on[c]] = h /\ below'[on[c]] = top[on[c]] /\ h \in Handling
  BY <1>2 DEF Trap, Handling
<1>4. /\ Frame(c) /\ on'[c] = on[c] /\ pick'[c] = pick[c]
      /\ ~ intr'[c] /\ noff'[c] = noff[c] /\ intena'[c] = intena[c]
      /\ UNCHANGED <<saved, kstate, holder, clockVars>>
  BY <1>1 DEF trap, Frame, Types
<1>5. on[c] = c \/ on[c] \in Kthreads
  BY <1>1, Whose
<1>6. CpuInv'
  <2>1. CASE on[c] = c
    <3>1. CpuAt(c)
      BY <1>1 DEF CpuInv
    <3>2. top[c] \in Scheduling
      BY <1>3, <2>1, <3>1 DEF CpuAt
    <3>3. top[c] \in {"s_top", "s_scan"}
      BY <1>3, <2>1, <3>2 DEF Plain, Scheduling
    <3>4. CpuAt(c)'
      BY <1>3, <1>4, <2>1, <3>3 DEF CpuAt
    <3> QED BY <1>1, <1>3, <1>4, <3>4, CpuKept
  <2>2. CASE on[c] \in Kthreads
    BY <1>1, <1>3, <1>4, <2>2, CpuOfThread
  <2> QED BY <1>5, <2>1, <2>2
<1>7. ASSUME NEW t \in Kthreads, t = on[c]
      PROVE  top[t] \in Plain /\ top'[t] = h /\ below'[t] = top[t] /\ kstate[t] = "RUNNING"
  <2>1. ThreadAt(t)
    BY <1>1 DEF ThreadInv
  <2>2. top[t] \in Plain
    BY <1>3, <1>7, <2>1 DEF ThreadAt, Plain, Sleeping
  <2> QED BY <1>3, <1>7, <2>1, <2>2 DEF ThreadAt, Plain
<1>8. ThreadInv'
  <2>1. ASSUME NEW t \in Kthreads, t = on[c] PROVE ThreadAt(t)'
    <3>1. /\ below'[t] \in Plain /\ top'[t] = h /\ kstate'[t] = "RUNNING" /\ on'[c] = t
      BY <1>4, <1>7, <2>1
    <3> QED BY <1>2, <1>3, <3>1 DEF ThreadAt
  <2> QED BY <1>1, <1>3, <1>4, <2>1, ThreadKept
<1>9. LockInv'
  <2>1. HoldAt(c) /\ CountAt(c) /\ MaskAt(c)
    BY <1>1 DEF LockInv
  <2>2. LockFrame(c)
    BY <1>4 DEF LockFrame
  <2>3. top'[on'[c]] = h
    BY <1>3, <1>4
  <2>4. HoldAt(c)'
    BY <1>2, <1>3, <1>4, <2>1, <2>3 DEF HoldAt, Plain, TickHeld, OwnHeld, PickHeld
  <2>5. CountAt(c)'
    BY <1>2, <1>3, <1>4, <2>1, <2>3, Counts DEF CountAt
  <2>6. MaskAt(c)'
    BY <1>2, <1>4, <2>3 DEF MaskAt, Plain, Sleeping
  <2> QED BY <1>1, <1>3, <1>4, <2>2, <2>4, <2>5, <2>6, LockKept
<1>10. ClockInv'
  <2>1. total < MaxTicks
    BY DEF trap
  <2>2. TickAt(c)'
    BY <1>2, <1>3, <1>4, <2>1 DEF TickAt, clockVars
  <2>3. ASSUME NEW t \in Kthreads, t = on[c] PROVE SleepAt(t)'
    <3>1. SleepAt(t) /\ below[t] = "none"
      BY <1>1, <1>3, <2>3 DEF ClockInv
    <3>2. top[t] \in Early => below'[t] = "sys"
      BY <1>7, <2>3 DEF Early, Plain
    <3> QED BY <1>2, <1>4, <1>7, <2>3, <3>1, <3>2 DEF SleepAt, clockVars
  <2> QED BY <1>1, <1>3, <1>4, <2>2, <2>3, ClockKept DEF clockVars
<1> QED BY <1>6, <1>8, <1>9, <1>10

\* the end of its handler,
LEMMA trap_returnStep ==
  ASSUME IInv, NEW c \in CPUs, trap_return(c)
  PROVE  CpuInv' /\ ThreadInv' /\ LockInv' /\ ClockInv'
<1>1. Types /\ CpuInv /\ ThreadInv /\ LockInv /\ ClockInv
  BY DEF IInv
<1>2. PICK b \in Plain \cup {"s_top", "s_scan"} : TrapReturn(c) /\ below[on[c]] = b
  BY <1>1, trap_returnGoes DEF TrapReturn
<1>3. /\ Stays(c) /\ top[on[c]] = "h_ret" /\ below[on[c]] = b
      /\ top'[on[c]] = b /\ below'[on[c]] = "none"
  BY <1>2 DEF TrapReturn
<1>4. /\ Frame(c) /\ on'[c] = on[c] /\ pick'[c] = pick[c]
      /\ intr'[c] /\ noff'[c] = noff[c] /\ intena'[c] = intena[c]
      /\ UNCHANGED <<saved, kstate, holder, clockVars>>
  BY <1>1 DEF trap_return, Frame, Types
<1>5. on[c] = c \/ on[c] \in Kthreads
  BY <1>1, Whose
<1>6. CpuInv'
  <2>1. CASE on[c] = c
    <3>1. CpuAt(c)
      BY <1>1 DEF CpuInv
    <3>2. b \in {"s_top", "s_scan"}
      BY <1>3, <2>1, <3>1 DEF CpuAt, Scheduling
    <3>3. CpuAt(c)'
      BY <1>3, <1>4, <2>1, <3>2 DEF CpuAt, Scheduling
    <3> QED BY <1>1, <1>3, <1>4, <3>3, CpuKept
  <2>2. CASE on[c] \in Kthreads
    BY <1>1, <1>3, <1>4, <2>2, CpuOfThread
  <2> QED BY <1>5, <2>1, <2>2
<1>7. ASSUME NEW t \in Kthreads, t = on[c]
      PROVE  b \in Plain /\ top'[t] = b /\ below'[t] = "none" /\ kstate[t] = "RUNNING"
  <2>1. ThreadAt(t)
    BY <1>1 DEF ThreadInv
  <2>2. b \in Plain
    BY <1>3, <1>7, <2>1 DEF ThreadAt, Plain, Sleeping
  <2> QED BY <1>3, <1>7, <2>1, <2>2 DEF ThreadAt
<1>8. ThreadInv'
  <2>1. ASSUME NEW t \in Kthreads, t = on[c] PROVE ThreadAt(t)'
    <3>1. /\ top'[t] \in Plain /\ below'[t] = "none" /\ kstate'[t] = "RUNNING" /\ on'[c] = t
      BY <1>4, <1>7, <2>1
    <3> QED BY <3>1 DEF ThreadAt, Plain
  <2> QED BY <1>1, <1>3, <1>4, <2>1, ThreadKept
<1>9. LockInv'
  <2>1. HoldAt(c) /\ CountAt(c) /\ MaskAt(c)
    BY <1>1 DEF LockInv
  <2>2. LockFrame(c)
    BY <1>4 DEF LockFrame
  <2>3. top'[on'[c]] = b
    BY <1>3, <1>4
  <2>4. HoldAt(c)'
    BY <1>3, <1>4, <2>1, <2>3 DEF HoldAt, Plain, TickHeld, OwnHeld, PickHeld
  <2>5. CountAt(c)'
    BY <1>3, <1>4, <2>1, <2>3, Counts DEF CountAt
  <2>6. MaskAt(c)'
    BY <1>4, <2>3 DEF MaskAt, Plain, Sleeping
  <2> QED BY <1>1, <1>3, <1>4, <2>2, <2>4, <2>5, <2>6, LockKept
<1>10. ClockInv'
  <2>1. TickAt(c)'
    BY <1>3, <1>4 DEF TickAt, Plain
  <2>2. ASSUME NEW t \in Kthreads, t = on[c] PROVE SleepAt(t)'
    <3>1. SleepAt(t) /\ below[t] = b /\ top[t] = "h_ret"
      BY <1>1, <1>3, <2>2 DEF ClockInv
    <3>2. b \notin Early => b # "sys"
      BY DEF Early
    <3> QED BY <1>4, <1>7, <2>2, <3>1, <3>2 DEF SleepAt, clockVars, Plain, Early
  <2> QED BY <1>1, <1>3, <1>4, <2>1, <2>2, ClockKept DEF clockVars
<1> QED BY <1>6, <1>8, <1>9, <1>10

\* its yield(), on behalf of a thread,
LEMMA trap_yieldStep ==
  ASSUME IInv, NEW c \in CPUs, trap_yield(c)
  PROVE  CpuInv' /\ ThreadInv' /\ LockInv' /\ ClockInv'
<1>1. Types /\ CpuInv /\ ThreadInv /\ LockInv /\ ClockInv
  BY DEF IInv
<1>2. on[c] = c \/ on[c] \in Kthreads
  BY <1>1, Whose
<1>3. PICK m \in {"h_ret", "h_yield"} : Go(c, "h_back", m) /\ (m = "h_yield" => on[c] \in Kthreads)
  BY <1>1, <1>2, trap_yieldGoes
<1>4. /\ Frame(c) /\ on'[c] = on[c] /\ pick'[c] = pick[c]
      /\ intr'[c] = intr[c] /\ noff'[c] = noff[c] /\ intena'[c] = intena[c]
      /\ UNCHANGED <<saved, kstate, holder, clockVars>>
  BY <1>1 DEF trap_yield, cpuVars, Frame, Types
<1>5. CpuInv' /\ ThreadInv' /\ ClockInv'
  <2>1. /\ "h_back" \in Handling \cup Yielding /\ m \in Handling \cup Yielding
        /\ (m \in Yielding => on[c] \in Kthreads) /\ "h_back" \notin Early
    BY <1>3 DEF Handling, Yielding, Early
  <2> QED BY <1>1, <1>3, <1>4, <2>1, CodeKept
<1>6. LockInv'
  <2>1. HoldAt(c) /\ CountAt(c) /\ MaskAt(c)
    BY <1>1 DEF LockInv
  <2>2. LockFrame(c)
    BY <1>4 DEF LockFrame
  <2>3. top[on[c]] = "h_back" /\ top'[on'[c]] = m /\ Stays(c)
    BY <1>3, <1>4 DEF Go
  <2>4. HoldAt(c)'
    BY Zenon, <1>4, <2>1, <2>3 DEF HoldAt, TickHeld, OwnHeld, PickHeld
  <2>5. CountAt(c)'
    BY <1>4, <2>1, <2>3, Counts DEF CountAt
  <2>6. MaskAt(c)'
    BY <1>4, <2>1, <2>3 DEF MaskAt, Plain, Sleeping
  <2> QED BY <1>1, <1>4, <2>2, <2>3, <2>4, <2>5, <2>6, LockKept
<1> QED BY <1>5, <1>6

\* and its clockintr(), on CPU 0: every sleeping thread is woken.
LEMMA clockintrStep ==
  ASSUME IInv, NEW c \in CPUs, clockintr(c)
  PROVE  CpuInv' /\ ThreadInv' /\ LockInv' /\ ClockInv'
<1>1. Types /\ CpuInv /\ ThreadInv /\ LockInv /\ ClockInv
  BY DEF IInv
<1>2. Go(c, "tick_held", "h_back") /\ Stays(c)
  BY <1>1, clockintrGoes DEF Go
<1>3. top[on[c]] = "tick_held" /\ top'[on[c]] = "h_back" /\ below'[on[c]] = below[on[c]]
  BY <1>2 DEF Go
<1>4. /\ Frame(c) /\ on'[c] = on[c] /\ pick'[c] = pick[c]
      /\ noff'[c] = noff[c] - 1 /\ intena'[c] = intena[c]
      /\ saved' = saved /\ holder' = [holder EXCEPT !["tickslock"] = NoCPU]
  BY <1>1 DEF clockintr, release, pop_off, LastPop, Frame, Types
<1>5. intr'[c] <=> intr[c] \/ (noff[c] = 1 /\ intena[c])
  BY <1>1 DEF clockintr, release, pop_off, LastPop, Types
<1>6. /\ ticks' = (ticks + 1) % TickMod /\ total' = total + 1 /\ UNCHANGED <<ticks0, n>>
      /\ \A t \in Kthreads : elapsed'[t] = IF n[t] > 0 THEN elapsed[t] + 1 ELSE 0
  BY DEF clockintr
<1>7. \A t \in Kthreads : /\ kstate'[t] # "SLEEPING"
                          /\ kstate'[t] = kstate[t] \/ kstate[t] = "SLEEPING"
  BY <1>1 DEF clockintr, TickWakeup, Types
<1>8. on[c] = c \/ on[c] \in Kthreads
  BY <1>1, Whose
<1>9. CpuInv'
  <2>1. CASE on[c] = c
    <3>1. CpuAt(c)
      BY <1>1 DEF CpuInv
    <3>2. CpuAt(c)'
      BY <1>3, <1>4, <2>1, <3>1 DEF CpuAt, Handling, Scheduling
    <3> QED BY <1>1, <1>2, <1>4, <3>2, CpuKept
  <2>2. CASE on[c] \in Kthreads
    BY <1>1, <1>2, <1>4, <2>2, CpuOfThread
  <2> QED BY <1>8, <2>1, <2>2
<1>10. ThreadInv'
  <2>1. ASSUME NEW t \in Kthreads, t = on[c] PROVE ThreadAt(t)'
    <3>1. ThreadAt(t) /\ top[t] = "tick_held"
      BY <1>1, <1>3, <2>1 DEF ThreadInv
    <3>2. kstate'[t] = kstate[t] /\ below[t] # "none"
      BY <1>7, <2>1, <3>1 DEF ThreadAt, Plain, Sleeping
    <3>3. "h_back" \in Handling
      BY DEF Handling
    <3> QED BY <1>1, <1>3, <1>4, <2>1, <3>1, <3>2, <3>3, ThreadHere
  <2> QED BY <1>1, <1>2, <1>4, <1>7, <2>1, ThreadKept
<1>11. HoldAt(c) /\ CountAt(c) /\ MaskAt(c)
  BY <1>1 DEF LockInv
<1>12. LockInv'
  <2>1. top'[on'[c]] = "h_back"
    BY <1>3, <1>4
  <2>2. holder["tickslock"] = c
    BY <1>3, <1>11 DEF HoldAt, TickHeld
  <2>3. \A x \in Locks : holder'[x] = IF x = "tickslock" THEN NoCPU ELSE holder[x]
    BY <1>1, <1>4 DEF Types
  <2>4. LockFrame(c) /\ \A x \in Locks : holder'[x] = c <=> holder[x] = c /\ x # "tickslock"
    BY <2>2, <2>3 DEF LockFrame
  <2>5. HoldAt(c)'
    <3>1. holder'["tickslock"] # c /\ \A t \in Kthreads : holder'[t] = c <=> holder[t] = c
      BY <2>4, Names
    <3> QED BY <1>3, <1>4, <1>11, <2>1, <3>1 DEF HoldAt, TickHeld, OwnHeld, PickHeld
  <2>6. CountAt(c)'
    BY <1>3, <1>4, <1>11, <2>1, Counts DEF CountAt
  <2>7. MaskAt(c)'
    BY <1>3, <1>4, <1>5, <1>11, <2>1 DEF MaskAt, Plain, Sleeping
  <2> QED BY <1>1, <1>2, <1>4, <2>4, <2>5, <2>6, <2>7, LockKept
<1>13. ticks' = IF ticks + 1 = TickMod THEN 0 ELSE ticks + 1
  <2> DEFINE x == ticks + 1
  <2>1. x \in Int /\ TickMod \in Nat \ {0} /\ 0 <= x /\ x <= TickMod /\ ticks' = x % TickMod
    BY <1>1, <1>6 DEF Types
  <2> HIDE DEF x
  <2>2. (x < TickMod => x % TickMod = x) /\ (x = TickMod => x % TickMod = 0)
    BY <2>1, Wraps
  <2>3. ticks' = IF x = TickMod THEN 0 ELSE x
    BY <2>1, <2>2
  <2> QED BY <2>3 DEF x
<1>14. c = CPU0 /\ total < MaxTicks
  BY <1>1, <1>3 DEF ClockInv, TickAt
<1>15. ClockInv'
  <2>1. ASSUME NEW t \in Kthreads, top'[t] \in {"nap", "nap_spin", "nap_held"} PROVE FALSE
    <3>1. top[t] = top'[t] /\ t # on[c]
      BY <1>2, <1>3, <2>1 DEF Stays, Contexts
    <3>2. PICK d \in CPUs : on[d] = t
      BY <1>1, <2>1, <3>1 DEF ThreadInv, ThreadAt
    <3>3. holder["tickslock"] = d
      BY <1>1, <2>1, <3>1, <3>2 DEF LockInv, HoldAt, TickHeld
    <3>4. holder["tickslock"] = c
      BY <1>3, <1>11 DEF HoldAt, TickHeld
    <3> QED BY <3>1, <3>2, <3>3, <3>4
  <2>2. ASSUME NEW t \in Kthreads
        PROVE  /\ elapsed'[t] <= total'
               /\ n'[t] > 0 /\ top'[t] \notin Early /\ below'[t] # "sys" =>
                     \/ ticks0'[t] + elapsed'[t] = ticks'
                     \/ ticks0'[t] + elapsed'[t] = ticks' + TickMod
    <3>1. /\ ticks \in 0 .. TickMod - 1 /\ ticks0[t] \in 0 .. TickMod - 1 /\ elapsed[t] \in Nat
          /\ total \in Nat /\ elapsed[t] <= total /\ n[t] \in Nat
      BY <1>1 DEF Types, ClockInv, SleepAt
    <3>2. (top'[t] \notin Early => top[t] \notin Early) /\ below'[t] = below[t]
      BY <1>2, <1>3 DEF Stays, Early, Contexts
    <3>3. n[t] > 0 /\ top[t] \notin Early /\ below[t] # "sys" =>
            ticks0[t] + elapsed[t] = ticks \/ ticks0[t] + elapsed[t] = ticks + TickMod
      BY <1>1 DEF ClockInv, SleepAt
    <3>4. /\ n'[t] = n[t] /\ ticks0'[t] = ticks0[t] /\ total' = total + 1
          /\ elapsed'[t] = IF n[t] > 0 THEN elapsed[t] + 1 ELSE 0
      BY <1>6
    <3>5. elapsed'[t] <= total'
      BY <3>1, <3>4
    <3>6. ASSUME n[t] > 0, ticks0[t] + elapsed[t] = ticks
                              \/ ticks0[t] + elapsed[t] = ticks + TickMod
          PROVE  ticks0[t] + elapsed'[t] = ticks' \/ ticks0[t] + elapsed'[t] = ticks' + TickMod
      <4>1. elapsed'[t] = elapsed[t] + 1
        BY <3>4, <3>6
      <4>2. elapsed[t] < TickMod
        BY <1>14, <3>1
      <4>3. CASE ticks + 1 = TickMod
        BY <1>13, <3>1, <3>6, <4>1, <4>2, <4>3
      <4>4. CASE ticks + 1 # TickMod
        BY <1>13, <3>1, <3>6, <4>1, <4>4
      <4> QED BY <4>3, <4>4
    <3> QED BY <3>2, <3>3, <3>4, <3>5, <3>6
  <2>3. ASSUME NEW d \in CPUs, top'[on'[d]] \in {"h_tick", "tick_spin", "tick_held"} PROVE FALSE
    <3>1. d # c
      BY <1>3, <1>4, <2>3
    <3>2. on[d] \in Contexts /\ on[d] # on[c] /\ on'[d] = on[d]
      BY <1>1, <1>4, <3>1 DEF Types, CpuInv, Frame
    <3>3. top[on[d]] = top'[on'[d]]
      BY <1>2, <3>2 DEF Stays
    <3> QED BY <1>1, <1>14, <2>3, <3>1, <3>3 DEF ClockInv, TickAt
  <2>4. total' <= MaxTicks
    BY <1>1, <1>6, <1>14 DEF Types
  <2>5. (\A d \in CPUs : TickAt(d)') /\ (\A t \in Kthreads : SleepAt(t)')
    BY <1>7, <2>1, <2>2, <2>3 DEF TickAt, SleepAt
  <2> QED BY <2>4, <2>5 DEF ClockInv
<1> QED BY <1>9, <1>10, <1>12, <1>15

\* kill() wakes a thread and moves none.
LEMMA kill_threadStep ==
  ASSUME IInv, NEW t \in Kthreads, kill_thread(t)
  PROVE  CpuInv' /\ ThreadInv' /\ LockInv' /\ ClockInv'
<1>1. Types /\ CpuInv /\ ThreadInv /\ LockInv /\ ClockInv
  BY DEF IInv
<1>2. /\ UNCHANGED <<holder, on, at, saved, pick>>
      /\ intr' = intr /\ noff' = noff /\ intena' = intena
      /\ ticks' = ticks /\ ticks0' = ticks0 /\ n' = n /\ elapsed' = elapsed /\ total' = total
  BY DEF kill_thread, cpuVars, clockVars
<1>3. top' = top /\ below' = below
  BY <1>2 DEF top, below
<1>4. \A x \in Kthreads : \/ kstate'[x] = kstate[x]
                          \/ kstate[x] = "SLEEPING" /\ kstate'[x] # "SLEEPING"
  BY <1>1 DEF kill_thread, Types
<1>5. CpuInv'
  BY <1>1, <1>2, <1>3 DEF CpuInv, CpuAt
<1>6. ASSUME NEW x \in Kthreads PROVE ThreadAt(x)'
  <2>1. ThreadAt(x)
    BY <1>1 DEF ThreadInv
  <2> QED BY <1>2, <1>3, <1>4, <2>1 DEF ThreadAt
<1>7. ASSUME NEW c \in CPUs PROVE HoldAt(c)' /\ CountAt(c)' /\ MaskAt(c)'
  <2>1. HoldAt(c) /\ CountAt(c) /\ MaskAt(c)
    BY <1>1 DEF LockInv
  <2> QED BY <1>2, <1>3, <2>1 DEF HoldAt, CountAt, MaskAt
<1>8. ASSUME NEW x \in Kthreads PROVE SleepAt(x)'
  <2>1. SleepAt(x)
    BY <1>1 DEF ClockInv
  <2> QED BY <1>2, <1>3, <1>4, <2>1 DEF SleepAt
<1>9. ClockInv'
  BY Zenon, <1>1, <1>2, <1>3, <1>8 DEF ClockInv, TickAt
<1>10. ThreadInv' /\ LockInv'
  BY <1>6, <1>7 DEF ThreadInv, LockInv
<1> QED BY <1>5, <1>9, <1>10

-----------------------------------------------------------------------------
(* IInv is inductive. *)

\* Every variable keeps its type.
LEMMA TypesStep == IInv /\ [InterruptsNext]_irqVars => Types'
<1> SUFFICES ASSUME IInv, [InterruptsNext]_irqVars PROVE Types'
  OBVIOUS
<1>1. Types /\ CpuInv /\ ThreadInv /\ LockInv
  BY DEF IInv
<1>2. ASSUME NEW c \in CPUs, push_off(c) PROVE Types'
  <2>1. at' \in [Contexts -> Stacks]
    BY Zenon, <1>1, <1>2, push_offGoes DEF Go
  <2>2. intr' \in [CPUs -> BOOLEAN] /\ noff' \in [CPUs -> Int]
    BY <1>1, <1>2 DEF push_off, intr_off, Types
  <2>3. intena' \in [CPUs -> BOOLEAN]
    BY <1>1, <1>2 DEF push_off, Types
  <2>4. pick' \in [CPUs -> Kthreads]
    BY <1>1, <1>2 DEF push_off, Types
  <2> QED
    BY <1>1, <1>2, <2>1, <2>2, <2>3, <2>4 DEF push_off, clockVars, Types
<1>3. ASSUME NEW c \in CPUs, acquire(c) PROVE Types'
  <2>1. at' \in [Contexts -> Stacks]
    BY Zenon, <1>1, <1>3, acquireGoes DEF Go
  <2>2. holder' \in [Locks -> CPUs \cup {NoCPU}]
    BY Zenon, <1>1, <1>3 DEF acquire, Types
  <2> QED
    BY <1>1, <1>3, <2>1, <2>2 DEF acquire, cpuVars, clockVars, Types
<1>4. ASSUME NEW c \in CPUs, NEW k \in 0 .. MaxSleep, ecall(c, k) PROVE Types'
  <2>1. at' \in [Contexts -> Stacks]
    BY <1>1, <1>4, ecallGoes DEF Go
  <2>2. n' \in [Kthreads -> Nat]
    <3>1. k \in Nat
      OBVIOUS
    <3> QED BY Zenon, <1>1, <1>4, <3>1 DEF ecall, Types
  <2> QED
    BY <1>1, <1>4, <2>1, <2>2 DEF ecall, cpuVars, Types
<1>5. ASSUME NEW c \in CPUs, sys_sleep_start(c) PROVE Types'
  <2>1. at' \in [Contexts -> Stacks]
    BY Zenon, <1>1, <1>5, sys_sleep_startGoes DEF Go
  <2>2. ticks0' \in [Kthreads -> 0 .. TickMod - 1] /\ elapsed' \in [Kthreads -> Nat]
    BY Zenon, <1>1, <1>5 DEF sys_sleep_start, Types
  <2> QED
    BY <1>1, <1>5, <2>1, <2>2 DEF sys_sleep_start, cpuVars, Types
<1>6. ASSUME NEW c \in CPUs, sys_sleep_return(c) PROVE Types'
  <2>1. at' \in [Contexts -> Stacks]
    BY <1>1, <1>6, sys_sleep_returnGoes DEF Go
  <2>2. /\ intr' \in [CPUs -> BOOLEAN] /\ noff' \in [CPUs -> Int]
        /\ intena' \in [CPUs -> BOOLEAN] /\ holder' \in [Locks -> CPUs \cup {NoCPU}]
    BY <1>1, <1>6, ReleaseTypes DEF sys_sleep_return
  <2>3. fatal' \in [Kthreads -> BOOLEAN]
    BY Zenon, <1>1, <1>6 DEF sys_sleep_return, Types
  <2>4. n' \in [Kthreads -> Nat] /\ elapsed' \in [Kthreads -> Nat]
    BY Zenon, <1>1, <1>6 DEF sys_sleep_return, Types
  <2>5. ticks0' \in [Kthreads -> 0 .. TickMod - 1]
    <3>1. 0 \in 0 .. TickMod - 1
      OBVIOUS
    <3> QED BY Zenon, <1>1, <1>6, <3>1 DEF sys_sleep_return, Types
  <2> QED
    BY <1>1, <1>6, <2>1, <2>2, <2>3, <2>4, <2>5 DEF sys_sleep_return, clockVars, Types
<1>7. ASSUME NEW c \in CPUs, sys_sleep_wait(c) PROVE Types'
  <2>1. at' \in [Contexts -> Stacks]
    BY <1>1, <1>7, sys_sleep_waitGoes DEF Go
  <2> QED
    BY <1>1, <1>7, <2>1 DEF sys_sleep_wait, cpuVars, clockVars, Types
<1>8. ASSUME NEW c \in CPUs, sleep_release(c) PROVE Types'
  <2>1. at' \in [Contexts -> Stacks]
    BY <1>1, <1>8, sleep_releaseGoes DEF Go
  <2>2. /\ intr' \in [CPUs -> BOOLEAN] /\ noff' \in [CPUs -> Int]
        /\ intena' \in [CPUs -> BOOLEAN] /\ holder' \in [Locks -> CPUs \cup {NoCPU}]
    BY <1>1, <1>8, ReleaseTypes DEF sleep_release
  <2>3. kstate' \in [Kthreads -> {"RUNNABLE", "RUNNING", "SLEEPING"}]
    BY Zenon, <1>1, <1>8 DEF sleep_release, Types
  <2> QED
    BY <1>1, <1>8, <2>1, <2>2, <2>3 DEF sleep_release, clockVars, Types
<1>9. ASSUME NEW c \in CPUs, yield(c) PROVE Types'
  <2>1. at' \in [Contexts -> Stacks]
    BY <1>1, <1>9, yieldGoes DEF Go
  <2>2. kstate' \in [Kthreads -> {"RUNNABLE", "RUNNING", "SLEEPING"}]
    BY Zenon, <1>1, <1>9 DEF yield, Types
  <2> QED
    BY <1>1, <1>9, <2>1, <2>2 DEF yield, cpuVars, clockVars, Types
<1>10. ASSUME NEW c \in CPUs, sched(c) PROVE Types'
  <2>1. at' \in [Contexts -> Stacks]
    BY <1>1, <1>10, schedGoes DEF Go
  <2>2. on' \in [CPUs -> Contexts]
    BY <1>1, <1>10 DEF sched, Types, Contexts
  <2>3. saved' \in [Kthreads -> BOOLEAN]
    BY Zenon, <1>1, <1>10 DEF sched, Types
  <2> QED
    BY <1>1, <1>10, <2>1, <2>2, <2>3 DEF sched, cpuVars, clockVars, Types
<1>11. ASSUME NEW c \in CPUs, resume(c) PROVE Types'
  <2>1. at' \in [Contexts -> Stacks]
    BY <1>1, <1>11, resumeGoes DEF Go
  <2>2. on[c] \in Kthreads
    BY <1>1, <1>11, resumeGoes, Whose DEF Go
  <2>3. Restored(c) \in BOOLEAN /\ pop_off(c, Restored(c))
    BY <1>1, <1>11, <2>2 DEF resume, Restored, Types
  <2>4. intr' \in [CPUs -> BOOLEAN] /\ noff' \in [CPUs -> Int] /\ intena' \in [CPUs -> BOOLEAN]
    BY <1>1, <2>3, PopTypes
  <2>5. holder' \in [Locks -> CPUs \cup {NoCPU}] /\ saved' \in [Kthreads -> BOOLEAN]
    BY Zenon, <1>1, <1>11 DEF resume, Types
  <2> QED
    BY <1>1, <1>11, <2>1, <2>4, <2>5 DEF resume, clockVars, Types
<1>12. ASSUME NEW c \in CPUs, forkret(c) PROVE Types'
  <2>1. at' \in [Contexts -> Stacks]
    BY <1>1, <1>12, forkretGoes DEF Go
  <2>2. /\ intr' \in [CPUs -> BOOLEAN] /\ noff' \in [CPUs -> Int]
        /\ intena' \in [CPUs -> BOOLEAN] /\ holder' \in [Locks -> CPUs \cup {NoCPU}]
    BY <1>1, <1>12, ReleaseTypes DEF forkret
  <2> QED
    BY <1>1, <1>12, <2>1, <2>2 DEF forkret, clockVars, Types
<1>13. ASSUME NEW c \in CPUs, trap(c) PROVE Types'
  <2>1. at' \in [Contexts -> Stacks]
    BY <1>1, <1>13, trapGoes DEF Trap
  <2>2. intr' \in [CPUs -> BOOLEAN]
    BY <1>1, <1>13 DEF trap, Types
  <2> QED
    BY SMTT(60), <1>1, <1>13, <2>1, <2>2 DEF trap, clockVars, Types
<1>14. ASSUME NEW c \in CPUs, clockintr(c) PROVE Types'
  <2>1. at' \in [Contexts -> Stacks]
    BY <1>1, <1>14, clockintrGoes DEF Go
  <2>2. /\ intr' \in [CPUs -> BOOLEAN] /\ noff' \in [CPUs -> Int]
        /\ intena' \in [CPUs -> BOOLEAN] /\ holder' \in [Locks -> CPUs \cup {NoCPU}]
    BY <1>1, <1>14, ReleaseTypes DEF clockintr
  <2>3. ticks' \in 0 .. TickMod - 1
    <3>1. ticks + 1 \in Int /\ TickMod \in Nat \ {0}
      BY <1>1 DEF Types
    <3>2. (ticks + 1) % TickMod \in 0 .. TickMod - 1
      BY <3>1, Wraps
    <3> QED BY <1>14, <3>2 DEF clockintr
  <2>4. total' \in Nat /\ elapsed' \in [Kthreads -> Nat]
    BY <1>1, <1>14 DEF clockintr, Types
  <2>5. kstate' \in [Kthreads -> {"RUNNABLE", "RUNNING", "SLEEPING"}]
    BY <1>1, <1>14 DEF clockintr, TickWakeup, Types
  <2> QED
    BY <1>1, <1>14, <2>1, <2>2, <2>3, <2>4, <2>5 DEF clockintr, clockVars, Types
<1>15. ASSUME NEW c \in CPUs, trap_yield(c) PROVE Types'
  <2>1. at' \in [Contexts -> Stacks]
    BY <1>1, <1>15, trap_yieldGoes DEF Go
  <2> QED
    BY <1>1, <1>15, <2>1 DEF trap_yield, cpuVars, clockVars, Types
<1>16. ASSUME NEW c \in CPUs, trap_return(c) PROVE Types'
  <2>1. at' \in [Contexts -> Stacks]
    BY Zenon, <1>1, <1>16, trap_returnGoes DEF TrapReturn
  <2>2. intr' \in [CPUs -> BOOLEAN]
    BY <1>1, <1>16 DEF trap_return, Types
  <2> QED
    BY SMTT(60), <1>1, <1>16, <2>1, <2>2 DEF trap_return, clockVars, Types
<1>17. ASSUME NEW c \in CPUs, scheduler_top(c) PROVE Types'
  <2>1. at' \in [Contexts -> Stacks]
    BY <1>1, <1>17, scheduler_topGoes DEF Go
  <2>2. intr' \in [CPUs -> BOOLEAN]
    BY <1>1, <1>17 DEF scheduler_top, Types
  <2> QED
    BY <1>1, <1>17, <2>1, <2>2 DEF scheduler_top, clockVars, Types
<1>18. ASSUME NEW c \in CPUs, scheduler_run(c) PROVE Types'
  <2>1. at' \in [Contexts -> Stacks]
    BY <1>1, <1>18, scheduler_runGoes DEF Go
  <2>2. kstate' \in [Kthreads -> {"RUNNABLE", "RUNNING", "SLEEPING"}]
    BY <1>1, <1>18 DEF scheduler_run, Types
  <2>3. on' \in [CPUs -> Contexts]
    BY <1>1, <1>18 DEF scheduler_run, Types, Contexts
  <2> QED
    BY <1>1, <1>18, <2>1, <2>2, <2>3 DEF scheduler_run, cpuVars, clockVars, Types
<1>19. ASSUME NEW c \in CPUs, scheduler_release(c) PROVE Types'
  <2>1. at' \in [Contexts -> Stacks]
    BY Zenon, <1>1, <1>19, scheduler_releaseGoes DEF Go
  <2>2. /\ intr' \in [CPUs -> BOOLEAN] /\ noff' \in [CPUs -> Int]
        /\ intena' \in [CPUs -> BOOLEAN] /\ holder' \in [Locks -> CPUs \cup {NoCPU}]
    BY Zenon, <1>1, <1>19, ReleaseTypes DEF scheduler_release
  <2> QED
    BY <1>1, <1>19, <2>1, <2>2 DEF scheduler_release, clockVars, Types
<1>20. ASSUME NEW t \in Kthreads, kill_thread(t) PROVE Types'
  <2>1. /\ fatal' \in [Kthreads -> BOOLEAN]
        /\ kstate' \in [Kthreads -> {"RUNNABLE", "RUNNING", "SLEEPING"}]
    BY <1>1, <1>20 DEF kill_thread, Types
  <2> QED BY <1>1, <1>20, <2>1 DEF kill_thread, cpuVars, clockVars, Types
<1>21. CASE UNCHANGED irqVars
  BY <1>1, <1>21 DEF irqVars, cpuVars, clockVars, Types
<1> QED
  BY <1>2, <1>3, <1>4, <1>5, <1>6, <1>7, <1>8, <1>9, <1>10, <1>11, <1>12, <1>13, <1>14,
     <1>15, <1>16, <1>17, <1>18, <1>19, <1>20, <1>21 DEF InterruptsNext

\* Every action preserves the rest.
LEMMA InvStep ==
  IInv /\ [InterruptsNext]_irqVars => CpuInv' /\ ThreadInv' /\ LockInv' /\ ClockInv'
<1> DEFINE Inv == CpuInv /\ ThreadInv /\ LockInv /\ ClockInv
<1> SUFFICES ASSUME IInv, [InterruptsNext]_irqVars PROVE Inv'
  OBVIOUS
<1>1. ASSUME NEW c \in CPUs, push_off(c) PROVE Inv'
  BY <1>1, push_offStep
<1>2. ASSUME NEW c \in CPUs, acquire(c) PROVE Inv'
  BY <1>2, acquireStep
<1>3. ASSUME NEW c \in CPUs, NEW k \in 0 .. MaxSleep, ecall(c, k) PROVE Inv'
  BY <1>3, ecallStep
<1>4. ASSUME NEW c \in CPUs, sys_sleep_start(c) PROVE Inv'
  BY <1>4, sys_sleep_startStep
<1>5. ASSUME NEW c \in CPUs, sys_sleep_return(c) PROVE Inv'
  BY <1>5, sys_sleep_returnStep
<1>6. ASSUME NEW c \in CPUs, sys_sleep_wait(c) PROVE Inv'
  BY <1>6, sys_sleep_waitStep
<1>7. ASSUME NEW c \in CPUs, sleep_release(c) PROVE Inv'
  BY <1>7, sleep_releaseStep
<1>8. ASSUME NEW c \in CPUs, yield(c) PROVE Inv'
  BY <1>8, yieldStep
<1>9. ASSUME NEW c \in CPUs, sched(c) PROVE Inv'
  BY <1>9, schedStep
<1>10. ASSUME NEW c \in CPUs, resume(c) PROVE Inv'
  BY <1>10, resumeStep
<1>11. ASSUME NEW c \in CPUs, forkret(c) PROVE Inv'
  BY <1>11, forkretStep
<1>12. ASSUME NEW c \in CPUs, trap(c) PROVE Inv'
  BY <1>12, trapStep
<1>13. ASSUME NEW c \in CPUs, clockintr(c) PROVE Inv'
  BY <1>13, clockintrStep
<1>14. ASSUME NEW c \in CPUs, trap_yield(c) PROVE Inv'
  BY <1>14, trap_yieldStep
<1>15. ASSUME NEW c \in CPUs, trap_return(c) PROVE Inv'
  BY <1>15, trap_returnStep
<1>16. ASSUME NEW c \in CPUs, scheduler_top(c) PROVE Inv'
  BY <1>16, scheduler_topStep
<1>17. ASSUME NEW c \in CPUs, scheduler_run(c) PROVE Inv'
  BY <1>17, scheduler_runStep
<1>18. ASSUME NEW c \in CPUs, scheduler_release(c) PROVE Inv'
  BY <1>18, scheduler_releaseStep
<1>19. ASSUME NEW t \in Kthreads, kill_thread(t) PROVE Inv'
  BY <1>19, kill_threadStep
<1>20. CASE UNCHANGED irqVars
  <2>1. top' = top /\ below' = below
    BY <1>20 DEF irqVars, top, below
  <2>2. CpuInv /\ ThreadInv /\ LockInv /\ ClockInv
    BY DEF IInv
  <2>3. CpuInv'
    BY <1>20, <2>1, <2>2 DEF irqVars, CpuInv, CpuAt
  <2>4. ThreadInv'
    BY <1>20, <2>1, <2>2 DEF irqVars, ThreadInv, ThreadAt
  <2>5. ASSUME NEW c \in CPUs PROVE HoldAt(c)' /\ CountAt(c)' /\ MaskAt(c)'
    <3>1. HoldAt(c) /\ CountAt(c) /\ MaskAt(c)
      BY <2>2 DEF LockInv
    <3>2. HoldAt(c)'
      BY <1>20, <2>1, <3>1 DEF irqVars, HoldAt
    <3>3. CountAt(c)'
      BY Zenon, <1>20, <2>1, <3>1 DEF irqVars, cpuVars, CountAt
    <3>4. MaskAt(c)'
      BY <1>20, <2>1, <3>1 DEF irqVars, cpuVars, MaskAt
    <3> QED BY <3>2, <3>3, <3>4
  <2>6. LockInv'
    BY <2>5 DEF LockInv
  <2>7. ClockInv'
    BY <1>20, <2>1, <2>2 DEF irqVars, clockVars, ClockInv, TickAt, SleepAt
  <2> QED BY <2>3, <2>4, <2>7, <2>6
<1> HIDE DEF Inv
<1> QED
  BY <1>1, <1>2, <1>3, <1>4, <1>5, <1>6, <1>7, <1>8, <1>9, <1>10, <1>11, <1>12, <1>13,
     <1>14, <1>15, <1>16, <1>17, <1>18, <1>19, <1>20 DEF InterruptsNext

\* At boot every CPU is in scheduler(), every thread at the end of fork().
LEMMA InitIInv == InterruptsInit => IInv
<1> SUFFICES ASSUME InterruptsInit PROVE IInv
  OBVIOUS
<1>1. "s_top" \in Positions /\ "forkret" \in Positions
  BY DEF Positions, Scheduling
<1>2. ASSUME NEW m \in Positions PROVE <<m>> \in Stacks /\ Head(<<m>>) = m /\ Len(<<m>>) = 1
  <2> DEFINE s == <<m>>
  <2>1. s \in Seq(Positions) /\ Len(s) = 1 /\ s[1] = m
    BY Single
  <2> HIDE DEF s
  <2>2. Len(s) \in 1 .. 2
    BY <2>1
  <2>3. s \in Stacks
    BY <2>1, <2>2, IsStack
  <2>4. Head(s) = m
    BY <2>1, <2>3, StackTop
  <2> QED BY <2>1, <2>3, <2>4 DEF s
<1>3. at = [x \in Contexts |-> IF x \in CPUs THEN <<"s_top">> ELSE <<"forkret">>]
  BY DEF InterruptsInit, Contexts
<1>4. at \in [Contexts -> Stacks]
  BY <1>1, <1>2, <1>3
<1>5. Types
  BY <1>4 DEF Types, InterruptsInit, Contexts
<1>6. \A x \in Contexts : /\ top[x] = IF x \in CPUs THEN "s_top" ELSE "forkret"
                          /\ below[x] = "none"
  BY <1>1, <1>2, <1>3 DEF top, below
<1>7. \A c \in CPUs : on[c] = c /\ c \in Contexts /\ c \notin Kthreads
  BY DEF InterruptsInit, Contexts
<1>8. CpuInv
  BY <1>6, <1>7 DEF CpuInv, CpuAt, Scheduling
<1>9. ThreadInv
  BY <1>6, <1>7 DEF ThreadInv, ThreadAt, Contexts
<1>10. ASSUME NEW c \in CPUs PROVE HoldAt(c) /\ CountAt(c) /\ MaskAt(c)
  <2>1. top[on[c]] = "s_top" /\ below[on[c]] = "none"
    BY <1>6, <1>7
  <2>2. HoldAt(c)
    BY <2>1 DEF HoldAt, InterruptsInit, Locks, TickHeld, OwnHeld, PickHeld
  <2>3. CountAt(c)
    BY <2>1, Counts DEF CountAt, InterruptsInit
  <2>4. MaskAt(c)
    BY <2>1 DEF MaskAt, InterruptsInit, Plain, Sleeping
  <2> QED BY <2>2, <2>3, <2>4
<1>11. ClockInv
  BY <1>6, <1>7 DEF ClockInv, TickAt, SleepAt, InterruptsInit, Contexts
<1> QED BY <1>5, <1>8, <1>9, <1>10, <1>11 DEF IInv, LockInv

\* IInv holds in every state of every behaviour.
THEOREM Inductive == InterruptsSpec => []IInv
<1>1. IInv /\ [InterruptsNext]_irqVars => IInv'
  BY TypesStep, InvStep DEF IInv
<1> QED BY <1>1, InitIInv, PTL DEF InterruptsSpec

-----------------------------------------------------------------------------
(* What follows from it. *)

INSTANCE FiniteSetTheorems

\* The locks of a CPU, written out.
LEMMA LocksOf ==
  ASSUME IInv, NEW c \in CPUs
  PROVE  Cardinality(Holds(c)) = (IF top[on[c]] \in TickHeld THEN 1 ELSE 0)
                                 + (IF top[on[c]] \in OwnHeld \cup PickHeld THEN 1 ELSE 0)
<1> DEFINE t == IF on[c] = c THEN pick[c] ELSE on[c]
           k == "tickslock"
           tick == top[on[c]] \in TickHeld
           own == top[on[c]] \in OwnHeld \cup PickHeld
<1>1. /\ Types /\ CpuInv /\ ThreadInv /\ LockInv /\ top \in [Contexts -> Positions]
  BY Tops DEF IInv
<1>2. t \in Kthreads /\ t # k /\ Locks = {k} \cup Kthreads
  BY <1>1 DEF Types, CpuInv, CpuAt, Locks
<1>3. on[c] = c => top[on[c]] \notin OwnHeld
  BY <1>1 DEF CpuInv, CpuAt, Scheduling, Handling, OwnHeld
<1>4. on[c] # c => top[on[c]] \notin PickHeld
  BY <1>1 DEF CpuInv, CpuAt, ThreadInv, ThreadAt, Plain, Sleeping, Handling, Yielding, PickHeld
<1>5. holder[k] = c <=> tick
  BY <1>1 DEF LockInv, HoldAt
<1>6. ASSUME NEW x \in Kthreads PROVE holder[x] = c <=> x = t /\ own
  BY <1>1, <1>3, <1>4 DEF LockInv, HoldAt, CpuInv, CpuAt
<1> HIDE DEF t, k, tick, own
<1>7. Holds(c) = (IF tick THEN {k} ELSE {}) \cup (IF own THEN {t} ELSE {})
  BY <1>2, <1>5, <1>6 DEF Holds
<1>8. Cardinality({}) = 0
  BY FS_EmptySet
<1>9. \A x : Cardinality({x}) = 1
  BY Zenon, FS_Singleton
<1>10. IsFiniteSet({k}) /\ Cardinality({k} \cup {t}) = 2
  <2> DEFINE S == {k}
  <2>1. IsFiniteSet(S) /\ t \notin S /\ Cardinality(S) = 1
    BY Zenon, <1>2, FS_Singleton
  <2> HIDE DEF S
  <2>2. Cardinality(S \cup {t}) = Cardinality(S) + 1
    BY Zenon, <2>1, FS_AddElement
  <2> QED BY <2>1, <2>2 DEF S
<1>11. Cardinality(Holds(c)) = (IF tick THEN 1 ELSE 0) + (IF own THEN 1 ELSE 0)
  <2>1. CASE tick /\ own
    BY <1>7, <1>10, <2>1
  <2>2. CASE tick /\ ~ own
    <3>1. Holds(c) = {k}
      BY <1>7, <2>2
    <3> QED BY <1>9, <2>2, <3>1
  <2>3. CASE ~ tick /\ own
    <3>1. Holds(c) = {t}
      BY <1>7, <2>3
    <3> QED BY <1>9, <2>3, <3>1
  <2>4. CASE ~ tick /\ ~ own
    <3>1. Holds(c) = {}
      BY <1>7, <2>4
    <3> QED BY <1>8, <2>4, <3>1
  <2> QED BY <2>1, <2>2, <2>3, <2>4
<1> QED BY <1>11 DEF tick, own

\* What the properties say of the stacks, in terms of top and below.
LEMMA InTermsOfTop ==
  ASSUME IInv, NEW c \in CPUs
  PROVE  /\ Spinning(c) <=> top[on[c]] \in Spins
         /\ InHandler(c) <=> below[on[c]] # "none"
<1>1. Head(at[on[c]]) = top[on[c]] /\ (Len(at[on[c]]) = 2 <=> below[on[c]] # "none")
  BY Tops DEF IInv, Types
<1>2. DOMAIN SpinAt = Spins
  BY Zenon DEF SpinAt, Spins
<1> QED BY <1>1, <1>2 DEF Spinning, InHandler

\* No interrupt arrives on a CPU that has a lock or spins for one, cpu.noff
\* counts them, and intena of kernel/spinlock.c follows the thread through
\* sched() from CPU to CPU: on any number of CPUs.
THEOREM LocksMask == InterruptsSpec => []LocksMaskInterrupts
<1>1. ASSUME IInv PROVE LocksMaskInterrupts
  <2> SUFFICES ASSUME NEW c \in CPUs
               PROVE  /\ noff[c] = Cardinality(Holds(c)) + (IF Spinning(c) THEN 1 ELSE 0)
                      /\ intr[c] => noff[c] = 0
                      /\ ~ Idle(c) /\ noff[c] = 0 => (intr[c] <=> ~ InHandler(c))
    BY DEF LocksMaskInterrupts
  <2>1. /\ Types /\ CpuInv /\ ThreadInv /\ CountAt(c) /\ MaskAt(c)
        /\ top \in [Contexts -> Positions]
    BY <1>1, Tops DEF IInv, LockInv
  <2>2. noff[c] = Cardinality(Holds(c)) + (IF Spinning(c) THEN 1 ELSE 0)
    BY <1>1, <2>1, LocksOf, InTermsOfTop DEF CountAt, Count
  <2>3. intr[c] => noff[c] = 0
    BY <2>1, Counts DEF CountAt, MaskAt
  <2>4. ASSUME ~ Idle(c), noff[c] = 0 PROVE intr[c] <=> ~ InHandler(c)
    <3>1. on[c] \in Kthreads
      BY <2>1, <2>4 DEF CpuInv, CpuAt, Idle
    <3>2. /\ top[on[c]] \notin TickHeld /\ top[on[c]] \notin OwnHeld /\ top[on[c]] \notin Spins
      BY <2>1, <2>4 DEF CountAt, Count
    <3>3. CASE below[on[c]] = "none"
      <4>1. top[on[c]] \in Plain \cup Sleeping \cup {"sched", "resume", "forkret"}
        BY <2>1, <3>1, <3>3 DEF ThreadInv, ThreadAt, Plain
      <4>2. top[on[c]] \in Plain
        BY <3>2, <4>1 DEF Sleeping, TickHeld, OwnHeld, Spins
      <4> QED BY <1>1, <2>1, <3>3, <4>2, InTermsOfTop DEF MaskAt
    <3>4. CASE below[on[c]] # "none"
      <4>1. top[on[c]] \notin Plain \cup {"s_top", "s_scan"}
        BY <2>1, <3>1, <3>4 DEF ThreadInv, ThreadAt, Plain, Handling, Yielding
      <4> QED BY <1>1, <2>1, <3>4, <4>1, InTermsOfTop DEF MaskAt
    <3> QED BY <3>3, <3>4
  <2> QED BY <2>2, <2>3, <2>4
<1> QED BY <1>1, Inductive, PTL

\* The panics "acquire" of acquire(), and "sched locks" and "sched
\* interruptible" of sched(), are unreachable, on any number of CPUs.
THEOREM SelfDeadlockFree == InterruptsSpec => []NoSelfDeadlock
<1>1. ASSUME IInv PROVE NoSelfDeadlock
  <2> SUFFICES ASSUME NEW c \in CPUs
               PROVE  /\ Spinning(c) => holder[Wanted(c)] # c
                      /\ Runs(c, "sched") => noff[c] = 1 /\ holder[on[c]] = c /\ ~ intr[c]
    BY DEF NoSelfDeadlock
  <2>1. /\ Types /\ CpuInv /\ ThreadInv /\ HoldAt(c) /\ CountAt(c) /\ MaskAt(c)
        /\ top \in [Contexts -> Positions] /\ Head(at[on[c]]) = top[on[c]]
    BY <1>1, Tops DEF IInv, LockInv, Types
  <2>2. ASSUME Spinning(c) PROVE holder[Wanted(c)] # c
    <3>1. top[on[c]] \in Spins
      BY Zenon, <1>1, <2>2, InTermsOfTop
    <3>2. CASE top[on[c]] \in {"sys_spin", "again_spin", "tick_spin"}
      <4>1. Wanted(c) = "tickslock"
        BY <2>1, <3>2, WantedIs
      <4> QED BY <2>1, <3>2, <4>1 DEF HoldAt, TickHeld
    <3>3. CASE top[on[c]] \in {"nap_spin", "yield_spin"}
      <4>1. Wanted(c) = on[c] /\ on[c] \in Kthreads
        BY <2>1, <3>3, WantedIs, Whose DEF Sleeping, Yielding
      <4>2. top[on[c]] \notin OwnHeld /\ on[c] # c
        BY <3>3, <4>1, Names DEF OwnHeld
      <4> QED BY <2>1, <4>1, <4>2 DEF HoldAt
    <3>4. CASE top[on[c]] = "scan_spin"
      <4>1. Wanted(c) = pick[c] /\ on[c] = c /\ pick[c] \in Kthreads
        BY SMTT(60), <2>1, <3>4, WantedIs, Whose DEF Scheduling, Types
      <4> QED BY <2>1, <3>4, <4>1 DEF HoldAt, PickHeld
    <3> QED BY <3>1, <3>2, <3>3, <3>4 DEF Spins
  <2>3. ASSUME Runs(c, "sched") PROVE noff[c] = 1 /\ holder[on[c]] = c /\ ~ intr[c]
    <3>1. top[on[c]] = "sched"
      BY <2>1, <2>3 DEF Runs
    <3>2. on[c] \in Kthreads
      BY <2>1, <3>1, Whose
    <3>3. noff[c] = 1
      BY <2>1, <3>1, Counts DEF CountAt
    <3>4. holder[on[c]] = c
      BY <2>1, <3>1, <3>2 DEF HoldAt, OwnHeld
    <3>5. ~ intr[c]
      BY <2>1, <3>1 DEF MaskAt, Plain
    <3> QED BY <3>3, <3>4, <3>5
  <2> QED BY <2>2, <2>3
<1> QED BY <1>1, Inductive, PTL

\* sleep(n) of kernel/sysproc.c waits for n ticks, wherever the uint ticks
\* wraps, and no longer: for any TickMod larger than the ticks and the n that
\* occur.
THEOREM SleepLength == InterruptsSpec => []SleepsLongEnough
<1>1. ASSUME IInv PROVE SleepsLongEnough
  <2> SUFFICES ASSUME NEW t \in Kthreads
               PROVE  /\ Head(at[t]) = "loop" /\ ~ Waiting(t) => elapsed[t] >= n[t]
                      /\ kstate[t] = "SLEEPING" => elapsed[t] < n[t]
    BY DEF SleepsLongEnough
  <2>1. Types /\ ThreadInv /\ ClockInv /\ Head(at[t]) = top[t]
    BY <1>1, Tops DEF IInv, Contexts
  <2>2. n[t] \in Nat /\ elapsed[t] \in Nat
    BY <2>1 DEF Types
  <2>3. ASSUME top[t] = "loop", ~ Waiting(t) PROVE elapsed[t] >= n[t]
    <3>1. below[t] # "sys" /\ top[t] \notin Early
      BY <2>1, <2>3 DEF ThreadInv, ThreadAt, Handling, Yielding, Early
    <3> QED BY <2>1, <2>2, <2>3, <3>1, Difference
  <2>4. kstate[t] = "SLEEPING" => elapsed[t] < n[t]
    BY <2>1 DEF ClockInv, SleepAt
  <2> QED BY <2>1, <2>3, <2>4
<1> QED BY <1>1, Inductive, PTL
=============================================================================
