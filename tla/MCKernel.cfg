SPECIFICATION MCSpec
CONSTANTS
  NPROC = 4
  NCPU = 2
  MemFail = {"fork"}
  Targets = {}
  MaxPid = 4
  CPUs = {c0, c1}
  CPU0 = c0
  NoCPU = NoCPU
  Kthreads = {t1, t2}
  TickMod = 6
  MaxTicks = 2
  MaxSleep = 1
SYMMETRY ThreadSymmetry
INVARIANTS OrphansAdopted NoChildMissed LocksMaskInterrupts NoSelfDeadlock SleepsLongEnough
PROPERTY FreedOffCpu
