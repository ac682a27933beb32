SPECIFICATION FairSpec
CONSTANTS
  Cpus = {c1, c2}
  Locks = {1, 2, 3}
  NoLock = 0
  NoCpu = NoCpu
INVARIANTS LocksSound InterruptsSound
PROPERTIES LastLockFreed
